------------------------------ MODULE Incident ------------------------------
(***************************************************************************)
(* The timeline of an incident and what change correlation makes of it:    *)
(* changes are recorded; the subject's pods come and go, warn and crash;   *)
(* Kubernetes folds and expires their events.  collect_context (engine.py) *)
(* resolves the subject to the names of its pods and, later, reads what it *)
(* can of them; at any moment after that find_recent_change may name the   *)
(* change to blame.  Records, pods and events are the cluster's, not the   *)
(* agent's: their actions are external and keep to what the agent reads.   *)
(***************************************************************************)
EXTENDS Correlate

CONSTANTS Secrets,     \* names of the Secrets in the namespace
          Revisions,   \* revisions that can be synced or deployed
          MaxPods,     \* pod names of the subject, numbered as the API lists them
          Reasons,     \* reasons of their Warning events
          Retention,   \* ticks the API server keeps an event after its last occurrence
          MaxTime,     \* bound of the model: ticks in a behaviour
          MaxBusy      \* bound of the model: releases recorded and pods alive, together

IncidentAssumption ==
    /\ IsFiniteSet(Secrets) /\ IsFiniteSet(Revisions)
    /\ MaxPods \in Nat
    /\ Retention \in Nat /\ MaxTime \in Nat /\ MaxBusy \in Nat
ASSUME IncidentAssumption

Pods == 1..MaxPods

VARIABLES clock,
          syncs,      \* ArgoCD history, newest first
          deploys,    \* CI deployments, newest first
          rotated,    \* last time each Secret changed, from its managedFields
          live,       \* the subject's pods that exist
          podStart,   \* start time of each pod, or Never while it has not started
          crashed,    \* the pods of which a container has terminated since
          events,     \* Warning events by pod name: last occurrence of each reason, or Never
          began,      \* when each pod first warned or crashed, or Never (history)
          resolved    \* pod_names of collect_context

records == <<syncs, deploys, rotated>>
pods == <<live, podStart, crashed, began>>
vars == <<clock, records, pods, events, resolved>>

Changes(kind) == [kind : {kind}, id : Revisions, t : 0..MaxTime \cup {Unparsed}]

Init ==
    /\ clock = 0
    /\ syncs = <<>> /\ deploys = <<>>
    /\ rotated = [s \in Secrets |-> 0]
    /\ live = {} /\ crashed = {}
    /\ podStart = [p \in Pods |-> Never] /\ began = [p \in Pods |-> Never]
    /\ events = [p \in Pods |-> [r \in Reasons |-> Never]]
    /\ resolved = {}

Room == Len(syncs) + Len(deploys) + Cardinality(live) < MaxBusy

\* A release, recorded with a timestamp the agent may not be able to read.
Sync(rev) ==
    /\ Room
    /\ \E t \in {clock, Unparsed} :
          syncs' = <<[kind |-> "sync", id |-> rev, t |-> t]>> \o syncs
    /\ UNCHANGED <<clock, deploys, rotated, pods, events, resolved>>

Deploy(rev) ==
    /\ Room
    /\ deploys' = <<[kind |-> "deploy", id |-> rev, t |-> clock]>> \o deploys
    /\ UNCHANGED <<clock, syncs, rotated, pods, events, resolved>>

\* A Secret is applied again: the API server moves its managedFields time, and
\* the time of the change before is gone.
Rotate(s) ==
    /\ rotated' = [rotated EXCEPT ![s] = clock]
    /\ UNCHANGED <<clock, syncs, deploys, pods, events, resolved>>

\* A pod is created and started, under a new name or, as a StatefulSet does, under
\* that of a pod that is gone.
Start(p) ==
    /\ Room /\ p \notin live
    /\ live' = live \cup {p}
    /\ \E t \in {clock, Never} : podStart' = [podStart EXCEPT ![p] = t]
    /\ UNCHANGED <<clock, records, crashed, began, events, resolved>>

\* A pod is deleted.  Its events outlive it.
Stop(p) ==
    /\ p \in live
    /\ live' = live \ {p} /\ crashed' = crashed \ {p}
    /\ podStart' = [podStart EXCEPT ![p] = Never]
    /\ began' = [began EXCEPT ![p] = Never]
    /\ UNCHANGED <<clock, records, events, resolved>>

\* A Warning event; a repeated one only moves the time of the folded event.
Warn(p, reason) ==
    /\ p \in live /\ podStart[p] # Never
    /\ events' = [events EXCEPT ![p][reason] = clock]
    /\ began' = [began EXCEPT ![p] = IF @ = Never THEN clock ELSE @]
    /\ UNCHANGED <<clock, records, live, podStart, resolved>>

Unhealthy(p) == UNCHANGED crashed /\ \E r \in Reasons : Warn(p, r)

Crash(p) == crashed' = crashed \cup {p} /\ \E r \in Reasons : Warn(p, r)

\* Time passes, and events expire.
Tick ==
    /\ clock < MaxTime
    /\ clock' = clock + 1
    /\ events' = [p \in Pods |-> [r \in Reasons |->
          IF events[p][r] + Retention < clock' THEN Never ELSE events[p][r]]]
    /\ UNCHANGED <<records, pods, resolved>>

\* collect_context begins: the subject's pods, by name.
Resolve ==
    /\ resolved' = live
    /\ UNCHANGED <<clock, records, pods, events>>

Next ==
    \/ \E rev \in Revisions : Sync(rev) \/ Deploy(rev)
    \/ \E s \in Secrets : Rotate(s)
    \/ \E p \in Pods : Start(p) \/ Stop(p) \/ Unhealthy(p) \/ Crash(p)
    \/ Tick \/ Resolve

Spec == Init /\ [][Next]_vars

-----------------------------------------------------------------------------

\* _secret_changes: every Secret of the namespace with its last change.
SecretChanges ==
    SetToSeq({[kind |-> "secret", id |-> s, t |-> rotated[s]] : s \in Secrets})

\* ctx["pods"]: of the resolved pods, those the later list still shows.
Seen == resolved \cap live

\* pod_start_time: that of the first resolved pod, None if there is none or it is gone.
Target == Min(resolved)
TargetStart == IF resolved # {} /\ Target \in live THEN podStart[Target] ELSE Never

\* The events kept are those about a resolved name, whoever bears it now.
WarningsRead == {[warning |-> TRUE, t |-> events[p][r]] : p \in resolved, r \in Reasons}

\* Mutant: the oldest retained event, whatever the pods have been doing.
EventAnchor == FirstFailureTime(WarningsRead)

\* ctx["first_failure_time"]: once any listed pod has crashed, the failure is as old
\* as the first pod.
Anchor ==
    LET eventFailure == FirstFailureTime(WarningsRead)
        crashing == \E p \in Seen : p \in crashed
    IN  IF crashing /\ TargetStart # Never
        THEN IF eventFailure = Never THEN TargetStart ELSE Min({eventFailure, TargetStart})
        ELSE eventFailure

\* What find_recent_change would answer now, given all three histories.
Blame == FindRecentChange(syncs, deploys, SecretChanges, Anchor, clock)

Recorded == Range(syncs) \cup Range(deploys) \cup Range(SecretChanges)
History == IF Blame.kind = "sync" THEN syncs ELSE deploys

-----------------------------------------------------------------------------

TypeOK ==
    /\ clock \in 0..MaxTime
    /\ syncs \in Seq(Changes("sync")) /\ deploys \in Seq(Changes("deploy"))
    /\ rotated \in [Secrets -> 0..MaxTime]
    /\ live \in SUBSET Pods /\ crashed \in SUBSET live /\ resolved \in SUBSET Pods
    /\ podStart \in [Pods -> 0..MaxTime \cup {Never}]
    /\ began \in [Pods -> 0..MaxTime \cup {Never}]
    /\ events \in [Pods -> [Reasons -> 0..MaxTime \cup {Never}]]
    /\ Blame = NoBlame \/ Blame.t \in 0..MaxTime

BlamedAfter(p) == Blame # NoBlame /\ Blame.t > began[p]

\* No change made after a crashing pod began to fail is ever blamed for it: not
\* when the events of its beginning have expired, nor when repetition has moved
\* them past a later rotation or release (engine.py:264-278).  This is so for the
\* first resolved pod, and for the others as long as that one exists and had
\* started when they began to fail: the start is read of the first pod only
\* (engine.py:153-158), the crash of any (engine.py:269-272).
BlamePrecedesFailure ==
    \A p \in Seen \cap crashed :
        /\ TargetStart # Never
        /\ p = Target \/ TargetStart <= began[p]
        => ~BlamedAfter(p)

\* What the comment at engine.py:264-267 promises of any listed pod, once a start
\* time is known: it has been failing since it started, so no change made since it
\* began to fail is made to look causal.
BlamePrecedesEveryFailure ==
    TargetStart # Never => \A p \in Seen \cap crashed : ~BlamedAfter(p)

\* The blamed change is the closest recorded one before the anchor, across the
\* three histories: nothing else was changed in between.
ClosestBlamed ==
    \A c \in Recorded :
        c.t # Unparsed /\ (Anchor # Never => c.t <= Anchor)
            => Blame # NoBlame /\ c.t <= Blame.t

\* The rollback target is the release live before the blamed one: the latest of
\* the same history before it.  Two releases at one instant are excepted: then
\* the stable sort puts the blamed release itself in second place.
RollbackIsPredecessor ==
    LET earlier == {i \in DOMAIN History :
                       History[i].t # Unparsed /\ History[i].t < Blame.t}
        tied == Cardinality({i \in DOMAIN History : History[i].t = Blame.t}) > 1
    IN  Blame.kind \in {"sync", "deploy"} /\ ~tied =>
            IF earlier = {} THEN Blame.target = NoTarget
            ELSE \E i \in earlier : /\ Blame.target = History[i].id
                                    /\ \A j \in earlier : History[j].t <= History[i].t

=============================================================================
