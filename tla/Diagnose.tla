------------------------------ MODULE Diagnose ------------------------------
(***************************************************************************)
(* rca_diagnose (rca/engine.py): resolve the subject, list the pods, fan   *)
(* out nine reads, assemble the context, run the detectors and report.     *)
(* Any read may be refused or fail, and the subject's pod may be replaced  *)
(* between two of them.  The cluster (the record world and the pod names   *)
(* live) is external; it keeps to what the engine reads of it.             *)
(*                                                                         *)
(* A name is the sequence of its dash-separated parts, so that             *)
(* startswith(name + "-") is "a proper prefix".                            *)
(***************************************************************************)
EXTENDS RcaDetectors

CONSTANTS Subject,    \* the name given to rca_diagnose
          Worlds,     \* the states of the subject's workload and its surroundings
          OtherPod,   \* the name of an unrelated pod of the namespace
          OtherState, \* and its state, like world.pod
          MaxDenied   \* bound of the model: reads of a fan-out that fail

\* What the engine reads of a node: the first of its pressures, unless it is not ready.
NodeStates == {"ready", "NodeNotReady", "Node DiskPressure", "Node MemoryPressure",
               "Node PidPressure"}

DiagnoseAssumption ==
    \A w \in Worlds : /\ w.labelled \in BOOLEAN
                      /\ w.job \in {"none", "ok", "failed"}
                      /\ w.nodes \in Seq(NodeStates)
ASSUME DiagnoseAssumption

FanOut == {"events", "nodes", "secrets", "services", "hpas", "pdbs"}
PodReads == {"describe", "logs", "previous_logs", "init_logs"}

\* _read_logs swallows its exceptions and returns no lines.
Swallowed == {"logs", "previous_logs", "init_logs"}

\* Subject's pods before and after its replacement, and their ReplicaSet.
OldPod == Subject \o <<"rs", "old">>
NewPod == Subject \o <<"rs", "new">>
OwnPods == {Subject, OldPod, NewPod}
OwnObjects == OwnPods \cup {Subject \o <<"rs">>}

VARIABLES world,      \* what is true in the cluster
          live,       \* the subject's pod: the set of its name
          pc,
          podNames,   \* pod_names
          selects,    \* selector_labels is not empty
          job,        \* ctx["job"]: "none", "ok" or "failed"
          pods,       \* names in ctx["pods"]
          target,     \* target_pod, or <<>>
          denied,     \* reads of the fan-out that raised
          degraded,   \* ctx["degraded_reads"]
          report

vars == <<world, live, pc, podNames, selects, job, pods, target, denied, degraded, report>>

NoReport == [issue |-> "none yet"]

Init ==
    /\ world \in Worlds
    /\ live = IF "pod" \in world.kinds THEN {Subject} ELSE {OldPod}
    /\ pc = "pod"
    /\ podNames = {} /\ selects = FALSE /\ job = "none"
    /\ pods = {} /\ target = <<>>
    /\ denied = {} /\ degraded = {}
    /\ report = NoReport

\* External: a rollout or an eviction replaces the pod of a workload.
Replace ==
    /\ pc # "done" /\ live = {OldPod}
    /\ live' = {NewPod}
    /\ UNCHANGED <<world, pc, podNames, selects, job, pods, target, denied, degraded, report>>

-----------------------------------------------------------------------------
\* Resolution: _try(_pod) or _try(_deploy) or _try(_sts) or _try(_job), each
\* attempt a read of the object and, but for a pod, a list of its pods.  _try
\* swallows every exception and keeps what was assigned before it.

NextKind(k) ==
    CASE k = "pod" -> "deployment" [] k = "deployment" -> "statefulset"
      [] k = "statefulset" -> "job" [] k = "job" -> "list"

Resolution == {"pod", "deployment", "statefulset", "job"}

\* The object is absent, or its read fails.
NotRead ==
    /\ pc \in Resolution
    /\ pc' = NextKind(pc)
    /\ UNCHANGED <<world, live, podNames, selects, job, pods, target, denied, degraded, report>>

ReadPod ==
    /\ pc = "pod" /\ live = {Subject}
    /\ podNames' = {Subject}
    /\ pc' = "list"
    /\ UNCHANGED <<world, live, selects, job, pods, target, denied, degraded, report>>

\* What the label selector of the object selects: the empty selector (that of
\* an object that selects by matchExpressions only) selects every pod.
Selected(labelled) == IF labelled THEN live ELSE live \cup {OtherPod}

\* The object is read, and its pods are listed or that list fails.
ReadWorkload ==
    /\ pc \in {"deployment", "statefulset"} /\ pc \in world.kinds
    /\ selects' = world.labelled
    /\ \/ podNames' = Selected(world.labelled) /\ pc' = "list"
       \/ podNames' = podNames /\ pc' = NextKind(pc)
    /\ UNCHANGED <<world, live, job, pods, target, denied, degraded, report>>

ReadJob ==
    /\ pc = "job" /\ "job" \in world.kinds
    /\ job' = world.job
    /\ podNames' \in {live, podNames}
    /\ pc' = "list"
    /\ UNCHANGED <<world, live, selects, pods, target, denied, degraded, report>>

-----------------------------------------------------------------------------

\* Mutant: an unresolved subject falls back to all pods of the namespace.
ListAllPods ==
    /\ pc = "list"
    /\ pods' = IF podNames = {} THEN live \cup {OtherPod}
               ELSE (live \cup {OtherPod}) \cap podNames
    /\ target' \in IF podNames = {} THEN {<<>>} ELSE podNames
    /\ pc' = "read"
    /\ UNCHANGED <<world, live, podNames, selects, job, denied, degraded, report>>

\* list_namespaced_pod, kept to pod_names; target_pod is the first of those.
ListPods ==
    /\ pc = "list"
    /\ pods' = (live \cup {OtherPod}) \cap podNames
    /\ target' \in IF podNames = {} THEN {<<>>} ELSE podNames
    /\ pc' = "read"
    /\ UNCHANGED <<world, live, podNames, selects, job, denied, degraded, report>>

\* Nothing catches a failure of that list.
ListFails ==
    /\ pc = "list"
    /\ pc' = "aborted"
    /\ UNCHANGED <<world, live, podNames, selects, job, pods, target, denied, degraded, report>>

Futures == FanOut \cup IF target = <<>> THEN {} ELSE PodReads

\* The reads that cannot succeed: those of a pod that is gone.
Gone == IF target \in live \cup {OtherPod, <<>>} THEN {} ELSE PodReads

\* The sets of reads that may fail together.
Denials == {Gone \cup d : d \in {e \in SUBSET Futures : Cardinality(e) <= MaxDenied}}

\* Mutant: the except branch of other errors than ApiException notes nothing.
ReadUnnoted ==
    /\ pc = "read"
    /\ denied' \in Denials
    /\ degraded' \in {denied' \ Swallowed, {}}
    /\ pc' = "analyze"
    /\ UNCHANGED <<world, live, podNames, selects, job, pods, target, report>>

\* Mutant: the logs are noted as well, twice for a pod that is gone.
ReadAllNoted ==
    /\ pc = "read"
    /\ denied' \in Denials
    /\ degraded' = denied'
    /\ pc' = "analyze"
    /\ UNCHANGED <<world, live, podNames, selects, job, pods, target, report>>

\* Mutant: a refused list_node ends the diagnosis, as it once did.
ReadOrAbort ==
    /\ pc = "read"
    /\ denied' \in Denials
    /\ degraded' = denied' \ Swallowed
    /\ pc' = IF "nodes" \in denied' THEN "aborted" ELSE "analyze"
    /\ UNCHANGED <<world, live, podNames, selects, job, pods, target, report>>

\* The fan-out: the reads do not depend on each other and the pool is left when
\* all have ended, so their order shows in nothing.  A read that raised gets its
\* default and is noted; the reads of logs never raise.  The log of a failing
\* init container is read after the others, when the description names one.
Read ==
    /\ pc = "read"
    /\ denied' \in Denials
    /\ degraded' = denied' \ Swallowed
    /\ pc' = "analyze"
    /\ UNCHANGED <<world, live, podNames, selects, job, pods, target, report>>

-----------------------------------------------------------------------------

\* The state of a pod.
State(name) == IF name \in OwnPods THEN world.pod ELSE OtherState

\* next((r for r in reasons if r), default), of reasons in the order of the containers.
FirstReason(reasons, default) ==
    LET given == SelectSeq(reasons, LAMBDA r : r # "none")
    IN  IF given = <<>> THEN default ELSE Head(given)

\* An entry of ctx["pods"]: the first waiting reason, else the reason of the status.
PodEntry(name) ==
    LET s == State(name)
        containers == s.containers
        evicted == IF s.evicted # "no" THEN "Evicted" ELSE "none"
    IN  [reason |-> FirstReason([i \in DOMAIN containers |-> containers[i].waiting], evicted),
         overStorage |-> s.evicted = "storage",
         phase |-> s.phase,
         lastTerm |-> FirstReason([i \in DOMAIN containers |-> containers[i].lastTerm], "none"),
         initFailing |-> s.initFailing]

IsProperPrefix(s, t) == Len(s) < Len(t) /\ IsPrefix(s, t)

\* Mutant: the events of the whole namespace.
AnyObject(name, names) == TRUE

\* _relevant: an object of the subject, or one whose name starts a pod's name.
Relevant(name, names) ==
    name \in names \cup {Subject} \/ \E p \in names : IsProperPrefix(name, p)

\* Mutant: nodes that could not be read have no Ready condition either.
NodesOrUnknown(d) == IF "nodes" \in d THEN <<"NodeNotReady">> ELSE world.nodes

NodesRead(d) == IF "nodes" \in d THEN <<>> ELSE world.nodes

\* The relevant events, each at its position in the namespace's list.
EventsRead(d) ==
    IF "events" \in d THEN <<>>
    ELSE Restrict(world.events, {i \in DOMAIN world.events :
                                    Relevant(world.events[i].object, podNames)})

\* The lines of a log of the target pod.
LogRead(read, d) ==
    LET s == State(target)
    IN  IF target = <<>> \/ read \in d THEN {}
        ELSE CASE read = "logs"          -> s.logs
               [] read = "previous_logs" -> s.previousLogs
               [] read = "init_logs"     -> s.initLogs

\* The context when the reads in d raised: their defaults are empty, and no
\* field tells an empty answer from a read that failed.
ContextWithout(d) ==
    LET described == target # <<>> /\ "describe" \notin d
        failingInit == described /\ State(target).initFailing
    IN  [pods |-> {PodEntry(n) : n \in pods},
         containers |-> IF described THEN Range(State(target).containers) ELSE {},
         initFailing |-> failingInit,
         initLogs |-> IF failingInit THEN LogRead("init_logs", d) ELSE {},
         logs |-> LogRead("logs", d) \cup LogRead("previous_logs", d),
         memoryRising |-> FALSE,
         dbHost |-> world.dbHost,
         job |-> job,
         events |-> EventsRead(d),
         services |-> IF "services" \in d THEN {} ELSE world.services,
         nodes |-> NodesRead(d),
         hpas |-> IF "hpas" \in d THEN {} ELSE world.hpas,
         pdbs |-> IF "pdbs" \in d \/ ~selects THEN {} ELSE world.pdbs,
         change |-> IF "secrets" \in d THEN NoChange ELSE world.change]

\* The scoping of the PDBs reads the match_labels of a selector that may be null.
BadSelector == selects /\ "pdbs" \notin denied /\ "without selector" \in world.pdbs

NoSignature == [issue |-> "No known failure signature detected", confidence |-> 20,
                alternatives |-> <<>>, noted |-> degraded, rollback |-> FALSE]

\* The report on hypotheses hs; rag tells whether a runbook matched.
ReportOf(hs, rag) ==
    IF hs = <<>> THEN NoSignature
    ELSE [issue |-> Head(hs).issue,
          confidence |-> IF rag THEN AtMost(97, Head(hs).confidence + 3) ELSE Head(hs).confidence,
          alternatives |-> SubSeq(hs, 2, IF Len(hs) < 4 THEN Len(hs) ELSE 4),
          noted |-> degraded, rollback |-> Head(hs).rollback]

\* The rest of collect_context, evaluate and the report; a lookup of the
\* runbooks that fails is as good as one that finds nothing.
Analyze ==
    /\ pc = "analyze"
    /\ ~BadSelector
    /\ \E rag \in BOOLEAN : report' = ReportOf(Evaluate(ContextWithout(denied)), rag)
    /\ pc' = "done"
    /\ UNCHANGED <<world, live, podNames, selects, job, pods, target, denied, degraded>>

\* AttributeError out of collect_context.
AnalyzeRaises ==
    /\ pc = "analyze"
    /\ BadSelector
    /\ pc' = "aborted"
    /\ UNCHANGED <<world, live, podNames, selects, job, pods, target, denied, degraded, report>>

Next ==
    \/ NotRead \/ ReadPod \/ ReadWorkload \/ ReadJob
    \/ ListPods \/ ListFails \/ Read \/ Analyze \/ AnalyzeRaises
    \/ Replace

Spec == Init /\ [][Next]_vars

-----------------------------------------------------------------------------

Hypotheses(d) == Evaluate(ContextWithout(d))

\* Two detectors report one of two waiting reasons, the first in their order, so
\* that they name one failure differently when fewer containers are seen.
Cause(issue) ==
    CASE issue = "ImagePullBackOff"     -> "ErrImagePull"
      [] issue = "CreateContainerError" -> "CreateContainerConfigError"
      [] OTHER                          -> issue

Causes(d) == {Cause(Hypotheses(d)[i].issue) : i \in DOMAIN Hypotheses(d)}

TypeOK ==
    /\ world \in Worlds
    /\ live \in {{Subject}, {OldPod}, {NewPod}}
    /\ pc \in Resolution \cup {"list", "read", "analyze", "done", "aborted"}
    /\ podNames \subseteq OwnPods \cup {OtherPod} /\ pods \subseteq podNames
    /\ selects \in BOOLEAN /\ job \in {"none", "ok", "failed"}
    /\ target \in podNames \cup {<<>>}
    /\ denied \subseteq FanOut \cup PodReads
    /\ degraded \subseteq FanOut \cup {"describe"}
    /\ report # NoReport => report.confidence \in 20..97 /\ Len(report.alternatives) <= 3

\* The diagnosis is about the subject's pods only, whatever fails or moves on
\* the way to them; an unresolved subject has none (engine.py:130-132).  Objects
\* that select by matchExpressions only are excepted: see SelectedPodsOnly.
ScopedPods == world.labelled => pods \subseteq OwnPods

\* engine.py:130-132 without the exception: the context never holds a pod that
\* is not the subject's.  An empty match_labels lists the whole namespace.
SelectedPodsOnly == pods \subseteq OwnPods

\* Events of other objects do not reach the detectors (engine.py:242-244), but
\* for those whose name, with a dash, begins the name of a pod of the subject.
ScopedEvents ==
    pc = "analyze" => \A e \in Range(ContextWithout(denied).events) :
        \/ e.object \in OwnObjects \cup podNames
        \/ \E p \in podNames : IsProperPrefix(e.object, p)

\* A refused or failed read of the fan-out never ends the diagnosis
\* (engine.py:177-179, 195): it stops when the pods cannot be listed, before the
\* fan-out, or on a PDB whose selector is null.
DenialsNeverAbort == pc = "aborted" /\ denied # {} => BadSelector

\* What is reported without the support of the complete reads (engine.py:240,
\* detectors.py:130: a database that exists is "missing" when the services could
\* not be read) is owned to: the report notes the read of the services or events
\* that raised (engine.py:346), or it rests on a log that could not be read, which
\* nothing notes (engine.py:342).
UnsupportedIsNoted ==
    pc = "done" /\ Cause(report.issue) \notin Causes({}) \cup {NoSignature.issue} =>
        \/ report.noted \cap {"services", "events"} # {}
        \/ denied \cap Swallowed # {}

\* A diagnosis with partial inputs only knows less: a refused read of nodes,
\* secrets, HPAs, PDBs or the pod's description adds no hypothesis to those the
\* complete reads support.  The signatures that test for an absence are excepted:
\* those that need the services, the events and the logs.
DenialsOnlyRemove ==
    pc = "analyze" /\ denied \cap ({"services", "events"} \cup Swallowed) = {}
        => Causes(denied) \subseteq Causes({})

\* A crash loop whose log has one of the phrases for a name that does not resolve at
\* which crashloop_db_connection steps back (detectors.py:94) is put down to DNS before
\* it is to the database, whatever other lines the log has.  "server misbehaving", a
\* phrase of dns_failure only (detectors.py:531), is not among them: the code then
\* ranks the database first.
DnsBeforeDatabase ==
    pc = "analyze" /\ ContextWithout(denied).logs \cap {"noSuchHost", "tempFailure"} # {} =>
        LET hs == Hypotheses(denied)
        IN  \A i, j \in DOMAIN hs :
                /\ hs[i].issue = "DNS Resolution Failure"
                /\ hs[j].issue \in {"CrashLoopBackOff", "CrashLoopBackOff (missing dependency)"}
                => i < j

=============================================================================
