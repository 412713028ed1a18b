----------------------------- MODULE Correlate -----------------------------
(***************************************************************************)
(* Change correlation (rca/correlate.py): which recorded change most       *)
(* plausibly caused the failure.  A change is [kind, id, t]: a sync and a  *)
(* deploy carry a revision, a secret its name; t is the parsed timestamp,  *)
(* or Unparsed when _parse returned None.                                  *)
(***************************************************************************)
EXTENDS Integers, Sequences, FiniteSets, SequencesExt, FiniteSetsExt

Unparsed == -1
Never == -1          \* no failure time: find_recent_change then uses now()

NoBlame == [kind |-> "none"]
NoTarget == "no target"
PreviousRevision == "previous revision"

\* Earliest Warning event with a readable timestamp.
FirstFailureTime(events) ==
    LET times == {e.t : e \in {x \in events : x.warning /\ x.t # Unparsed}}
    IN  IF times = {} THEN Never ELSE Min(times)

\* Mutant: a timestamp that did not parse sorts before every other.
UnparsedCandidates(changes, failure) ==
    {i \in DOMAIN changes : changes[i].t <= failure}

\* The candidates, by their position among all changes: the loops append, in that
\* order, those whose timestamp parses and is not after the failure.
Candidates(changes, failure) ==
    {i \in DOMAIN changes : changes[i].t # Unparsed /\ changes[i].t <= failure}

\* Mutant: the first candidate listed, as if the inputs came newest first.
FirstListed(changes, cs) == Min(cs)

\* max(candidates, key=t): the first of the latest.
Best(changes, cs) == Min({i \in cs : \A j \in cs : changes[j].t <= changes[i].t})

\* Those after i in sorted(.., key=t): the sort is stable, so the order is that of
\* t, then of position.
Follows(changes, same, i) ==
    {j \in same : \/ changes[j].t > changes[i].t
                  \/ changes[j].t = changes[i].t /\ j > i}

\* sorted(same kind, key=t)[-2]: the one that exactly one other follows.
SecondLast(changes, same) ==
    CHOOSE i \in same : Cardinality(Follows(changes, same, i)) = 1

\* A secret carries no "revision".
RevisionOf(c) == IF c.kind = "secret" THEN PreviousRevision ELSE c.id

SameKind(changes, cs, best) == {i \in cs : changes[i].kind = changes[best].kind}

\* Mutant: the last candidate of the kind is the target.
TargetIsBlamed(changes, cs, best) ==
    IF Cardinality(SameKind(changes, cs, best)) >= 2
    THEN RevisionOf(changes[best]) ELSE NoTarget

RollbackTarget(changes, cs, best) ==
    LET same == SameKind(changes, cs, best)
    IN  IF Cardinality(same) >= 2 THEN RevisionOf(changes[SecondLast(changes, same)])
        ELSE NoTarget

\* find_recent_change: the change closest before the failure, or before now
\* when no failure time is known, with the revision to roll back to.
FindRecentChange(syncs, deploys, secrets, failure, now) ==
    LET changes == syncs \o deploys \o secrets
        cs == Candidates(changes, IF failure = Never THEN now ELSE failure)
        best == Best(changes, cs)
    IN  IF cs = {} THEN NoBlame
        ELSE [kind |-> changes[best].kind, id |-> changes[best].id,
              t |-> changes[best].t, target |-> RollbackTarget(changes, cs, best)]

=============================================================================
