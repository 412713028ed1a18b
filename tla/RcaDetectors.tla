--------------------------- MODULE RcaDetectors ---------------------------
(***************************************************************************)
(* The rule-based detectors (rca/detectors.py): pure functions from the    *)
(* context collect_context assembles to at most one hypothesis each, and   *)
(* evaluate(), which ranks them.  A context is abstracted to the signals   *)
(* the rules test: a log is the set of kinds of line in it, a message the  *)
(* one phrase a rule looks for.  A hypothesis keeps its issue, confidence  *)
(* and rollback advice; the wording of causes and fixes is left out.       *)
(***************************************************************************)
EXTENDS Integers, Sequences, FiniteSets, SequencesExt, FiniteSetsExt

NoChange == [kind |-> "none", rollback |-> "none"]

\* The kinds of log line, each an example of the phrases the rules look for.
\*   authFailed   "password authentication failed"
\*   refused      "connection refused", with a host:port
\*   timedOut     "connection timed out", with a host:port
\*   noSuchHost   "dial tcp: lookup db: no such host"
\*   tempFailure  "temporary failure in name resolution"
\*   misbehaving  "dial tcp: lookup db: server misbehaving"
\*   x509         "x509: certificate has expired"
\*   fatal        "fatal: unhandled exception"
\*   info         none of the phrases
LogLines == {"authFailed", "refused", "timedOut", "noSuchHost", "tempFailure",
             "misbehaving", "x509", "fatal", "info"}

Auth     == {"authFailed"}
Reach    == {"refused", "timedOut", "noSuchHost", "misbehaving"}
NothingOwned == {}                          \* mutant: no early return
DnsOwned == {"noSuchHost", "tempFailure"}   \* dns_specific of crashloop_db_connection
DnsStrong == {"noSuchHost"}
DnsWeak  == {"tempFailure", "misbehaving"}
WithHost == {"refused", "timedOut"}         \* lines _parse_db_host finds a host in
AppError == {"refused", "noSuchHost", "x509", "fatal"}
Failure  == {"authFailed", "tempFailure", "fatal"}   \* error, fail, denied, ...

Has(logs, kinds) == logs \cap kinds # {}

Hypothesis(issue, confidence) ==
    [issue |-> issue, confidence |-> confidence, rollback |-> FALSE]

\* The result of a detector: its hypothesis if its signature is present.
If(signature, h) == IF signature THEN <<h>> ELSE <<>>

AtMost(cap, n) == IF n > cap THEN cap ELSE n

Reasons(ctx) == {c.waiting : c \in ctx.containers} \cup {p.reason : p \in ctx.pods}

Crashlooping(ctx) ==
    \/ "CrashLoopBackOff" \in Reasons(ctx)
    \/ \E c \in ctx.containers : c.restarts >= 3 /\ c.lastTerm = "Error"

InitFailing(ctx) == \E p \in ctx.pods : p.initFailing

\* Events and nodes are named by their position in the list that was read; what
\* is kept of a list keeps its order.
EventsOf(ctx, reasons) == {i \in DOMAIN ctx.events : ctx.events[i].reason \in reasons}
Says(ctx, found, words) == \E i \in found : ctx.events[i].says \in words

-----------------------------------------------------------------------------

\* The DB Service the log names is not among the Services that were read.
MissingDependency(ctx) == Has(ctx.logs, WithHost) /\ ctx.dbHost \notin ctx.services

DbConnection(ctx) ==
    IF Has(ctx.logs, DnsOwned) THEN Hypothesis("CrashLoopBackOff", 40)
    ELSE IF Has(ctx.logs, Auth)
    THEN Hypothesis("CrashLoopBackOff",
                    IF ctx.change.kind = "secret" THEN AtMost(95, 82 + 12) ELSE 82)
    ELSE IF ~Has(ctx.logs, Reach) THEN Hypothesis("CrashLoopBackOff", 40)
    ELSE IF MissingDependency(ctx)
    THEN Hypothesis("CrashLoopBackOff (missing dependency)", 88)
    ELSE Hypothesis("CrashLoopBackOff", 80)

\* The early returns of the generic and the DNS case skip the release's credit.
ReleaseCredited(ctx) ==
    /\ ctx.change.kind \in {"deploy", "sync"}
    /\ ~Has(ctx.logs, DnsOwned) /\ Has(ctx.logs, Auth \cup Reach)

CrashloopDbConnection(ctx) ==
    LET h == DbConnection(ctx)
    IN  If(Crashlooping(ctx),
           IF ReleaseCredited(ctx)
           THEN [h EXCEPT !.confidence = AtMost(95, @ + 8), !.rollback = TRUE]
           ELSE h)

NotFound == {"image not found", "configmap not found", "secret not found"}

\* The reason a list of them is reported by: the first in their order.
FirstOf(first, second, hit) == IF first \in hit THEN first ELSE second

ImagePull(ctx) ==
    LET hit == Reasons(ctx) \cap {"ErrImagePull", "ImagePullBackOff"}
        pulls == EventsOf(ctx, {"Failed", "BackOff"})
    IN  If(hit # {},
           Hypothesis(FirstOf("ErrImagePull", "ImagePullBackOff", hit),
                      IF Says(ctx, pulls, NotFound \cup {"unauthorized"}) THEN 92 ELSE 88))

ContainerConfigError(ctx) ==
    LET hit == Reasons(ctx) \cap {"CreateContainerConfigError", "CreateContainerError"}
        warnings == {i \in DOMAIN ctx.events : ctx.events[i].warning}
    IN  If(hit # {},
           Hypothesis(FirstOf("CreateContainerConfigError", "CreateContainerError", hit),
                      IF Says(ctx, warnings, NotFound \ {"image not found"}) THEN 90 ELSE 85))

OomKilled(ctx) ==
    If("OOMKilled" \in {c.lastTerm : c \in ctx.containers} \cup {p.lastTerm : p \in ctx.pods},
       Hypothesis("OOMKilled", IF ctx.memoryRising THEN 95 ELSE 90))

InitContainerFailure(ctx) ==
    If(ctx.initFailing \/ InitFailing(ctx),
       Hypothesis("Init Container Failure", IF ctx.initLogs # {} THEN 90 ELSE 85))

JobFailure(ctx) ==
    If(ctx.job = "failed",
       Hypothesis("Job Failed", IF Has(ctx.logs, Failure) THEN 90 ELSE 85))

\* Unhealthy events; or, when they have expired, a restarting container with a
\* liveness probe and no application error in its logs.
ProbeFailure(ctx) ==
    LET unhealthy == EventsOf(ctx, {"Unhealthy"})
        kind == IF Says(ctx, unhealthy, {"liveness"}) THEN "Liveness Probe Failure"
                ELSE IF Says(ctx, unhealthy, {"readiness"}) THEN "Readiness Probe Failure"
                ELSE "Probe Probe Failure"
        killed == /\ \E c \in ctx.containers : c.liveness
                  /\ \E p \in ctx.pods : p.reason = "CrashLoopBackOff" \/ p.lastTerm # "none"
                  /\ ~Has(ctx.logs, AppError)
    IN  IF unhealthy # {} THEN <<Hypothesis(kind, 78)>>
        ELSE If(killed, Hypothesis("Liveness Probe Failure", 62))

PendingUnschedulable(ctx) ==
    LET sched == EventsOf(ctx, {"FailedScheduling"})
        pending == \E p \in ctx.pods : p.phase = "Pending"
    IN  If(sched # {} \/ (pending /\ ~InitFailing(ctx)),
           Hypothesis(IF sched # {} /\ ctx.events[Min(sched)].says = "pvc"
                      THEN "Pending Pods (PVC)" ELSE "Pending Pods", 80))

StorageEviction(ctx) ==
    LET evicted == {p \in ctx.pods : p.reason = "Evicted"}
    IN  If(evicted # {},
           IF \E p \in evicted : p.overStorage
           THEN Hypothesis("Pod Evicted: Ephemeral Storage", 88)
           ELSE Hypothesis("Pod Evicted", 80))

HpaCannotScale(ctx) == If("failing" \in ctx.hpas, Hypothesis("HPA Cannot Scale", 85))

PdbBlocking(ctx) ==
    If("blocking" \in ctx.pdbs, Hypothesis("PodDisruptionBudget Blocking", 80))

NodePressure(ctx) ==
    LET bad == {i \in DOMAIN ctx.nodes : ctx.nodes[i] # "ready"}
    IN  If(bad # {}, Hypothesis(ctx.nodes[Min(bad)], 85))

IstioSidecarNotReady(ctx) ==
    LET down == {c \in ctx.containers : c.name = "istio-proxy" /\ ~c.ready}
        confidence(c) == IF c.lastTerm = "OOMKilled" THEN 91
                         ELSE IF c.waiting \in {"ImagePullBackOff", "ErrImagePull"} THEN 88
                         ELSE 80
    IN  If(down # {}, Hypothesis("Istio Sidecar Not Ready",
                                 confidence(CHOOSE c \in down : TRUE)))

TlsCertificate(ctx) == If(Has(ctx.logs, {"x509"}), Hypothesis("TLS Certificate Issue", 75))

DnsFailure(ctx) ==
    If(Has(ctx.logs, DnsStrong \cup DnsWeak),
       Hypothesis("DNS Resolution Failure", IF Has(ctx.logs, DnsStrong) THEN 85 ELSE 72))

-----------------------------------------------------------------------------

\* The hypotheses in the order the detectors were registered.
Found(ctx) ==
    CrashloopDbConnection(ctx) \o ImagePull(ctx) \o ContainerConfigError(ctx)
    \o OomKilled(ctx) \o InitContainerFailure(ctx) \o JobFailure(ctx)
    \o ProbeFailure(ctx) \o PendingUnschedulable(ctx) \o StorageEviction(ctx)
    \o HpaCannotScale(ctx) \o PdbBlocking(ctx) \o NodePressure(ctx)
    \o IstioSidecarNotReady(ctx) \o TlsCertificate(ctx) \o DnsFailure(ctx)

\* evaluate(): highest confidence first, ties in the order of registration.
Evaluate(ctx) ==
    LET found == Found(ctx)
        ahead(i) == {j \in DOMAIN found :
                        \/ found[j].confidence > found[i].confidence
                        \/ found[j].confidence = found[i].confidence /\ j < i}
    IN  [k \in DOMAIN found |->
            found[CHOOSE i \in DOMAIN found : Cardinality(ahead(i)) = k - 1]]

=============================================================================
