--------------------------- MODULE DiagnoseProofs ---------------------------
(***************************************************************************)
(* Diagnosis in any clusters: evaluate() ranks what the detectors find     *)
(* (EvaluateRanks), and whatever reads fail, the context is that of the    *)
(* subject, the diagnosis goes on, and what is claimed for want of a read  *)
(* is owned to.  The detectors are compared on two contexts: one of which  *)
(* tells no more than the other (Knows).                                   *)
(***************************************************************************)
EXTENDS Diagnose, FiniteSetTheorems, WellFoundedInduction, TLAPS

-----------------------------------------------------------------------------
(* evaluate() is a stable sort.                                            *)

\* The hypotheses that come before the i-th found.
Ahead(found, i) ==
    {j \in DOMAIN found : \/ found[j].confidence > found[i].confidence
                          \/ found[j].confidence = found[i].confidence /\ j < i}

Place(found, i) == Cardinality(Ahead(found, i)) + 1

\* The places of n hypotheses are 1 to n.
LEMMA PlacesAre ==
    ASSUME NEW n \in Nat, NEW found, DOMAIN found = 1..n,
           \A i \in 1..n : found[i].confidence \in Nat
    PROVE  /\ \A i \in 1..n : Place(found, i) \in 1..n
           /\ \A i, j \in 1..n : j \in Ahead(found, i) => Place(found, j) < Place(found, i)
           /\ \A i, j \in 1..n : Place(found, i) = Place(found, j) => i = j
           /\ \A k \in 1..n : \E i \in 1..n : Place(found, i) = k
<1> DEFINE before(i) == Ahead(found, i)
           place == [i \in 1..n |-> Place(found, i)]
<1>1. IsFiniteSet(1..n) /\ Cardinality(1..n) = n
  BY FS_Interval
<1>2. \A i \in 1..n : IsFiniteSet(before(i)) /\ Cardinality(before(i)) \in Nat
  BY <1>1, FS_Subset, FS_CardinalityType DEF Ahead
<1>3. ASSUME NEW i \in 1..n PROVE Place(found, i) \in 1..n
  <2>1. before(i) \in SUBSET ((1..n) \ {i})
    BY DEF Ahead
  <2>2. IsFiniteSet((1..n) \ {i}) /\ Cardinality((1..n) \ {i}) = n - 1
    BY <1>1, FS_RemoveElement
  <2>3. Cardinality(before(i)) <= n - 1
    BY <2>1, <2>2, FS_Subset
  <2> QED BY <1>2, <2>3 DEF Place
<1>4. ASSUME NEW i \in 1..n, NEW j \in 1..n, j \in before(i)
      PROVE  Place(found, j) < Place(found, i)
  <2>1. before(j) \in SUBSET before(i)
    <3>1. SUFFICES ASSUME NEW k \in before(j) PROVE k \in before(i)
      OBVIOUS
    <3>2. /\ k \in 1..n /\ found[k].confidence \in Nat
          /\ found[j].confidence \in Nat /\ found[i].confidence \in Nat
      BY DEF Ahead
    <3>3. /\ \/ found[k].confidence > found[j].confidence
             \/ found[k].confidence = found[j].confidence /\ k < j
          /\ \/ found[j].confidence > found[i].confidence
             \/ found[j].confidence = found[i].confidence /\ j < i
      BY <1>4 DEF Ahead
    <3>4. \/ found[k].confidence > found[i].confidence
          \/ found[k].confidence = found[i].confidence /\ k < i
      BY <3>2, <3>3
    <3> QED BY <3>2, <3>4 DEF Ahead
  <2>2. j \notin before(j)
    BY DEF Ahead
  <2>3. before(j) # before(i)
    BY <1>4, <2>2
  <2>4. Cardinality(before(j)) <= Cardinality(before(i))
    BY <1>2, <2>1, FS_Subset
  <2>5. Cardinality(before(j)) # Cardinality(before(i))
    BY <1>2, <2>1, <2>3, FS_Subset
  <2> QED BY <1>2, <2>4, <2>5 DEF Place
<1>5. ASSUME NEW i \in 1..n, NEW j \in 1..n, i # j
      PROVE  Place(found, i) # Place(found, j)
  <2>1. i \in before(j) \/ j \in before(i)
    <3>1. found[i].confidence \in Nat /\ found[j].confidence \in Nat
      OBVIOUS
    <3>2. \/ found[i].confidence > found[j].confidence
          \/ found[j].confidence > found[i].confidence
          \/ found[i].confidence = found[j].confidence /\ i < j
          \/ found[j].confidence = found[i].confidence /\ j < i
      BY <1>5, <3>1
    <3> QED BY <3>2 DEF Ahead
  <2>2. Place(found, i) \in 1..n /\ Place(found, j) \in 1..n
    BY <1>3
  <2>3. Place(found, i) < Place(found, j) \/ Place(found, j) < Place(found, i)
    BY <1>4, <2>1
  <2> QED BY <2>2, <2>3
<1>6. \A k \in 1..n : \E i \in 1..n : Place(found, i) = k
  <2>1. place \in [1..n -> 1..n]
    BY <1>3
  <2>2. \A i, j \in 1..n : place[i] = place[j] => i = j
    BY <1>5
  <2>3. place \in Injection(1..n, 1..n)
    BY <2>1, <2>2 DEF Injection, IsInjective
  <2>4. place \in Surjection(1..n, 1..n)
    BY <1>1, <2>3, FS_Injection
  <2> QED BY <2>4 DEF Surjection
<1> QED BY <1>3, <1>4, <1>5, <1>6

\* evaluate() keeps the hypotheses found, each at its place: highest confidence
\* first, ties in the order of registration.
LEMMA Ranked ==
    ASSUME NEW ctx, NEW n \in Nat, DOMAIN Found(ctx) = 1..n,
           \A i \in 1..n : Found(ctx)[i].confidence \in Nat
    PROVE  /\ DOMAIN Evaluate(ctx) = 1..n
           /\ \A i \in 1..n : /\ Place(Found(ctx), i) \in 1..n
                              /\ Evaluate(ctx)[Place(Found(ctx), i)] = Found(ctx)[i]
           /\ \A k \in 1..n : \E i \in 1..n : Place(Found(ctx), i) = k
           /\ \A i, j \in 1..n : j \in Ahead(Found(ctx), i)
                                   => Place(Found(ctx), j) < Place(Found(ctx), i)
<1> DEFINE found == Found(ctx)
           at(k) == CHOOSE i \in DOMAIN found : Cardinality(Ahead(found, i)) = k - 1
<1>1. Evaluate(ctx) = [k \in DOMAIN found |-> found[at(k)]]
  BY DEF Evaluate, Ahead
<1> HIDE DEF found
<1>2. /\ \A i \in 1..n : Place(found, i) \in 1..n
      /\ \A i, j \in 1..n : j \in Ahead(found, i) => Place(found, j) < Place(found, i)
      /\ \A i, j \in 1..n : Place(found, i) = Place(found, j) => i = j
      /\ \A k \in 1..n : \E i \in 1..n : Place(found, i) = k
  BY PlacesAre DEF found
<1>3. \A i \in 1..n : Cardinality(Ahead(found, i)) \in Nat
  <2>1. 1 \in Int /\ n \in Int
    OBVIOUS
  <2>2. IsFiniteSet(1..n)
    BY <2>1, FS_Interval
  <2> QED BY <2>2, FS_Subset, FS_CardinalityType DEF Ahead, found
<1>4. ASSUME NEW i \in 1..n PROVE at(Place(found, i)) = i
  <2> DEFINE k == Place(found, i)
  <2>1. Cardinality(Ahead(found, i)) = k - 1
    BY <1>3 DEF Place
  <2>2. at(k) \in 1..n /\ Cardinality(Ahead(found, at(k))) = k - 1
    BY <2>1 DEF found
  <2>3. Place(found, at(k)) = Place(found, i)
    BY <1>3, <2>1, <2>2 DEF Place
  <2> QED BY <1>2, <2>2, <2>3
<1>5. DOMAIN found = 1..n
  BY DEF found
<1>6. \A i \in 1..n : Evaluate(ctx)[Place(found, i)] = found[i]
  <2> HIDE DEF at
  <2> TAKE i \in 1..n
  <2>1. Place(found, i) \in DOMAIN found /\ at(Place(found, i)) = i
    BY <1>2, <1>4, <1>5
  <2> QED BY <1>1, <2>1
<1> QED BY <1>1, <1>2, <1>5, <1>6 DEF found

-----------------------------------------------------------------------------
(* What the detectors find.                                                *)

\* The issues the detectors report: that of the database, that of DNS, and others.
DbIssues == {"CrashLoopBackOff", "CrashLoopBackOff (missing dependency)"}
DnsIssue == "DNS Resolution Failure"
OtherIssues ==
    {"ErrImagePull", "ImagePullBackOff", "CreateContainerConfigError", "CreateContainerError",
     "OOMKilled", "Init Container Failure", "Job Failed", "Liveness Probe Failure",
     "Readiness Probe Failure", "Probe Probe Failure", "Pending Pods (PVC)", "Pending Pods",
     "Pod Evicted: Ephemeral Storage", "Pod Evicted", "HPA Cannot Scale",
     "PodDisruptionBudget Blocking", "Istio Sidecar Not Ready", "TLS Certificate Issue"}
        \cup NodeStates
Issues == DbIssues \cup {DnsIssue} \cup OtherIssues

Hyps == [issue : Issues, confidence : 40..95, rollback : BOOLEAN]

LEMMA IfIs ==
    ASSUME NEW signature \in BOOLEAN, NEW h
    PROVE  /\ Range(If(signature, h)) = IF signature THEN {h} ELSE {}
           /\ (signature => h \in Hyps) => If(signature, h) \in Seq(Hyps)
<1>1. CASE signature
  <2>1. If(signature, h) = <<h>>
    BY <1>1 DEF If
  <2>2. Range(<<h>>) = {h}
    BY DEF Range
  <2>3. h \in Hyps => <<h>> \in Seq(Hyps)
    OBVIOUS
  <2> QED BY <1>1, <2>1, <2>2, <2>3
<1>2. CASE ~signature
  <2>1. If(signature, h) = <<>>
    BY <1>2 DEF If
  <2> QED BY <1>2, <2>1 DEF Range
<1> QED BY <1>1, <1>2

LEMMA HypothesisIs ==
    ASSUME NEW issue \in Issues, NEW confidence \in 40..95
    PROVE  /\ Hypothesis(issue, confidence) \in Hyps
           /\ Hypothesis(issue, confidence).issue = issue
           /\ Hypothesis(issue, confidence).confidence = confidence
BY DEF Hypothesis, Hyps

LEMMA RangeOfBoth ==
    ASSUME NEW s \in Seq(Hyps), NEW t \in Seq(Hyps)
    PROVE  /\ s \o t \in Seq(Hyps)
           /\ Range(s \o t) = Range(s) \cup Range(t)
<1> DEFINE u == s \o t
<1>1. /\ u \in Seq(Hyps) /\ DOMAIN s = 1..Len(s) /\ DOMAIN t = 1..Len(t)
      /\ DOMAIN u = 1..(Len(s) + Len(t)) /\ Len(s) \in Nat /\ Len(t) \in Nat
  OBVIOUS
<1>2. /\ \A i \in DOMAIN s : i \in DOMAIN u /\ u[i] = s[i]
      /\ \A i \in DOMAIN t : Len(s) + i \in DOMAIN u /\ u[Len(s) + i] = t[i]
  BY <1>1
<1>3. \A i \in DOMAIN u : \/ i \in DOMAIN s
                          \/ /\ i - Len(s) \in DOMAIN t
                             /\ u[i] = t[i - Len(s)]
  BY <1>1
<1> HIDE DEF u
<1>4. Range(s) \cup Range(t) \subseteq Range(u)
  BY <1>2 DEF Range
<1>5. ASSUME NEW i \in DOMAIN u PROVE u[i] \in Range(s) \cup Range(t)
  <2>1. CASE i \in DOMAIN s
    BY <1>2, <2>1 DEF Range
  <2>2. CASE i - Len(s) \in DOMAIN t /\ u[i] = t[i - Len(s)]
    BY <2>2 DEF Range
  <2> QED BY <1>3, <2>1, <2>2
<1>6. Range(u) \subseteq Range(s) \cup Range(t)
  BY <1>5 DEF Range
<1> QED BY <1>1, <1>4, <1>6 DEF u

LEMMA CrashloopIs ==
    ASSUME NEW ctx
    PROVE  /\ CrashloopDbConnection(ctx) \in Seq(Hyps)
           /\ \A h \in Range(CrashloopDbConnection(ctx)) :
                 /\ Crashlooping(ctx)
                 /\ h.issue = DbConnection(ctx).issue /\ h.issue \in DbIssues
                 /\ Has(ctx.logs, DnsOwned) => h.confidence = 40
           /\ Crashlooping(ctx) =>
                 \E h \in Range(CrashloopDbConnection(ctx)) : h.issue = DbConnection(ctx).issue
<1> DEFINE g == DbConnection(ctx)
           credited == [g EXCEPT !.confidence = AtMost(95, @ + 8), !.rollback = TRUE]
           h == IF ReleaseCredited(ctx) THEN credited ELSE g
<1>1. /\ g \in Hyps /\ g.issue \in DbIssues
      /\ Has(ctx.logs, DnsOwned) => g.confidence = 40
  <2>1. AtMost(95, 82 + 12) = 94
    BY DEF AtMost
  <2>2. CASE Has(ctx.logs, DnsOwned)
    <3>1. g = Hypothesis("CrashLoopBackOff", 40)
      BY <2>2 DEF DbConnection
    <3>2. "CrashLoopBackOff" \in Issues /\ 40 \in 40..95
      BY DEF Issues, DbIssues
    <3>3. g \in Hyps /\ g.issue = "CrashLoopBackOff" /\ g.confidence = 40
      BY <3>1, <3>2, HypothesisIs
    <3> QED BY <3>3 DEF DbIssues
  <2>3. CASE ~Has(ctx.logs, DnsOwned)
    <3>1. \/ g = Hypothesis("CrashLoopBackOff", 94)
          \/ g = Hypothesis("CrashLoopBackOff", 82)
          \/ g = Hypothesis("CrashLoopBackOff (missing dependency)", 88)
          \/ g = Hypothesis("CrashLoopBackOff", 80)
          \/ g = Hypothesis("CrashLoopBackOff", 40)
      BY <2>1, <2>3 DEF DbConnection
    <3>2. \A c \in {94, 82, 88, 80, 40} : c \in 40..95
      OBVIOUS
    <3>3. DbIssues \subseteq Issues
      BY DEF Issues
    <3>4. PICK issue \in DbIssues, c \in {94, 82, 88, 80, 40} : g = Hypothesis(issue, c)
      BY <3>1 DEF DbIssues
    <3>5. g \in Hyps /\ g.issue = issue
      BY <3>2, <3>3, <3>4, HypothesisIs
    <3> QED BY <2>3, <3>5
  <2> QED BY <2>2, <2>3
<1> HIDE DEF g
<1>2. credited \in Hyps /\ credited.issue = g.issue
  <2>1. g.confidence \in 40..95
    BY <1>1 DEF Hyps
  <2>2. AtMost(95, g.confidence + 8) \in 40..95
    BY <2>1 DEF AtMost
  <2> QED BY <1>1, <2>2 DEF Hyps
<1>3. Has(ctx.logs, DnsOwned) => ~ReleaseCredited(ctx)
  BY DEF ReleaseCredited
<1>4. h \in Hyps /\ h.issue = g.issue /\ (Has(ctx.logs, DnsOwned) => h.confidence = 40)
  BY <1>1, <1>2, <1>3
<1>5. CrashloopDbConnection(ctx) = If(Crashlooping(ctx), h)
  BY DEF CrashloopDbConnection, g
<1>6. Crashlooping(ctx) \in BOOLEAN
  BY DEF Crashlooping
<1> HIDE DEF h
<1> QED BY <1>1, <1>4, <1>5, <1>6, IfIs DEF g

\* The other detectors each report their own issues.
LEMMA OneIssue ==
    ASSUME NEW signature \in BOOLEAN, NEW issue, NEW confidence,
           signature => issue \in OtherIssues /\ confidence \in 40..95,
           NEW s, s = If(signature, Hypothesis(issue, confidence))
    PROVE  /\ s \in Seq(Hyps)
           /\ \A h \in Range(s) : signature /\ h.issue = issue /\ h.issue \in OtherIssues
           /\ signature => \E h \in Range(s) : h.issue = issue
<1> DEFINE g == Hypothesis(issue, confidence)
<1>1. signature => g \in Hyps /\ g.issue = issue
  BY HypothesisIs DEF Issues
<1> HIDE DEF g
<1>2. /\ Range(If(signature, g)) = IF signature THEN {g} ELSE {}
      /\ If(signature, g) \in Seq(Hyps)
  BY <1>1, IfIs
<1> QED BY <1>1, <1>2 DEF g

\* Results about neither the database nor DNS.
Elsewhere(s) == s \in Seq(Hyps) /\ \A h \in Range(s) : h.issue \in OtherIssues

\* Each cause among the results s is among the results t.
Supported(s, t) == \A h \in Range(s) : \E g \in Range(t) : Cause(g.issue) = Cause(h.issue)

\* The context b tells all that c tells, and the logs, events and services are those
\* of c.
Knows(b, c) ==
    /\ c.pods = b.pods /\ c.logs = b.logs /\ c.events = b.events
    /\ c.services = b.services /\ c.dbHost = b.dbHost /\ c.job = b.job
    /\ c.containers \subseteq b.containers /\ (c.initFailing => b.initFailing)
    /\ c.nodes = <<>> \/ c.nodes = b.nodes
    /\ b.nodes \in Seq(NodeStates)
    /\ c.hpas \subseteq b.hpas /\ c.pdbs \subseteq b.pdbs
    /\ b.initFailing \in BOOLEAN /\ c.initFailing \in BOOLEAN

\* A signature that stays, for the same cause.
LEMMA Grows ==
    ASSUME NEW p \in BOOLEAN, NEW q \in BOOLEAN, p => q,
           NEW i, NEW j, NEW m, NEW n,
           p => i \in OtherIssues /\ m \in 40..95 /\ Cause(i) = Cause(j),
           q => j \in OtherIssues /\ n \in 40..95,
           NEW s, s = If(p, Hypothesis(i, m)), NEW t, t = If(q, Hypothesis(j, n))
    PROVE  Elsewhere(s) /\ Supported(s, t)
<1>1. /\ s \in Seq(Hyps)
      /\ \A h \in Range(s) : p /\ h.issue = i /\ h.issue \in OtherIssues
  BY OneIssue
<1>2. q => \E h \in Range(t) : h.issue = j
  BY OneIssue
<1> QED BY <1>1, <1>2 DEF Elsewhere, Supported

LEMMA ReasonsGrow == ASSUME NEW b, NEW c, Knows(b, c) PROVE Reasons(c) \subseteq Reasons(b)
BY DEF Knows, Reasons

LEMMA ImagePullGrows ==
    ASSUME NEW b, NEW c, Knows(b, c)
    PROVE  Elsewhere(ImagePull(c)) /\ Supported(ImagePull(c), ImagePull(b))
<1> DEFINE Names == {"ErrImagePull", "ImagePullBackOff"}
           hit(x) == Reasons(x) \cap Names
           issue(x) == FirstOf("ErrImagePull", "ImagePullBackOff", hit(x))
           confidence(x) ==
               IF Says(x, EventsOf(x, {"Failed", "BackOff"}), NotFound \cup {"unauthorized"})
               THEN 92 ELSE 88
<1>1. \A x : issue(x) \in OtherIssues /\ Cause(issue(x)) = "ErrImagePull"
  <2>1. \A i \in Names : i \in OtherIssues /\ Cause(i) = "ErrImagePull"
    BY DEF OtherIssues, Cause
  <2>2. \A x : issue(x) \in Names
    BY DEF FirstOf
  <2> QED BY <2>1, <2>2
<1>2. \A x : confidence(x) \in 40..95
  OBVIOUS
<1>3. hit(c) # {} => hit(b) # {}
  BY ReasonsGrow
<1>4. \A x : ImagePull(x) = If(hit(x) # {}, Hypothesis(issue(x), confidence(x)))
  BY DEF ImagePull
<1> HIDE DEF issue, confidence
<1> QED BY <1>1, <1>2, <1>3, <1>4, Grows

LEMMA ConfigErrorGrows ==
    ASSUME NEW b, NEW c, Knows(b, c)
    PROVE  /\ Elsewhere(ContainerConfigError(c))
           /\ Supported(ContainerConfigError(c), ContainerConfigError(b))
<1> DEFINE Names == {"CreateContainerConfigError", "CreateContainerError"}
           hit(x) == Reasons(x) \cap Names
           issue(x) == FirstOf("CreateContainerConfigError", "CreateContainerError", hit(x))
           confidence(x) ==
               IF Says(x, {i \in DOMAIN x.events : x.events[i].warning},
                       NotFound \ {"image not found"})
               THEN 90 ELSE 85
<1>1. \A x : issue(x) \in OtherIssues /\ Cause(issue(x)) = "CreateContainerConfigError"
  <2>1. \A i \in Names : i \in OtherIssues /\ Cause(i) = "CreateContainerConfigError"
    BY DEF OtherIssues, Cause
  <2>2. \A x : issue(x) \in Names
    BY DEF FirstOf
  <2> QED BY <2>1, <2>2
<1>2. \A x : confidence(x) \in 40..95
  OBVIOUS
<1>3. hit(c) # {} => hit(b) # {}
  BY ReasonsGrow
<1>4. \A x : ContainerConfigError(x) = If(hit(x) # {}, Hypothesis(issue(x), confidence(x)))
  BY DEF ContainerConfigError
<1> HIDE DEF issue, confidence
<1> QED BY <1>1, <1>2, <1>3, <1>4, Grows

LEMMA OomGrows ==
    ASSUME NEW b, NEW c, Knows(b, c)
    PROVE  Elsewhere(OomKilled(c)) /\ Supported(OomKilled(c), OomKilled(b))
<1> DEFINE killed(x) == "OOMKilled" \in {k.lastTerm : k \in x.containers}
                                           \cup {p.lastTerm : p \in x.pods}
           issue == "OOMKilled"
           confidence(x) == IF x.memoryRising THEN 95 ELSE 90
<1>1. killed(c) => killed(b)
  BY DEF Knows
<1>2. \A x : confidence(x) \in 40..95
  OBVIOUS
<1>3. issue \in OtherIssues
  BY DEF OtherIssues
<1>4. \A x : OomKilled(x) = If(killed(x), Hypothesis(issue, confidence(x)))
  BY DEF OomKilled
<1>5. \A x : killed(x) \in BOOLEAN
  OBVIOUS
<1> HIDE DEF killed, issue, confidence
<1> QED BY <1>1, <1>2, <1>3, <1>4, <1>5, Grows

LEMMA InitGrows ==
    ASSUME NEW b, NEW c, Knows(b, c)
    PROVE  /\ Elsewhere(InitContainerFailure(c))
           /\ Supported(InitContainerFailure(c), InitContainerFailure(b))
<1> DEFINE failing(x) == x.initFailing \/ InitFailing(x)
           issue == "Init Container Failure"
           confidence(x) == IF x.initLogs # {} THEN 90 ELSE 85
<1>1. failing(c) => failing(b)
  BY DEF Knows, InitFailing
<1>2. \A x : confidence(x) \in 40..95
  OBVIOUS
<1>3. issue \in OtherIssues
  BY DEF OtherIssues
<1>4. \A x : InitContainerFailure(x)
               = If(failing(x), Hypothesis(issue, confidence(x)))
  BY DEF InitContainerFailure
<1>5. \A x : failing(x) \in BOOLEAN
  OBVIOUS
<1> HIDE DEF failing, issue, confidence
<1> QED BY <1>1, <1>2, <1>3, <1>4, <1>5, Grows

LEMMA JobGrows ==
    ASSUME NEW b, NEW c, Knows(b, c)
    PROVE  Elsewhere(JobFailure(c)) /\ Supported(JobFailure(c), JobFailure(b))
<1> DEFINE failed(x) == x.job = "failed"
           issue == "Job Failed"
           confidence(x) == IF Has(x.logs, Failure) THEN 90 ELSE 85
<1>1. failed(c) = failed(b)
  BY DEF Knows
<1>2. \A x : confidence(x) \in 40..95
  OBVIOUS
<1>3. issue \in OtherIssues
  BY DEF OtherIssues
<1>4. \A x : JobFailure(x) = If(failed(x), Hypothesis(issue, confidence(x)))
  BY DEF JobFailure
<1>5. \A x : failed(x) \in BOOLEAN
  OBVIOUS
<1> HIDE DEF failed, issue, confidence
<1> QED BY <1>1, <1>2, <1>3, <1>4, <1>5, Grows

LEMMA ProbeGrows ==
    ASSUME NEW b, NEW c, Knows(b, c)
    PROVE  Elsewhere(ProbeFailure(c)) /\ Supported(ProbeFailure(c), ProbeFailure(b))
<1> DEFINE unhealthy(x) == EventsOf(x, {"Unhealthy"})
           kind(x) == IF Says(x, unhealthy(x), {"liveness"}) THEN "Liveness Probe Failure"
                      ELSE IF Says(x, unhealthy(x), {"readiness"})
                      THEN "Readiness Probe Failure" ELSE "Probe Probe Failure"
           killed(x) == /\ \E k \in x.containers : k.liveness
                        /\ \E p \in x.pods : p.reason = "CrashLoopBackOff" \/ p.lastTerm # "none"
                        /\ ~Has(x.logs, AppError)
           warned(x) == unhealthy(x) # {}
           issue(x) == IF warned(x) THEN kind(x) ELSE "Liveness Probe Failure"
           confidence(x) == IF warned(x) THEN 78 ELSE 62
<1>1. warned(c) = warned(b) /\ kind(c) = kind(b)
  BY DEF Knows, EventsOf, Says
<1>2. killed(c) => killed(b)
  BY DEF Knows
<1>3. \A x : issue(x) \in OtherIssues /\ confidence(x) \in 40..95
  BY DEF OtherIssues
<1>4. \A x : warned(x) \in BOOLEAN /\ killed(x) \in BOOLEAN
  OBVIOUS
<1>5. \A x : ProbeFailure(x) = If(warned(x) \/ killed(x), Hypothesis(issue(x), confidence(x)))
  <2>1. SUFFICES ASSUME NEW x
                 PROVE  ProbeFailure(x) = If(warned(x) \/ killed(x),
                                             Hypothesis(issue(x), confidence(x)))
    OBVIOUS
  <2>2. ProbeFailure(x) = IF warned(x) THEN <<Hypothesis(kind(x), 78)>>
                          ELSE If(killed(x), Hypothesis("Liveness Probe Failure", 62))
    BY DEF ProbeFailure
  <2> HIDE DEF warned, killed, kind
  <2> QED BY <1>4, <2>2 DEF If
<1>6. issue(c) = issue(b)
  BY <1>1
<1> HIDE DEF warned, killed, kind, issue, confidence
<1> QED BY <1>1, <1>2, <1>3, <1>4, <1>5, <1>6, Grows

LEMMA PendingGrows ==
    ASSUME NEW b, NEW c, Knows(b, c)
    PROVE  /\ Elsewhere(PendingUnschedulable(c))
           /\ Supported(PendingUnschedulable(c), PendingUnschedulable(b))
<1> DEFINE sched(x) == EventsOf(x, {"FailedScheduling"})
           pending(x) == \E p \in x.pods : p.phase = "Pending"
           signature(x) == sched(x) # {} \/ (pending(x) /\ ~InitFailing(x))
           issue(x) == IF sched(x) # {} /\ x.events[Min(sched(x))].says = "pvc"
                       THEN "Pending Pods (PVC)" ELSE "Pending Pods"
<1>1. signature(c) = signature(b) /\ issue(c) = issue(b)
  BY DEF Knows, EventsOf, InitFailing
<1>2. \A x : issue(x) \in OtherIssues /\ signature(x) \in BOOLEAN /\ 80 \in 40..95
  BY DEF OtherIssues
<1>3. \A x : PendingUnschedulable(x) = If(signature(x), Hypothesis(issue(x), 80))
  BY DEF PendingUnschedulable
<1> HIDE DEF signature, issue
<1> QED BY <1>1, <1>2, <1>3, Grows

LEMMA EvictionGrows ==
    ASSUME NEW b, NEW c, Knows(b, c)
    PROVE  Elsewhere(StorageEviction(c)) /\ Supported(StorageEviction(c), StorageEviction(b))
<1> DEFINE evicted(x) == {p \in x.pods : p.reason = "Evicted"}
           over(x) == \E p \in evicted(x) : p.overStorage
           issue(x) == IF over(x) THEN "Pod Evicted: Ephemeral Storage" ELSE "Pod Evicted"
           confidence(x) == IF over(x) THEN 88 ELSE 80
<1>1. evicted(c) = evicted(b) /\ issue(c) = issue(b)
  BY DEF Knows
<1>2. \A x : issue(x) \in OtherIssues /\ confidence(x) \in 40..95
  BY DEF OtherIssues
<1>3. \A x : StorageEviction(x) = If(evicted(x) # {}, Hypothesis(issue(x), confidence(x)))
  BY DEF StorageEviction
<1> HIDE DEF evicted, issue, confidence
<1> QED BY <1>1, <1>2, <1>3, Grows

LEMMA HpaGrows ==
    ASSUME NEW b, NEW c, Knows(b, c)
    PROVE  Elsewhere(HpaCannotScale(c)) /\ Supported(HpaCannotScale(c), HpaCannotScale(b))
<1> DEFINE failing(x) == "failing" \in x.hpas
           issue == "HPA Cannot Scale"
<1>1. failing(c) => failing(b)
  BY DEF Knows
<1>2. issue \in OtherIssues /\ 85 \in 40..95
  BY DEF OtherIssues
<1>3. \A x : /\ failing(x) \in BOOLEAN
             /\ HpaCannotScale(x) = If(failing(x), Hypothesis(issue, 85))
  BY DEF HpaCannotScale
<1> HIDE DEF failing, issue
<1> QED BY <1>1, <1>2, <1>3, Grows

LEMMA PdbGrows ==
    ASSUME NEW b, NEW c, Knows(b, c)
    PROVE  Elsewhere(PdbBlocking(c)) /\ Supported(PdbBlocking(c), PdbBlocking(b))
<1> DEFINE blocking(x) == "blocking" \in x.pdbs
           issue == "PodDisruptionBudget Blocking"
<1>1. blocking(c) => blocking(b)
  BY DEF Knows
<1>2. issue \in OtherIssues /\ 80 \in 40..95
  BY DEF OtherIssues
<1>3. \A x : /\ blocking(x) \in BOOLEAN
             /\ PdbBlocking(x) = If(blocking(x), Hypothesis(issue, 80))
  BY DEF PdbBlocking
<1> HIDE DEF blocking, issue
<1> QED BY <1>1, <1>2, <1>3, Grows

\* Every nonempty set of naturals has a least element.
LEMMA MinIs == ASSUME NEW T \in SUBSET Nat, T # {} PROVE Min(T) \in T
<1>1. \E n \in T : \A m \in T : ~(<<m, n>> \in OpToRel(<, Nat))
  BY WFMin, NatLessThanWellFounded
<1>2. PICK n \in T : \A m \in T : ~(m < n)
  BY <1>1 DEF OpToRel
<1>3. \A m \in T : n <= m
  BY <1>2
<1> QED BY <1>3 DEF Min

LEMMA NodeGrows ==
    ASSUME NEW b, NEW c, Knows(b, c)
    PROVE  Elsewhere(NodePressure(c)) /\ Supported(NodePressure(c), NodePressure(b))
<1> DEFINE bad(x) == {i \in DOMAIN x.nodes : x.nodes[i] # "ready"}
           issue(x) == x.nodes[Min(bad(x))]
<1>1. bad(c) = {} \/ c.nodes = b.nodes
  BY DEF Knows
<1>2. bad(b) # {} => issue(b) \in OtherIssues
  <2>1. b.nodes \in Seq(NodeStates)
    BY DEF Knows
  <2>2. bad(b) \in SUBSET Nat
    BY <2>1
  <2>3. bad(b) # {} => Min(bad(b)) \in DOMAIN b.nodes
    BY <2>2, MinIs
  <2>4. \A i \in DOMAIN b.nodes : b.nodes[i] \in NodeStates
    BY <2>1
  <2> QED BY <2>3, <2>4 DEF OtherIssues
<1>3. \A x : NodePressure(x) = If(bad(x) # {}, Hypothesis(issue(x), 85))
  BY DEF NodePressure
<1>4. bad(c) # {} => bad(b) # {} /\ issue(c) = issue(b)
  BY <1>1
<1>5. 85 \in 40..95
  OBVIOUS
<1> DEFINE down(x) == bad(x) # {}
<1>6. \A x : down(x) \in BOOLEAN
  OBVIOUS
<1>7. /\ down(c) => down(b)
      /\ down(c) => issue(c) \in OtherIssues /\ Cause(issue(c)) = Cause(issue(b))
      /\ down(b) => issue(b) \in OtherIssues
      /\ \A x : NodePressure(x) = If(down(x), Hypothesis(issue(x), 85))
  BY <1>2, <1>3, <1>4
<1> HIDE DEF down, issue
<1> QED BY <1>5, <1>6, <1>7, Grows

LEMMA SidecarGrows ==
    ASSUME NEW b, NEW c, Knows(b, c)
    PROVE  /\ Elsewhere(IstioSidecarNotReady(c))
           /\ Supported(IstioSidecarNotReady(c), IstioSidecarNotReady(b))
<1> DEFINE down(x) == {k \in x.containers : k.name = "istio-proxy" /\ ~k.ready}
           rank(k) == IF k.lastTerm = "OOMKilled" THEN 91
                      ELSE IF k.waiting \in {"ImagePullBackOff", "ErrImagePull"} THEN 88
                      ELSE 80
           issue == "Istio Sidecar Not Ready"
           confidence(x) == rank(CHOOSE k \in down(x) : TRUE)
<1>1. down(c) # {} => down(b) # {}
  BY DEF Knows
<1>2. \A x : confidence(x) \in 40..95
  OBVIOUS
<1>3. issue \in OtherIssues
  BY DEF OtherIssues
<1>4. \A x : IstioSidecarNotReady(x)
               = If(down(x) # {}, Hypothesis(issue, confidence(x)))
  BY DEF IstioSidecarNotReady
<1> HIDE DEF down, issue, confidence
<1> QED BY <1>1, <1>2, <1>3, <1>4, Grows

LEMMA TlsGrows ==
    ASSUME NEW b, NEW c, Knows(b, c)
    PROVE  Elsewhere(TlsCertificate(c)) /\ Supported(TlsCertificate(c), TlsCertificate(b))
<1> DEFINE expired(x) == Has(x.logs, {"x509"})
           issue == "TLS Certificate Issue"
<1>1. expired(c) = expired(b)
  BY DEF Knows
<1>2. issue \in OtherIssues /\ 75 \in 40..95
  BY DEF OtherIssues
<1>3. \A x : /\ expired(x) \in BOOLEAN
             /\ TlsCertificate(x) = If(expired(x), Hypothesis(issue, 75))
  BY DEF TlsCertificate, Has
<1> HIDE DEF expired, issue
<1> QED BY <1>1, <1>2, <1>3, Grows

\* Where a log fails to resolve a name, DNS is found with at least 72, and a
\* crash loop with 40.
DnsFirst(s) ==
    \A h \in Range(s) : /\ h.issue = DnsIssue => h.confidence >= 72
                        /\ h.issue \in DbIssues => h.confidence = 40

\* The results s are among the results t of a context that tells more.
Sound(s, t, ctx) ==
    /\ s \in Seq(Hyps) /\ t \in Seq(Hyps)
    /\ Supported(s, t)
    /\ Has(ctx.logs, DnsOwned) => DnsFirst(s)

LEMMA SoundElsewhere ==
    ASSUME NEW ctx, NEW s, NEW t, Elsewhere(s), Elsewhere(t), Supported(s, t)
    PROVE  Sound(s, t, ctx)
<1>1. DnsIssue \notin OtherIssues /\ \A i \in DbIssues : i \notin OtherIssues
  BY DEF DnsIssue, DbIssues, OtherIssues, NodeStates
<1>2. DnsFirst(s)
  BY <1>1 DEF Elsewhere, DnsFirst
<1> QED BY <1>2 DEF Sound, Elsewhere

LEMMA SoundBoth ==
    ASSUME NEW ctx, NEW s, NEW t, NEW u, NEW v, Sound(s, u, ctx), Sound(t, v, ctx)
    PROVE  Sound(s \o t, u \o v, ctx)
<1>1. /\ s \o t \in Seq(Hyps) /\ Range(s \o t) = Range(s) \cup Range(t)
      /\ u \o v \in Seq(Hyps) /\ Range(u \o v) = Range(u) \cup Range(v)
  BY RangeOfBoth DEF Sound
<1>2. Supported(s \o t, u \o v)
  BY <1>1 DEF Sound, Supported
<1>3. Has(ctx.logs, DnsOwned) => DnsFirst(s \o t)
  BY <1>1 DEF Sound, DnsFirst
<1> QED BY <1>1, <1>2, <1>3 DEF Sound

LEMMA KnowsItself == ASSUME NEW b, NEW c, Knows(b, c) PROVE Knows(b, b)
BY DEF Knows

LEMMA CrashloopSound ==
    ASSUME NEW b, NEW c, Knows(b, c)
    PROVE  Sound(CrashloopDbConnection(c), CrashloopDbConnection(b), c)
<1>1. Crashlooping(c) => Crashlooping(b)
  <2>1. CASE "CrashLoopBackOff" \in Reasons(c)
    BY <2>1, ReasonsGrow DEF Crashlooping
  <2>2. CASE \E k \in c.containers : k.restarts >= 3 /\ k.lastTerm = "Error"
    BY <2>2 DEF Crashlooping, Knows
  <2> QED BY <2>1, <2>2 DEF Crashlooping
<1>2. DbConnection(c).issue = DbConnection(b).issue
  <2>1. c.logs = b.logs /\ MissingDependency(c) = MissingDependency(b)
    BY DEF Knows, MissingDependency
  <2>2. \A n : Hypothesis("CrashLoopBackOff", n).issue = "CrashLoopBackOff"
    BY DEF Hypothesis
  <2>3. \A x : DbConnection(x).issue =
                  IF ~Has(x.logs, DnsOwned) /\ ~Has(x.logs, Auth) /\ Has(x.logs, Reach)
                     /\ MissingDependency(x)
                  THEN Hypothesis("CrashLoopBackOff (missing dependency)", 88).issue
                  ELSE "CrashLoopBackOff"
    BY <2>2 DEF DbConnection
  <2> QED BY <2>1, <2>3
<1>3. Supported(CrashloopDbConnection(c), CrashloopDbConnection(b))
  BY <1>1, <1>2, CrashloopIs DEF Supported
<1>4. Has(c.logs, DnsOwned) => DnsFirst(CrashloopDbConnection(c))
  <2>1. DnsIssue \notin DbIssues
    BY DEF DnsIssue, DbIssues
  <2> QED BY <2>1, CrashloopIs DEF DnsFirst
<1> QED BY <1>3, <1>4, CrashloopIs DEF Sound

LEMMA DnsSound ==
    ASSUME NEW b, NEW c, Knows(b, c)
    PROVE  Sound(DnsFailure(c), DnsFailure(b), c)
<1> DEFINE failing(x) == Has(x.logs, DnsStrong \cup DnsWeak)
           confidence(x) == IF Has(x.logs, DnsStrong) THEN 85 ELSE 72
           g(x) == Hypothesis(DnsIssue, confidence(x))
<1>1. failing(c) = failing(b)
  BY DEF Knows
<1>2. \A x : failing(x) \in BOOLEAN /\ DnsFailure(x) = If(failing(x), g(x))
  BY DEF DnsFailure, DnsIssue, Has
<1>3. \A x : confidence(x) \in 40..95 /\ confidence(x) >= 72
  OBVIOUS
<1>4. DnsIssue \in Issues /\ DnsIssue \notin DbIssues
  BY DEF Issues, DnsIssue, DbIssues
<1> HIDE DEF failing, confidence
<1>5. \A x : g(x) \in Hyps /\ g(x).issue = DnsIssue /\ g(x).confidence >= 72
  BY <1>3, <1>4, HypothesisIs
<1> HIDE DEF g
<1>6. \A x : /\ DnsFailure(x) \in Seq(Hyps)
             /\ Range(DnsFailure(x)) = IF failing(x) THEN {g(x)} ELSE {}
  BY <1>2, <1>5, IfIs
<1>7. Supported(DnsFailure(c), DnsFailure(b))
  BY <1>1, <1>5, <1>6 DEF Supported
<1>8. DnsFirst(DnsFailure(c))
  BY <1>4, <1>5, <1>6 DEF DnsFirst
<1> QED BY <1>6, <1>7, <1>8 DEF Sound

\* Every detector, and so all of them in their order.
LEMMA FoundSound ==
    ASSUME NEW b, NEW c, Knows(b, c)
    PROVE  Sound(Found(c), Found(b), c)
<1>1. Knows(b, b)
  BY KnowsItself
<1> DEFINE f1(x) == CrashloopDbConnection(x)
           f2(x) == f1(x) \o ImagePull(x)
           f3(x) == f2(x) \o ContainerConfigError(x)
           f4(x) == f3(x) \o OomKilled(x)
           f5(x) == f4(x) \o InitContainerFailure(x)
           f6(x) == f5(x) \o JobFailure(x)
           f7(x) == f6(x) \o ProbeFailure(x)
           f8(x) == f7(x) \o PendingUnschedulable(x)
           f9(x) == f8(x) \o StorageEviction(x)
           f10(x) == f9(x) \o HpaCannotScale(x)
           f11(x) == f10(x) \o PdbBlocking(x)
           f12(x) == f11(x) \o NodePressure(x)
           f13(x) == f12(x) \o IstioSidecarNotReady(x)
           f14(x) == f13(x) \o TlsCertificate(x)
           f15(x) == f14(x) \o DnsFailure(x)
<1>2. Sound(f1(c), f1(b), c)
  BY CrashloopSound
<1>3. Sound(f2(c), f2(b), c)
  BY <1>1, <1>2, ImagePullGrows, SoundElsewhere, SoundBoth
<1>4. Sound(f3(c), f3(b), c)
  BY <1>1, <1>3, ConfigErrorGrows, SoundElsewhere, SoundBoth
<1>5. Sound(f4(c), f4(b), c)
  BY <1>1, <1>4, OomGrows, SoundElsewhere, SoundBoth
<1>6. Sound(f5(c), f5(b), c)
  BY <1>1, <1>5, InitGrows, SoundElsewhere, SoundBoth
<1>7. Sound(f6(c), f6(b), c)
  BY <1>1, <1>6, JobGrows, SoundElsewhere, SoundBoth
<1>8. Sound(f7(c), f7(b), c)
  BY <1>1, <1>7, ProbeGrows, SoundElsewhere, SoundBoth
<1>9. Sound(f8(c), f8(b), c)
  BY <1>1, <1>8, PendingGrows, SoundElsewhere, SoundBoth
<1>10. Sound(f9(c), f9(b), c)
  BY <1>1, <1>9, EvictionGrows, SoundElsewhere, SoundBoth
<1>11. Sound(f10(c), f10(b), c)
  BY <1>1, <1>10, HpaGrows, SoundElsewhere, SoundBoth
<1>12. Sound(f11(c), f11(b), c)
  BY <1>1, <1>11, PdbGrows, SoundElsewhere, SoundBoth
<1>13. Sound(f12(c), f12(b), c)
  BY <1>1, <1>12, NodeGrows, SoundElsewhere, SoundBoth
<1>14. Sound(f13(c), f13(b), c)
  BY <1>1, <1>13, SidecarGrows, SoundElsewhere, SoundBoth
<1>15. Sound(f14(c), f14(b), c)
  BY <1>1, <1>14, TlsGrows, SoundElsewhere, SoundBoth
<1>16. Sound(f15(c), f15(b), c)
  BY <1>15, DnsSound, SoundBoth
<1> QED BY <1>16 DEF Found

-----------------------------------------------------------------------------
(* What evaluate() makes of them.                                          *)

Typed(ctx) == ctx.nodes \in Seq(NodeStates) /\ ctx.initFailing \in BOOLEAN

LEMMA FoundTyped ==
    ASSUME NEW ctx, Typed(ctx)
    PROVE  Found(ctx) \in Seq(Hyps) /\ (Has(ctx.logs, DnsOwned) => DnsFirst(Found(ctx)))
<1>1. Knows(ctx, ctx)
  BY DEF Knows, Typed
<1> QED BY <1>1, FoundSound DEF Sound

\* evaluate() is a stable sort: it keeps every hypothesis found, the more confident
\* before the less, and those of equal confidence in the order of registration.
THEOREM EvaluateRanks ==
    ASSUME NEW ctx, Typed(ctx)
    PROVE  \E place \in Bijection(DOMAIN Found(ctx), DOMAIN Evaluate(ctx)) :
              /\ \A i \in DOMAIN Found(ctx) : Evaluate(ctx)[place[i]] = Found(ctx)[i]
              /\ \A i, j \in DOMAIN Found(ctx) :
                    \/ Found(ctx)[i].confidence > Found(ctx)[j].confidence
                    \/ Found(ctx)[i].confidence = Found(ctx)[j].confidence /\ i < j
                    => place[i] < place[j]
<1> DEFINE found == Found(ctx)
           n == Len(found)
           place == [i \in 1..n |-> Place(found, i)]
<1>1. /\ n \in Nat /\ DOMAIN found = 1..n
      /\ \A i \in 1..n : found[i].confidence \in Nat
  <2>1. found \in Seq(Hyps)
    BY FoundTyped
  <2>2. \A h \in Hyps : h.confidence \in Nat
    BY DEF Hyps
  <2> HIDE DEF found
  <2> QED BY <2>1, <2>2
<1> HIDE DEF found, n
<1>2. /\ DOMAIN Evaluate(ctx) = 1..n
      /\ \A i \in 1..n : /\ Place(found, i) \in 1..n
                         /\ Evaluate(ctx)[Place(found, i)] = found[i]
      /\ \A k \in 1..n : \E i \in 1..n : Place(found, i) = k
      /\ \A i, j \in 1..n : j \in Ahead(found, i) => Place(found, j) < Place(found, i)
  BY <1>1, Ranked DEF found
<1>3. \A i, j \in 1..n : Place(found, i) = Place(found, j) => i = j
  BY <1>1, PlacesAre
<1>4. place \in [1..n -> 1..n] /\ \A i \in 1..n : place[i] = Place(found, i)
  BY <1>2
<1> HIDE DEF place
<1>5. place \in Injection(1..n, 1..n)
  BY <1>3, <1>4 DEF Injection, IsInjective
<1>6. place \in Surjection(1..n, 1..n)
  BY <1>2, <1>4 DEF Surjection
<1>7. place \in Bijection(DOMAIN found, DOMAIN Evaluate(ctx))
  BY <1>1, <1>2, <1>5, <1>6 DEF Bijection
<1>8. \A i \in 1..n : Evaluate(ctx)[place[i]] = found[i]
  BY <1>2, <1>4
<1>9. \A i, j \in 1..n : \/ found[i].confidence > found[j].confidence
                         \/ found[i].confidence = found[j].confidence /\ i < j
                         => place[i] < place[j]
  BY <1>1, <1>2, <1>4 DEF Ahead
<1> QED BY <1>1, <1>7, <1>8, <1>9 DEF found

LEMMA EvaluateIs ==
    ASSUME NEW ctx, Typed(ctx)
    PROVE  /\ Evaluate(ctx) \in Seq(Hyps)
           /\ Range(Evaluate(ctx)) = Range(Found(ctx))
           /\ \A i, j \in DOMAIN Evaluate(ctx) :
                 Evaluate(ctx)[i].confidence > Evaluate(ctx)[j].confidence => i < j
<1> DEFINE found == Found(ctx)
           hs == Evaluate(ctx)
<1>1. found \in Seq(Hyps)
  BY FoundTyped
<1>2. PICK place \in Bijection(DOMAIN found, DOMAIN hs) :
              /\ \A i \in DOMAIN found : hs[place[i]] = found[i]
              /\ \A i, j \in DOMAIN found :
                    \/ found[i].confidence > found[j].confidence
                    \/ found[i].confidence = found[j].confidence /\ i < j
                    => place[i] < place[j]
  BY EvaluateRanks
<1>3. /\ place \in [DOMAIN found -> DOMAIN hs]
      /\ \A k \in DOMAIN hs : \E i \in DOMAIN found : place[i] = k
  BY <1>2 DEF Bijection, Surjection, Injection
<1>4. PICK n \in Nat : DOMAIN found = 1..n /\ DOMAIN hs = 1..n
  <2>1. /\ Len(found) \in Nat /\ DOMAIN found = 1..Len(found)
        /\ \A i \in DOMAIN found : found[i].confidence \in Nat
    <3>1. \A h \in Hyps : h.confidence \in Nat
      BY DEF Hyps
    <3> HIDE DEF found
    <3> QED BY <1>1, <3>1
  <2>2. DOMAIN hs = 1..Len(found)
    BY <2>1, Ranked
  <2> QED BY <2>1, <2>2
<1>5. hs = [k \in DOMAIN hs |-> hs[k]]
  BY DEF Evaluate
<1> HIDE DEF found, hs
<1>6. \A k \in DOMAIN hs : hs[k] \in Hyps
  BY <1>1, <1>2, <1>3
<1>7. hs \in Seq(Hyps)
  BY <1>4, <1>5, <1>6
<1>8. Range(hs) = Range(found)
  BY <1>2, <1>3 DEF Range
<1>9. ASSUME NEW i \in DOMAIN hs, NEW j \in DOMAIN hs, hs[i].confidence > hs[j].confidence
      PROVE  i < j
  <2>1. PICK k \in DOMAIN found : place[k] = i
    BY <1>3
  <2>2. PICK l \in DOMAIN found : place[l] = j
    BY <1>3
  <2>3. found[k].confidence > found[l].confidence
    BY <1>2, <1>9, <2>1, <2>2
  <2> QED BY <1>2, <2>1, <2>2, <2>3
<1> QED BY <1>7, <1>8, <1>9 DEF found, hs

-----------------------------------------------------------------------------
(* The inductive invariant.                                                *)

Resolving == pc \in Resolution \cup {"list"}

StatesOK ==
    /\ world \in Worlds
    /\ live \in {{Subject}, {OldPod}, {NewPod}}
    /\ pc \in Resolution \cup {"list", "read", "analyze", "done", "aborted"}
    /\ podNames \subseteq OwnPods \cup {OtherPod} /\ pods \subseteq podNames
    /\ selects \in BOOLEAN /\ job \in {"none", "ok", "failed"}
    /\ target \in podNames \cup {<<>>}
    /\ denied \subseteq FanOut \cup PodReads

\* A workload that selects by labels resolves to its own pods.
NamesScoped == world.labelled => podNames \subseteq OwnPods

\* Nothing is read before it is resolved what to read.
Ordered ==
    /\ Resolving => pods = {} /\ target = <<>>
    /\ Resolving \/ pc = "read" => denied = {}
    /\ pc # "done" => report = NoReport

Noted == degraded = denied \ Swallowed

\* The report is the one the reads that succeeded call for.
Reported == pc = "done" => \E rag \in BOOLEAN : report = ReportOf(Hypotheses(denied), rag)

DiagnoseInv ==
    StatesOK /\ NamesScoped /\ Ordered /\ Noted /\ Reported /\ DenialsNeverAbort

LEMMA DiagnoseStart == Init => DiagnoseInv
<1> SUFFICES ASSUME Init PROVE DiagnoseInv
  OBVIOUS
<1>1. StatesOK
  BY DEF Init, StatesOK, Resolution
<1>2. pc \notin {"done", "aborted"}
  BY DEF Init
<1> QED BY <1>1, <1>2 DEF Init, DiagnoseInv, NamesScoped, Ordered, Noted, Reported,
                          DenialsNeverAbort

\* The context depends on what the diagnosis has read, not on the pod's replacement.
LEMMA SameReport ==
    ASSUME UNCHANGED <<world, podNames, selects, job, pods, target, denied, degraded>>
    PROVE  /\ ContextWithout(denied)' = ContextWithout(denied)
           /\ \A rag : ReportOf(Hypotheses(denied), rag)' = ReportOf(Hypotheses(denied), rag)
           /\ BadSelector' = BadSelector
<1>1. ContextWithout(denied)' = ContextWithout(denied)
  BY DEF ContextWithout, EventsRead, Relevant, LogRead, NodesRead, PodEntry, State
<1>2. Hypotheses(denied)' = Hypotheses(denied)
  BY <1>1 DEF Hypotheses
<1>3. \A rag : ReportOf(Hypotheses(denied), rag)' = ReportOf(Hypotheses(denied), rag)
  BY <1>2 DEF ReportOf, NoSignature
<1> QED BY <1>1, <1>3 DEF BadSelector

LEMMA DiagnoseStep == DiagnoseInv /\ [Next]_vars => DiagnoseInv'
<1> SUFFICES ASSUME DiagnoseInv, [Next]_vars PROVE DiagnoseInv'
  OBVIOUS
<1> USE DEF DiagnoseInv
<1>1. CASE NotRead
  <2>1. pc' \in Resolution \cup {"list"} /\ pc \in Resolution
    BY <1>1 DEF NotRead, Resolution, NextKind
  <2>2. StatesOK'
    BY <1>1, <2>1 DEF NotRead, StatesOK
  <2> QED BY <1>1, <2>1, <2>2 DEF NotRead, NamesScoped, Ordered, Resolving, Noted, Reported,
                                  DenialsNeverAbort, Resolution
<1>2. CASE ReadPod
  <2>1. StatesOK'
    BY <1>2 DEF ReadPod, StatesOK, OwnPods, Ordered, Resolving, Resolution
  <2>2. podNames' \subseteq OwnPods
    BY <1>2 DEF ReadPod, OwnPods
  <2> QED BY <1>2, <2>1, <2>2 DEF ReadPod, NamesScoped, Ordered, Resolving, Noted, Reported,
                                  DenialsNeverAbort, Resolution
<1>3. CASE ReadWorkload
  <2>1. /\ pc \in Resolution /\ pc' \in Resolution \cup {"list"}
        /\ podNames' \in {podNames, Selected(world.labelled)}
        /\ selects' = world.labelled
        /\ UNCHANGED <<world, live, job, pods, target, denied, degraded, report>>
    BY <1>3 DEF ReadWorkload, Resolution, NextKind
  <2>2. world.labelled \in BOOLEAN
    BY DiagnoseAssumption DEF DiagnoseAssumption, StatesOK
  <2>3. live \subseteq OwnPods
    BY DEF StatesOK, OwnPods
  <2>4. /\ podNames' \subseteq OwnPods \cup {OtherPod}
        /\ world.labelled => podNames' \subseteq OwnPods
    BY <2>1, <2>2, <2>3 DEF Selected, StatesOK, NamesScoped
  <2>5. pods = {} /\ target = <<>>
    BY <2>1 DEF Ordered, Resolving
  <2>6. StatesOK'
    BY <2>1, <2>2, <2>4, <2>5 DEF StatesOK
  <2> QED BY <2>1, <2>4, <2>6 DEF NamesScoped, Ordered, Resolving, Noted, Reported,
                                  DenialsNeverAbort, Resolution
<1>4. CASE ReadJob
  <2>1. world.job \in {"none", "ok", "failed"} /\ live \subseteq OwnPods
    BY DiagnoseAssumption DEF DiagnoseAssumption, StatesOK, OwnPods
  <2>2. /\ podNames' \subseteq OwnPods \cup {OtherPod}
        /\ world.labelled => podNames' \subseteq OwnPods
    BY <1>4, <2>1 DEF ReadJob, StatesOK, NamesScoped
  <2>3. Resolving /\ pods = {} /\ target = <<>>
    BY <1>4 DEF ReadJob, Ordered, Resolving, Resolution
  <2>4. StatesOK'
    BY <1>4, <2>1, <2>2, <2>3 DEF ReadJob, StatesOK
  <2> QED BY <1>4, <2>2, <2>3, <2>4 DEF ReadJob, NamesScoped, Ordered, Resolving, Noted,
                                        Reported, DenialsNeverAbort, Resolution
<1>5. CASE ListPods
  <2>1. StatesOK'
    BY <1>5 DEF ListPods, StatesOK
  <2> QED BY <1>5, <2>1 DEF ListPods, NamesScoped, Ordered, Resolving, Noted, Reported,
                            DenialsNeverAbort, Resolution
<1>6. CASE ListFails
  <2>1. StatesOK'
    BY <1>6 DEF ListFails, StatesOK
  <2>2. denied' = {}
    BY <1>6 DEF ListFails, Ordered, Resolving
  <2> QED BY <1>6, <2>1, <2>2 DEF ListFails, NamesScoped, Ordered, Resolving, Noted, Reported,
                                  DenialsNeverAbort, Resolution
<1>7. CASE Read
  <2>1. denied' \subseteq FanOut \cup PodReads
    BY <1>7 DEF Read, Denials, Futures, Gone
  <2>2. StatesOK'
    BY <1>7, <2>1 DEF Read, StatesOK
  <2> QED BY <1>7, <2>2 DEF Read, NamesScoped, Ordered, Resolving, Noted, Reported,
                            DenialsNeverAbort, Resolution
<1>8. CASE Analyze
  <2>1. PICK rag \in BOOLEAN : report' = ReportOf(Hypotheses(denied), rag)
    BY <1>8 DEF Analyze, Hypotheses
  <2>2. UNCHANGED <<world, podNames, selects, job, pods, target, denied, degraded>>
    BY <1>8 DEF Analyze
  <2>3. report' = ReportOf(Hypotheses(denied), rag)'
    BY <2>1, <2>2, SameReport
  <2>4. StatesOK'
    BY <1>8 DEF Analyze, StatesOK
  <2>5. Reported'
    BY <2>3 DEF Reported
  <2> QED BY <1>8, <2>4, <2>5 DEF Analyze, NamesScoped, Ordered, Resolving, Noted,
                                  DenialsNeverAbort, Resolution
<1>9. CASE AnalyzeRaises
  <2>1. BadSelector'
    BY <1>9, SameReport DEF AnalyzeRaises
  <2>2. StatesOK'
    BY <1>9 DEF AnalyzeRaises, StatesOK
  <2> QED BY <1>9, <2>1, <2>2 DEF AnalyzeRaises, NamesScoped, Ordered, Resolving, Noted,
                                  Reported, DenialsNeverAbort, Resolution
<1>10. CASE Replace
  <2>1. UNCHANGED <<world, podNames, selects, job, pods, target, denied, degraded>>
    BY <1>10 DEF Replace
  <2>2. BadSelector' = BadSelector
    BY <2>1, SameReport
  <2>3. StatesOK'
    BY <1>10 DEF Replace, StatesOK
  <2> QED BY <1>10, <2>2, <2>3 DEF Replace, NamesScoped, Ordered, Resolving, Noted,
                                   Reported, DenialsNeverAbort
<1>11. CASE UNCHANGED vars
  <2>1. UNCHANGED <<world, podNames, selects, job, pods, target, denied, degraded>>
    BY <1>11 DEF vars
  <2>2. BadSelector' = BadSelector /\ \A rag : ReportOf(Hypotheses(denied), rag)'
                                               = ReportOf(Hypotheses(denied), rag)
    BY <2>1, SameReport
  <2>3. Reported'
    BY <1>11, <2>2 DEF vars, Reported
  <2> QED BY <1>11, <2>2, <2>3 DEF vars, StatesOK, NamesScoped, Ordered, Resolving, Noted,
                                   DenialsNeverAbort
<1> QED BY <1>1, <1>2, <1>3, <1>4, <1>5, <1>6, <1>7, <1>8, <1>9, <1>10, <1>11 DEF Next

\* At any moment of a diagnosis: what it holds is of the subject, nothing is read
\* before its turn, each failure is noted and the report is the one called for.
THEOREM DiagnoseInvariance == Spec => []DiagnoseInv
BY DiagnoseStart, DiagnoseStep, PTL DEF Spec

-----------------------------------------------------------------------------
(* The properties.                                                         *)

LEMMA ContextTyped == ASSUME DiagnoseInv, NEW d PROVE Typed(ContextWithout(d))
<1>1. world.nodes \in Seq(NodeStates)
  BY DiagnoseAssumption DEF DiagnoseAssumption, DiagnoseInv, StatesOK
<1>2. NodesRead(d) \in Seq(NodeStates)
  BY <1>1 DEF NodesRead
<1>3. ContextWithout(d).nodes = NodesRead(d) /\ ContextWithout(d).initFailing \in BOOLEAN
  BY DEF ContextWithout
<1> QED BY <1>2, <1>3 DEF Typed

\* Other reads than those of services, events and logs only add to a context.
LEMMA PartialKnows ==
    ASSUME DiagnoseInv, NEW d, d \cap ({"services", "events"} \cup Swallowed) = {}
    PROVE  Knows(ContextWithout({}), ContextWithout(d))
<1> DEFINE b == ContextWithout({})
           c == ContextWithout(d)
<1>1. "services" \notin d /\ "events" \notin d /\ "logs" \notin d /\ "previous_logs" \notin d
  BY DEF Swallowed
<1>2. c.pods = b.pods /\ c.dbHost = b.dbHost /\ c.job = b.job
  BY DEF ContextWithout
<1>3. c.events = b.events
  BY <1>1 DEF ContextWithout, EventsRead
<1>4. c.logs = b.logs
  BY <1>1 DEF ContextWithout, LogRead
<1>5. c.services = b.services
  BY <1>1 DEF ContextWithout
<1>6. c.containers \subseteq b.containers /\ (c.initFailing => b.initFailing)
  BY DEF ContextWithout
<1>7. c.nodes = <<>> \/ c.nodes = b.nodes
  BY DEF ContextWithout, NodesRead
<1>8. c.hpas \subseteq b.hpas /\ c.pdbs \subseteq b.pdbs
  BY DEF ContextWithout
<1>9. Typed(b) /\ Typed(c)
  BY ContextTyped
<1> QED BY <1>2, <1>3, <1>4, <1>5, <1>6, <1>7, <1>8, <1>9 DEF Knows, Typed

LEMMA CausesAre ==
    ASSUME DiagnoseInv, NEW d
    PROVE  Causes(d) = {Cause(h.issue) : h \in Range(Found(ContextWithout(d)))}
<1>1. Range(Hypotheses(d)) = Range(Found(ContextWithout(d)))
  BY ContextTyped, EvaluateIs DEF Hypotheses
<1>2. Causes(d) = {Cause(h.issue) : h \in Range(Hypotheses(d))}
  BY DEF Causes, Range
<1> QED BY <1>1, <1>2

LEMMA PartialCauses ==
    ASSUME DiagnoseInv, denied \cap ({"services", "events"} \cup Swallowed) = {}
    PROVE  Causes(denied) \subseteq Causes({})
<1>1. Supported(Found(ContextWithout(denied)), Found(ContextWithout({})))
  BY PartialKnows, FoundSound DEF Sound
<1> QED BY <1>1, CausesAre DEF Supported

\* The report is about the first hypothesis, if there is one.
LEMMA ReportIs ==
    ASSUME DiagnoseInv, pc = "done"
    PROVE  /\ report.noted = degraded
           /\ report.confidence \in 20..97 /\ Len(report.alternatives) <= 3
           /\ \/ report.issue = NoSignature.issue
              \/ Cause(report.issue) \in Causes(denied)
<1> DEFINE hs == Hypotheses(denied)
<1>1. PICK rag \in BOOLEAN : report = ReportOf(hs, rag)
  BY DEF DiagnoseInv, Reported
<1>2. hs \in Seq(Hyps)
  BY ContextTyped, EvaluateIs DEF Hypotheses
<1>3. Causes(denied) = {Cause(hs[i].issue) : i \in DOMAIN hs}
  BY DEF Causes
<1> HIDE DEF hs
<1>4. CASE hs = <<>>
  <2>1. report = NoSignature
    BY <1>1, <1>4 DEF ReportOf
  <2>2. /\ NoSignature.issue = NoSignature.issue /\ NoSignature.noted = degraded
        /\ NoSignature.confidence = 20 /\ NoSignature.alternatives = <<>>
    BY DEF NoSignature
  <2>3. Len(<<>>) <= 3 /\ 20 \in 20..97
    OBVIOUS
  <2> QED BY <2>1, <2>2, <2>3
<1>5. CASE hs # <<>>
  <2>1. /\ report.issue = hs[1].issue /\ report.noted = degraded
        /\ report.alternatives = SubSeq(hs, 2, IF Len(hs) < 4 THEN Len(hs) ELSE 4)
        /\ report.confidence \in {hs[1].confidence, AtMost(97, hs[1].confidence + 3)}
    BY <1>1, <1>2, <1>5 DEF ReportOf
  <2>2. 1 \in DOMAIN hs /\ hs[1] \in Hyps /\ Len(hs) \in Nat
    BY <1>2, <1>5
  <2>3. hs[1].confidence \in 40..95
    BY <2>2 DEF Hyps
  <2>4. AtMost(97, hs[1].confidence + 3) \in 20..97
    BY <2>3 DEF AtMost
  <2>5. report.confidence \in 20..97
    <3>1. hs[1].confidence \in 20..97
      BY <2>3
    <3> QED BY <2>1, <2>4, <3>1
  <2>6. Len(report.alternatives) <= 3
    <3> DEFINE m == IF Len(hs) < 4 THEN Len(hs) ELSE 4
    <3>1. m \in 0..4
      <4>1. \A l \in Nat : (IF l < 4 THEN l ELSE 4) \in 0..4
        OBVIOUS
      <4> QED BY <2>2, <4>1
    <3> HIDE DEF m
    <3>2. Len(SubSeq(hs, 2, m)) = IF 2 <= m THEN m - 1 ELSE 0
      BY <1>2, <3>1
    <3> QED BY <2>1, <3>1, <3>2 DEF m
  <2>7. Cause(report.issue) \in Causes(denied)
    BY <1>3, <2>1, <2>2
  <2> QED BY <2>1, <2>5, <2>6, <2>7
<1> QED BY <1>4, <1>5

LEMMA DiagnoseTyped == ASSUME DiagnoseInv PROVE TypeOK
<1>1. degraded \subseteq FanOut \cup {"describe"}
  BY DEF DiagnoseInv, StatesOK, Noted, PodReads, Swallowed
<1>2. ASSUME report # NoReport PROVE report.confidence \in 20..97 /\ Len(report.alternatives) <= 3
  <2>1. pc = "done"
    BY <1>2 DEF DiagnoseInv, Ordered
  <2> QED BY <2>1, ReportIs
<1> QED BY <1>1, <1>2 DEF TypeOK, DiagnoseInv, StatesOK

LEMMA EventsScoped == ASSUME DiagnoseInv PROVE ScopedEvents
<1> SUFFICES ASSUME NEW e \in Range(ContextWithout(denied).events)
             PROVE  \/ e.object \in OwnObjects \cup podNames
                    \/ \E p \in podNames : IsProperPrefix(e.object, p)
  BY DEF ScopedEvents
<1>1. ContextWithout(denied).events = EventsRead(denied)
  BY DEF ContextWithout
<1>2. Relevant(e.object, podNames)
  <2>1. CASE "events" \in denied
    BY <1>1, <2>1 DEF EventsRead, Range
  <2>2. CASE "events" \notin denied
    <3> DEFINE kept == {i \in DOMAIN world.events : Relevant(world.events[i].object, podNames)}
    <3>1. EventsRead(denied) = [i \in kept |-> world.events[i]]
      BY <2>2 DEF EventsRead, Restrict
    <3>2. PICK i \in kept : e = world.events[i]
      BY <1>1, <3>1 DEF Range
    <3> QED BY <3>2
  <2> QED BY <2>1, <2>2
<1> QED BY <1>2 DEF Relevant, OwnObjects, OwnPods

LEMMA Owned == ASSUME DiagnoseInv PROVE UnsupportedIsNoted
<1> SUFFICES ASSUME pc = "done", Cause(report.issue) \notin Causes({}) \cup {NoSignature.issue},
                    report.noted \cap {"services", "events"} = {}, denied \cap Swallowed = {}
             PROVE  FALSE
  BY DEF UnsupportedIsNoted
<1>1. Cause(NoSignature.issue) = NoSignature.issue
  BY DEF Cause, NoSignature
<1>2. Cause(report.issue) \in Causes(denied) /\ report.noted = degraded
  BY <1>1, ReportIs
<1>3. denied \cap ({"services", "events"} \cup Swallowed) = {}
  BY <1>2 DEF DiagnoseInv, Noted
<1> QED BY <1>2, <1>3, PartialCauses

\* Of the hypotheses of a context, DNS comes before the database.
LEMMA DnsRanks ==
    ASSUME NEW ctx, Typed(ctx), Has(ctx.logs, DnsOwned),
           NEW hs, hs = Evaluate(ctx), NEW i \in DOMAIN hs, NEW j \in DOMAIN hs,
           hs[i].issue = DnsIssue, hs[j].issue \in DbIssues
    PROVE  i < j
<1>1. hs \in Seq(Hyps) /\ Range(hs) = Range(Found(ctx))
  BY EvaluateIs
<1>2. hs[i] \in Range(Found(ctx)) /\ hs[j] \in Range(Found(ctx))
  BY <1>1 DEF Range
<1>3. DnsFirst(Found(ctx))
  BY FoundTyped
<1>4. hs[i].confidence >= 72 /\ hs[j].confidence = 40
  <2>1. \A h \in Range(Found(ctx)) : h.issue = DnsIssue => h.confidence >= 72
    BY <1>3 DEF DnsFirst
  <2>2. \A h \in Range(Found(ctx)) : h.issue \in DbIssues => h.confidence = 40
    BY <1>3 DEF DnsFirst
  <2> QED BY <1>2, <2>1, <2>2
<1>5. hs[i] \in Hyps
  BY <1>1
<1>6. hs[i].confidence \in 40..95
  BY <1>5 DEF Hyps
<1>7. hs[i].confidence > hs[j].confidence
  BY <1>4, <1>6
<1> QED BY <1>7, EvaluateIs

LEMMA DnsAhead == ASSUME DiagnoseInv PROVE DnsBeforeDatabase
<1> DEFINE ctx == ContextWithout(denied)
           hs == Hypotheses(denied)
<1>1. Typed(ctx) /\ hs = Evaluate(ctx)
  BY ContextTyped DEF Hypotheses
<1>2. ctx.logs \cap {"noSuchHost", "tempFailure"} # {} => Has(ctx.logs, DnsOwned)
  BY DEF Has, DnsOwned
<1> HIDE DEF ctx, hs
<1>3. ctx.logs \cap {"noSuchHost", "tempFailure"} # {} =>
          \A i, j \in DOMAIN hs : hs[i].issue = DnsIssue /\ hs[j].issue \in DbIssues => i < j
  BY <1>1, <1>2, DnsRanks
<1> QED BY <1>3 DEF DnsBeforeDatabase, DnsIssue, DbIssues, ctx, hs

\* The diagnosis keeps its types, and holds none but its subject's pods and the
\* one other pod of the namespace (engine.py:84-153).
THEOREM DiagnoseTypeCorrect == Spec => []TypeOK
BY DiagnoseInvariance, DiagnoseTyped, PTL

\* ScopedPods: the diagnosis is about the subject's pods only, whatever fails or moves
\* on the way to them.
THEOREM PodsAreScoped == Spec => []ScopedPods
<1>1. DiagnoseInv => ScopedPods
  BY DEF DiagnoseInv, StatesOK, NamesScoped, ScopedPods
<1> QED BY <1>1, DiagnoseInvariance, PTL

\* ScopedEvents: events of other objects do not reach the detectors.
THEOREM EventsAreScoped == Spec => []ScopedEvents
BY DiagnoseInvariance, EventsScoped, PTL

\* DenialsNeverAbort: no refused or failed read of the fan-out ends the diagnosis,
\* but for a PDB whose selector is null.
THEOREM DenialsGoOn == Spec => []DenialsNeverAbort
<1>1. DiagnoseInv => DenialsNeverAbort
  BY DEF DiagnoseInv
<1> QED BY <1>1, DiagnoseInvariance, PTL

\* DenialsOnlyRemove: a refused read of nodes, secrets, HPAs, PDBs or the pod's
\* description adds no cause to those the complete reads support.
THEOREM PartialKnowsLess == Spec => []DenialsOnlyRemove
<1>1. DiagnoseInv => DenialsOnlyRemove
  BY PartialCauses DEF DenialsOnlyRemove
<1> QED BY <1>1, DiagnoseInvariance, PTL

\* UnsupportedIsNoted: what is reported without the support of the complete reads is
\* owned to, unless it rests on a log that could not be read.
THEOREM UnsupportedOwned == Spec => []UnsupportedIsNoted
BY DiagnoseInvariance, Owned, PTL

\* DnsBeforeDatabase: a crash loop whose log has a phrase for a failed resolution that
\* crashloop_db_connection yields to is put down to DNS before it is to the database.
THEOREM DnsComesFirst == Spec => []DnsBeforeDatabase
BY DiagnoseInvariance, DnsAhead, PTL

=============================================================================
