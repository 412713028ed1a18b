--------------------------- MODULE IncidentProofs ---------------------------
(***************************************************************************)
(* What change correlation answers at any moment of any incident, however  *)
(* long, with any Secrets, revisions, pods and releases: never a change    *)
(* made after a crashing pod began to fail, if the first pod had started   *)
(* by then; always the closest one before the anchor; and the release live *)
(* before it as the rollback target.                                       *)
(***************************************************************************)
EXTENDS Incident, FiniteSetTheorems, WellFoundedInduction, TLAPS

StatesOK ==
    /\ clock \in 0..MaxTime
    /\ syncs \in Seq(Changes("sync")) /\ deploys \in Seq(Changes("deploy"))
    /\ rotated \in [Secrets -> 0..MaxTime]
    /\ live \in SUBSET Pods /\ crashed \in SUBSET live /\ resolved \in SUBSET Pods
    /\ podStart \in [Pods -> 0..MaxTime \cup {Never}]
    /\ began \in [Pods -> 0..MaxTime \cup {Never}]
    /\ events \in [Pods -> [Reasons -> 0..MaxTime \cup {Never}]]

\* Nothing recorded lies in the future.
Past ==
    /\ \A i \in DOMAIN syncs : syncs[i].t <= clock
    /\ \A i \in DOMAIN deploys : deploys[i].t <= clock
    /\ \A s \in Secrets : rotated[s] <= clock
    /\ \A p \in Pods : podStart[p] <= clock
    /\ \A p \in Pods, r \in Reasons : events[p][r] <= clock

\* A pod that has crashed began to fail, and none begins before it starts or without existing.
FailsAfterStart ==
    /\ \A p \in crashed : began[p] # Never
    /\ \A p \in Pods \ live : began[p] = Never
    /\ \A p \in Pods : began[p] # Never => podStart[p] # Never /\ podStart[p] <= began[p]

IncidentInv == StatesOK /\ Past /\ FailsAfterStart

-----------------------------------------------------------------------------
(* The inductive invariant.                                                *)

LEMMA IncidentStart == Init => IncidentInv
<1> SUFFICES ASSUME Init PROVE IncidentInv
  OBVIOUS
<1>1. 0 \in 0..MaxTime
  BY IncidentAssumption DEF IncidentAssumption
<1>2. StatesOK
  <2>1. syncs \in Seq(Changes("sync")) /\ deploys \in Seq(Changes("deploy"))
    BY DEF Init
  <2>2. rotated \in [Secrets -> 0..MaxTime]
    BY <1>1 DEF Init
  <2>3. /\ podStart \in [Pods -> 0..MaxTime \cup {Never}]
        /\ began \in [Pods -> 0..MaxTime \cup {Never}]
        /\ events \in [Pods -> [Reasons -> 0..MaxTime \cup {Never}]]
    BY DEF Init
  <2> QED BY <1>1, <2>1, <2>2, <2>3 DEF Init, StatesOK
<1>3. Past
  BY DEF Init, Past, Never
<1>4. FailsAfterStart
  BY DEF Init, FailsAfterStart
<1> QED BY <1>2, <1>3, <1>4 DEF IncidentInv

LEMMA IncidentTimes ==
    ASSUME NEW kind, NEW h \in Seq(Changes(kind))
    PROVE  \A i \in DOMAIN h : h[i] \in Changes(kind) /\ h[i].t \in Int
<1>1. \A i \in DOMAIN h : h[i] \in Changes(kind)
  OBVIOUS
<1>2. \A c \in Changes(kind) : c.t \in Int
  BY IncidentAssumption DEF IncidentAssumption, Changes, Unparsed
<1> QED BY <1>1, <1>2

\* A release goes to the front of its history, with a timestamp not in the future.
LEMMA Recording ==
    ASSUME NEW h, NEW kind, h \in Seq(Changes(kind)), NEW rev \in Revisions,
           clock \in 0..MaxTime, \A i \in DOMAIN h : h[i].t <= clock,
           NEW t \in {clock, Unparsed}
    PROVE  LET g == <<[kind |-> kind, id |-> rev, t |-> t]>> \o h
           IN  g \in Seq(Changes(kind)) /\ \A i \in DOMAIN g : g[i].t <= clock
<1> DEFINE e == [kind |-> kind, id |-> rev, t |-> t]
           g == <<e>> \o h
<1>1. e \in Changes(kind)
  BY DEF Changes
<1>2. t <= clock
  BY DEF Unparsed
<1> HIDE DEF e
<1>3. g \in Seq(Changes(kind))
  BY <1>1
<1>4. \A i \in DOMAIN g : g[i] = IF i = 1 THEN e ELSE h[i - 1]
  BY <1>1
<1>5. \A i \in DOMAIN g : i = 1 \/ i - 1 \in DOMAIN h
  BY <1>1
<1>6. e.t = t
  BY DEF e
<1>7. \A i \in DOMAIN g : g[i].t <= clock
  BY <1>2, <1>4, <1>5, <1>6
<1> QED BY <1>3, <1>7 DEF e

LEMMA IncidentStep == IncidentInv /\ [Next]_vars => IncidentInv'
<1> SUFFICES ASSUME IncidentInv, [Next]_vars PROVE IncidentInv'
  OBVIOUS
<1> USE DEF IncidentInv
<1>1. ASSUME NEW rev \in Revisions, Sync(rev) PROVE IncidentInv'
  <2>1. PICK t \in {clock, Unparsed} :
             syncs' = <<[kind |-> "sync", id |-> rev, t |-> t]>> \o syncs
    BY <1>1 DEF Sync
  <2>2. syncs' \in Seq(Changes("sync")) /\ \A i \in DOMAIN syncs' : syncs'[i].t <= clock
    BY <2>1, Recording DEF StatesOK, Past
  <2>3. UNCHANGED <<clock, deploys, rotated, live, podStart, crashed, began, events, resolved>>
    BY <1>1 DEF Sync, pods
  <2> QED BY <2>2, <2>3 DEF StatesOK, Past, FailsAfterStart
<1>2. ASSUME NEW rev \in Revisions, Deploy(rev) PROVE IncidentInv'
  <2>1. /\ deploys' \in Seq(Changes("deploy"))
        /\ \A i \in DOMAIN deploys' : deploys'[i].t <= clock
    BY <1>2, Recording DEF StatesOK, Past, Deploy
  <2>2. UNCHANGED <<clock, syncs, rotated, live, podStart, crashed, began, events, resolved>>
    BY <1>2 DEF Deploy, pods
  <2> QED BY <2>1, <2>2 DEF StatesOK, Past, FailsAfterStart
<1>3. ASSUME NEW s \in Secrets, Rotate(s) PROVE IncidentInv'
  <2>1. rotated' = [rotated EXCEPT ![s] = clock]
    BY <1>3 DEF Rotate
  <2>2. UNCHANGED <<clock, syncs, deploys, live, podStart, crashed, began, events, resolved>>
    BY <1>3 DEF Rotate, pods
  <2> QED BY <2>1, <2>2 DEF StatesOK, Past, FailsAfterStart
<1>4. ASSUME NEW p \in Pods, Start(p) PROVE IncidentInv'
  <2>1. PICK t \in {clock, Never} : podStart' = [podStart EXCEPT ![p] = t]
    BY <1>4 DEF Start
  <2>2. /\ p \notin live /\ live' = live \cup {p}
        /\ UNCHANGED <<clock, syncs, deploys, rotated, crashed, began, events, resolved>>
    BY <1>4 DEF Start, records
  <2>3. StatesOK'
    BY <2>1, <2>2 DEF StatesOK
  <2>4. Past'
    BY <2>1, <2>2 DEF StatesOK, Past, Never
  <2>5. began[p] = Never
    BY <2>2 DEF StatesOK, FailsAfterStart
  <2>6. FailsAfterStart'
    BY <2>1, <2>2, <2>5 DEF StatesOK, FailsAfterStart
  <2> QED BY <2>3, <2>4, <2>6
<1>5. ASSUME NEW p \in Pods, Stop(p) PROVE IncidentInv'
  <2>1. /\ live' = live \ {p} /\ crashed' = crashed \ {p}
        /\ podStart' = [podStart EXCEPT ![p] = Never]
        /\ began' = [began EXCEPT ![p] = Never]
        /\ UNCHANGED <<clock, syncs, deploys, rotated, events, resolved>>
    BY <1>5 DEF Stop, records
  <2>2. StatesOK'
    BY <2>1 DEF StatesOK
  <2>3. Past'
    BY <2>1 DEF StatesOK, Past, Never
  <2>4. FailsAfterStart'
    BY <2>1 DEF StatesOK, FailsAfterStart
  <2> QED BY <2>2, <2>3, <2>4
<1>6. ASSUME NEW p \in Pods, Unhealthy(p) \/ Crash(p) PROVE IncidentInv'
  <2>1. PICK r \in Reasons : Warn(p, r)
    BY <1>6 DEF Unhealthy, Crash
  <2>2. crashed' = crashed \/ crashed' = crashed \cup {p}
    BY <1>6 DEF Unhealthy, Crash
  <2>3. /\ p \in live /\ podStart[p] # Never
        /\ events' = [events EXCEPT ![p][r] = clock]
        /\ began' = [began EXCEPT ![p] = IF began[p] = Never THEN clock ELSE began[p]]
        /\ UNCHANGED <<clock, syncs, deploys, rotated, live, podStart, resolved>>
    BY <2>1 DEF Warn, records
  <2>4. /\ events' \in [Pods -> [Reasons -> 0..MaxTime \cup {Never}]]
        /\ \A q \in Pods, x \in Reasons : events'[q][x] \in {events[q][x], clock}
    BY <2>3 DEF StatesOK
  <2>5. StatesOK'
    BY <2>2, <2>3, <2>4 DEF StatesOK
  <2>6. Past'
    BY <2>3, <2>4 DEF StatesOK, Past
  <2>7. began'[p] # Never /\ podStart[p] <= began'[p]
    BY <2>3 DEF StatesOK, Past, FailsAfterStart, Never
  <2>8. FailsAfterStart'
    BY <2>2, <2>3, <2>7 DEF StatesOK, FailsAfterStart
  <2> QED BY <2>5, <2>6, <2>8
<1>7. CASE Tick
  <2>1. clock' \in 0..MaxTime /\ clock < clock' /\ clock \in Nat /\ clock' \in Nat
    BY <1>7, IncidentAssumption DEF Tick, StatesOK, IncidentAssumption
  <2>2. \A p \in Pods, r \in Reasons : events'[p][r] \in {Never, events[p][r]}
    BY <1>7 DEF Tick, StatesOK
  <2>3. events' \in [Pods -> [Reasons -> 0..MaxTime \cup {Never}]]
    BY <1>7 DEF Tick, StatesOK
  <2>4. UNCHANGED <<syncs, deploys, rotated, live, podStart, crashed, began, resolved>>
    BY <1>7 DEF Tick, records, pods
  <2>5. StatesOK'
    BY <2>1, <2>3, <2>4 DEF StatesOK
  <2>6. Past'
    <3>1. \A i \in DOMAIN syncs : syncs[i].t \in Int
      BY IncidentTimes DEF StatesOK
    <3>2. \A i \in DOMAIN deploys : deploys[i].t \in Int
      BY IncidentTimes DEF StatesOK
    <3>3. \A p \in Pods : podStart[p] \in Int /\ \A r \in Reasons : events[p][r] \in Int
      BY DEF StatesOK, Never
    <3>4. \A p \in Pods, r \in Reasons : events'[p][r] <= clock'
      <4> SUFFICES ASSUME NEW p \in Pods, NEW r \in Reasons PROVE events'[p][r] <= clock'
        OBVIOUS
      <4>1. events[p][r] <= clock /\ events[p][r] \in Int
        BY <3>3 DEF Past
      <4>2. events'[p][r] = events[p][r] \/ events'[p][r] = -1
        BY <2>2 DEF Never
      <4> QED BY <2>1, <4>1, <4>2
    <3> QED BY <2>1, <2>4, <3>1, <3>2, <3>3, <3>4 DEF StatesOK, Past
  <2> QED BY <2>4, <2>5, <2>6 DEF FailsAfterStart
<1>8. CASE Resolve
  <2>1. /\ resolved' = live
        /\ UNCHANGED <<clock, syncs, deploys, rotated, live, podStart, crashed, began, events>>
    BY <1>8 DEF Resolve, records, pods
  <2> QED BY <2>1 DEF StatesOK, Past, FailsAfterStart
<1>9. CASE UNCHANGED vars
  <2>1. UNCHANGED <<clock, syncs, deploys, rotated, live, podStart, crashed, began, events, resolved>>
    BY <1>9 DEF vars, records, pods
  <2> QED BY <2>1 DEF StatesOK, Past, FailsAfterStart
<1> QED BY <1>1, <1>2, <1>3, <1>4, <1>5, <1>6, <1>7, <1>8, <1>9 DEF Next

\* At any moment of an incident: what is recorded lies in the past, and every crashed
\* pod began to fail after it started.
THEOREM IncidentInvariance == Spec => []IncidentInv
BY IncidentStart, IncidentStep, PTL DEF Spec

-----------------------------------------------------------------------------
(* The operators of change correlation.                                    *)

\* Every nonempty set of naturals has a least element.
LEMMA Least == ASSUME NEW T \in SUBSET Nat, T # {} PROVE \E n \in T : \A m \in T : n <= m
<1>1. \E n \in T : \A m \in T : ~(<<m, n>> \in OpToRel(<, Nat))
  BY WFMin, NatLessThanWellFounded
<1>2. PICK n \in T : \A m \in T : ~(m < n)
  BY <1>1 DEF OpToRel
<1> QED BY <1>2

LEMMA MinIs ==
    ASSUME NEW T \in SUBSET Nat, T # {}
    PROVE  Min(T) \in T /\ \A m \in T : Min(T) <= m
BY Least DEF Min

\* Some change of a nonempty set is the latest.
LEMMA LatestExists ==
    ASSUME NEW changes, NEW cs, cs # {}, NEW limit \in Nat,
           \A i \in cs : changes[i].t \in 0..limit
    PROVE  \E i \in cs : \A j \in cs : changes[j].t <= changes[i].t
<1> DEFINE Before == {limit - changes[i].t : i \in cs}
<1>1. Before \in SUBSET Nat /\ Before # {}
  OBVIOUS
<1>2. PICK n \in Before : \A m \in Before : n <= m
  BY <1>1, Least
<1>3. PICK i \in cs : n = limit - changes[i].t
  OBVIOUS
<1>4. \A j \in cs : limit - changes[i].t <= limit - changes[j].t
  BY <1>2, <1>3
<1> QED BY <1>4

\* max(candidates, key=t) is a candidate, and none is later.
LEMMA BestIs ==
    ASSUME NEW changes, NEW cs \in SUBSET Nat, cs # {}, NEW limit \in Nat,
           \A i \in cs : changes[i].t \in 0..limit
    PROVE  /\ Best(changes, cs) \in cs
           /\ \A j \in cs : changes[j].t <= changes[Best(changes, cs)].t
<1> DEFINE Latest == {i \in cs : \A j \in cs : changes[j].t <= changes[i].t}
<1>1. Latest \in SUBSET Nat /\ Latest # {}
  BY LatestExists
<1>2. Min(Latest) \in Latest
  BY <1>1, MinIs
<1> QED BY <1>2 DEF Best

\* sorted(same kind, key=t)[-2] is the latest but the blamed one, if that one is
\* the only one of its instant.
LEMMA SecondLastIs ==
    ASSUME NEW changes, NEW limit \in Nat, NEW n \in Nat, NEW same \in SUBSET (1..n),
           \A i \in same : changes[i].t \in 0..limit,
           NEW best \in same, \A j \in same \ {best} : changes[j].t < changes[best].t
    PROVE  /\ Cardinality(same) >= 2 <=> same \ {best} # {}
           /\ same \ {best} # {} =>
                 /\ SecondLast(changes, same) \in same \ {best}
                 /\ \A j \in same \ {best} :
                       changes[j].t <= changes[SecondLast(changes, same)].t
<1> DEFINE others == same \ {best}
           after(i) == Follows(changes, same, i)
<1>1. \A i \in same : changes[i].t \in Nat
  OBVIOUS
<1>2. /\ IsFiniteSet(same)
      /\ \A i \in same : IsFiniteSet(after(i))
  <2>1. IsFiniteSet(1..n)
    <3>1. 1 \in Int /\ n \in Int
      OBVIOUS
    <3> QED BY <3>1, FS_Interval
  <2>2. IsFiniteSet(same)
    BY <2>1, FS_Subset
  <2> QED BY <2>2, FS_Subset DEF Follows
<1>3. Cardinality(same) >= 2 <=> others # {}
  <2>1. Cardinality(same) \in Nat /\ Cardinality(same) # 0
    BY <1>2, FS_CardinalityType, FS_EmptySet
  <2>2. Cardinality(same) = 1 <=> \E x : same = {x}
    BY <1>2, FS_Singleton
  <2>3. (\E x : same = {x}) <=> others = {}
    OBVIOUS
  <2> QED BY <2>1, <2>2, <2>3
<1>4. after(best) = {}
  <2>1. SUFFICES ASSUME NEW j \in same
                 PROVE  /\ ~(changes[j].t > changes[best].t)
                        /\ changes[j].t = changes[best].t => ~(j > best)
    BY DEF Follows
  <2>2. CASE j = best
    <3>1. j \in 1..n
      OBVIOUS
    <3>2. changes[j].t \in Nat
      BY <1>1
    <3> QED BY <2>2, <3>1, <3>2
  <2>3. CASE j # best
    BY <1>1, <2>3
  <2> QED BY <2>2, <2>3
<1>5. ASSUME NEW i \in others PROVE best \in after(i)
  <2>1. changes[best].t > changes[i].t
    BY <1>1
  <2> QED BY <2>1 DEF Follows
<1>6. ASSUME others # {} PROVE \E i \in same : Cardinality(after(i)) = 1
  <2>1. PICK i \in others : \A j \in others : changes[j].t <= changes[i].t
    BY <1>6, LatestExists
  <2> DEFINE atOnce == {j \in others : changes[j].t = changes[i].t}
  <2>2. PICK k \in atOnce : \A j \in atOnce : j <= k
    <3> DEFINE Behind == {n - j : j \in atOnce}
    <3>1. Behind \in SUBSET Nat /\ Behind # {}
      OBVIOUS
    <3>2. PICK m \in Behind : \A j \in Behind : m <= j
      BY <3>1, Least
    <3>3. PICK k \in atOnce : m = n - k
      OBVIOUS
    <3>4. \A j \in atOnce : n - k <= n - j
      BY <3>2, <3>3
    <3> QED BY <3>4
  <2>3. \A j \in others : changes[j].t <= changes[k].t
    BY <2>1
  <2>4. \A j \in others : ~(changes[j].t > changes[k].t)
    BY <1>1, <2>3
  <2>5. \A j \in others : changes[j].t = changes[k].t => ~(j > k)
    BY <2>2
  <2>6. after(k) = {best}
    BY <1>5, <2>4, <2>5 DEF Follows
  <2> QED BY <2>6, FS_Singleton
<1>7. ASSUME others # {}
      PROVE  /\ SecondLast(changes, same) \in others
             /\ \A j \in others : changes[j].t <= changes[SecondLast(changes, same)].t
  <2> DEFINE i == SecondLast(changes, same)
  <2>1. i \in same /\ Cardinality(after(i)) = 1
    BY <1>6, <1>7 DEF SecondLast
  <2> HIDE DEF i
  <2>2. i # best
    BY <1>4, <2>1, FS_EmptySet
  <2>3. PICK x : after(i) = {x}
    BY <1>2, <2>1, FS_Singleton
  <2>4. after(i) = {best}
    BY <1>5, <2>1, <2>2, <2>3
  <2>5. \A j \in others : ~(changes[j].t > changes[i].t)
    BY <2>4 DEF Follows
  <2>6. \A j \in others : changes[j].t <= changes[i].t
    BY <1>1, <2>1, <2>5
  <2> QED BY <2>1, <2>2, <2>6 DEF i
<1> QED BY <1>3, <1>7

-----------------------------------------------------------------------------
(* What is listed, and what correlation answers.                           *)

SecretRecords == {[kind |-> "secret", id |-> s, t |-> rotated[s]] : s \in Secrets}

\* The three histories, as find_recent_change goes through them.
Listed == syncs \o deploys \o SecretChanges

\* The moment it looks back from.
Limit == IF Anchor = Never THEN clock ELSE Anchor

Suspects == Candidates(Listed, Limit)

\* Every Secret is listed, once.
LEMMA SecretsListed ==
    /\ SecretChanges \in Seq(SecretRecords)
    /\ Range(SecretChanges) = SecretRecords
<1> DEFINE record == [s \in Secrets |-> [kind |-> "secret", id |-> s, t |-> rotated[s]]]
           n == Cardinality(SecretRecords)
<1>1. IsFiniteSet(SecretRecords)
  <2>1. record \in Surjection(Secrets, SecretRecords)
    BY DEF Surjection, SecretRecords
  <2> QED BY <2>1, FS_Surjection, IncidentAssumption DEF IncidentAssumption
<1>2. n \in Nat /\ ExistsBijection(1..n, SecretRecords)
  BY <1>1, FS_CardinalityType
<1>3. SecretChanges \in [1..n -> SecretRecords] /\ IsInjective(SecretChanges)
  BY <1>2 DEF SecretChanges, SecretRecords, SetToSeq, ExistsBijection, Bijection, Injection
<1>4. SecretChanges \in Injection(1..n, SecretRecords)
  BY <1>3 DEF Injection
<1>5. Cardinality(1..n) = n
  BY <1>2, FS_Interval
<1>6. SecretChanges \in Surjection(1..n, SecretRecords)
  BY <1>1, <1>4, <1>5, FS_Injection
<1>7. Range(SecretChanges) = SecretRecords
  BY <1>3, <1>6 DEF Range, Surjection
<1> HIDE DEF n
<1> QED BY <1>2, <1>3, <1>7

\* The histories follow one another, each in its own order.
LEMMA ListedIs ==
    ASSUME IncidentInv
    PROVE  LET a == Len(syncs)
               b == Len(deploys)
               c == Len(SecretChanges)
           IN  /\ a \in Nat /\ b \in Nat /\ c \in Nat
               /\ DOMAIN syncs = 1..a /\ DOMAIN deploys = 1..b
               /\ DOMAIN SecretChanges = 1..c
               /\ DOMAIN Listed = 1..(a + b + c)
               /\ \A i \in 1..a : Listed[i] = syncs[i]
               /\ \A i \in 1..b : Listed[a + i] = deploys[i]
               /\ \A i \in 1..c : Listed[a + b + i] = SecretChanges[i]
<1>1. /\ syncs \in Seq(Changes("sync")) /\ deploys \in Seq(Changes("deploy"))
      /\ SecretChanges \in Seq(SecretRecords)
  BY SecretsListed DEF IncidentInv, StatesOK
<1> HIDE DEF SecretChanges
<1> QED BY <1>1 DEF Listed

\* Each listed change is of its history, and none lies in the future.
LEMMA ListedOK ==
    ASSUME IncidentInv
    PROVE  LET a == Len(syncs)
               b == Len(deploys)
           IN  \A i \in DOMAIN Listed :
                  /\ Listed[i].t \in 0..clock \cup {Unparsed}
                  /\ i \in Nat
                  /\ \/ i \in 1..a /\ Listed[i].kind = "sync"
                     \/ i > a /\ i - a \in 1..b /\ Listed[i].kind = "deploy"
                     \/ i > a + b /\ Listed[i].kind = "secret"
<1> DEFINE a == Len(syncs)
           b == Len(deploys)
           c == Len(SecretChanges)
<1>1. SUFFICES ASSUME NEW i \in DOMAIN Listed
               PROVE  /\ Listed[i].t \in 0..clock \cup {Unparsed}
                      /\ i \in Nat
                      /\ \/ i \in 1..a /\ Listed[i].kind = "sync"
                         \/ i > a /\ i - a \in 1..b /\ Listed[i].kind = "deploy"
                         \/ i > a + b /\ Listed[i].kind = "secret"
  OBVIOUS
<1>2. /\ a \in Nat /\ b \in Nat /\ c \in Nat
      /\ DOMAIN syncs = 1..a /\ DOMAIN deploys = 1..b
      /\ DOMAIN SecretChanges = 1..c
      /\ DOMAIN Listed = 1..(a + b + c)
      /\ \A j \in 1..a : Listed[j] = syncs[j]
      /\ \A j \in 1..b : Listed[a + j] = deploys[j]
      /\ \A j \in 1..c : Listed[a + b + j] = SecretChanges[j]
  BY ListedIs
<1>3. clock \in Nat
  BY IncidentAssumption DEF IncidentAssumption, IncidentInv, StatesOK
<1>4. \A k, x : x \in Changes(k) /\ x.t <= clock =>
                   x.kind = k /\ x.t \in 0..clock \cup {Unparsed}
  BY <1>3, IncidentAssumption DEF IncidentAssumption, Changes, Unparsed
<1> HIDE DEF a, b, c
<1>5. i \in Nat
  BY <1>2
<1>6. \/ i \in 1..a
      \/ i - a \in 1..b
      \/ i - a - b \in 1..c
  BY <1>2, <1>5
<1>7. CASE i \in 1..a
  <2>1. syncs[i] \in Changes("sync") /\ syncs[i].t <= clock
    BY <1>2, <1>7, IncidentTimes DEF IncidentInv, StatesOK, Past
  <2> QED BY <1>2, <1>4, <1>7, <2>1
<1>8. CASE i - a \in 1..b
  <2>1. PICK j \in 1..b : i = a + j
    BY <1>2, <1>5, <1>8
  <2>2. deploys[j] \in Changes("deploy") /\ deploys[j].t <= clock
    BY <1>2, <2>1, IncidentTimes DEF IncidentInv, StatesOK, Past
  <2>3. Listed[i] = deploys[j]
    BY <1>2, <2>1
  <2>4. Listed[i].kind = "deploy" /\ Listed[i].t \in 0..clock \cup {Unparsed}
    BY <1>4, <2>2, <2>3
  <2> QED BY <1>2, <1>8, <2>1, <2>4
<1>9. CASE i - a - b \in 1..c
  <2> DEFINE j == i - a - b
  <2>1. j \in 1..c /\ i = a + b + j
    BY <1>2, <1>5, <1>9
  <2> HIDE DEF j
  <2>2. SecretChanges[j] \in SecretRecords
    BY <1>2, <2>1, SecretsListed DEF Range
  <2>3. PICK s \in Secrets : SecretChanges[j] = [kind |-> "secret", id |-> s, t |-> rotated[s]]
    BY <2>2 DEF SecretRecords
  <2>4. rotated[s] \in 0..clock
    BY <1>3 DEF IncidentInv, StatesOK, Past
  <2>5. Listed[i] = SecretChanges[j]
    BY <1>2, <2>1
  <2>6. Listed[i].kind = "secret" /\ Listed[i].t \in 0..clock \cup {Unparsed}
    BY <2>3, <2>4, <2>5
  <2> QED BY <1>2, <2>1, <2>6
<1> QED BY <1>6, <1>7, <1>8, <1>9

\* The anchor: a moment of the past, and once a pod has crashed not after the start
\* of the first.
LEMMA AnchorIs ==
    ASSUME IncidentInv
    PROVE  /\ Anchor \in 0..clock \cup {Never}
           /\ Seen \cap crashed # {} /\ TargetStart # Never =>
                 Anchor # Never /\ Anchor <= TargetStart
<1> DEFINE times == {e.t : e \in {x \in WarningsRead : x.warning /\ x.t # Unparsed}}
           first == FirstFailureTime(WarningsRead)
           start == TargetStart
           crashing == \E p \in Seen : p \in crashed
<1>1. clock \in Nat
  BY IncidentAssumption DEF IncidentAssumption, IncidentInv, StatesOK
<1>2. times \in SUBSET (0..clock)
  <2>1. \A p \in Pods, r \in Reasons : events[p][r] = Unparsed \/ events[p][r] \in 0..clock
    BY <1>1 DEF IncidentInv, StatesOK, Past, Never, Unparsed
  <2> QED BY <2>1 DEF WarningsRead, IncidentInv, StatesOK
<1>3. first \in 0..clock \cup {Never}
  <2>1. CASE times = {}
    BY <2>1 DEF FirstFailureTime
  <2>2. CASE times # {}
    <3>1. times \in SUBSET Nat
      BY <1>1, <1>2
    <3>2. Min(times) \in times
      BY <2>2, <3>1, MinIs
    <3>3. first = Min(times)
      BY <2>2 DEF FirstFailureTime
    <3> QED BY <1>2, <3>2, <3>3
  <2> QED BY <2>1, <2>2
<1>4. start \in 0..clock \cup {Never}
  <2>1. \A p \in live : podStart[p] \in 0..clock \cup {Never}
    BY <1>1 DEF IncidentInv, StatesOK, Past, Never
  <2> QED BY <2>1 DEF TargetStart
<1>5. Anchor = IF crashing /\ start # Never
               THEN IF first = Never THEN start ELSE Min({first, start})
               ELSE first
  BY DEF Anchor
<1>6. Seen \cap crashed # {} <=> crashing
  OBVIOUS
<1> HIDE DEF first, times, start, crashing
<1>7. first # Never /\ start # Never => /\ Min({first, start}) \in {first, start}
                                        /\ Min({first, start}) <= start
  <2> SUFFICES ASSUME first # Never, start # Never
               PROVE  Min({first, start}) \in {first, start} /\ Min({first, start}) <= start
    OBVIOUS
  <2>1. {first, start} \in SUBSET Nat
    BY <1>1, <1>3, <1>4
  <2> QED BY <2>1, MinIs
<1>8. /\ Anchor \in 0..clock \cup {Never}
      /\ crashing /\ start # Never => Anchor # Never /\ Anchor <= start
  <2>1. CASE crashing /\ start # Never /\ first # Never
    BY <1>1, <1>3, <1>4, <1>5, <1>7, <2>1 DEF Never
  <2>2. CASE crashing /\ start # Never /\ first = Never
    BY <1>1, <1>4, <1>5, <2>2 DEF Never
  <2>3. CASE ~(crashing /\ start # Never)
    BY <1>3, <1>5, <2>3
  <2> QED BY <2>1, <2>2, <2>3
<1> QED BY <1>6, <1>8 DEF start

\* find_recent_change answers with the latest candidate, if there is one.
LEMMA BlameIs ==
    ASSUME IncidentInv
    PROVE  LET best == Best(Listed, Suspects)
           IN  /\ Limit \in 0..clock
               /\ \A i \in Suspects : Listed[i].t \in 0..Limit
               /\ Suspects = {} => Blame = NoBlame
               /\ Suspects # {} =>
                     /\ best \in Suspects
                     /\ \A j \in Suspects : Listed[j].t <= Listed[best].t
                     /\ Blame # NoBlame
                     /\ Blame.kind = Listed[best].kind /\ Blame.t = Listed[best].t
                     /\ Blame.target = RollbackTarget(Listed, Suspects, best)
<1> DEFINE best == Best(Listed, Suspects)
<1>1. clock \in Nat
  BY IncidentAssumption DEF IncidentAssumption, IncidentInv, StatesOK
<1>2. Limit \in 0..clock
  BY <1>1, AnchorIs DEF Limit
<1>3. Suspects \in SUBSET Nat /\ \A i \in Suspects : Listed[i].t \in 0..Limit
  BY <1>1, <1>2, ListedOK DEF Suspects, Candidates, Unparsed
<1>4. Blame = IF Suspects = {} THEN NoBlame
              ELSE [kind |-> Listed[best].kind, id |-> Listed[best].id,
                    t |-> Listed[best].t, target |-> RollbackTarget(Listed, Suspects, best)]
  BY DEF Blame, FindRecentChange, Suspects, Listed, Limit
<1>5. ASSUME Suspects # {}
      PROVE  /\ best \in Suspects
             /\ \A j \in Suspects : Listed[j].t <= Listed[best].t
  BY <1>1, <1>2, <1>3, <1>5, BestIs
<1> HIDE DEF best
<1>6. ASSUME Suspects # {} PROVE Blame # NoBlame
  <2>1. Listed[best].kind # "none"
    BY <1>5, <1>6, ListedOK DEF Suspects, Candidates
  <2>2. Blame.kind = Listed[best].kind
    BY <1>4, <1>6
  <2>3. NoBlame.kind = "none"
    BY DEF NoBlame
  <2> QED BY <2>1, <2>2, <2>3
<1> QED BY <1>2, <1>3, <1>4, <1>5, <1>6 DEF best

-----------------------------------------------------------------------------
(* The properties.                                                         *)

LEMMA IncidentTyped == ASSUME IncidentInv PROVE TypeOK
<1>1. clock \in 0..MaxTime /\ MaxTime \in Nat
  BY IncidentAssumption DEF IncidentAssumption, IncidentInv, StatesOK
<1>2. Blame = NoBlame \/ Blame.t \in 0..Limit
  BY BlameIs
<1>3. Limit \in 0..clock
  BY BlameIs
<1>4. Blame = NoBlame \/ Blame.t \in 0..MaxTime
  BY <1>1, <1>2, <1>3
<1> QED BY <1>4 DEF TypeOK, IncidentInv, StatesOK

LEMMA Innocent == ASSUME IncidentInv PROVE BlamePrecedesFailure
<1> SUFFICES ASSUME NEW p \in Seen \cap crashed, TargetStart # Never,
                    p = Target \/ TargetStart <= began[p], Blame # NoBlame
             PROVE  ~(Blame.t > began[p])
  BY DEF BlamePrecedesFailure, BlamedAfter
<1>1. Blame.t \in 0..Limit /\ Limit \in 0..clock
  BY BlameIs
<1>2. Limit <= TargetStart
  BY AnchorIs DEF Limit
<1>3. p \in live /\ p \in Pods /\ p \in resolved
  BY DEF Seen, IncidentInv, StatesOK
<1>4. TargetStart <= began[p]
  <2>1. CASE p = Target
    <3>1. TargetStart = podStart[p]
      BY <1>3, <2>1 DEF TargetStart
    <3> QED BY <1>3, <3>1 DEF IncidentInv, FailsAfterStart
  <2> QED BY <2>1
<1>5. began[p] \in Int /\ clock \in Nat
  BY <1>3, IncidentAssumption DEF IncidentAssumption, IncidentInv, StatesOK, Never
<1>6. TargetStart \in Int
  BY DEF TargetStart, IncidentInv, StatesOK, Never
<1> QED BY <1>1, <1>2, <1>4, <1>5, <1>6

\* Whatever is recorded is listed.
LEMMA RecordedListed ==
    ASSUME IncidentInv, NEW c \in Recorded
    PROVE  \E i \in DOMAIN Listed : Listed[i] = c
<1> DEFINE a == Len(syncs)
           b == Len(deploys)
           n == Len(SecretChanges)
<1>1. /\ a \in Nat /\ b \in Nat /\ n \in Nat
      /\ DOMAIN syncs = 1..a /\ DOMAIN deploys = 1..b
      /\ DOMAIN SecretChanges = 1..n
      /\ DOMAIN Listed = 1..(a + b + n)
      /\ \A j \in 1..a : Listed[j] = syncs[j]
      /\ \A j \in 1..b : Listed[a + j] = deploys[j]
      /\ \A j \in 1..n : Listed[a + b + j] = SecretChanges[j]
  BY ListedIs
<1> HIDE DEF a, b, n
<1>2. CASE c \in Range(syncs)
  <2>1. PICK j \in 1..a : syncs[j] = c
    BY <1>1, <1>2 DEF Range
  <2>2. j \in DOMAIN Listed /\ Listed[j] = c
    BY <1>1, <2>1
  <2> QED BY <2>2
<1>3. CASE c \in Range(deploys)
  <2>1. PICK j \in 1..b : deploys[j] = c
    BY <1>1, <1>3 DEF Range
  <2>2. a + j \in DOMAIN Listed /\ Listed[a + j] = c
    BY <1>1, <2>1
  <2> QED BY <2>2
<1>4. CASE c \in Range(SecretChanges)
  <2>1. PICK j \in 1..n : SecretChanges[j] = c
    BY <1>1, <1>4 DEF Range
  <2>2. a + b + j \in DOMAIN Listed /\ Listed[a + b + j] = c
    BY <1>1, <2>1
  <2> QED BY <2>2
<1> QED BY <1>2, <1>3, <1>4 DEF Recorded

LEMMA Closest == ASSUME IncidentInv PROVE ClosestBlamed
<1> SUFFICES ASSUME NEW c \in Recorded, c.t # Unparsed, Anchor # Never => c.t <= Anchor
             PROVE  Blame # NoBlame /\ c.t <= Blame.t
  BY DEF ClosestBlamed
<1>1. PICK i \in DOMAIN Listed : Listed[i] = c
  BY RecordedListed
<1>2. c.t \in 0..clock /\ clock \in Nat
  BY <1>1, ListedOK, IncidentAssumption DEF IncidentAssumption, IncidentInv, StatesOK
<1>3. c.t <= Limit
  BY <1>2 DEF Limit
<1>4. i \in Suspects
  BY <1>1, <1>3 DEF Suspects, Candidates
<1> QED BY <1>1, <1>4, BlameIs

\* The candidates of the blamed kind are those of its history, each at its place.
LEMMA SameHistory ==
    ASSUME IncidentInv, Suspects # {}, Blame.kind \in {"sync", "deploy"}
    PROVE  LET same == SameKind(Listed, Suspects, Best(Listed, Suspects))
               offset == IF Blame.kind = "sync" THEN 0 ELSE Len(syncs)
           IN  /\ offset \in Nat
               /\ \A i \in same : i - offset \in DOMAIN History
               /\ \A j \in DOMAIN History : /\ j \in Nat
                                            /\ offset + j \in DOMAIN Listed
                                            /\ Listed[offset + j] = History[j]
                                            /\ History[j].kind = Blame.kind
<1> DEFINE a == Len(syncs)
           b == Len(deploys)
           n == Len(SecretChanges)
           best == Best(Listed, Suspects)
           same == SameKind(Listed, Suspects, best)
<1>1. /\ a \in Nat /\ b \in Nat /\ n \in Nat
      /\ DOMAIN syncs = 1..a /\ DOMAIN deploys = 1..b
      /\ DOMAIN Listed = 1..(a + b + n)
      /\ \A j \in 1..a : Listed[j] = syncs[j]
      /\ \A j \in 1..b : Listed[a + j] = deploys[j]
  BY ListedIs
<1>2. \A i \in DOMAIN Listed :
         /\ i \in Nat
         /\ \/ i \in 1..a /\ Listed[i].kind = "sync"
            \/ i > a /\ i - a \in 1..b /\ Listed[i].kind = "deploy"
            \/ i > a + b /\ Listed[i].kind = "secret"
  BY ListedOK
<1>3. Blame.kind = Listed[best].kind
  BY BlameIs
<1>4. \A i \in same : i \in DOMAIN Listed /\ Listed[i].kind = Blame.kind
  BY <1>3 DEF SameKind, Suspects, Candidates
<1> HIDE DEF a, b, n, best, same
<1>5. CASE Blame.kind = "sync"
  <2>1. DOMAIN History = 1..a /\ History = syncs
    BY <1>1, <1>5 DEF History
  <2>2. \A i \in same : i - 0 \in 1..a
    BY <1>2, <1>4, <1>5
  <2>3. ASSUME NEW j \in 1..a PROVE /\ j \in Nat /\ 0 + j \in DOMAIN Listed
                                    /\ Listed[0 + j] = syncs[j] /\ syncs[j].kind = "sync"
    <3>1. j \in Nat /\ 0 + j = j /\ j \in DOMAIN Listed /\ ~(j > a) /\ ~(j > a + b)
      BY <1>1
    <3> QED BY <1>1, <1>2, <3>1
  <2> QED BY <1>5, <2>1, <2>2, <2>3 DEF a, best, same
<1>6. CASE Blame.kind = "deploy"
  <2>1. DOMAIN History = 1..b /\ History = deploys
    BY <1>1, <1>6 DEF History
  <2>2. \A i \in same : i - a \in 1..b
    BY <1>2, <1>4, <1>6
  <2>3. ASSUME NEW j \in 1..b PROVE /\ j \in Nat /\ a + j \in DOMAIN Listed
                                    /\ Listed[a + j] = deploys[j] /\ deploys[j].kind = "deploy"
    <3>1. j \in Nat /\ a + j \in DOMAIN Listed /\ a + j \notin 1..a /\ ~(a + j > a + b)
      BY <1>1
    <3> QED BY <1>1, <1>2, <3>1
  <2> QED BY <1>1, <1>6, <2>1, <2>2, <2>3 DEF a, best, same
<1> QED BY <1>5, <1>6

LEMMA Predecessor == ASSUME IncidentInv PROVE RollbackIsPredecessor
<1> DEFINE at(t) == {i \in DOMAIN History : History[i].t = t}
           earlier == {i \in DOMAIN History :
                          History[i].t # Unparsed /\ History[i].t < Blame.t}
<1>1. SUFFICES ASSUME Blame.kind \in {"sync", "deploy"}, ~(Cardinality(at(Blame.t)) > 1)
               PROVE  IF earlier = {} THEN Blame.target = NoTarget
                      ELSE \E i \in earlier :
                              /\ Blame.target = History[i].id
                              /\ \A j \in earlier : History[j].t <= History[i].t
  BY DEF RollbackIsPredecessor
<1>2. Suspects # {}
  BY <1>1, BlameIs DEF NoBlame
<1> DEFINE best == Best(Listed, Suspects)
           same == SameKind(Listed, Suspects, best)
           others == same \ {best}
           offset == IF Blame.kind = "sync" THEN 0 ELSE Len(syncs)
           second == SecondLast(Listed, same)
<1>3. /\ Limit \in 0..clock
      /\ \A i \in Suspects : Listed[i].t \in 0..Limit
      /\ best \in Suspects /\ \A j \in Suspects : Listed[j].t <= Listed[best].t
      /\ Blame.kind = Listed[best].kind /\ Blame.t = Listed[best].t
      /\ Blame.target = RollbackTarget(Listed, Suspects, best)
  BY <1>2, BlameIs
<1>4. Suspects = {i \in DOMAIN Listed : Listed[i].t # Unparsed /\ Listed[i].t <= Limit}
  BY DEF Suspects, Candidates
<1>5. same = {i \in Suspects : Listed[i].kind = Blame.kind}
  BY <1>3 DEF SameKind
<1>6. /\ offset \in Nat
      /\ \A i \in same : i - offset \in DOMAIN History
      /\ \A j \in DOMAIN History : /\ j \in Nat
                                   /\ offset + j \in DOMAIN Listed
                                   /\ Listed[offset + j] = History[j]
                                   /\ History[j].kind = Blame.kind
  BY <1>1, <1>2, SameHistory
<1>7. /\ Limit \in Nat
      /\ \A i \in DOMAIN Listed : i \in Nat /\ Listed[i].t \in Int
  BY <1>3, ListedOK, IncidentAssumption DEF IncidentAssumption, IncidentInv, StatesOK, Unparsed
<1>8. PICK n \in Nat : DOMAIN Listed = 1..n
  BY ListedIs
<1> HIDE DEF best, same, offset
<1>9. \A j \in DOMAIN History : j \in earlier => offset + j \in others
  BY <1>3, <1>4, <1>5, <1>6, <1>7
<1>10. \A i \in same : /\ i - offset \in DOMAIN History
                       /\ offset + (i - offset) = i
                        /\ History[i - offset] = Listed[i]
  BY <1>4, <1>5, <1>6, <1>7
<1>11. \A i \in others : Listed[i].t < Listed[best].t
  <2>1. SUFFICES ASSUME NEW i \in others, Listed[i].t = Listed[best].t PROVE FALSE
    BY <1>3, <1>4, <1>5, <1>7
  <2>2. best \in same
    BY <1>3, <1>5
  <2>3. {i - offset, best - offset} \subseteq at(Blame.t)
    BY <1>3, <1>10, <2>1, <2>2
  <2>4. i - offset # best - offset
    BY <1>4, <1>5, <1>6, <1>7, <2>2
  <2>5. IsFiniteSet(at(Blame.t))
    <3>1. \A j \in DOMAIN History : j \in 0..n
      BY <1>6, <1>8
    <3>2. IsFiniteSet(0..n)
      BY FS_Interval
    <3>3. at(Blame.t) \in SUBSET (0..n)
      BY <3>1
    <3> QED BY <3>2, <3>3, FS_Subset
  <2>6. Cardinality({i - offset, best - offset}) = 2
    <3>1. \A x, y : x # y => Cardinality({x, y}) = 2
      <4>1. SUFFICES ASSUME NEW x, NEW y, x # y PROVE Cardinality({x, y}) = 2
        OBVIOUS
      <4>2. IsFiniteSet({x}) /\ Cardinality({x}) = 1
        BY FS_Singleton
      <4>3. Cardinality({x} \cup {y}) = 2
        BY <4>1, <4>2, FS_AddElement
      <4>4. {x} \cup {y} = {x, y}
        OBVIOUS
      <4> QED BY <4>3, <4>4
    <3> QED BY <2>4, <3>1
  <2>7. 2 <= Cardinality(at(Blame.t))
    BY <2>3, <2>5, <2>6, FS_Subset
  <2> QED BY <1>1, <2>5, <2>7, FS_CardinalityType
<1>12. /\ Cardinality(same) >= 2 <=> others # {}
       /\ others # {} => /\ second \in others
                         /\ \A j \in others : Listed[j].t <= Listed[second].t
  <2>1. same \in SUBSET (1..n) /\ best \in same /\ \A i \in same : Listed[i].t \in 0..Limit
    BY <1>3, <1>4, <1>5, <1>8
  <2> QED BY <1>7, <1>11, <2>1, SecondLastIs
<1>13. CASE earlier = {}
  <2>1. others = {}
    <3>1. \A i \in others : i - offset \in earlier
      BY <1>3, <1>4, <1>5, <1>10, <1>11
    <3> QED BY <1>13, <3>1
  <2> QED BY <1>3, <1>12, <1>13, <2>1 DEF RollbackTarget, same
<1>14. CASE earlier # {}
  <2>1. others # {}
    BY <1>9, <1>14
  <2>2. second \in others /\ \A j \in others : Listed[j].t <= Listed[second].t
    BY <1>12, <2>1
  <2>3. second - offset \in earlier /\ History[second - offset] = Listed[second]
    BY <1>3, <1>4, <1>5, <1>10, <1>11, <2>2
  <2>4. Blame.target = Listed[second].id
    <3>1. Listed[second].kind # "secret"
      BY <1>1, <1>5, <2>2
    <3>2. Blame.target = RevisionOf(Listed[second])
      BY <1>3, <1>12, <2>1 DEF RollbackTarget, same
    <3> QED BY <3>1, <3>2 DEF RevisionOf
  <2>5. \A j \in earlier : History[j].t <= History[second - offset].t
    BY <1>6, <1>9, <2>2, <2>3
  <2> QED BY <1>14, <2>3, <2>4, <2>5
<1> QED BY <1>13, <1>14

\* Histories, events and clock keep their types; the blamed change has a timestamp
\* (correlate.py:39).
THEOREM IncidentTypeCorrect == Spec => []TypeOK
BY IncidentInvariance, IncidentTyped, PTL

\* BlamePrecedesFailure: no change made after a crashing pod began to fail is ever
\* blamed for it, whatever events have expired or been folded since, if it is the
\* first of the resolved pods or that one had started when it began to fail.
THEOREM NeverBlamedAfterwards == Spec => []BlamePrecedesFailure
BY IncidentInvariance, Innocent, PTL

\* ClosestBlamed: the blamed change is the closest before the anchor, across the
\* three histories.
THEOREM ClosestIsBlamed == Spec => []ClosestBlamed
BY IncidentInvariance, Closest, PTL

\* RollbackIsPredecessor: the rollback target is the release live before the blamed
\* one, unless two were made at one instant.
THEOREM RollbackToPredecessor == Spec => []RollbackIsPredecessor
BY IncidentInvariance, Predecessor, PTL

=============================================================================
