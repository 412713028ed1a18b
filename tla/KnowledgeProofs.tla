-------------------------- MODULE KnowledgeProofs --------------------------
(***************************************************************************)
(* The knowledge base for any number of runs, files, tenants and editions. *)
(* The argument is that runs never share a document: the id each got from  *)
(* its own INSERT is new (Apart), so between two of its inserts the chunks *)
(* of its document are those it has put there (RunOK), and a document that *)
(* is reported is never touched again.                                     *)
(***************************************************************************)
EXTENDS KnowledgeBase, FiniteSetTheorems, TLAPS

Rows == 1..Len(docs)

\* What holds of a run on its way.
RunOK(r) ==
    /\ run[r].pc = "idle" => run[r].at = 1 /\ run[r].next = 0
    /\ run[r].pc \in {"read", "document"} =>
          run[r].at \in 1..Len(Files[r]) /\ run[r].next = 0
    /\ run[r].pc = "chunks" =>
          /\ run[r].at \in 1..Len(Files[r])
          /\ run[r].doc \in Rows \ reported
          /\ docs[run[r].doc].tenant = TenantOf[r]
          /\ run[r].next <= Total(run[r].doc)
          /\ OrdinalsOf(run[r].doc) = 0..(run[r].next - 1)

\* Two runs that insert chunks insert them for different documents.
Apart ==
    \A r, s \in Runs :
        run[r].pc = "chunks" /\ run[s].pc = "chunks" /\ r # s => run[r].doc # run[s].doc

\* The tenant of a chunk is that of its document.
SameTenant == \A c \in chunks : c.tenant = docs[c.doc].tenant

KnowledgeInv ==
    /\ TypeOK
    /\ \A r \in Runs : RunOK(r)
    /\ Apart
    /\ SameTenant
    /\ ReportedWhole

\* The types of the constants, and of a row.
LEMMA FilesType ==
    ASSUME NEW r \in Runs, NEW i \in 1..Len(Files[r])
    PROVE  Files[r][i] \in Titles /\ Len(Files[r]) \in Nat
<1>1. Files[r] \in Seq(Titles)
  BY KnowledgeAssumption
<1> QED BY <1>1

LEMMA TotalNat == ASSUME TypeOK, NEW d \in Rows PROVE Total(d) \in Nat
<1> DEFINE Row == [title : Titles, tenant : Tenants, edition : 1..Editions]
<1>1. docs[d] \in Row
  <2>1. docs \in Seq(Row)
    BY DEF TypeOK
  <2> HIDE DEF Row
  <2> QED BY <2>1 DEF Rows
<1> QED BY <1>1, KnowledgeAssumption DEF Total

LEMMA KnowledgeInitInv == ASSUME Init PROVE KnowledgeInv
<1>1. TypeOK
  BY KnowledgeAssumption DEF Init, TypeOK, NoRun, Locations
<1>2. \A r \in Runs : RunOK(r)
  BY DEF Init, NoRun, RunOK
<1>3. Apart /\ SameTenant /\ ReportedWhole
  BY DEF Init, NoRun, Apart, SameTenant, ReportedWhole
<1> QED BY <1>1, <1>2, <1>3 DEF KnowledgeInv

\* Steps that leave the tables alone: a run moves, or a file is edited.
LEMMA QuietStep ==
    ASSUME KnowledgeInv, UNCHANGED <<docs, chunks, reported>>,
           edition' \in [Titles -> 1..Editions], found' \in [Runs -> [Titles -> 1..Editions]],
           run' \in [Runs -> [pc : Locations, at : Nat, edition : 1..Editions,
                              doc : 0..Len(docs), next : Nat]],
           \A r \in Runs :
              \/ run'[r] = run[r]
              \/ /\ run'[r].pc # "chunks"
                 /\ run'[r].pc # "idle"
                 /\ run'[r].pc \in {"read", "document"} =>
                       run'[r].at \in 1..Len(Files[r]) /\ run'[r].next = 0
    PROVE  KnowledgeInv'
<1>1. TypeOK'
  BY DEF KnowledgeInv, TypeOK, Total
<1>2. ASSUME NEW r \in Runs PROVE RunOK(r)'
  <2>1. RunOK(r)
    BY DEF KnowledgeInv
  <2> QED BY <2>1 DEF RunOK, Rows, Total, OrdinalsOf
<1>3. Apart'
  BY DEF KnowledgeInv, Apart
<1>4. SameTenant' /\ ReportedWhole'
  BY DEF KnowledgeInv, SameTenant, ReportedWhole, OrdinalsOf, Total
<1> QED BY <1>1, <1>2, <1>3, <1>4 DEF KnowledgeInv

\* Where the loop of main() goes next.
LEMMA NextFileOK ==
    ASSUME KnowledgeInv, NEW r \in Runs, NextFile(r), run[r].at \in 1..Len(Files[r])
    PROVE  /\ run' \in [Runs -> [pc : Locations, at : Nat, edition : 1..Editions,
                                 doc : 0..Len(docs), next : Nat]]
           /\ \A s \in Runs \ {r} : run'[s] = run[s]
           /\ run'[r].pc \in {"read", "done"}
           /\ run'[r].pc = "read" => run'[r].at \in 1..Len(Files[r]) /\ run'[r].next = 0
<1> DEFINE Run == [pc : Locations, at : Nat, edition : 1..Editions,
                   doc : 0..Len(docs), next : Nat]
<1>1. run \in [Runs -> Run] /\ run[r] \in Run
  BY DEF KnowledgeInv, TypeOK
<1>2. Len(Files[r]) \in Nat
  <2>1. Files[r] \in Seq(Titles)
    BY KnowledgeAssumption
  <2> QED BY <2>1
<1>3. CASE run[r].at < Len(Files[r])
  <2>1. run' = [run EXCEPT ![r].pc = "read", ![r].at = @ + 1, ![r].next = 0]
    BY <1>1, <1>2, <1>3 DEF NextFile
  <2>2. /\ run'[r] = [run[r] EXCEPT !.pc = "read", !.at = run[r].at + 1, !.next = 0]
        /\ \A s \in Runs \ {r} : run'[s] = run[s]
    BY <1>1, <2>1
  <2>3. [run[r] EXCEPT !.pc = "read", !.at = run[r].at + 1, !.next = 0] \in Run
    <3>1. "read" \in Locations /\ run[r].at + 1 \in Nat
      BY <1>1 DEF Locations
    <3> QED BY <1>1, <3>1
  <2>4. run' \in [Runs -> Run]
    <3> HIDE DEF Run
    <3> QED BY <1>1, <2>1, <2>2, <2>3
  <2> QED BY <1>1, <1>2, <1>3, <2>2, <2>4
<1>4. CASE run[r].at >= Len(Files[r])
  <2>1. run' = [run EXCEPT ![r].pc = "done", ![r].next = 0]
    BY <1>1, <1>2, <1>4 DEF NextFile
  <2>2. /\ run'[r] = [run[r] EXCEPT !.pc = "done", !.next = 0]
        /\ \A s \in Runs \ {r} : run'[s] = run[s]
    BY <1>1, <2>1
  <2>3. [run[r] EXCEPT !.pc = "done", !.next = 0] \in Run
    BY <1>1 DEF Locations
  <2>4. run' \in [Runs -> Run]
    <3> HIDE DEF Run
    <3> QED BY <1>1, <2>1, <2>2, <2>3
  <2> QED BY <1>1, <2>2, <2>4
<1> QED BY <1>1, <1>2, <1>3, <1>4

LEMMA DocumentStep ==
    ASSUME KnowledgeInv, NEW r \in Runs, InsertDocument(r)
    PROVE  KnowledgeInv'
<1> PICK n \in Nat : n = Len(docs)
  BY DEF KnowledgeInv, TypeOK
<1> DEFINE row == [title |-> File(r), tenant |-> TenantOf[r], edition |-> run[r].edition]
<1>0. /\ TypeOK /\ RunOK(r) /\ Apart /\ SameTenant /\ ReportedWhole
      /\ n \in Nat /\ n = Len(docs)
  BY DEF KnowledgeInv, TypeOK
<1>1. row \in [title : Titles, tenant : Tenants, edition : 1..Editions]
  <2>1. File(r) \in Titles
    BY <1>0, FilesType DEF InsertDocument, RunOK, File
  <2> QED BY <1>0, <2>1, KnowledgeAssumption DEF TypeOK
<1>2. /\ docs' = Append(docs, row)
      /\ docs' \in Seq([title : Titles, tenant : Tenants, edition : 1..Editions])
      /\ Len(docs') = n + 1
      /\ docs'[n + 1] = row
      /\ \A d \in 1..n : docs'[d] = docs[d]
  <2>1. docs' = Append(docs, row)
    BY DEF InsertDocument
  <2> HIDE DEF row
  <2> QED BY <1>0, <1>1, <2>1 DEF TypeOK
<1>3. /\ run' = [run EXCEPT ![r].pc = "chunks", ![r].doc = n + 1]
      /\ UNCHANGED <<edition, chunks, reported, found>>
  BY <1>2 DEF InsertDocument
<1> HIDE DEF row
<1>4. /\ run'[r] = [run[r] EXCEPT !.pc = "chunks", !.doc = n + 1]
      /\ \A s \in Runs \ {r} : run'[s] = run[s]
  BY <1>0, <1>3 DEF TypeOK
<1>5. \A d \in 1..n : Total(d)' = Total(d) /\ OrdinalsOf(d)' = OrdinalsOf(d)
  BY <1>2, <1>3 DEF Total, OrdinalsOf
<1>6. TypeOK'
  <2>1. \A c \in chunks' : c.ordinal < Total(c.doc)'
    BY <1>0, <1>3, <1>5 DEF TypeOK
  <2>2. run' \in [Runs -> [pc : Locations, at : Nat, edition : 1..Editions,
                          doc : 0..Len(docs'), next : Nat]]
    <3> DEFINE Run(k) == [pc : Locations, at : Nat, edition : 1..Editions,
                          doc : 0..k, next : Nat]
    <3>1. run \in [Runs -> Run(n)]
      BY <1>0 DEF TypeOK
    <3>2. [run[r] EXCEPT !.pc = "chunks", !.doc = n + 1] \in Run(n + 1)
      <4>1. "chunks" \in Locations /\ n + 1 \in 0..(n + 1)
        BY DEF Locations
      <4>2. run[r] \in Run(n)
        BY <3>1
      <4>3. run[r].next \in Nat /\ run[r].at \in Nat /\ run[r].edition \in 1..Editions
        BY <4>2
      <4> QED BY <4>1, <4>2, <4>3
    <3>3. \A x \in Run(n) : x \in Run(n + 1)
      BY <1>0
    <3> HIDE DEF Run
    <3>4. run' \in [Runs -> Run(n + 1)]
      BY <1>3, <1>4, <3>1, <3>2, <3>3
    <3> QED BY <1>2, <3>4 DEF Run
  <2>3. chunks' \subseteq [doc : 1..Len(docs'), ordinal : Nat, tenant : Tenants]
    BY <1>0, <1>2, <1>3 DEF TypeOK
  <2>4. reported' \subseteq 1..Len(docs')
    BY <1>0, <1>2, <1>3 DEF TypeOK
  <2>5. edition' \in [Titles -> 1..Editions] /\ found' \in [Runs -> [Titles -> 1..Editions]]
    BY <1>0, <1>3 DEF TypeOK
  <2> QED BY <1>2, <2>1, <2>2, <2>3, <2>4, <2>5 DEF TypeOK
<1>7. ASSUME NEW s \in Runs PROVE RunOK(s)'
  <2>1. CASE s = r
    <3>1. /\ run'[r].pc = "chunks" /\ run'[r].doc = n + 1
          /\ run'[r].next = 0 /\ run'[r].at \in 1..Len(Files[r])
      BY <1>0, <1>4 DEF TypeOK, InsertDocument, RunOK
    <3>2. \A c \in chunks' : c.doc # run'[r].doc
      BY <1>0, <1>3, <3>1 DEF TypeOK
    <3>3. OrdinalsOf(run[r].doc)' = 0..(run'[r].next - 1)
      BY <3>1, <3>2 DEF OrdinalsOf
    <3>4. Total(run[r].doc)' \in Nat
      <4>1. ChunksOf[row.title][row.edition] \in Nat
        BY <1>1, KnowledgeAssumption
      <4>2. docs'[run'[r].doc] = row
        BY <1>2, <3>1
      <4> QED BY <4>1, <4>2 DEF Total
    <3>5. docs'[n + 1].tenant = TenantOf[r] /\ n + 1 \in 1..Len(docs') /\ n + 1 \notin reported'
      BY <1>0, <1>2, <1>3 DEF TypeOK, row
    <3> QED BY <2>1, <3>1, <3>3, <3>4, <3>5 DEF RunOK, Rows
  <2>2. CASE s # r
    <3>1. RunOK(s) /\ run'[s] = run[s]
      BY <1>4, <2>2 DEF KnowledgeInv
    <3>2. run[s].pc = "chunks" => run[s].doc \in 1..n
      BY <3>1 DEF RunOK, Rows
    <3>3. docs'[run[s].doc] = docs[run[s].doc] \/ run[s].pc # "chunks"
      BY <1>2, <3>2
    <3>4. \A m \in 1..n : m \in 1..Len(docs')
      BY <1>0, <1>2
    <3>5. OrdinalsOf(run[s].doc)' = OrdinalsOf(run[s].doc)
      BY <1>3, <3>1 DEF OrdinalsOf
    <3>6. run[s].pc = "chunks" => Total(run[s].doc)' = Total(run[s].doc)
      BY <3>1, <3>3 DEF Total
    <3>7. CASE run[s].pc = "chunks"
      <4>1. /\ run[s].at \in 1..Len(Files[s])
            /\ run[s].doc \in 1..n /\ run[s].doc \notin reported
            /\ docs[run[s].doc].tenant = TenantOf[s]
            /\ run[s].next <= Total(run[s].doc)
            /\ OrdinalsOf(run[s].doc) = 0..(run[s].next - 1)
        BY <1>0, <3>1, <3>7 DEF RunOK, Rows
      <4>2. /\ run'[s].doc \in 1..Len(docs') /\ run'[s].doc \notin reported'
            /\ docs'[run'[s].doc].tenant = TenantOf[s]
        <5>1. docs'[run[s].doc] = docs[run[s].doc] /\ run[s].doc \in 1..Len(docs')
          BY <3>3, <3>4, <3>7, <4>1
        <5>2. run'[s].doc = run[s].doc /\ reported' = reported
          BY <1>3, <3>1
        <5>3. docs'[run'[s].doc].tenant = TenantOf[s]
          BY <4>1, <5>1, <5>2
        <5> QED BY <4>1, <5>1, <5>2, <5>3
      <4> QED BY <3>1, <3>5, <3>6, <3>7, <4>1, <4>2 DEF RunOK, Rows
    <3>8. CASE run[s].pc # "chunks"
      BY <3>1, <3>8 DEF RunOK
    <3> QED BY <3>7, <3>8
  <2> QED BY <2>1, <2>2
<1>8. Apart'
  <2>1. \A s \in Runs : run[s].pc = "chunks" => run[s].doc \in 1..n
    BY DEF KnowledgeInv, RunOK, Rows
  <2>2. run'[r].doc = n + 1
    BY <1>0, <1>4 DEF TypeOK
  <2>3. ASSUME NEW s \in Runs, NEW t \in Runs, s # t,
               run'[s].pc = "chunks", run'[t].pc = "chunks"
        PROVE  run'[s].doc # run'[t].doc
    <3>1. CASE s = r \/ t = r
      <4>1. \A u \in Runs \ {r} : run'[u].pc = "chunks" => run'[u].doc \in 1..n
        BY <1>4, <2>1
      <4>2. n + 1 \notin 1..n
        BY <1>0
      <4> QED BY <2>2, <2>3, <3>1, <4>1, <4>2
    <3>2. CASE s # r /\ t # r
      BY <1>0, <1>4, <2>3, <3>2 DEF Apart
    <3> QED BY <3>1, <3>2
  <2> QED BY <2>3 DEF Apart
<1>9. SameTenant'
  <2>1. \A c \in chunks : c.doc \in 1..n
    BY <1>0 DEF TypeOK
  <2> QED BY <1>0, <1>2, <1>3, <2>1 DEF SameTenant
<1>10. ReportedWhole'
  <2>1. reported \subseteq 1..n
    BY <1>0 DEF TypeOK
  <2> QED BY <1>0, <1>3, <1>5, <2>1 DEF ReportedWhole
<1> QED BY <1>6, <1>7, <1>8, <1>9, <1>10 DEF KnowledgeInv

\* A chunk goes into the document of its run, and of no other.
LEMMA ChunkStep ==
    ASSUME KnowledgeInv, NEW r \in Runs, InsertChunk(r)
    PROVE  KnowledgeInv'
<1> PICK d : d = run[r].doc
  OBVIOUS
<1> PICK k : k = run[r].next
  OBVIOUS
<1> DEFINE new == [doc |-> d, ordinal |-> k, tenant |-> TenantOf[r]]
<1>0. /\ TypeOK /\ RunOK(r) /\ Apart /\ SameTenant /\ ReportedWhole
      /\ run[r].pc = "chunks" /\ d = run[r].doc /\ k = run[r].next /\ k < Total(d)
  BY DEF KnowledgeInv, InsertChunk
<1>1. /\ d \in 1..Len(docs) /\ d \notin reported
      /\ docs[d].tenant = TenantOf[r]
      /\ OrdinalsOf(d) = 0..(k - 1)
      /\ k \in Nat /\ Total(d) \in Nat
      /\ run[r].at \in 1..Len(Files[r])
  <2>1. k \in Nat
    BY <1>0 DEF TypeOK
  <2>2. d \in Rows
    BY <1>0 DEF RunOK
  <2> QED BY <1>0, <2>1, <2>2, TotalNat DEF RunOK, Rows
<1>2. /\ chunks' = chunks \cup {new}
      /\ run' = [run EXCEPT ![r].next = k + 1]
      /\ UNCHANGED <<edition, docs, reported, found>>
  BY <1>0 DEF InsertChunk
<1>3. /\ run'[r] = [run[r] EXCEPT !.next = k + 1]
      /\ \A s \in Runs \ {r} : run'[s] = run[s]
  BY <1>0, <1>2 DEF TypeOK
<1>4. /\ new.doc = d /\ new.ordinal = k /\ new.tenant = TenantOf[r]
      /\ new \in [doc : 1..Len(docs), ordinal : Nat, tenant : Tenants]
  BY <1>1, KnowledgeAssumption
<1> HIDE DEF new
<1>5. \A e : e # d => OrdinalsOf(e)' = OrdinalsOf(e)
  BY <1>2, <1>4 DEF OrdinalsOf
<1>6. OrdinalsOf(d)' = 0..k
  <2>1. OrdinalsOf(d)' = OrdinalsOf(d) \cup {k}
    BY <1>2, <1>4 DEF OrdinalsOf
  <2>2. 0..k = 0..(k - 1) \cup {k}
    BY <1>1
  <2> QED BY <1>1, <2>1, <2>2
<1>7. TypeOK'
  <2>1. \A c \in chunks' : c.ordinal < Total(c.doc)'
    BY <1>0, <1>2, <1>4 DEF TypeOK, Total
  <2>2. run' \in [Runs -> [pc : Locations, at : Nat, edition : 1..Editions,
                          doc : 0..Len(docs), next : Nat]]
    <3> DEFINE Run == [pc : Locations, at : Nat, edition : 1..Editions,
                       doc : 0..Len(docs), next : Nat]
    <3>1. run \in [Runs -> Run] /\ k + 1 \in Nat
      BY <1>0, <1>1 DEF TypeOK
    <3>2. [run[r] EXCEPT !.next = k + 1] \in Run
      BY <3>1
    <3> HIDE DEF Run
    <3>3. run' \in [Runs -> Run]
      BY <1>2, <1>3, <3>1, <3>2
    <3> QED BY <3>3 DEF Run
  <2> QED BY <1>0, <1>2, <1>4, <2>1, <2>2 DEF TypeOK
<1>8. ASSUME NEW s \in Runs PROVE RunOK(s)'
  <2>1. CASE s = r
    <3>1. /\ run'[r].pc = "chunks" /\ run'[r].doc = d /\ run'[r].next = k + 1
          /\ run'[r].at = run[r].at
      BY <1>0, <1>3 DEF TypeOK
    <3>2. OrdinalsOf(run[r].doc)' = 0..(run'[r].next - 1)
      <4>1. OrdinalsOf(run[r].doc)' = 0..k
        BY <1>6, <3>1 DEF OrdinalsOf
      <4> QED BY <1>1, <3>1, <4>1
    <3>3. run'[r].next <= Total(run[r].doc)'
      <4>1. Total(run[r].doc)' = Total(d)
        BY <1>2, <3>1 DEF Total
      <4> QED BY <1>0, <1>1, <3>1, <4>1
    <3> QED BY <1>1, <1>2, <2>1, <3>1, <3>2, <3>3 DEF RunOK, Rows
  <2>2. CASE s # r
    <3>1. RunOK(s) /\ run'[s] = run[s]
      BY <1>3, <2>2 DEF KnowledgeInv
    <3>2. CASE run[s].pc = "chunks"
      <4>1. PICK e : e = run[s].doc
        OBVIOUS
      <4>2. e # d
        BY <1>0, <2>2, <3>2, <4>1 DEF Apart
      <4>3. OrdinalsOf(run[s].doc)' = OrdinalsOf(run[s].doc)
        BY <1>2, <1>4, <3>1, <4>1, <4>2 DEF OrdinalsOf
      <4>4. Total(run[s].doc)' = Total(run[s].doc)
        BY <1>2, <3>1 DEF Total
      <4> QED BY <1>2, <3>1, <3>2, <4>3, <4>4 DEF RunOK, Rows
    <3>3. CASE run[s].pc # "chunks"
      BY <3>1, <3>3 DEF RunOK
    <3> QED BY <3>2, <3>3
  <2> QED BY <2>1, <2>2
<1>9. Apart'
  <2>1. \A s \in Runs : run'[s].pc = run[s].pc /\ run'[s].doc = run[s].doc
    BY <1>0, <1>3 DEF TypeOK
  <2> QED BY <1>0, <2>1 DEF Apart
<1>10. SameTenant'
  BY <1>0, <1>1, <1>2, <1>4 DEF SameTenant
<1>11. ReportedWhole'
  <2>1. ASSUME NEW e \in reported PROVE OrdinalsOf(e)' = 0..(Total(e)' - 1)
    <3>1. OrdinalsOf(e)' = OrdinalsOf(e)
      BY <1>1, <1>5, <2>1
    <3>2. Total(e)' = Total(e)
      BY <1>2 DEF Total
    <3> QED BY <1>0, <2>1, <3>1, <3>2 DEF ReportedWhole
  <2> QED BY <1>2, <2>1 DEF ReportedWhole
<1> QED BY <1>7, <1>8, <1>9, <1>10, <1>11 DEF KnowledgeInv

\* A document is reported when its last chunk is there.
LEMMA ReportStep ==
    ASSUME KnowledgeInv, NEW r \in Runs, Report(r)
    PROVE  KnowledgeInv'
<1> PICK d : d = run[r].doc
  OBVIOUS
<1>0. /\ TypeOK /\ RunOK(r) /\ Apart /\ SameTenant /\ ReportedWhole
      /\ run[r].pc = "chunks" /\ d = run[r].doc /\ run[r].next = Total(d)
  BY DEF KnowledgeInv, Report
<1>1. /\ d \in 1..Len(docs) /\ OrdinalsOf(d) = 0..(Total(d) - 1)
      /\ run[r].at \in 1..Len(Files[r])
  BY <1>0 DEF RunOK, Rows
<1>2. reported' = reported \cup {d} /\ UNCHANGED <<edition, docs, chunks, found>>
  BY <1>0 DEF Report
<1>3. /\ run' \in [Runs -> [pc : Locations, at : Nat, edition : 1..Editions,
                            doc : 0..Len(docs), next : Nat]]
      /\ \A s \in Runs \ {r} : run'[s] = run[s]
      /\ run'[r].pc \in {"read", "done"}
      /\ run'[r].pc = "read" => run'[r].at \in 1..Len(Files[r]) /\ run'[r].next = 0
  BY <1>1, NextFileOK DEF Report
<1>4. \A e : Total(e)' = Total(e) /\ OrdinalsOf(e)' = OrdinalsOf(e)
  BY <1>2 DEF Total, OrdinalsOf
<1>5. TypeOK'
  <2>1. \A c \in chunks' : c.ordinal < Total(c.doc)'
    BY <1>0, <1>2 DEF TypeOK, Total
  <2> QED BY <1>0, <1>1, <1>2, <1>3, <2>1 DEF TypeOK
<1>6. ASSUME NEW s \in Runs PROVE RunOK(s)'
  <2>1. CASE s = r
    BY <1>3, <2>1 DEF RunOK
  <2>2. CASE s # r
    <3>1. RunOK(s) /\ run'[s] = run[s]
      BY <1>3, <2>2 DEF KnowledgeInv
    <3>2. CASE run[s].pc = "chunks"
      <4>1. run[s].doc # d
        BY <1>0, <2>2, <3>2 DEF Apart
      <4>2. /\ OrdinalsOf(run[s].doc)' = OrdinalsOf(run[s].doc)
            /\ Total(run[s].doc)' = Total(run[s].doc)
        BY <1>2, <3>1 DEF Total, OrdinalsOf
      <4> QED BY <1>2, <3>1, <3>2, <4>1, <4>2 DEF RunOK, Rows
    <3>3. CASE run[s].pc # "chunks"
      BY <3>1, <3>3 DEF RunOK
    <3> QED BY <3>2, <3>3
  <2> QED BY <2>1, <2>2
<1>7. Apart'
  BY <1>0, <1>3 DEF Apart
<1>8. SameTenant'
  BY <1>0, <1>2 DEF SameTenant
<1>9. ReportedWhole'
  <2>1. \A e \in reported \cup {d} : OrdinalsOf(e)' = 0..(Total(e)' - 1)
    BY <1>0, <1>1, <1>4 DEF ReportedWhole
  <2> QED BY <1>2, <2>1 DEF ReportedWhole
<1> QED BY <1>5, <1>6, <1>7, <1>8, <1>9 DEF KnowledgeInv

\* Every step preserves the invariant.
LEMMA KnowledgeStep == ASSUME KnowledgeInv, [Next]_vars PROVE KnowledgeInv'
<1> DEFINE Run == [pc : Locations, at : Nat, edition : 1..Editions,
                   doc : 0..Len(docs), next : Nat]
<1>0. /\ edition \in [Titles -> 1..Editions] /\ found \in [Runs -> [Titles -> 1..Editions]]
      /\ run \in [Runs -> Run] /\ \A r \in Runs : RunOK(r)
  BY DEF KnowledgeInv, TypeOK
<1>1. ASSUME NEW t \in Titles, Edit(t) PROVE KnowledgeInv'
  <2>1. edition' \in [Titles -> 1..Editions]
    BY <1>0, <1>1, KnowledgeAssumption DEF Edit
  <2> QED BY <1>0, <1>1, <2>1, QuietStep DEF Edit
<1>2. ASSUME NEW r \in Runs, Start(r) PROVE KnowledgeInv'
  <2>1. found' \in [Runs -> [Titles -> 1..Editions]]
    BY <1>0, <1>2 DEF Start
  <2>2. run' \in [Runs -> Run]
    BY <1>0, <1>2 DEF Start, Locations
  <2>3. /\ run'[r].pc \in {"read", "done"} /\ run'[r].at = 1 /\ run'[r].next = 0
        /\ run'[r].pc = "read" => Files[r] # <<>>
        /\ \A s \in Runs : s # r => run'[s] = run[s]
    BY <1>0, <1>2 DEF Start, RunOK
  <2>4. Files[r] # <<>> => 1 \in 1..Len(Files[r])
    <3>1. Files[r] \in Seq(Titles)
      BY KnowledgeAssumption
    <3> QED BY <3>1
  <2>5. UNCHANGED <<edition, docs, chunks, reported>>
    BY <1>2 DEF Start
  <2> QED BY <1>0, <2>1, <2>2, <2>3, <2>4, <2>5, QuietStep
<1>3. ASSUME NEW r \in Runs, ReadFile(r) PROVE KnowledgeInv'
  <2>1. /\ run[r].pc = "read" /\ run[r].at \in 1..Len(Files[r]) /\ run[r].next = 0
        /\ UNCHANGED <<edition, docs, chunks, reported, found>>
    BY <1>0, <1>3 DEF ReadFile, RunOK
  <2>2. CASE NextFile(r)
    BY <1>0, <2>1, <2>2, NextFileOK, QuietStep
  <2>3. CASE run' = [run EXCEPT ![r].pc = "document", ![r].edition = edition[File(r)]]
    <3>1. edition[File(r)] \in 1..Editions
      BY <1>0, <2>1, FilesType DEF File
    <3>2. /\ run'[r] = [run[r] EXCEPT !.pc = "document", !.edition = edition[File(r)]]
          /\ \A s \in Runs : s # r => run'[s] = run[s]
      BY <1>0, <2>3
    <3>3. [run[r] EXCEPT !.pc = "document", !.edition = edition[File(r)]] \in Run
      BY <1>0, <3>1 DEF Locations
    <3>4. run' \in [Runs -> Run]
      <4> HIDE DEF Run
      <4> QED BY <1>0, <2>3, <3>2, <3>3
    <3>5. run'[r].pc = "document" /\ run'[r].at = run[r].at /\ run'[r].next = run[r].next
      BY <1>0, <3>2
    <3> QED BY <1>0, <2>1, <3>2, <3>4, <3>5, QuietStep
  <2> QED BY <1>3, <2>2, <2>3 DEF ReadFile
<1>4. ASSUME NEW r \in Runs, Fail(r) PROVE KnowledgeInv'
  <2>1. /\ run' \in [Runs -> Run] /\ run'[r].pc = "failed"
        /\ \A s \in Runs : s # r => run'[s] = run[s]
        /\ UNCHANGED <<edition, docs, chunks, reported, found>>
    BY <1>0, <1>4 DEF Fail, Locations
  <2> QED BY <1>0, <2>1, QuietStep
<1>5. CASE UNCHANGED vars
  BY <1>0, <1>5, QuietStep DEF vars
<1> QED
  BY <1>1, <1>2, <1>3, <1>4, <1>5, DocumentStep, ChunkStep, ReportStep DEF Next

\* The invariant holds in every state a run of the command can reach.
THEOREM KnowledgeInvariant == Spec => []KnowledgeInv
BY KnowledgeInitInv, KnowledgeStep, PTL DEF Spec

\* No chunk is left without its document or beyond the end of its text, and no
\* run leaves the list of its files.
THEOREM KnowledgeTypeCorrect == Spec => []TypeOK
<1>1. KnowledgeInv => TypeOK
  BY DEF KnowledgeInv
<1> QED BY <1>1, KnowledgeInvariant, PTL

\* A document the command has reported (rag/ingest.py, main) is there as a whole
\* whatever other runs insert before, meanwhile and after.
THEOREM ReportedIsWhole == Spec => []ReportedWhole
<1>1. KnowledgeInv => ReportedWhole
  BY DEF KnowledgeInv
<1> QED BY <1>1, KnowledgeInvariant, PTL

\* A search (rag/store.py, search) shows nothing of a document of a tenant that
\* is not one of the caller's, for any number of tenants and runs.
THEOREM SearchStaysInTenant == Spec => []ScopedSearch
<1>1. KnowledgeInv => ScopedSearch
  BY DEF KnowledgeInv, SameTenant, ScopedSearch, Hits, Visible
<1> QED BY <1>1, KnowledgeInvariant, PTL

-----------------------------------------------------------------------------

\* Whatever is half-ingested is the document a run is at, or was at when it failed.
Owner(r, d) == run[r].pc \in {"chunks", "failed"} /\ run[r].doc = d
Owned == \A d \in Partial : \E r \in Runs : Owner(r, d)

LEMMA OwnedInit == ASSUME Init PROVE Owned
<1>1. docs = <<>>
  BY DEF Init
<1>2. 1..Len(docs) = {}
  BY <1>1
<1> QED BY <1>2 DEF Owned, Partial

\* A step that changes no row: runs that own a document keep it.
LEMMA OwnedQuiet ==
    ASSUME Owned, UNCHANGED <<docs, chunks>>,
           \A r \in Runs : run[r].pc \in {"chunks", "failed"} =>
               run'[r].pc \in {"chunks", "failed"} /\ run'[r].doc = run[r].doc
    PROVE  Owned'
<1>1. Partial' = Partial
  BY DEF Partial, OrdinalsOf, Total
<1> QED BY <1>1 DEF Owned, Owner

LEMMA OwnedStep == ASSUME KnowledgeInv, Owned, [Next]_vars PROVE Owned'
<1> DEFINE Run == [pc : Locations, at : Nat, edition : 1..Editions,
                   doc : 0..Len(docs), next : Nat]
<1>0. run \in [Runs -> Run] /\ Len(docs) \in Nat
  BY DEF KnowledgeInv, TypeOK
<1>1. ASSUME NEW r \in Runs, InsertDocument(r) PROVE Owned'
  <2> DEFINE row == [title |-> File(r), tenant |-> TenantOf[r], edition |-> run[r].edition]
  <2>1. docs' = Append(docs, row) /\ chunks' = chunks /\ run[r].pc = "document"
    BY <1>1 DEF InsertDocument
  <2>2. docs \in Seq([title : Titles, tenant : Tenants, edition : 1..Editions])
    BY DEF KnowledgeInv, TypeOK
  <2>3. row \in [title : Titles, tenant : Tenants, edition : 1..Editions]
    <3>1. RunOK(r)
      BY DEF KnowledgeInv
    <3>2. File(r) \in Titles
      BY <2>1, <3>1, FilesType DEF RunOK, File
    <3> QED BY <1>0, <3>2, KnowledgeAssumption
  <2> HIDE DEF row
  <2>4. Len(docs') = Len(docs) + 1 /\ \A d \in 1..Len(docs) : docs'[d] = docs[d]
    BY <2>1, <2>2, <2>3
  <2>5. /\ run'[r].pc = "chunks" /\ run'[r].doc = Len(docs) + 1
        /\ \A s \in Runs \ {r} : run'[s] = run[s]
    BY <1>0, <1>1, <2>4 DEF InsertDocument
  <2>6. ASSUME NEW d \in Partial' PROVE \E s \in Runs : Owner(s, d)'
    <3>1. CASE d = Len(docs) + 1
      BY <2>5, <3>1 DEF Owner
    <3>2. CASE d # Len(docs) + 1
      <4>1. d \in 1..Len(docs)
        BY <1>0, <2>4, <2>6, <3>2 DEF Partial
      <4>2. Total(d)' = Total(d) /\ OrdinalsOf(d)' = OrdinalsOf(d)
        BY <2>1, <2>4, <4>1 DEF Total, OrdinalsOf
      <4>3. d \in Partial
        BY <2>6, <4>1, <4>2 DEF Partial
      <4>4. PICK s \in Runs : Owner(s, d)
        BY <4>3 DEF Owned
      <4>5. s # r
        BY <2>1, <4>4 DEF Owner
      <4> QED BY <2>5, <4>4, <4>5 DEF Owner
    <3> QED BY <3>1, <3>2
  <2> QED BY <2>6 DEF Owned
<1>2. ASSUME NEW r \in Runs, InsertChunk(r) PROVE Owned'
  <2> PICK k : k = run[r].doc
    OBVIOUS
  <2>1. /\ run[r].pc = "chunks" /\ k = run[r].doc /\ UNCHANGED docs
        /\ \A s \in Runs : run'[s].pc = run[s].pc /\ run'[s].doc = run[s].doc
        /\ \E c : chunks' = chunks \cup {c} /\ c.doc = k
    <3>1. /\ run[r].pc = "chunks" /\ k = run[r].doc /\ UNCHANGED docs
          /\ \A s \in Runs : run'[s].pc = run[s].pc /\ run'[s].doc = run[s].doc
      BY <1>0, <1>2 DEF InsertChunk
    <3> DEFINE c == [doc |-> k, ordinal |-> run[r].next, tenant |-> TenantOf[r]]
    <3>2. chunks' = chunks \cup {c} /\ c.doc = k
      BY <1>2 DEF InsertChunk
    <3> HIDE DEF c
    <3> QED BY <3>1, <3>2
  <2>2. ASSUME NEW d \in Partial' PROVE \E s \in Runs : Owner(s, d)'
    <3>1. CASE d = k
      BY <2>1, <3>1 DEF Owner
    <3>2. CASE d # k
      <4>1. OrdinalsOf(d)' = OrdinalsOf(d) /\ Total(d)' = Total(d)
        BY <2>1, <3>2 DEF OrdinalsOf, Total
      <4>2. d \in Partial
        BY <2>1, <2>2, <4>1 DEF Partial
      <4> QED BY <2>1, <4>2 DEF Owned, Owner
    <3> QED BY <3>1, <3>2
  <2> QED BY <2>2 DEF Owned
<1>3. ASSUME NEW r \in Runs, Report(r) PROVE Owned'
  <2>1. RunOK(r) /\ run[r].pc = "chunks" /\ run[r].next = Total(run[r].doc)
    BY <1>3 DEF Report, KnowledgeInv
  <2>2. run[r].doc \notin Partial
    BY <2>1 DEF RunOK, Partial
  <2>3. Partial' = Partial /\ \A s \in Runs \ {r} : run'[s] = run[s]
    <3>1. \A s \in Runs \ {r} : run'[s] = run[s]
      BY <1>3, <2>1, NextFileOK DEF Report, RunOK
    <3> QED BY <1>3, <3>1 DEF Report, Partial, OrdinalsOf, Total
  <2>4. ASSUME NEW d \in Partial' PROVE \E s \in Runs : Owner(s, d)'
    <3>1. PICK s \in Runs : Owner(s, d)
      BY <2>3, <2>4 DEF Owned
    <3>2. s # r
      BY <2>2, <2>3, <2>4, <3>1 DEF Owner
    <3> QED BY <2>3, <3>1, <3>2 DEF Owner
  <2> QED BY <2>4 DEF Owned
<1>4. ASSUME NEW r \in Runs, Start(r) PROVE Owned'
  <2>1. /\ run[r].pc = "idle" /\ UNCHANGED <<docs, chunks>>
        /\ \A s \in Runs \ {r} : run'[s] = run[s]
    BY <1>0, <1>4 DEF Start
  <2> QED BY <2>1, OwnedQuiet
<1>5. ASSUME NEW r \in Runs, ReadFile(r) PROVE Owned'
  <2>1. run[r].pc = "read" /\ UNCHANGED <<docs, chunks>> /\ RunOK(r)
    BY <1>5 DEF ReadFile, KnowledgeInv
  <2>2. \A s \in Runs \ {r} : run'[s] = run[s]
    <3>1. CASE NextFile(r)
      BY <2>1, <3>1, NextFileOK DEF RunOK
    <3>2. CASE run' = [run EXCEPT ![r].pc = "document", ![r].edition = edition[File(r)]]
      BY <1>0, <3>2
    <3> QED BY <1>5, <3>1, <3>2 DEF ReadFile
  <2> QED BY <2>1, <2>2, OwnedQuiet
<1>6. ASSUME NEW r \in Runs, Fail(r) PROVE Owned'
  <2>1. /\ run'[r].pc = "failed" /\ run'[r].doc = run[r].doc /\ UNCHANGED <<docs, chunks>>
        /\ \A s \in Runs \ {r} : run'[s] = run[s]
    BY <1>0, <1>6 DEF Fail
  <2> QED BY <2>1, OwnedQuiet
<1>7. ASSUME UNCHANGED <<run, docs, chunks>> PROVE Owned'
  BY <1>7, OwnedQuiet
<1> QED
  BY <1>1, <1>2, <1>3, <1>4, <1>5, <1>6, <1>7 DEF Next, vars, Edit

LEMMA OwnedInvariant == Spec => [](KnowledgeInv /\ Owned)
<1>1. KnowledgeInv /\ Owned /\ [Next]_vars => Owned'
  BY OwnedStep
<1> QED BY <1>1, OwnedInit, KnowledgeInvariant, PTL DEF Spec

\* Half-ingested documents are never more than the runs under way or failed
\* (rag/store.py, upsert_chunks in autocommit mode): each belongs to a run of its
\* own, so a failure costs at most the document it struck.
THEOREM PartialsAreAccounted == Spec => []PartialsAccounted
<1>1. ASSUME KnowledgeInv, Owned PROVE PartialsAccounted
  <2> DEFINE Active == {r \in Runs : run[r].pc \in {"chunks", "failed"}}
             Owners == {r \in Active : run[r].doc \in Partial}
             f == [r \in Owners |-> run[r].doc]
  <2>1. f \in Surjection(Owners, Partial)
    <3>1. f \in [Owners -> Partial]
      OBVIOUS
    <3>2. \A d \in Partial : \E r \in Owners : f[r] = d
      BY <1>1 DEF Owned, Owner
    <3> HIDE DEF f, Owners
    <3> QED BY <3>1, <3>2 DEF Surjection
  <2>2. IsFiniteSet(Active)
    BY KnowledgeAssumption, FS_Subset
  <2>3. IsFiniteSet(Owners) /\ Cardinality(Owners) <= Cardinality(Active)
    BY <2>2, FS_Subset
  <2>4. IsFiniteSet(Partial) /\ Cardinality(Partial) <= Cardinality(Owners)
    <3> HIDE DEF f, Owners
    <3> QED BY <2>1, <2>3, FS_Surjection
  <2>5. /\ Cardinality(Partial) \in Nat /\ Cardinality(Owners) \in Nat
        /\ Cardinality(Active) \in Nat
    BY <2>2, <2>3, <2>4, FS_CardinalityType
  <2>6. Cardinality(Partial) <= Cardinality(Active)
    <3> HIDE DEF Active, Owners
    <3> QED BY <2>3, <2>4, <2>5
  <2> QED BY <2>6 DEF PartialsAccounted
<1> QED BY <1>1, OwnedInvariant, PTL

\* What a run has ingested of the file at place i, from the edition it found on.
Fresh(r, i) ==
    LET t == Files[r][i]
    IN  \E e \in found[r][t]..Editions :
           \/ ChunksOf[t][e] = 0
           \/ \E d \in reported :
                 docs[d] = [title |-> t, tenant |-> TenantOf[r], edition |-> e]

\* The file on disk is never older than what a run found, what the run has read of
\* it is as new, and the row inserted says which edition that was.
Ingesting(r) ==
    /\ \A t \in Titles : found[r][t] <= edition[t]
    /\ run[r].pc \in {"read", "document", "chunks"} =>
          \A i \in 1..(run[r].at - 1) : Fresh(r, i)
    /\ run[r].pc = "done" => \A i \in 1..Len(Files[r]) : Fresh(r, i)
    /\ run[r].pc \in {"document", "chunks"} => found[r][File(r)] <= run[r].edition
    /\ run[r].pc = "chunks" =>
          docs[run[r].doc] = [title |-> File(r), tenant |-> TenantOf[r],
                              edition |-> run[r].edition]

FreshInv == \A r \in Runs : Ingesting(r)

LEMMA FreshInit == ASSUME Init PROVE FreshInv
BY KnowledgeAssumption DEF Init, NoRun, FreshInv, Ingesting

\* Rows stay as they are and reported documents stay reported.
RowsKept ==
    /\ \A d \in 1..Len(docs) : docs'[d] = docs[d]
    /\ reported \subseteq reported'
    /\ \A t \in Titles : edition[t] <= edition'[t]
    /\ edition' \in [Titles -> 1..Editions]

LEMMA FreshKept ==
    ASSUME KnowledgeInv, RowsKept, NEW r \in Runs, found'[r] = found[r], NEW i, Fresh(r, i)
    PROVE  Fresh(r, i)'
<1>1. reported \subseteq 1..Len(docs)
  BY DEF KnowledgeInv, TypeOK
<1>2. \A d \in reported : d \in reported' /\ docs'[d] = docs[d]
  BY <1>1 DEF RowsKept
<1> QED BY <1>2 DEF Fresh

\* A run that does not move is as far as it was.
LEMMA IngestingKept ==
    ASSUME KnowledgeInv, RowsKept, NEW r \in Runs, Ingesting(r), run'[r] = run[r],
           found'[r] = found[r]
    PROVE  Ingesting(r)'
<1>1. RunOK(r) /\ edition \in [Titles -> 1..Editions] /\ found \in [Runs -> [Titles -> 1..Editions]]
  BY DEF KnowledgeInv, TypeOK
<1>2. \A t \in Titles : found'[r][t] <= edition'[t]
  <2> SUFFICES ASSUME NEW t \in Titles PROVE found[r][t] <= edition'[t]
    OBVIOUS
  <2>1. found[r][t] <= edition[t] /\ edition[t] <= edition'[t]
    BY DEF Ingesting, RowsKept
  <2>2. found[r][t] \in Int /\ edition[t] \in Int /\ edition'[t] \in Int
    BY <1>1 DEF RowsKept
  <2> QED BY <2>1, <2>2
<1>3. \A i : Fresh(r, i) => Fresh(r, i)'
  BY FreshKept
<1>4. File(r)' = File(r)
  BY DEF File
<1>5. run[r].pc = "chunks" => docs'[run[r].doc] = docs[run[r].doc]
  BY <1>1 DEF RunOK, Rows, RowsKept
<1> QED BY <1>2, <1>3, <1>4, <1>5 DEF Ingesting

\* Going on to the next file, with the one just passed ingested.
LEMMA IngestingNext ==
    ASSUME KnowledgeInv, RowsKept, NEW r \in Runs, Ingesting(r), NextFile(r),
           run[r].at \in 1..Len(Files[r]), run[r].pc \in {"read", "chunks"},
           found'[r] = found[r], NEW n \in Nat, n = run[r].at, Fresh(r, n)'
    PROVE  Ingesting(r)'
<1> DEFINE Run == [pc : Locations, at : Nat, edition : 1..Editions,
                   doc : 0..Len(docs), next : Nat]
<1>1. run \in [Runs -> Run] /\ Len(Files[r]) \in Nat /\ run[r].at \in Nat
  BY FilesType DEF KnowledgeInv, TypeOK
<1>2. /\ edition \in [Titles -> 1..Editions]
      /\ found \in [Runs -> [Titles -> 1..Editions]]
  BY DEF KnowledgeInv, TypeOK
<1>3. \A t \in Titles : found'[r][t] <= edition'[t]
  <2> SUFFICES ASSUME NEW t \in Titles PROVE found[r][t] <= edition'[t]
    OBVIOUS
  <2>1. found[r][t] <= edition[t] /\ edition[t] <= edition'[t]
    BY DEF Ingesting, RowsKept
  <2>2. found[r][t] \in Int /\ edition[t] \in Int /\ edition'[t] \in Int
    BY <1>2 DEF RowsKept
  <2> QED BY <2>1, <2>2
<1>4. ASSUME NEW i \in 1..n PROVE Fresh(r, i)'
  <2>1. CASE i = n
    BY <2>1
  <2>2. CASE i # n
    <3>1. i \in 1..(run[r].at - 1)
      BY <1>1, <2>2
    <3>2. Fresh(r, i)
      BY <3>1 DEF Ingesting
    <3> QED BY <3>2, FreshKept
  <2> QED BY <2>1, <2>2
<1>5. CASE run[r].at < Len(Files[r])
  <2>1. run'[r].pc = "read" /\ run'[r].at = run[r].at + 1
    BY <1>1, <1>5 DEF NextFile
  <2>2. \A i \in 1..(run'[r].at - 1) : i \in 1..n
    BY <1>1, <2>1
  <2> QED BY <1>3, <1>4, <2>1, <2>2 DEF Ingesting
<1>6. CASE run[r].at >= Len(Files[r])
  <2>1. run'[r].pc = "done"
    BY <1>1, <1>6 DEF NextFile
  <2>2. \A i \in 1..Len(Files[r]) : i \in 1..n
    BY <1>1, <1>6
  <2> QED BY <1>3, <1>4, <2>1, <2>2 DEF Ingesting
<1> QED BY <1>1, <1>5, <1>6

LEMMA FreshStep == ASSUME KnowledgeInv, FreshInv, [Next]_vars PROVE FreshInv'
<1> DEFINE Run == [pc : Locations, at : Nat, edition : 1..Editions,
                   doc : 0..Len(docs), next : Nat]
           Row == [title : Titles, tenant : Tenants, edition : 1..Editions]
<1>0. /\ run \in [Runs -> Run] /\ docs \in Seq(Row) /\ Len(docs) \in Nat
      /\ edition \in [Titles -> 1..Editions]
      /\ found \in [Runs -> [Titles -> 1..Editions]]
      /\ \A r \in Runs : RunOK(r) /\ Ingesting(r)
  <2>1. docs \in Seq(Row)
    BY DEF KnowledgeInv, TypeOK
  <2>2. Len(docs) \in Nat
    <3> HIDE DEF Row
    <3> QED BY <2>1
  <2> QED BY <2>1, <2>2 DEF KnowledgeInv, TypeOK, FreshInv
<1>1. ASSUME UNCHANGED <<docs, reported, edition>> PROVE RowsKept
  BY <1>0, <1>1 DEF RowsKept
<1>2. ASSUME NEW r \in Runs, RowsKept, \A s \in Runs \ {r} : run'[s] = run[s] /\ found'[s] = found[s],
             Ingesting(r)'
      PROVE  FreshInv'
  BY <1>0, <1>2, IngestingKept DEF FreshInv
<1>3. ASSUME NEW t \in Titles, Edit(t) PROVE FreshInv'
  <2>1. RowsKept /\ UNCHANGED <<run, found>>
    BY <1>0, <1>3, KnowledgeAssumption DEF Edit, RowsKept
  <2> QED BY <1>0, <2>1, IngestingKept DEF FreshInv
<1>4. ASSUME NEW r \in Runs, Start(r) PROVE FreshInv'
  <2>1. /\ UNCHANGED <<docs, reported, edition>>
        /\ \A s \in Runs \ {r} : run'[s] = run[s] /\ found'[s] = found[s]
        /\ found'[r] = edition
        /\ run'[r].pc = IF Files[r] = <<>> THEN "done" ELSE "read"
        /\ run'[r].at = 1
    BY <1>0, <1>4 DEF Start, RunOK
  <2>2. \A t \in Titles : found'[r][t] <= edition'[t]
    <3>1. \A t \in Titles : edition[t] \in Int /\ found'[r][t] = edition'[t]
      BY <1>0, <2>1
    <3> QED BY <2>1, <3>1
  <2>3. Files[r] = <<>> => 1..Len(Files[r]) = {}
    OBVIOUS
  <2>4. 1..(run'[r].at - 1) = {}
    <3>1. run'[r].at - 1 = 0
      BY <2>1
    <3> QED BY <3>1
  <2>5. Ingesting(r)'
    BY <2>1, <2>2, <2>3, <2>4 DEF Ingesting
  <2> QED BY <1>1, <1>2, <2>1, <2>5
<1>5. ASSUME NEW r \in Runs, ReadFile(r) PROVE FreshInv'
  <2>1. /\ UNCHANGED <<docs, reported, edition, found>> /\ run[r].pc = "read"
        /\ run[r].at \in 1..Len(Files[r])
    BY <1>0, <1>5 DEF ReadFile, RunOK
  <2>2. File(r) \in Titles
    BY <2>1, FilesType DEF File
  <2>3. /\ edition[File(r)] \in 1..Editions /\ found[r][File(r)] \in 1..Editions
        /\ found[r][File(r)] <= edition[File(r)]
    BY <1>0, <2>2 DEF Ingesting
  <2>4. CASE ChunksOf[File(r)][edition[File(r)]] = 0 /\ NextFile(r)
    <3>1. edition[File(r)] \in found[r][File(r)]..Editions
      BY <2>3, KnowledgeAssumption
    <3> PICK n \in Nat : n = run[r].at
      BY <1>0
    <3>2. Fresh(r, n)'
      <4>1. Files[r][n] = File(r)
        BY DEF File
      <4> QED BY <2>1, <2>4, <3>1, <4>1 DEF Fresh
    <3>3. Ingesting(r)'
      BY <1>0, <1>1, <2>1, <2>4, <3>2, IngestingNext
    <3>4. \A s \in Runs \ {r} : run'[s] = run[s]
      BY <2>1, <2>4, NextFileOK
    <3> QED BY <1>1, <1>2, <2>1, <3>3, <3>4
  <2>5. CASE run' = [run EXCEPT ![r].pc = "document", ![r].edition = edition[File(r)]]
    <3>1. /\ run'[r].pc = "document" /\ run'[r].edition = edition[File(r)]
          /\ run'[r].at = run[r].at
          /\ \A s \in Runs \ {r} : run'[s] = run[s]
      BY <1>0, <2>5
    <3>2. File(r)' = File(r)
      BY <3>1 DEF File
    <3>3. RowsKept /\ found'[r] = found[r]
      BY <1>1, <2>1
    <3>4. \A i : Fresh(r, i) => Fresh(r, i)'
      BY <3>3, FreshKept
    <3>5. Ingesting(r)'
      BY <1>0, <2>1, <2>3, <3>1, <3>2, <3>4 DEF Ingesting
    <3> QED BY <1>2, <2>1, <3>1, <3>3, <3>5
  <2> QED BY <1>5, <2>4, <2>5 DEF ReadFile
<1>6. ASSUME NEW r \in Runs, InsertDocument(r) PROVE FreshInv'
  <2> DEFINE row == [title |-> File(r), tenant |-> TenantOf[r], edition |-> run[r].edition]
  <2>1. /\ docs' = Append(docs, row) /\ UNCHANGED <<reported, edition, found>>
        /\ run[r].pc = "document" /\ run[r].at \in 1..Len(Files[r])
    BY <1>0, <1>6 DEF InsertDocument, RunOK
  <2>2. row \in Row
    <3>1. File(r) \in Titles
      BY <2>1, FilesType DEF File
    <3> QED BY <1>0, <3>1, KnowledgeAssumption
  <2> HIDE DEF Row
  <2>3. /\ Len(docs') = Len(docs) + 1 /\ docs'[Len(docs) + 1] = row
        /\ \A d \in 1..Len(docs) : docs'[d] = docs[d]
    <3> HIDE DEF row
    <3> QED BY <1>0, <2>1, <2>2
  <2>4. /\ run'[r].pc = "chunks" /\ run'[r].doc = Len(docs) + 1
        /\ run'[r].at = run[r].at /\ run'[r].edition = run[r].edition
        /\ \A s \in Runs \ {r} : run'[s] = run[s]
    BY <1>0, <1>6, <2>3 DEF InsertDocument
  <2>5. RowsKept /\ found'[r] = found[r]
    BY <1>0, <2>1, <2>3 DEF RowsKept
  <2>6. \A i : Fresh(r, i) => Fresh(r, i)'
    BY <2>5, FreshKept
  <2>7. File(r)' = File(r)
    BY <2>4 DEF File
  <2>8. docs'[run'[r].doc] = [title |-> File(r), tenant |-> TenantOf[r],
                              edition |-> run'[r].edition]
    BY <2>3, <2>4
  <2> HIDE DEF row
  <2>9. Ingesting(r)'
    BY <1>0, <2>1, <2>4, <2>6, <2>7, <2>8 DEF Ingesting
  <2> QED BY <1>2, <2>1, <2>4, <2>5, <2>9
<1>7. ASSUME NEW r \in Runs, InsertChunk(r) PROVE FreshInv'
  <2>1. /\ UNCHANGED <<docs, reported, edition, found>> /\ run[r].pc = "chunks"
        /\ run'[r].pc = run[r].pc /\ run'[r].at = run[r].at
        /\ run'[r].edition = run[r].edition /\ run'[r].doc = run[r].doc
        /\ \A s \in Runs \ {r} : run'[s] = run[s]
    BY <1>0, <1>7 DEF InsertChunk
  <2>2. RowsKept /\ found'[r] = found[r] /\ File(r)' = File(r)
    BY <1>1, <2>1 DEF File
  <2>3. \A i : Fresh(r, i) => Fresh(r, i)'
    BY <2>2, FreshKept
  <2>4. Ingesting(r)'
    BY <1>0, <2>1, <2>2, <2>3 DEF Ingesting
  <2> QED BY <1>2, <2>1, <2>2, <2>4
<1>8. ASSUME NEW r \in Runs, Report(r) PROVE FreshInv'
  <2>1. /\ UNCHANGED <<docs, edition, found>> /\ reported' = reported \cup {run[r].doc}
        /\ run[r].pc = "chunks" /\ run[r].at \in 1..Len(Files[r]) /\ NextFile(r)
    BY <1>0, <1>8 DEF Report, RunOK
  <2>2. RowsKept
    BY <1>0, <2>1 DEF RowsKept
  <2>3. File(r) \in Titles /\ run[r].edition \in 1..Editions
    BY <1>0, <2>1, FilesType DEF File
  <2>4. /\ found[r][File(r)] <= run[r].edition /\ found[r][File(r)] \in 1..Editions
        /\ docs[run[r].doc] = [title |-> File(r), tenant |-> TenantOf[r],
                               edition |-> run[r].edition]
    BY <1>0, <2>1, <2>3 DEF Ingesting
  <2>5. run[r].edition \in found[r][File(r)]..Editions
    BY <2>3, <2>4, KnowledgeAssumption
  <2> PICK n \in Nat : n = run[r].at
    BY <1>0
  <2>6. Fresh(r, n)'
    <3>1. Files[r][n] = File(r)
      BY DEF File
    <3>2. /\ run[r].doc \in reported'
          /\ docs'[run[r].doc] = [title |-> Files[r][n], tenant |-> TenantOf[r],
                                  edition |-> run[r].edition]
          /\ run[r].edition \in found'[r][Files[r][n]]..Editions
      BY <2>1, <2>4, <2>5, <3>1
    <3> QED BY <3>2 DEF Fresh
  <2>7. Ingesting(r)'
    BY <1>0, <2>1, <2>2, <2>6, IngestingNext
  <2>8. \A s \in Runs \ {r} : run'[s] = run[s]
    BY <2>1, NextFileOK
  <2> QED BY <1>2, <2>1, <2>2, <2>7, <2>8
<1>9. ASSUME NEW r \in Runs, Fail(r) PROVE FreshInv'
  <2>1. /\ UNCHANGED <<docs, reported, edition, found>> /\ run'[r].pc = "failed"
        /\ \A s \in Runs \ {r} : run'[s] = run[s]
    BY <1>0, <1>9 DEF Fail
  <2>2. Ingesting(r)'
    BY <1>0, <2>1 DEF Ingesting
  <2> QED BY <1>1, <1>2, <2>1, <2>2
<1>10. CASE UNCHANGED vars
  BY <1>0, <1>1, <1>10, IngestingKept DEF vars, FreshInv
<1> QED
  BY <1>3, <1>4, <1>5, <1>6, <1>7, <1>8, <1>9, <1>10 DEF Next

\* A run of the command (rag/ingest.py, main) that ends without an error has
\* ingested each of its files in an edition at least as new as the one that was
\* there when it started, for any runs, files and edits in between.
THEOREM DoneIsFresh == Spec => []FreshWhenDone
<1>1. FreshInv => FreshWhenDone
  BY DEF FreshInv, Ingesting, Fresh, FreshWhenDone
<1>2. KnowledgeInv /\ FreshInv /\ [Next]_vars => FreshInv'
  BY FreshStep
<1> QED BY <1>1, <1>2, FreshInit, KnowledgeInvariant, PTL DEF Spec

=============================================================================
