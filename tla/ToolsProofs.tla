----------------------------- MODULE ToolsProofs -----------------------------
(***************************************************************************)
(* Theorems about Tools: posts with any number of attempts, and analyses   *)
(* of any mesh under any edits.                                            *)
(***************************************************************************)
EXTENDS Tools, FiniteSetTheorems, WellFoundedInduction, TLAPS

-----------------------------------------------------------------------------
(* Posts.                                                                  *)

\* What the stage of a call says of its attempts, copies and answers.
NotifyInv ==
    /\ NotifyTypeOK
    /\ stage = "idle" => attempt = 0
    /\ stage = "ready" => attempt < Attempts
    /\ stage = "waiting" => attempt >= 1
    /\ answer # "none" => stage = "over"
    /\ \A a \in 1..Attempts :
          /\ a \in net \/ a \notin 1..attempt => reply[a] = "none"
          /\ reply[a] = "ok" => a \in shown
          /\ reply[a] = "not_ok" => a \notin shown /\ tool = "slack_post"
    /\ net \cap shown = {}
    /\ answer \in {"ok", "not_ok"} => attempt >= 1 /\ reply[attempt] = answer
    /\ tool \in PostTools /\ ~(allowed /\ target) => attempt = 0 /\ stage = "over"

LEMMA NotifyInvInit == NotifyInit => NotifyInv
<1> SUFFICES ASSUME NotifyInit PROVE NotifyInv
  OBVIOUS
<1>1. NotifyTypeOK
  <2>1. reply \in [1..Attempts -> {"none", "ok", "not_ok", "status", "no_json"}]
    BY DEF NotifyInit
  <2>2. attempt \in 0..Attempts
    BY NotifyAssumption DEF NotifyInit
  <2> QED BY <2>1, <2>2 DEF NotifyInit, NotifyTypeOK
<1>2. \A a \in 1..Attempts : reply[a] = "none"
  BY DEF NotifyInit
<1>3. tool \notin PostTools
  BY DEF NotifyInit, PostTools
<1> QED BY <1>1, <1>2, <1>3, NotifyAssumption DEF NotifyInit, NotifyInv

LEMMA NotifyInvStep ==
    ASSUME NotifyInv, NotifyNext
    PROVE  NotifyInv'
<1>0. Attempts \in Nat \ {0} /\ attempt \in 0..Attempts
  BY NotifyAssumption DEF NotifyInv, NotifyTypeOK
<1>1. ASSUME NEW t \in NotifyTools, NEW on \in BOOLEAN, NEW listed \in BOOLEAN, Call(t, on, listed)
      PROVE  NotifyInv'
  <2>1. attempt = 0 /\ net = {} /\ shown = {} /\ answer = "none"
    BY <1>1 DEF Call, NotifyInv, NotifyTypeOK
  <2>2. \A a \in 1..Attempts : reply[a] = "none"
    BY <2>1 DEF NotifyInv
  <2> QED BY <1>0, <1>1, <2>1, <2>2 DEF Call, Permitted, Say, NotifyInv, NotifyTypeOK
<1>2. CASE Send
  BY <1>0, <1>2 DEF Send, NotifyInv, NotifyTypeOK
<1>3. CASE NoConnection
  BY <1>0, <1>3 DEF NoConnection, GiveUp, Say, NotifyInv, NotifyTypeOK
<1>4. CASE Lost
  BY <1>0, <1>4 DEF Lost, GiveUp, Say, NotifyInv, NotifyTypeOK
<1>5. CASE Receive
  BY <1>0, <1>5 DEF Receive, GiveUp, Say, NotifyInv, NotifyTypeOK
<1>6. ASSUME NEW a \in 1..Attempts, Arrive(a) PROVE NotifyInv'
  <2>1. /\ a \in net /\ a \in 1..attempt /\ net' = net \ {a}
        /\ UNCHANGED <<tool, allowed, target, stage, attempt, answer>>
        /\ reply[a] = "none"
    BY <1>6 DEF Arrive, NotifyInv, NotifyTypeOK
  <2>2. PICK r \in {"ok", "not_ok", "status", "no_json"} : reply' = [reply EXCEPT ![a] = r]
    BY <1>6 DEF Arrive
  <2>3. /\ reply' \in [1..Attempts -> {"none", "ok", "not_ok", "status", "no_json"}]
        /\ reply'[a] = r
        /\ \A b \in 1..Attempts : b # a => reply'[b] = reply[b]
    BY <2>2 DEF NotifyInv, NotifyTypeOK
  <2>4. /\ r = "ok" => shown' = shown \cup {a}
        /\ r = "not_ok" => shown' = shown /\ tool = "slack_post"
        /\ shown' \in {shown, shown \cup {a}}
    <3>1. CASE /\ shown' = shown \cup {a}
               /\ \E q \in {"ok", "status", "no_json"} : reply' = [reply EXCEPT ![a] = q]
      <4>1. r \in {"ok", "status", "no_json"}
        BY <3>1, <2>3 DEF NotifyInv, NotifyTypeOK
      <4> QED BY <3>1, <4>1
    <3>2. CASE /\ UNCHANGED shown
               /\ \E q \in {"status", "no_json"} \cup (IF tool = "slack_post" THEN {"not_ok"} ELSE {}) :
                     reply' = [reply EXCEPT ![a] = q]
      <4>1. r \in {"status", "no_json"} \cup (IF tool = "slack_post" THEN {"not_ok"} ELSE {})
        BY <3>2, <2>3 DEF NotifyInv, NotifyTypeOK
      <4> QED BY <3>2, <4>1
    <3> QED BY <3>1, <3>2, <1>6 DEF Arrive
  <2>5. NotifyTypeOK'
    BY <2>1, <2>3, <2>4 DEF NotifyInv, NotifyTypeOK
  <2>6. \A b \in 1..Attempts :
           /\ b \in net' \/ b \notin 1..attempt' => reply'[b] = "none"
           /\ reply'[b] = "ok" => b \in shown'
           /\ reply'[b] = "not_ok" => b \notin shown' /\ tool' = "slack_post"
    <3> SUFFICES ASSUME NEW b \in 1..Attempts
                 PROVE  /\ b \in net' \/ b \notin 1..attempt' => reply'[b] = "none"
                        /\ reply'[b] = "ok" => b \in shown'
                        /\ reply'[b] = "not_ok" => b \notin shown' /\ tool' = "slack_post"
      OBVIOUS
    <3>0. a \notin shown \/ r # "not_ok"
      BY <2>1 DEF NotifyInv
    <3>1. CASE b = a
      BY <3>0, <3>1, <2>1, <2>3, <2>4
    <3>2. CASE b # a
      BY <3>2, <2>1, <2>3, <2>4 DEF NotifyInv
    <3> QED BY <3>1, <3>2
  <2>7. answer \in {"ok", "not_ok"} => reply'[attempt] = reply[attempt]
    BY <1>0, <2>1, <2>3 DEF NotifyInv
  <2>8. (net \cap shown = {})'
    BY <2>1, <2>4 DEF NotifyInv
  <2> QED BY <2>1, <2>5, <2>6, <2>7, <2>8 DEF NotifyInv
<1> QED BY <1>1, <1>2, <1>3, <1>4, <1>5, <1>6 DEF NotifyNext, Sending

LEMMA NotifyAccounted == NotifyInv => PostAccounted
<1> SUFFICES ASSUME NotifyInv PROVE PostAccounted
  OBVIOUS
<1>1. Cardinality(net \cup shown) <= Attempts
  <2>1. net \cup shown \subseteq 1..Attempts
    BY NotifyAssumption DEF NotifyInv, NotifyTypeOK
  <2>2. IsFiniteSet(1..Attempts) /\ Cardinality(1..Attempts) = Attempts
    BY NotifyAssumption, FS_Interval
  <2>3. Cardinality(net \cup shown) <= Cardinality(1..Attempts)
    BY <2>1, <2>2, FS_Subset
  <2> QED BY <2>2, <2>3
<1>2. tool \in PostTools /\ ~(allowed /\ target) => net = {} /\ shown = {}
  BY DEF NotifyInv, NotifyTypeOK
<1>3. attempt \in 0..Attempts
  BY DEF NotifyInv, NotifyTypeOK
<1> QED BY <1>1, <1>2, <1>3, NotifyAssumption DEF NotifyInv, PostAccounted

\* Every step of Notify within Tools keeps the invariant; a step of Mesh
\* leaves its state alone.
LEMMA ToolsNotifyInv == ToolsSpec => []NotifyInv
<1>1. ToolsInit => NotifyInv
  BY NotifyInvInit DEF ToolsInit
<1>2. NotifyInv /\ [ToolsNext]_toolsVars => NotifyInv'
  <2>1. ASSUME NotifyInv, NotifyStep PROVE NotifyInv'
    BY <2>1, NotifyInvStep DEF NotifyStep
  <2>2. ASSUME NotifyInv, UNCHANGED notifyVars PROVE NotifyInv'
    BY <2>2 DEF notifyVars, NotifyInv, NotifyTypeOK
  <2> QED BY <2>1, <2>2 DEF ToolsNext, MeshStep, toolsVars
<1> QED BY <1>1, <1>2, PTL DEF ToolsSpec

\* Notify's types hold whatever the number of attempts.
THEOREM ToolsNotifyTypeCorrect == ToolsSpec => []NotifyTypeOK
<1>1. NotifyInv => NotifyTypeOK
  BY DEF NotifyInv
<1> QED BY <1>1, ToolsNotifyInv, PTL

\* post_json's retries: what slack_post and teams_post say of a message is true
\* of it, for any number of attempts and any loss and delay of the copies.
THEOREM ToolsPostAccounted == ToolsSpec => []PostAccounted
BY ToolsNotifyInv, NotifyAccounted, PTL

-----------------------------------------------------------------------------
(* Analyses.  A fault says something of two kinds of objects, one of which  *)
(* is read last.                                                           *)

IsMesh(m) ==
    /\ DOMAIN m = Kinds
    /\ m.vs \subseteq VirtualServices /\ m.dr \subseteq DestinationRules
    /\ m.pa \subseteq PeerAuthentications /\ m.gw \subseteq Gateways

\* What f says of the objects s of kind k.
Part(f, k, s) ==
    /\ f.issue = "subset_not_defined" =>
         /\ k = "vs" => \E v \in s : \E r \in v.routes :
              r.subset # NoSubset /\ f = Finding("subset_not_defined", v.name, <<r.host, r.subset>>)
         /\ k = "dr" => \A d \in s : d.host = f.with[1] => f.with[2] \notin d.subsets
    /\ f.issue = "mtls_mode_conflict" =>
         /\ k = "dr" => \E d \in s : f = Finding("mtls_mode_conflict", d.host, <<d.mode>>)
         /\ k = "pa" => \E p \in s : Governs(p, s) /\ Conflict(p.mode, f.with[1])
    /\ f.issue = "gateway_no_virtualservice" =>
         /\ k = "vs" => \A v \in s : f.of \notin v.gateways
         /\ k = "gw" => \E g \in s : f = Finding("gateway_no_virtualservice", g, <<>>)
    /\ f.issue = "virtualservice_unknown_gateway" =>
         /\ k = "vs" => \E v \in s : \E g \in v.gateways :
              g # "mesh" /\ f = Finding("virtualservice_unknown_gateway", v.name, <<g>>)
         /\ k = "gw" => f.with[1] \notin s

LEMMA FindingIssues ==
    \A f \in Findings :
        f.issue \in {"subset_not_defined", "mtls_mode_conflict", "gateway_no_virtualservice",
                    "virtualservice_unknown_gateway"}
BY DEF Findings, Finding

LEMMA FaultParts ==
    ASSUME NEW m, NEW f \in Findings
    PROVE  IsFault(f, m) <=> \A k \in Kinds : Part(f, k, m[k])
<1>1. CASE f.issue = "subset_not_defined"
  BY <1>1 DEF IsFault, Part, Kinds, Finding
<1>2. CASE f.issue = "mtls_mode_conflict"
  BY <1>2 DEF IsFault, Part, Kinds, Finding
<1>3. CASE f.issue = "gateway_no_virtualservice"
  BY <1>3 DEF IsFault, Part, Kinds, Finding
<1>4. CASE f.issue = "virtualservice_unknown_gateway"
  BY <1>4 DEF IsFault, Part, Kinds, Finding
<1> QED BY <1>1, <1>2, <1>3, <1>4, FindingIssues

LEMMA NamespaceMode ==
    ASSUME NEW pas \in SUBSET PeerAuthentications, NEW mode
    PROVE  Conflict(NamespaceMtlsMode(pas), mode)
              <=> \E p \in pas : Governs(p, pas) /\ Conflict(p.mode, mode)
<1> DEFINE wide == {p \in pas : ~p.selector}
           First(p) == \A q \in wide : p.name <= q.name
<1>1. \A p \in pas : Governs(p, pas) <=> p \in wide /\ First(p)
  BY DEF Governs
<1>2. CASE wide = {}
  BY <1>1, <1>2 DEF NamespaceMtlsMode, Conflict, NoMode
<1>3. CASE wide # {}
  <2> DEFINE names == {p.name : p \in wide}
  <2>1. names \subseteq Nat /\ names # {}
    BY <1>3, MeshAssumption
  <2>2. \E n \in names : \A o \in names : ~(<<o, n>> \in OpToRel(<, Nat))
    BY <2>1, NatLessThanWellFounded, WFMin
  <2>3. PICK n \in names : \A o \in names : ~(o < n)
    BY <2>1, <2>2 DEF OpToRel
  <2>4. PICK p \in wide : p.name = n
    BY <2>3
  <2>5. First(p)
    BY <2>1, <2>3, <2>4
  <2>6. \A q \in wide : First(q) => q = p
    BY <2>5, MeshAssumption
  <2>7. (CHOOSE q \in wide : First(q)) = p
    BY <2>4, <2>5, <2>6
  <2>8. NamespaceMtlsMode(pas) = p.mode
    BY <1>3, <2>7 DEF NamespaceMtlsMode
  <2> QED BY <1>1, <2>4, <2>5, <2>6, <2>8
<1> QED BY <1>2, <1>3

\* analyze_mesh on one mesh reports what is wrong with it and nothing else.
THEOREM AnalysisExact ==
    ASSUME NEW m, IsMesh(m)
    PROVE  AnalyzeMesh(m) = Faults(m)
<1> DEFINE D1(f) == \E v \in m.vs : \E r \in v.routes :
                       /\ f = Finding("subset_not_defined", v.name, <<r.host, r.subset>>)
                       /\ r.subset # NoSubset
                       /\ \A d \in m.dr : d.host = r.host => r.subset \notin d.subsets
           D2(f) == \E d \in m.dr, p \in m.pa :
                       /\ f = Finding("mtls_mode_conflict", d.host, <<d.mode>>)
                       /\ Governs(p, m.pa)
                       /\ Conflict(p.mode, d.mode)
           D3(f) == /\ \E g \in m.gw : f = Finding("gateway_no_virtualservice", g, <<>>)
                    /\ \A v \in m.vs : f.of \notin v.gateways
           D4(f) == \E v \in m.vs : \E g \in v.gateways :
                       /\ f = Finding("virtualservice_unknown_gateway", v.name, <<g>>)
                       /\ g # "mesh" /\ g \notin m.gw
<1>1. \A f : f \in Dangling(m.vs, m.dr) <=> D1(f)
  <2>1. \A h, x : x \notin Defined(m.dr, h) <=> \A d \in m.dr : d.host = h => x \notin d.subsets
    BY DEF Defined
  <2> QED BY <2>1 DEF Dangling
<1>2. \A f : f \in MtlsConflicts(m.dr, m.pa) <=> D2(f)
  <2>1. \A mode : Conflict(NamespaceMtlsMode(m.pa), mode)
                     <=> \E p \in m.pa : Governs(p, m.pa) /\ Conflict(p.mode, mode)
    BY NamespaceMode DEF IsMesh
  <2> QED BY <2>1 DEF MtlsConflicts
<1>3. \A f : f \in Unbound(m.vs, m.gw) <=> D3(f)
  <2>1. \A g \in m.gw : g # "mesh"
    BY MeshAssumption DEF IsMesh
  <2>2. \A g \in m.gw : g \notin Referenced(m.vs) <=> \A v \in m.vs : g \notin v.gateways
    BY <2>1 DEF Referenced
  <2>3. \A g : Finding("gateway_no_virtualservice", g, <<>>).of = g
    BY DEF Finding
  <2>4. ASSUME NEW f PROVE f \in Unbound(m.vs, m.gw) <=> D3(f)
    <3>1. f \in Unbound(m.vs, m.gw) <=>
            \E g \in m.gw : g \notin Referenced(m.vs) /\ f = Finding("gateway_no_virtualservice", g, <<>>)
      BY DEF Unbound
    <3> QED BY <3>1, <2>2, <2>3
  <2> QED BY <2>4
<1>4. \A f : f \in UnknownGateways(m.vs, m.gw) <=> D4(f)
  <2> SUFFICES ASSUME NEW f PROVE f \in UnknownGateways(m.vs, m.gw) <=> D4(f)
    OBVIOUS
  <2> DEFINE Of(v) == {Finding("virtualservice_unknown_gateway", v.name, <<g>>) :
                          g \in v.gateways \ ({"mesh"} \cup m.gw)}
  <2>1. f \in UNION {Of(v) : v \in m.vs} <=> \E v \in m.vs : f \in Of(v)
    OBVIOUS
  <2>2. \A v : f \in Of(v) <=> \E g \in v.gateways :
                                /\ f = Finding("virtualservice_unknown_gateway", v.name, <<g>>)
                                /\ g # "mesh" /\ g \notin m.gw
    OBVIOUS
  <2> QED BY <2>1, <2>2 DEF UnknownGateways
<1>5. \A f : IsFault(f, m) <=> D1(f) \/ D2(f) \/ D3(f) \/ D4(f)
  BY DEF IsFault
<1>6. \A f : D1(f) \/ D2(f) \/ D3(f) \/ D4(f) => f \in Findings
  <2>1. ASSUME NEW f, D1(f) PROVE f \in Findings
    <3>1. PICK v \in m.vs : \E r \in v.routes : f = Finding("subset_not_defined", v.name, <<r.host, r.subset>>)
      BY <2>1
    <3>2. PICK r \in v.routes : f = Finding("subset_not_defined", v.name, <<r.host, r.subset>>)
      BY <3>1
    <3>3. v \in VirtualServices
      BY DEF IsMesh
    <3>4. f \in UNION {{Finding("subset_not_defined", w.name, <<q.host, q.subset>>) : q \in w.routes} :
                             w \in VirtualServices}
      BY <3>2, <3>3
    <3> QED BY <3>4 DEF Findings
  <2>2. ASSUME NEW f, D2(f) PROVE f \in Findings
    BY <2>2 DEF Findings, IsMesh
  <2>3. ASSUME NEW f, D3(f) PROVE f \in Findings
    BY <2>3 DEF Findings, IsMesh
  <2>4. ASSUME NEW f, D4(f) PROVE f \in Findings
    <3>1. PICK v \in m.vs : \E g \in v.gateways : f = Finding("virtualservice_unknown_gateway", v.name, <<g>>)
      BY <2>4
    <3>2. PICK g \in v.gateways : f = Finding("virtualservice_unknown_gateway", v.name, <<g>>)
      BY <3>1
    <3>3. v \in VirtualServices
      BY DEF IsMesh
    <3>4. f \in UNION {{Finding("virtualservice_unknown_gateway", w.name, <<h>>) : h \in w.gateways} :
                             w \in VirtualServices}
      BY <3>2, <3>3
    <3> QED BY <3>4 DEF Findings
  <2> QED BY <2>1, <2>2, <2>3, <2>4
<1> HIDE DEF D1, D2, D3, D4
<1>7. \A f : f \in AnalyzeMesh(m) <=> D1(f) \/ D2(f) \/ D3(f) \/ D4(f)
  BY <1>1, <1>2, <1>3, <1>4 DEF AnalyzeMesh
<1> QED BY <1>5, <1>6, <1>7 DEF Faults

\* The kinds that were read when at is the kind to be read next.
Done(at) ==
    CASE at = "dr" -> {"vs"}
      [] at = "pa" -> {"vs", "dr"}
      [] at = "gw" -> {"vs", "dr", "pa"}
      [] at = "analyze" -> Kinds
      [] OTHER -> {}

\* Of the two kinds that f is about, the one that is read last.
Last(f) ==
    CASE f.issue = "subset_not_defined" -> "dr"
      [] f.issue = "mtls_mode_conflict" -> "pa"
      [] OTHER -> "gw"

LEMMA DoneNext ==
    ASSUME NEW k \in Kinds
    PROVE  /\ NextKind[k] \in Kinds \cup {"analyze"}
           /\ Done(NextKind[k]) = Done(k) \cup {k}
           /\ k \notin Done(k)
           /\ Done(k) \subseteq Kinds
BY DEF Kinds, NextKind, Done

\* What is read after the last kind f is about does not matter to f.
LEMMA PartAfter ==
    ASSUME NEW f \in Findings, NEW at \in Kinds \cup {"analyze"}, Last(f) \in Done(at),
           NEW j \in Kinds, j \notin Done(at), NEW s
    PROVE  Part(f, j, s)
BY FindingIssues DEF Kinds, Done, Last, Part

\* What f says of the kinds that are read first stays true as they grow, but
\* for a gateway that no service refers to.
LEMMA PartGrows ==
    ASSUME NEW f \in Findings, f.issue # "gateway_no_virtualservice",
           NEW j \in Kinds, j # Last(f), NEW s, NEW t, s \subseteq t, Part(f, j, s)
    PROVE  Part(f, j, t)
<1>1. CASE f.issue = "subset_not_defined"
  BY <1>1 DEF Kinds, Last, Part
<1>2. CASE f.issue = "mtls_mode_conflict"
  BY <1>2 DEF Kinds, Last, Part
<1>4. CASE f.issue = "virtualservice_unknown_gateway"
  BY <1>4 DEF Kinds, Last, Part
<1> QED BY <1>1, <1>2, <1>4, FindingIssues

\* A gateway that no service refers to, of those that were read, was a fault.
UnboundSeen ==
    /\ \A v \in mesh.vs \ read.vs : v.gateways \subseteq {"mesh"} \cup mesh.gw
    /\ \A g \in mesh.gw :
          (\A v \in read.vs : g \notin v.gateways)
             => Finding("gateway_no_virtualservice", g, <<>>) \in ever

InCall == meshAt \in Kinds \cup {"analyze"}

\* During a call: the history follows the mesh, a fault that was there all the
\* time shows in every kind that was read, and what the kinds that were read
\* say together, while the mesh only grew, was a fault once.
MeshInv ==
    /\ IsMesh(mesh) /\ IsMesh(read)
    /\ InCall =>
          /\ Faults(mesh) \subseteq ever /\ always \subseteq Faults(mesh)
          /\ \A f \in always : \A k \in Done(meshAt) : Part(f, k, read[k])
          /\ grown =>
                /\ \A k \in Done(meshAt) : read[k] \subseteq mesh[k]
                /\ meshAt # "vs" => UnboundSeen
                /\ \A f \in Findings :
                      Last(f) \in Done(meshAt) /\ IsFault(f, read) => f \in ever
    /\ FaultsReported /\ NoFalseAlarm

LEMMA MeshInvInit == MeshInit => MeshInv
<1> SUFFICES ASSUME MeshInit PROVE MeshInv
  OBVIOUS
<1>1. IsMesh(mesh)
  BY DEF MeshInit, Meshes, IsMesh, Kinds
<1>2. IsMesh(read)
  BY DEF MeshInit, IsMesh, Kinds
<1>3. ~InCall /\ meshAt # "answered"
  BY DEF MeshInit, InCall, Kinds
<1> QED BY <1>1, <1>2, <1>3 DEF MeshInv, FaultsReported, NoFalseAlarm

LEMMA AnalyzeKeeps == ASSUME MeshInv, Analyze PROVE MeshInv'
<1>1. meshAt' = "vs" /\ Done("vs") = {}
  BY DEF Analyze, NextKind, Done
<1>2. UNCHANGED <<mesh, read, grown, edits>> /\ ever' = Faults(mesh) /\ always' = Faults(mesh)
  BY DEF Analyze
<1>3. (IsMesh(mesh) /\ IsMesh(read))'
  BY <1>2 DEF MeshInv
<1>4. Faults(mesh)' = Faults(mesh)
  BY <1>2
<1> QED BY <1>1, <1>2, <1>3, <1>4 DEF MeshInv, FaultsReported, NoFalseAlarm

LEMMA ListFailsKeeps == ASSUME MeshInv, ListFails PROVE MeshInv'
<1>1. meshAt' = "error" /\ UNCHANGED mesh /\ read' = [k \in Kinds |-> {}]
  BY DEF ListFails
<1>2. (IsMesh(mesh) /\ IsMesh(read))'
  BY <1>1 DEF MeshInv, IsMesh, Kinds
<1> QED BY <1>1, <1>2 DEF MeshInv, InCall, Kinds, FaultsReported, NoFalseAlarm

LEMMA ConcludeKeeps == ASSUME MeshInv, Conclude PROVE MeshInv'
<1>1. /\ meshAt = "analyze" /\ meshAt' = "answered"
      /\ UNCHANGED <<mesh, ever, always, grown>>
      /\ read' = [k \in Kinds |-> {}]
      /\ findings' = AnalyzeMesh(read)
  BY DEF Conclude
<1>2. (IsMesh(mesh) /\ IsMesh(read))'
  BY <1>1 DEF MeshInv, IsMesh, Kinds
<1>3. findings' = Faults(read)
  BY <1>1, AnalysisExact DEF MeshInv
<1>4. Done(meshAt) = Kinds /\ InCall
  BY <1>1 DEF Done, InCall
<1>5. always \subseteq Faults(read)
  <2> SUFFICES ASSUME NEW f \in always PROVE f \in Faults(read)
    OBVIOUS
  <2>1. f \in Findings
    BY <1>4 DEF MeshInv, Faults
  <2>2. \A k \in Kinds : Part(f, k, read[k])
    BY <1>4 DEF MeshInv
  <2> QED BY <2>1, <2>2, FaultParts DEF Faults
<1>6. grown => Faults(read) \subseteq ever
  <2>1. \A f \in Findings : Last(f) \in Kinds
    BY DEF Last, Kinds
  <2> QED BY <2>1, <1>4 DEF MeshInv, Faults
<1>7. ~InCall'
  BY <1>1 DEF InCall, Kinds
<1> QED BY <1>1, <1>2, <1>3, <1>5, <1>6, <1>7 DEF MeshInv, FaultsReported, NoFalseAlarm

LEMMA ListKeeps == ASSUME MeshInv, List PROVE MeshInv'
<1> DEFINE k == meshAt
<1>1. /\ k \in Kinds /\ InCall
      /\ read' = [read EXCEPT ![k] = mesh[k]]
      /\ meshAt' = NextKind[k]
      /\ UNCHANGED <<mesh, findings, ever, always, grown>>
  BY DEF List, InCall
<1>2. /\ meshAt' \in Kinds \cup {"analyze"} /\ InCall' /\ meshAt' # "vs"
      /\ Done(meshAt') = Done(k) \cup {k}
      /\ k \notin Done(k) /\ Done(k) \subseteq Kinds
  BY <1>1, DoneNext DEF InCall, NextKind, Kinds
<1>3. /\ DOMAIN read' = Kinds
      /\ read'[k] = mesh[k]
      /\ \A j \in Kinds : j # k => read'[j] = read[j]
  BY <1>1 DEF MeshInv, IsMesh
<1>4. (IsMesh(mesh) /\ IsMesh(read))'
  BY <1>1, <1>3 DEF MeshInv, IsMesh, Kinds
<1>5. Faults(mesh) \subseteq ever /\ always \subseteq Faults(mesh)
  BY <1>1 DEF MeshInv
<1>6. ASSUME NEW f \in always, NEW j \in Done(meshAt') PROVE Part(f, j, read'[j])
  <2>1. Part(f, k, mesh[k])
    BY <1>1, <1>5, FaultParts DEF Faults
  <2>2. j # k => Part(f, j, read[j])
    BY <1>1, <1>2 DEF MeshInv
  <2> QED BY <1>2, <1>3, <2>1, <2>2
<1>7. ASSUME grown, NEW j \in Done(meshAt') PROVE read'[j] \subseteq mesh[j]
  <2>1. j # k => read[j] \subseteq mesh[j]
    BY <1>1, <1>2, <1>7 DEF MeshInv
  <2> QED BY <1>2, <1>3, <2>1
<1>8. grown => UnboundSeen'
  <2>1. CASE k = "vs"
    <3>1. read'.vs = mesh.vs
      BY <1>3, <2>1
    <3>2. ASSUME NEW g \in mesh.gw, \A v \in mesh.vs : g \notin v.gateways
          PROVE  Finding("gateway_no_virtualservice", g, <<>>) \in ever
      <4> DEFINE f == Finding("gateway_no_virtualservice", g, <<>>)
      <4>1. f \in Findings
        BY DEF Findings, MeshInv, IsMesh
      <4>2. f.of = g
        BY DEF Finding
      <4>3. IsFault(f, mesh)
        BY <3>2, <4>2 DEF IsFault
      <4> QED BY <4>1, <4>3, <1>5 DEF Faults
    <3> QED BY <1>1, <3>1, <3>2 DEF UnboundSeen
  <2>2. CASE k # "vs"
    <3>1. read'.vs = read.vs
      BY <1>3, <2>2 DEF Kinds
    <3> QED BY <1>1, <2>2, <3>1 DEF MeshInv, UnboundSeen
  <2> QED BY <2>1, <2>2
<1>9. ASSUME grown, NEW f \in Findings, Last(f) \in Done(meshAt'), IsFault(f, read')
      PROVE  f \in ever
  <2>1. \A j \in Kinds : Part(f, j, read'[j])
    BY <1>9, FaultParts
  <2>2. CASE Last(f) \in Done(k)
    <3>1. \A j \in Kinds : Part(f, j, read[j])
      <4>1. Part(f, k, read[k])
        BY <1>1, <1>2, <2>2, PartAfter
      <4> QED BY <4>1, <2>1, <1>3
    <3>2. IsFault(f, read)
      BY <3>1, FaultParts
    <3> QED BY <3>2, <2>2, <1>1, <1>9 DEF MeshInv
  <2>3. CASE Last(f) = k /\ f.issue # "gateway_no_virtualservice"
    <3>1. ASSUME NEW j \in Kinds PROVE Part(f, j, mesh[j])
      <4>1. CASE j = k
        BY <4>1, <2>1, <1>3
      <4>2. CASE j \in Done(k)
        <5>1. j # k /\ read[j] \subseteq mesh[j] /\ Part(f, j, read[j])
          BY <4>2, <1>1, <1>2, <1>3, <1>9, <2>1 DEF MeshInv
        <5> QED BY <5>1, <2>3, PartGrows
      <4>3. CASE j \notin Done(meshAt')
        BY <4>3, <1>2, <1>9, PartAfter
      <4> QED BY <4>1, <4>2, <4>3, <1>2
    <3>2. IsFault(f, mesh)
      BY <3>1, FaultParts
    <3> QED BY <3>2, <1>5 DEF Faults
  <2>4. CASE Last(f) = k /\ f.issue = "gateway_no_virtualservice"
    <3>1. k = "gw"
      BY <2>4 DEF Last
    <3>2. PICK g \in mesh.gw : f = Finding("gateway_no_virtualservice", g, <<>>)
      <4>1. Part(f, "gw", mesh["gw"])
        BY <2>1, <3>1, <1>3 DEF Kinds
      <4> QED BY <4>1, <2>4 DEF Part
    <3>3. \A v \in read.vs : f.of \notin v.gateways
      <4>1. Part(f, "vs", read["vs"])
        BY <2>1, <3>1, <1>3 DEF Kinds
      <4> QED BY <4>1, <2>4 DEF Part
    <3>4. f.of = g
      BY <3>2 DEF Finding
    <3>5. UnboundSeen
      BY <3>1, <1>1, <1>9 DEF MeshInv
    <3> QED BY <3>2, <3>3, <3>4, <3>5 DEF UnboundSeen
  <2> QED BY <2>2, <2>3, <2>4, <1>2, <1>9
<1>10. (FaultsReported /\ NoFalseAlarm)'
  BY <1>2 DEF FaultsReported, NoFalseAlarm, Kinds
<1>11. Faults(mesh)' = Faults(mesh)
  BY <1>1
<1> QED BY <1>1, <1>2, <1>4, <1>5, <1>6, <1>7, <1>8, <1>9, <1>10, <1>11 DEF MeshInv

LEMMA EditKeeps ==
    ASSUME MeshInv, NEW k \in Kinds, NEW x \in Objects[k], Edit(k, x)
    PROVE  MeshInv'
<1>1. /\ meshAt \in Kinds /\ InCall /\ InCall'
      /\ mesh' = [mesh EXCEPT ![k] = IF x \in @ THEN @ \ {x} ELSE @ \cup {x}]
      /\ grown' = (grown /\ x \notin mesh[k] /\ (k = "vs" => Resolved(x)))
      /\ ever' = ever \cup Faults(mesh') /\ always' = always \cap Faults(mesh')
      /\ UNCHANGED <<read, meshAt, findings>>
  BY DEF Edit, InCall
<1>2. /\ DOMAIN mesh' = Kinds
      /\ mesh'[k] = IF x \in mesh[k] THEN mesh[k] \ {x} ELSE mesh[k] \cup {x}
      /\ \A j \in Kinds : j # k => mesh'[j] = mesh[j]
  BY <1>1 DEF MeshInv, IsMesh
<1>3. (IsMesh(mesh) /\ IsMesh(read))'
  <2>1. mesh'[k] \subseteq mesh[k] \cup Objects[k]
    BY <1>2
  <2> QED BY <1>1, <1>2, <2>1 DEF MeshInv, IsMesh, Kinds, Objects
<1>4. (Faults(mesh) \subseteq ever /\ always \subseteq Faults(mesh))'
  BY <1>1
<1>5. \A f \in always' : \A j \in Done(meshAt) : Part(f, j, read[j])
  BY <1>1 DEF MeshInv
<1>6. ASSUME grown' PROVE grown /\ mesh'[k] = mesh[k] \cup {x} /\ \A j \in Kinds : mesh[j] \subseteq mesh'[j]
  BY <1>1, <1>2, <1>6
<1>7. ASSUME grown', NEW j \in Done(meshAt) PROVE read[j] \subseteq mesh'[j]
  BY <1>1, <1>6, <1>7, DoneNext DEF MeshInv
<1>8. ASSUME grown', meshAt # "vs" PROVE UnboundSeen'
  <2>1. UnboundSeen
    BY <1>1, <1>6, <1>8 DEF MeshInv
  <2>2. mesh.gw \subseteq mesh'.gw
    BY <1>6, <1>8 DEF Kinds
  <2>3. ASSUME NEW v \in mesh'.vs \ read.vs PROVE v.gateways \subseteq {"mesh"} \cup mesh'.gw
    <3>1. CASE v \in mesh.vs
      BY <3>1, <2>1, <2>2, <2>3 DEF UnboundSeen
    <3>2. CASE v \notin mesh.vs
      <4>1. k = "vs" /\ v = x
        BY <3>2, <2>3, <1>2, <1>6, <1>8 DEF Kinds
      <4>2. Resolved(v)
        BY <4>1, <1>1, <1>8
      <4> QED BY <4>2, <2>2 DEF Resolved
    <3> QED BY <3>1, <3>2
  <2>4. ASSUME NEW g \in mesh'.gw, \A v \in read.vs : g \notin v.gateways
        PROVE  Finding("gateway_no_virtualservice", g, <<>>) \in ever'
    <3> DEFINE f == Finding("gateway_no_virtualservice", g, <<>>)
    <3>1. CASE g \in mesh.gw
      BY <3>1, <2>1, <2>4, <1>1 DEF UnboundSeen
    <3>2. CASE g \notin mesh.gw
      <4>1. k = "gw" /\ mesh'.vs = mesh.vs
        BY <3>2, <2>4, <1>2, <1>6, <1>8 DEF Kinds
      <4>2. g \in Gateways /\ g # "mesh"
        BY <2>4, <1>3, MeshAssumption DEF IsMesh
      <4>3. \A v \in mesh'.vs : g \notin v.gateways
        BY <4>1, <4>2, <3>2, <2>1, <2>4 DEF UnboundSeen
      <4>4. f.of = g /\ f \in Findings
        BY <4>2 DEF Finding, Findings
      <4>5. IsFault(f, mesh')
        BY <4>3, <4>4, <2>4 DEF IsFault
      <4> QED BY <4>4, <4>5, <1>1 DEF Faults
    <3> QED BY <3>1, <3>2
  <2> QED BY <2>3, <2>4, <1>1 DEF UnboundSeen
<1>9. ASSUME grown', NEW f \in Findings, Last(f) \in Done(meshAt), IsFault(f, read) PROVE f \in ever'
  BY <1>1, <1>6, <1>9 DEF MeshInv
<1>10. (FaultsReported /\ NoFalseAlarm)'
  BY <1>1 DEF FaultsReported, NoFalseAlarm, Kinds
<1> QED BY <1>1, <1>3, <1>4, <1>5, <1>7, <1>8, <1>9, <1>10 DEF MeshInv

LEMMA MeshInvStep == ASSUME MeshInv, [MeshNext]_meshVars PROVE MeshInv'
<1>1. CASE Analyze BY <1>1, AnalyzeKeeps
<1>2. CASE List BY <1>2, ListKeeps
<1>3. CASE ListFails BY <1>3, ListFailsKeeps
<1>4. CASE Conclude BY <1>4, ConcludeKeeps
<1>5. ASSUME NEW k \in Kinds, NEW x \in Objects[k], Edit(k, x) PROVE MeshInv'
  BY <1>5, EditKeeps
<1>6. CASE UNCHANGED meshVars
  <2>1. (IsMesh(mesh) /\ IsMesh(read))' /\ Faults(mesh)' = Faults(mesh)
    BY <1>6 DEF meshVars, MeshInv
  <2> QED BY <1>6, <2>1 DEF meshVars, MeshInv, InCall, UnboundSeen, FaultsReported, NoFalseAlarm
<1> QED BY <1>1, <1>2, <1>3, <1>4, <1>5, <1>6 DEF MeshNext, Reading

LEMMA ToolsMeshInv == ToolsSpec => []MeshInv
<1>1. ToolsInit => MeshInv
  BY MeshInvInit DEF ToolsInit
<1>2. MeshInv /\ [ToolsNext]_toolsVars => MeshInv'
  BY MeshInvStep DEF ToolsNext, NotifyStep, MeshStep, toolsVars
<1> QED BY <1>1, <1>2, PTL DEF ToolsSpec

\* istio_mesh_analyze: what is wrong all through the call is reported, for any
\* mesh and any number of edits between the reads.
THEOREM ToolsFaultsReported == ToolsSpec => []FaultsReported
<1>1. MeshInv => FaultsReported
  BY DEF MeshInv
<1> QED BY <1>1, ToolsMeshInv, PTL

\* istio_mesh_analyze: while a mesh grows in order nothing is reported that was
\* not wrong at some moment of the call, for any mesh and any number of edits.
THEOREM ToolsNoFalseAlarm == ToolsSpec => []NoFalseAlarm
<1>1. MeshInv => NoFalseAlarm
  BY DEF MeshInv
<1> QED BY <1>1, ToolsMeshInv, PTL

=============================================================================
