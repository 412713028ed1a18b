-------------------------------- MODULE Mesh --------------------------------
(***************************************************************************)
(* istio_mesh_analyze (tools/istio.py): four reads of a namespace's mesh   *)
(* configuration, one after another, while it is edited, and the analysis  *)
(* of what they returned.                                                  *)
(*                                                                         *)
(* Objects are records of what the analysis looks at.  Hosts, subsets and  *)
(* names are compared as they stand, so they are ids; a reference to a     *)
(* Gateway is one of its own namespace, or "mesh".                         *)
(***************************************************************************)
EXTENDS Naturals

CONSTANTS
    VirtualServices,       \* records [name, routes, gateways]; a route is [host, subset]
    DestinationRules,      \* records [host, subsets, mode]; mode "" is none
    PeerAuthentications,   \* records [name, selector, mode]; listed by name, a number
    Gateways,              \* names
    MaxEdits               \* bound of the model: edits during an analysis

\* "mesh" is Istio's word for the sidecars and names no Gateway; names are unique.
ASSUME MeshAssumption ==
    /\ "mesh" \notin Gateways
    /\ \A p \in PeerAuthentications : p.name \in Nat
    /\ \A p, q \in PeerAuthentications : p.name = q.name => p = q
    /\ MaxEdits \in Nat

NoSubset == ""
NoMode == ""

VARIABLES mesh,      \* the configuration: a set of objects of each kind
          read,      \* read[k]: what the read of kind k returned
          meshAt,    \* "idle", the kind to be read next, "analyze", or how the call ended
          findings,
          ever,      \* faults there were at some moment of the call (history)
          always,    \* faults there were at every moment of it (history)
          grown,     \* the edits only added objects, what is referred to first (history)
          edits      \* edits made (bound)

meshVars == <<mesh, read, meshAt, findings, ever, always, grown, edits>>

Objects == [vs |-> VirtualServices, dr |-> DestinationRules,
            pa |-> PeerAuthentications, gw |-> Gateways]
Kinds == {"vs", "dr", "pa", "gw"}
Meshes == [vs : SUBSET VirtualServices, dr : SUBSET DestinationRules,
           pa : SUBSET PeerAuthentications, gw : SUBSET Gateways]

-----------------------------------------------------------------------------
(* The analysis.                                                           *)

\* defined[h]: the subsets of all rules for h together.
Defined(drs, h) == UNION {d.subsets : d \in {x \in drs : x.host = h}}

\* Mutant: the first policy is, with a selector or not.
FirstMtlsMode(pas) ==
    IF pas = {} THEN NoMode ELSE (CHOOSE p \in pas : \A q \in pas : p.name <= q.name).mode

\* The first policy without a selector is the namespace's.
NamespaceMtlsMode(pas) ==
    LET wide == {p \in pas : ~p.selector}
    IN IF wide = {} THEN NoMode
       ELSE (CHOOSE p \in wide : \A q \in wide : p.name <= q.name).mode

Conflict(nsMode, drMode) ==
    \/ nsMode = "STRICT" /\ drMode \in {"DISABLE", "SIMPLE"}
    \/ nsMode = "DISABLE" /\ drMode \in {"ISTIO_MUTUAL", "MUTUAL"}

Finding(issue, of, with) == [issue |-> issue, of |-> of, with |-> with]

\* analyze_mesh, the list of findings as a set: (1), (2), (3a) and (3b).
Dangling(vss, drs) ==
    UNION {{Finding("subset_not_defined", v.name, <<r.host, r.subset>>) :
               r \in {x \in v.routes :
                        x.subset # NoSubset /\ x.subset \notin Defined(drs, x.host)}} : v \in vss}

MtlsConflicts(drs, pas) ==
    {Finding("mtls_mode_conflict", d.host, <<d.mode>>) :
        d \in {x \in drs : Conflict(NamespaceMtlsMode(pas), x.mode)}}

Referenced(vss) == (UNION {v.gateways : v \in vss}) \ {"mesh"}

Unbound(vss, gws) == {Finding("gateway_no_virtualservice", g, <<>>) : g \in gws \ Referenced(vss)}

UnknownGateways(vss, gws) ==
    UNION {{Finding("virtualservice_unknown_gateway", v.name, <<g>>) :
               g \in v.gateways \ ({"mesh"} \cup gws)} : v \in vss}

AnalyzeMesh(m) ==
    Dangling(m.vs, m.dr) \cup MtlsConflicts(m.dr, m.pa)
        \cup Unbound(m.vs, m.gw) \cup UnknownGateways(m.vs, m.gw)

-----------------------------------------------------------------------------
(* What is wrong with a mesh, said of its objects and not of the analysis. *)

Governs(p, pas) == ~p.selector /\ \A q \in pas : ~q.selector => p.name <= q.name

IsFault(f, m) ==
    \/ \E v \in m.vs : \E r \in v.routes :
          /\ f = Finding("subset_not_defined", v.name, <<r.host, r.subset>>)
          /\ r.subset # NoSubset
          /\ \A d \in m.dr : d.host = r.host => r.subset \notin d.subsets
    \/ \E d \in m.dr, p \in m.pa :
          /\ f = Finding("mtls_mode_conflict", d.host, <<d.mode>>)
          /\ Governs(p, m.pa)
          /\ Conflict(p.mode, d.mode)
    \/ /\ \E g \in m.gw : f = Finding("gateway_no_virtualservice", g, <<>>)
       /\ \A v \in m.vs : f.of \notin v.gateways
    \/ \E v \in m.vs : \E g \in v.gateways :
          /\ f = Finding("virtualservice_unknown_gateway", v.name, <<g>>)
          /\ g # "mesh" /\ g \notin m.gw

\* All that could be found.
Findings ==
    (UNION {{Finding("subset_not_defined", v.name, <<r.host, r.subset>>) : r \in v.routes} :
               v \in VirtualServices})
    \cup {Finding("mtls_mode_conflict", d.host, <<d.mode>>) : d \in DestinationRules}
    \cup {Finding("gateway_no_virtualservice", g, <<>>) : g \in Gateways}
    \cup (UNION {{Finding("virtualservice_unknown_gateway", v.name, <<g>>) : g \in v.gateways} :
                    v \in VirtualServices})

Faults(m) == {f \in Findings : IsFault(f, m)}

-----------------------------------------------------------------------------

MeshInit ==
    /\ mesh \in Meshes
    /\ read = [k \in Kinds |-> {}]
    /\ meshAt = "idle"
    /\ findings = {}
    /\ ever = {} /\ always = {}
    /\ grown = TRUE
    /\ edits = 0

\* Mutant: the rules are read before the services.
NextKindSwapped ==
    [idle |-> "dr", dr |-> "vs", vs |-> "pa", pa |-> "gw", gw |-> "analyze"]

\* The order of the reads.
NextKind == [idle |-> "vs", vs |-> "dr", dr |-> "pa", pa |-> "gw", gw |-> "analyze"]

\* istio_mesh_analyze is called.
Analyze ==
    /\ meshAt = "idle"
    /\ meshAt' = NextKind["idle"]
    /\ ever' = Faults(mesh)
    /\ always' = Faults(mesh)
    /\ UNCHANGED <<mesh, read, findings, grown, edits>>

\* _list of one kind, in the permitted namespace.
List ==
    /\ meshAt \in Kinds
    /\ read' = [read EXCEPT ![meshAt] = mesh[meshAt]]
    /\ meshAt' = NextKind[meshAt]
    /\ UNCHANGED <<mesh, findings, ever, always, grown, edits>>

\* A namespace that is not permitted, or an error of the API server: tool_guard
\* returns an error record, and what was read is dropped.
ListFails ==
    /\ meshAt \in Kinds
    /\ meshAt' = "error"
    /\ read' = [k \in Kinds |-> {}]
    /\ UNCHANGED <<mesh, findings, ever, always, grown, edits>>

Conclude ==
    /\ meshAt = "analyze"
    /\ findings' = AnalyzeMesh(read)
    /\ meshAt' = "answered"
    /\ read' = [k \in Kinds |-> {}]
    /\ UNCHANGED <<mesh, ever, always, grown, edits>>

\* Everything that v refers to is there.
Resolved(v) ==
    /\ \A r \in v.routes : r.subset = NoSubset \/ r.subset \in Defined(mesh.dr, r.host)
    /\ v.gateways \subseteq {"mesh"} \cup mesh.gw

\* Somebody adds or deletes an object during the call.
Edit(k, x) ==
    /\ meshAt \in Kinds
    /\ edits < MaxEdits
    /\ edits' = edits + 1
    /\ mesh' = [mesh EXCEPT ![k] = IF x \in @ THEN @ \ {x} ELSE @ \cup {x}]
    /\ grown' = (grown /\ x \notin mesh[k] /\ (k = "vs" => Resolved(x)))
    /\ ever' = ever \cup Faults(mesh')
    /\ always' = always \cap Faults(mesh')
    /\ UNCHANGED <<read, meshAt, findings>>

\* A step of a call that has begun.
Reading == List \/ ListFails \/ Conclude

MeshNext ==
    \/ Analyze
    \/ Reading
    \/ \E k \in Kinds : \E x \in Objects[k] : Edit(k, x)

-----------------------------------------------------------------------------

\* istio_mesh_analyze.  What is wrong from the call to the answer is reported,
\* however the rest of the mesh is edited between the four reads.
FaultsReported == meshAt = "answered" => always \subseteq findings

\* istio_mesh_analyze.  While the mesh only grows, and in order (a service is
\* added when the subsets and gateways it names are there), nothing is reported
\* that was not wrong at some moment of the call: the services are read before
\* what they refer to.
NoFalseAlarm == meshAt = "answered" /\ grown => findings \subseteq ever

=============================================================================
