------------------------------- MODULE Tools --------------------------------
(***************************************************************************)
(* One call of a tool that leaves the process: to an incident system       *)
(* (Notify), or four times to an API server (Mesh).  Tools share no state, *)
(* so a call of one kind is made while there is none of the other.         *)
(***************************************************************************)
EXTENDS Notify, Mesh

toolsVars == <<notifyVars, meshVars>>

ToolsInit == NotifyInit /\ MeshInit

NotifyStep == meshAt = "idle" /\ NotifyNext /\ UNCHANGED meshVars
MeshStep == stage = "idle" /\ MeshNext /\ UNCHANGED notifyVars

ToolsNext == NotifyStep \/ MeshStep

\* A call that has begun goes on: the client's timeouts (10 s, 5 s to connect)
\* bound every attempt, and a request to an API server is answered or fails.
ToolsFairness ==
    /\ WF_toolsVars(Sending /\ UNCHANGED meshVars)
    /\ WF_toolsVars(Reading /\ UNCHANGED notifyVars)

ToolsSpec == ToolsInit /\ [][ToolsNext]_toolsVars /\ ToolsFairness

\* The retries of _http.py and the reads of istio_mesh_analyze: every call ends
\* with an answer, and tool_guard has something to return, however many copies
\* are lost and whatever is edited meanwhile.
EveryCallEnds ==
    /\ stage # "idle" ~> stage = "over" /\ answer # "none"
    /\ meshAt # "idle" ~> meshAt \in {"answered", "error"}

=============================================================================
