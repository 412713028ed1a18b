------------------------------- MODULE Notify -------------------------------
(***************************************************************************)
(* The tools that call an incident system (tools/incidents.py): the two    *)
(* searches, and slack_post and teams_post, the only ones with an effect   *)
(* outside; with the retries of tools/_http.py and the guard of            *)
(* resilience.py around them.                                              *)
(*                                                                         *)
(* A request is a copy on the network.  The caller may give a copy up (it  *)
(* timed out, the connection was lost) and send another; a copy that was   *)
(* given up may still arrive.  What the service does with a copy, and what *)
(* it says of it, is modelled from how the client reads the answer.        *)
(***************************************************************************)
EXTENDS Naturals, FiniteSets

CONSTANT Attempts   \* stop_after_attempt

ASSUME NotifyAssumption == Attempts \in Nat \ {0}

VARIABLES tool,      \* the tool that is called
          allowed,   \* ALLOW_NOTIFICATIONS
          target,    \* the channel is allow-listed (Slack), the webhook configured (Teams)
          stage,     \* "idle", "ready" to send, "waiting" for an answer, "over"
          attempt,   \* attempts made
          net,       \* attempts whose copy is on its way
          shown,     \* attempts whose copy the service acted on
          reply,     \* reply[a]: what came back for attempt a
          answer     \* what the tool says: "none", "refused", "ok", "not_ok", "error"

notifyVars == <<tool, allowed, target, stage, attempt, net, shown, reply, answer>>

PostTools == {"slack_post", "teams_post"}
NotifyTools == PostTools \cup {"search"}

NotifyInit ==
    /\ tool = "none"
    /\ allowed = FALSE
    /\ target = FALSE
    /\ stage = "idle"
    /\ attempt = 0
    /\ net = {}
    /\ shown = {}
    /\ reply = [a \in 1..Attempts |-> "none"]
    /\ answer = "none"

\* The tool ends, and tool_guard makes an error record of what it raises.
Say(what) ==
    /\ stage' = "over"
    /\ answer' = what

\* Mutant: only the switch is consulted.
PermittedBySwitch(t, on, listed) == t \in PostTools => on

Permitted(t, on, listed) == t \in PostTools => on /\ listed

\* The tool t is called, and consults the settings before anything is sent: the
\* switch for notifications and the list of channels, or the webhook's URL.
Call(t, on, listed) ==
    /\ stage = "idle"
    /\ tool' = t /\ allowed' = on /\ target' = listed
    /\ IF Permitted(t, on, listed) THEN stage' = "ready" /\ UNCHANGED answer ELSE Say("refused")
    /\ UNCHANGED <<attempt, net, shown, reply>>

\* An attempt that gets through to the service.
Send ==
    /\ stage = "ready"
    /\ attempt' = attempt + 1
    /\ net' = net \cup {attempt + 1}
    /\ stage' = "waiting"
    /\ UNCHANGED <<tool, allowed, target, shown, reply, answer>>

\* Mutant: one attempt too many.
GiveUpLate(n) == IF n <= Attempts THEN stage' = "ready" /\ UNCHANGED answer ELSE Say("error")

\* Retried up to the last attempt; the exception of that one is raised.
GiveUp(n) == IF n < Attempts THEN stage' = "ready" /\ UNCHANGED answer ELSE Say("error")

\* A connection that is not made: nothing was sent.
NoConnection ==
    /\ stage = "ready"
    /\ attempt' = attempt + 1
    /\ GiveUp(attempt + 1)
    /\ UNCHANGED <<tool, allowed, target, net, shown, reply>>

\* Mutant: a request has no time limit.
LostNever ==
    /\ stage = "waiting"
    /\ net = {}
    /\ reply[attempt] = "none"
    /\ GiveUp(attempt)
    /\ UNCHANGED <<tool, allowed, target, attempt, net, shown, reply>>

\* The time is up, or the connection is lost: the copy, or the answer, may
\* still be on its way.
Lost ==
    /\ stage = "waiting"
    /\ GiveUp(attempt)
    /\ UNCHANGED <<tool, allowed, target, attempt, net, shown, reply>>

\* A copy reaches the service, in whatever order, or never.  Slack says "ok":
\* false of what it did not post, in a body of status 200; any service may
\* answer with an error status or a body that is not JSON, having acted or not.
Arrive(a) ==
    /\ a \in net
    /\ net' = net \ {a}
    /\ \/ /\ shown' = shown \cup {a}
          /\ \E r \in {"ok", "status", "no_json"} : reply' = [reply EXCEPT ![a] = r]
       \/ /\ UNCHANGED shown
          /\ \E r \in {"status", "no_json"} \cup (IF tool = "slack_post" THEN {"not_ok"} ELSE {}) :
                reply' = [reply EXCEPT ![a] = r]
    /\ UNCHANGED <<tool, allowed, target, stage, attempt, answer>>

\* The answer to the attempt under way: an error status is retried, a body
\* that is not JSON is not, and raises.
Receive ==
    /\ stage = "waiting"
    /\ CASE reply[attempt] = "status" -> GiveUp(attempt)
         [] reply[attempt] = "no_json" -> Say("error")
         [] reply[attempt] \in {"ok", "not_ok"} -> Say(reply[attempt])
         [] OTHER -> FALSE
    /\ UNCHANGED <<tool, allowed, target, attempt, net, shown, reply>>

\* A step of a call that has begun.
Sending == Send \/ NoConnection \/ Lost \/ Receive

NotifyNext ==
    \/ \E t \in NotifyTools : \E on, listed \in BOOLEAN : Call(t, on, listed)
    \/ Sending
    \/ \E a \in 1..Attempts : Arrive(a)

-----------------------------------------------------------------------------

NotifyTypeOK ==
    /\ tool \in NotifyTools \cup {"none"} /\ allowed \in BOOLEAN /\ target \in BOOLEAN
    /\ stage \in {"idle", "ready", "waiting", "over"}
    /\ attempt \in 0..Attempts
    /\ net \subseteq 1..attempt /\ shown \subseteq 1..attempt
    /\ reply \in [1..Attempts -> {"none", "ok", "not_ok", "status", "no_json"}]
    /\ answer \in {"none", "refused", "ok", "not_ok", "error"}

\* slack_post and teams_post with the retries of post_json: a message that is
\* said to be posted was posted, by the last attempt (a service that answers 2xx, and
\* Slack "ok", has acted on the copy: Arrive); one that was refused never
\* is, nor by a late copy; at most Attempts copies of it are ever posted, however
\* they and their answers are lost and delayed; and only Slack's own "ok": false
\* says that the last copy was not.
PostAccounted ==
    /\ answer = "ok" => attempt \in shown
    /\ tool \in PostTools /\ ~(allowed /\ target) => net = {} /\ shown = {}
    /\ Cardinality(net \cup shown) <= Attempts
    /\ answer = "not_ok" => tool = "slack_post" /\ attempt \notin shown

=============================================================================
