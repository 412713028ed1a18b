----------------------------- MODULE Dashboard -----------------------------
(***************************************************************************)
(* The dashboard as a whole: the page (webapp/static/app.js), one event    *)
(* loop of the server (webapp/server.py), and the chat of module Chat.     *)
(* The page runs each callback to its end; between two of them answers of  *)
(* several requests may arrive in any order.  On the server api_clusters   *)
(* and api_chat hold the event loop while they run; what the loop should   *)
(* send meanwhile waits.                                                   *)
(***************************************************************************)
EXTENDS Chat, FiniteSets

CONSTANTS Clusters,      \* how many clusters an overview probes
          MaxPolls       \* bound of the model: overviews in a behaviour

ASSUME DashboardAssumption ==
    /\ Clusters \in Nat \ {0}
    /\ MaxPolls \in Nat
    /\ {"free", "overview"} \cap Chats = {}

VARIABLES history,   \* the page's conversation
          sendOff,   \* the Send button is disabled
          bubble,    \* bubble[c]: what the page shows as the answer to c
          waiting,   \* overviews asked for and not begun
          polls,     \* overviews asked for in all
          probe,     \* which cluster the overview on the loop is probing
          phase,     \* whether the loop waits for "result" or to "leave" the pool
          probing    \* clusters whose probe a pool's thread is running

pageVars == <<history, sendOff, bubble>>
overviewVars == <<waiting, polls, probe, phase, probing>>
dashboardVars == <<chatVars, pageVars, overviewVars>>

DashboardInit ==
    /\ ChatInit
    /\ history = <<>>
    /\ sendOff = FALSE
    /\ bubble = [c \in Chats |-> "none"]
    /\ waiting = 0
    /\ polls = 0
    /\ probe = 0
    /\ phase = "idle"
    /\ probing = {}

-----------------------------------------------------------------------------
(* The conversation of the page.                                           *)

\* Mutant: the button stays enabled.
SendMessageEnabled(c, how) ==
    /\ Request(c, how, history)
    /\ history' = Append(history, Question(c))
    /\ bubble' = [bubble EXCEPT ![c] = "typing"]
    /\ UNCHANGED sendOff

\* sendMessage up to its first await.
SendMessage(c, how) ==
    /\ Request(c, how, history)
    /\ history' = Append(history, Question(c))
    /\ bubble' = [bubble EXCEPT ![c] = "typing"]
    /\ sendOff' = TRUE

\* The form, which a disabled button does not submit.
Submit(c) ==
    /\ ~sendOff
    /\ SendMessage(c, "form")
    /\ UNCHANGED overviewVars

\* A Diagnose button beside a deployment that is shown, whatever the state of
\* the Send button; the question is built from the button's own data.
Diagnose(c) ==
    /\ SendMessage(c, "diagnose")
    /\ UNCHANGED overviewVars

\* Another client posts to /api/chat, without a history.
Post(c) ==
    /\ Request(c, "post", <<>>)
    /\ UNCHANGED <<pageVars, overviewVars>>

\* Mutant: a response that breaks off is taken for its end.
ReadAnyEnd(c) ==
    /\ at[c] \in {"done", "broken"}
    /\ bubble[c] = "typing"
    /\ bubble' = [bubble EXCEPT ![c] = "text"]
    /\ history' = Append(history, Turn("assistant", c, <<>>))
    /\ sendOff' = FALSE
    /\ UNCHANGED <<chatVars, overviewVars>>

\* Mutant: the error path leaves the button disabled.
ReadErrorDisabled(c) ==
    /\ at[c] = "broken"
    /\ bubble[c] = "typing"
    /\ bubble' = [bubble EXCEPT ![c] = "error"]
    /\ UNCHANGED <<chatVars, overviewVars, history, sendOff>>

\* The body ends: what was received, or "(no response)", is the answer.
ReadEnd(c) ==
    /\ at[c] = "done"
    /\ bubble[c] = "typing"
    /\ bubble' = [bubble EXCEPT ![c] = "text"]
    /\ history' = Append(history, Turn("assistant", c, <<>>))
    /\ sendOff' = FALSE
    /\ UNCHANGED <<chatVars, overviewVars>>

\* The body breaks off: an error takes the place of what was received, and
\* the question stays without an answer.
ReadError(c) ==
    /\ at[c] = "broken"
    /\ bubble[c] = "typing"
    /\ bubble' = [bubble EXCEPT ![c] = "error"]
    /\ sendOff' = FALSE
    /\ UNCHANGED <<chatVars, overviewVars, history>>

-----------------------------------------------------------------------------
(* The overview.                                                           *)

\* The timer, or the refresh button: loadClusters.
Poll ==
    /\ polls < MaxPolls
    /\ polls' = polls + 1
    /\ waiting' = waiting + 1
    /\ UNCHANGED <<chatVars, pageVars, probe, phase, probing>>

\* _reachable: a new pool with one thread gets the probe, and the loop waits for
\* its result.
Submitted(k) ==
    /\ probe' = k
    /\ phase' = "result"
    /\ probing' = probing \cup {k}

\* api_clusters begins; it awaits nothing until it is done.
StartOverview ==
    /\ waiting > 0
    /\ loop = "free"
    /\ waiting' = waiting - 1
    /\ loop' = "overview"
    /\ Submitted(1)
    /\ UNCHANGED <<via, at, turns, round, results, llm>>
    /\ UNCHANGED <<pageVars, polls>>

\* A thread's probe answers or raises, whether or not anybody waits for it.
ProbeEnds(k) ==
    /\ k \in probing
    /\ probing' = probing \ {k}
    /\ UNCHANGED <<chatVars, pageVars, waiting, polls, probe, phase>>

\* _REACH_TIMEOUT passes before the probe ends: result() raises, the probe goes on.
TimesOut ==
    /\ phase = "result"
    /\ probe \in probing
    /\ phase' = "leave"
    /\ UNCHANGED <<chatVars, pageVars, waiting, polls, probe, probing>>

\* The next cluster of the list is probed, or the overview answered.
Onward ==
    /\ IF probe < Clusters
       THEN Submitted(probe + 1) /\ UNCHANGED loop
       ELSE probe' = 0 /\ phase' = "idle" /\ loop' = "free" /\ UNCHANGED probing
    /\ UNCHANGED <<via, at, turns, round, results, llm>>
    /\ UNCHANGED <<pageVars, waiting, polls>>

\* Mutant: after a timeout the pool is left without waiting for its thread.
LeaveEarly ==
    /\ loop = "overview"
    /\ phase = "leave" \/ probe \notin probing
    /\ Onward

\* result() returns or raises what the probe did, and the `with` block is left; or
\* it has raised the timeout, and leaving the block, a shutdown(wait=True), waits
\* for the probe none the less.
Leave ==
    /\ loop = "overview"
    /\ probe \notin probing
    /\ Onward

-----------------------------------------------------------------------------

ServeStep(c) == Serve(c) /\ UNCHANGED <<pageVars, overviewVars>>

DashboardNext ==
    \/ \E c \in Chats :
          \/ Submit(c) \/ Diagnose(c) \/ Post(c)
          \/ ServeStep(c)
          \/ ReadEnd(c) \/ ReadError(c)
    \/ Poll \/ StartOverview \/ TimesOut \/ Leave
    \/ \E k \in 1..Clusters : ProbeEnds(k)

\* A thread that can run does, the model API answers or raises, tools and
\* probes end, and the page reads what arrives.  Requests and overviews are
\* finite in number, so the loop is not kept from anyone for ever.
Fairness ==
    /\ \A c \in Chats : WF_dashboardVars(ServeStep(c))
    /\ \A c \in Chats : WF_dashboardVars(ReadEnd(c)) /\ WF_dashboardVars(ReadError(c))
    /\ \A k \in 1..Clusters : WF_dashboardVars(ProbeEnds(k))
    /\ WF_dashboardVars(StartOverview) /\ WF_dashboardVars(Leave)

DashboardSpec == DashboardInit /\ [][DashboardNext]_dashboardVars /\ Fairness

-----------------------------------------------------------------------------

Texts == [role : {"user", "assistant"}, of : Chats, uses : {<<>>}]

DashboardTypeOK ==
    /\ via \in [Chats -> {"none", "form", "diagnose", "post"}]
    /\ at \in [Chats -> {"none", "sent", "ask", "reading", "tools", "done", "broken"}]
    /\ round \in [Chats -> 0..MaxRounds]
    /\ loop \in {"free", "overview"} \cup Chats
    /\ loop \in Chats => via[loop] = "post" /\ at[loop] \in {"ask", "reading", "tools"}
    /\ llm \in BOOLEAN
    /\ history \in Seq(Texts)
    /\ sendOff \in BOOLEAN
    /\ bubble \in [Chats -> {"none", "typing", "text", "error"}]
    /\ waiting \in 0..MaxPolls /\ polls \in 0..MaxPolls
    /\ probe \in 0..Clusters
    /\ phase \in {"idle", "result", "leave"}
    /\ probing \subseteq 1..Clusters

\* sendMessage and the tool loop of stream_chat.  Conversations with the model
\* stay well formed whatever tools do, requests overlap and the API raises:
\* every tool use is answered in the very next turn, once and in order, the
\* replies are bounded, and nothing ends between a use and its answer.
ChatImplementsConversation == Conversations!ConversationSpec

Position(c) == CHOOSE i \in DOMAIN history : history[i] = Question(c)

\* sendMessage with stream_chat: in the page's history nothing is said twice;
\* an answer follows its question and is one that the server ended with done,
\* never the part of a stream that broke off; and what the model is told of the
\* past is what the page's history was when the question was asked.
HistorySound ==
    /\ \A i, j \in DOMAIN history : history[i] = history[j] => i = j
    /\ \A i \in DOMAIN history :
          history[i].role = "assistant" =>
              /\ at[history[i].of] = "done"
              /\ \E j \in 1..(i - 1) : history[j] = Question(history[i].of)
    /\ \A c \in Chats :
          via[c] \in {"form", "diagnose"} =>
              LET k == Position(c) IN SubSeq(turns[c], 1, k) = SubSeq(history, 1, k)

\* The disabled Send button: as long as nobody uses a Diagnose button, which
\* ignores it, at most one question is without its answer, and the button is
\* disabled exactly then.
FormNeverOverlaps ==
    (\A c \in Chats : via[c] # "diagnose") =>
        /\ Cardinality({c \in Chats : bubble[c] = "typing"}) <= 1
        /\ sendOff <=> \E c \in Chats : bubble[c] = "typing"

\* _reachable: a timeout ends the wait for the result while the thread goes on, but
\* leaving the pool then waits for that thread.  So however many probes time out and
\* however often the page asks, no probe is left behind: one thread at most runs,
\* that of the cluster the overview is at, and none once an overview is answered.
OneProbe ==
    /\ probing \subseteq {probe}
    /\ loop # "overview" => probing = {}

\* Overviews and run_chat hold the event loop, streams need it for each of
\* their events, and tools and the API may fail anywhere: every question is
\* settled all the same, the Send button enabled again, and every overview
\* answered.
EverythingAnswered ==
    /\ \A c \in Chats :
          at[c] = "sent" ~> at[c] \in {"done", "broken"} /\ bubble[c] # "typing"
    /\ sendOff ~> ~sendOff
    /\ waiting > 0 ~> waiting = 0 /\ loop # "overview"

=============================================================================
