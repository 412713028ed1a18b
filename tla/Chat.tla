-------------------------------- MODULE Chat --------------------------------
(***************************************************************************)
(* The tool loop of the dashboard chat (webapp/chat.py): stream_chat, a    *)
(* generator whose steps run in threads and whose events are sent by the   *)
(* server's event loop, and run_chat, the same loop called on the event    *)
(* loop itself, which it holds until it returns.                           *)
(*                                                                         *)
(* A request is abstracted to its conversation.  A tool use is an id; what *)
(* a tool returns, that it raises, or that its name is unknown makes one   *)
(* result in every case, so the result is the id it answers.               *)
(***************************************************************************)
EXTENDS Naturals, Sequences

CONSTANTS Chats,      \* requests to /api/chat/stream and /api/chat
          Replies,    \* the tool uses a reply of the model may ask for
          MaxRounds   \* _MAX_TOOL_ROUNDS

ASSUME ChatAssumption ==
    /\ MaxRounds \in Nat \ {0}
    /\ \A u \in Replies : u \in Seq(STRING) /\ u # <<>>

VARIABLES via,       \* how a request is made: "none", the page's "form" or "diagnose", or "post"
          at,        \* where its handler is
          turns,     \* messages: the history it came with, its question, the tool turns
          round,     \* passes of the for loop begun
          results,   \* results of the tool uses of the present round
          loop,      \* who runs on the event loop: "free", "overview" or a "post" request
          llm        \* an API key is set and the anthropic package is there

chatVars == <<via, at, turns, round, results, loop, llm>>

Turn(role, c, uses) == [role |-> role, of |-> c, uses |-> uses]

Question(c) == Turn("user", c, <<>>)

ChatInit ==
    /\ via = [c \in Chats |-> "none"]
    /\ at = [c \in Chats |-> "none"]
    /\ turns = [c \in Chats |-> <<>>]
    /\ round = [c \in Chats |-> 0]
    /\ results = [c \in Chats |-> <<>>]
    /\ loop = "free"
    /\ llm \in BOOLEAN

\* The event loop can send an event of c, or runs c itself.
OnLoop(c) == loop = IF via[c] = "post" THEN c ELSE "free"

\* The handler of c ends as `how`, and with it run_chat's hold of the loop.
Over(c, how) ==
    /\ at' = [at EXCEPT ![c] = how]
    /\ loop' = IF via[c] = "post" THEN "free" ELSE loop

\* A request leaves its client with the history h.
Request(c, how, h) ==
    /\ at[c] = "none"
    /\ at' = [at EXCEPT ![c] = "sent"]
    /\ via' = [via EXCEPT ![c] = how]
    /\ turns' = [turns EXCEPT ![c] = Append(h, Question(c))]
    /\ UNCHANGED <<round, results, loop, llm>>

\* The route is entered; with a key, the generator or run_chat starts.
Begin(c) ==
    /\ at[c] = "sent"
    /\ loop = "free"
    /\ llm
    /\ at' = [at EXCEPT ![c] = "ask"]
    /\ loop' = IF via[c] = "post" THEN c ELSE loop
    /\ UNCHANGED <<via, turns, round, results, llm>>

\* Without one, _fallback answers, whatever it is asked, or the package is
\* asked for: one delta and done.
Fallback(c) ==
    /\ at[c] = "sent"
    /\ loop = "free"
    /\ ~llm
    /\ at' = [at EXCEPT ![c] = "done"]
    /\ UNCHANGED <<via, turns, round, results, loop, llm>>

\* Mutant: one round too many.
AskLate(c) ==
    /\ at[c] = "ask"
    /\ round[c] <= MaxRounds
    /\ round' = [round EXCEPT ![c] = @ + 1]
    /\ at' = [at EXCEPT ![c] = "reading"]
    /\ UNCHANGED <<via, turns, results, loop, llm>>

\* The head of the for loop: a reply of the model is asked for, and its text is
\* sent on as it comes, of which nothing is kept.
Ask(c) ==
    /\ at[c] = "ask"
    /\ round[c] < MaxRounds
    /\ round' = [round EXCEPT ![c] = @ + 1]
    /\ at' = [at EXCEPT ![c] = "reading"]
    /\ UNCHANGED <<via, turns, results, loop, llm>>

\* The rounds are used up: done is sent without an answer.
Stop(c) ==
    /\ at[c] = "ask"
    /\ round[c] = MaxRounds
    /\ OnLoop(c)
    /\ Over(c, "done")
    /\ UNCHANGED <<via, turns, round, results, llm>>

\* Any stop_reason but "tool_use": done is sent.
Finish(c) ==
    /\ at[c] = "reading"
    /\ OnLoop(c)
    /\ Over(c, "done")
    /\ UNCHANGED <<via, turns, round, results, llm>>

\* The model API raises, before or in the middle of its reply: the generator
\* ends without done and the response is broken off (run_chat: a 500).
Raise(c) ==
    /\ at[c] = "reading"
    /\ Over(c, "broken")
    /\ UNCHANGED <<via, turns, round, results, llm>>

\* The reply asks for tools.
Use(c, u) ==
    /\ at[c] = "reading"
    /\ at' = [at EXCEPT ![c] = "tools"]
    /\ results' = [results EXCEPT ![c] = <<>>]
    /\ turns' = [turns EXCEPT ![c] = Append(@, Turn("assistant", c, u))]
    /\ UNCHANGED <<via, round, loop, llm>>

Asked(c) == turns[c][Len(turns[c])].uses

\* Mutant: a tool that raises is not caught.
CallToolRaising(c) ==
    /\ at[c] = "tools"
    /\ Len(results[c]) < Len(Asked(c))
    /\ OnLoop(c)
    /\ \/ Over(c, "broken") /\ UNCHANGED results
       \/ /\ results' = [results EXCEPT ![c] = Append(@, Asked(c)[Len(@) + 1])]
          /\ UNCHANGED <<at, loop>>
    /\ UNCHANGED <<via, turns, round, llm>>

\* One tool_use block: the chip is sent, the tool called, its result kept.
CallTool(c) ==
    /\ at[c] = "tools"
    /\ Len(results[c]) < Len(Asked(c))
    /\ OnLoop(c)
    /\ results' = [results EXCEPT ![c] = Append(@, Asked(c)[Len(@) + 1])]
    /\ UNCHANGED <<via, at, turns, round, loop, llm>>

\* All results of the round are one turn of the user.
Answer(c) ==
    /\ at[c] = "tools"
    /\ Len(results[c]) = Len(Asked(c))
    /\ turns' = [turns EXCEPT ![c] = Append(@, Turn("user", c, results[c]))]
    /\ at' = [at EXCEPT ![c] = "ask"]
    /\ UNCHANGED <<via, round, results, loop, llm>>

\* A step of the server for c.
Serve(c) ==
    \/ Begin(c) \/ Fallback(c) \/ Ask(c) \/ Stop(c) \/ Finish(c)
    \/ Raise(c) \/ CallTool(c) \/ Answer(c)
    \/ \E u \in Replies : Use(c, u)

-----------------------------------------------------------------------------
(* The conversation that the handlers carry out.  A round is spent when its *)
(* reply asks for tools: while the reply is read it is not yet.             *)

StatusOf(c) ==
    CASE at[c] = "none" -> "new"
      [] at[c] \in {"done", "broken"} -> "over"
      [] OTHER -> "open"

LeftOf(c) ==
    CASE StatusOf(c) = "over" -> 0
      [] at[c] = "reading" -> MaxRounds - round[c] + 1
      [] OTHER -> MaxRounds - round[c]

Conversations == INSTANCE Conversation
    WITH left <- [c \in Chats |-> LeftOf(c)], status <- [c \in Chats |-> StatusOf(c)]

=============================================================================
