---------------------------- MODULE Conversation ----------------------------
(***************************************************************************)
(* What the dashboard chat promises, without the streaming, the threads    *)
(* and the page: a conversation with the model API in which every tool     *)
(* use of a reply is answered, in order, in the very next turn; a reply is *)
(* only asked for when nothing is left to answer; and the number of        *)
(* replies that use tools is bounded.  Module Chat implements it.          *)
(***************************************************************************)
EXTENDS Naturals, Sequences

CONSTANTS Chats,      \* the requests: one conversation each
          Replies,    \* what the model may ask for: sequences of tool uses
          MaxRounds   \* replies with tool uses that are followed up

VARIABLES turns,    \* turns[c]: the messages the model has been or will be given
          left,     \* left[c]: replies that may still be asked for
          status    \* status[c] \in {"new", "open", "over"}

conversationVars == <<turns, left, status>>

\* A turn of text about c has no uses; a turn with uses asks for them (of the
\* assistant) or answers them (of the user).
Turn(role, c, uses) == [role |-> role, of |-> c, uses |-> uses]

LastTurn(c) == turns[c][Len(turns[c])]

ConversationInit ==
    /\ turns = [c \in Chats |-> <<>>]
    /\ left = [c \in Chats |-> MaxRounds]
    /\ status = [c \in Chats |-> "new"]

\* A request brings some history and ends with its question.
Open(c) ==
    /\ status[c] = "new"
    /\ status' = [status EXCEPT ![c] = "open"]
    /\ turns' = [turns EXCEPT ![c] = turns'[c]]
    /\ turns'[c] # <<>>
    /\ turns'[c][Len(turns'[c])] = Turn("user", c, <<>>)
    /\ UNCHANGED left

\* The model asks for the tool uses u.
Reply(c, u) ==
    /\ status[c] = "open"
    /\ LastTurn(c).role = "user"
    /\ left[c] > 0
    /\ left' = [left EXCEPT ![c] = @ - 1]
    /\ turns' = [turns EXCEPT ![c] = Append(@, Turn("assistant", c, u))]
    /\ UNCHANGED status

\* All of them are answered at once.
Answer(c) ==
    /\ status[c] = "open"
    /\ LastTurn(c).role = "assistant"
    /\ turns' = [turns EXCEPT ![c] = Append(@, Turn("user", c, LastTurn(c).uses))]
    /\ UNCHANGED <<left, status>>

\* A final reply, an error of the model API, or no reply left: never between
\* a tool use and its answer.  No reply is asked for any more.
End(c) ==
    /\ status[c] = "open"
    /\ LastTurn(c).role = "user"
    /\ status' = [status EXCEPT ![c] = "over"]
    /\ left' = [left EXCEPT ![c] = 0]
    /\ UNCHANGED turns

ConversationNext ==
    \E c \in Chats :
        \/ Open(c) \/ Answer(c) \/ End(c)
        \/ \E u \in Replies : Reply(c, u)

ConversationSpec == ConversationInit /\ [][ConversationNext]_conversationVars

=============================================================================
