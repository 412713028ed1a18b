--------------------------- MODULE DashboardProofs ---------------------------
(***************************************************************************)
(* Theorems about Dashboard, for any requests, replies of the model,       *)
(* rounds, clusters and overviews.                                         *)
(***************************************************************************)
EXTENDS Dashboard, FiniteSetTheorems, TLAPS

Turns == [role : {"user", "assistant"}, of : Chats, uses : Seq(STRING)]

Running == {"ask", "reading", "tools"}
Page == {"form", "diagnose"}

Last(c) == turns[c][Len(turns[c])]

\* What the place of a handler says of its conversation, its round and the loop.
RequestOK(c) ==
    /\ at[c] = "none" <=> via[c] = "none"
    /\ at[c] = "none" => turns[c] = <<>>
    /\ at[c] # "none" => turns[c] # <<>>
    /\ at[c] \in {"none", "sent"} => round[c] = 0
    /\ at[c] \in {"reading", "tools"} => round[c] >= 1
    /\ at[c] \in {"sent", "ask", "reading"} => Last(c).role = "user"
    /\ at[c] = "tools" =>
          /\ Last(c).role = "assistant" /\ Last(c).of = c
          /\ Len(results[c]) <= Len(Last(c).uses)
          /\ \A i \in 1..Len(results[c]) : results[c][i] = Last(c).uses[i]
    /\ via[c] = "post" /\ at[c] \in Running => loop = c

\* DashboardTypeOK with the conversations, the single probe and what is between
\* the conjuncts of each.
DashboardInv ==
    /\ DashboardTypeOK
    /\ turns \in [Chats -> Seq(Turns)]
    /\ results \in [Chats -> Seq(STRING)]
    /\ \A c \in Chats : RequestOK(c)
    /\ waiting <= polls
    /\ OneProbe

-----------------------------------------------------------------------------

LEMMA AppendSeq ==
    ASSUME NEW S, NEW s \in Seq(S), NEW x \in S
    PROVE  /\ Append(s, x) \in Seq(S) /\ Append(s, x) # <<>>
           /\ Len(Append(s, x)) = Len(s) + 1 /\ Append(s, x)[Len(s) + 1] = x
           /\ \A i \in 1..Len(s) : Append(s, x)[i] = s[i]
OBVIOUS

LEMMA DashboardInvInit == DashboardInit => DashboardInv
<1> SUFFICES ASSUME DashboardInit PROVE DashboardInv
  OBVIOUS
<1>1. DashboardTypeOK
  <2>1. "free" \notin Chats /\ Clusters \in Nat /\ MaxPolls \in Nat /\ MaxRounds \in Nat
    BY DashboardAssumption, ChatAssumption
  <2>2. history \in Seq(Texts)
    BY DEF DashboardInit
  <2>3. round \in [Chats -> 0..MaxRounds] /\ via \in [Chats -> {"none", "form", "diagnose", "post"}]
        /\ at \in [Chats -> {"none", "sent", "ask", "reading", "tools", "done", "broken"}]
        /\ bubble \in [Chats -> {"none", "typing", "text", "error"}]
    BY <2>1 DEF DashboardInit, ChatInit
  <2>4. /\ waiting \in 0..MaxPolls /\ polls \in 0..MaxPolls /\ probe \in 0..Clusters
        /\ phase \in {"idle", "result", "leave"} /\ probing \subseteq 1..Clusters
    BY <2>1 DEF DashboardInit
  <2>5. loop \in {"free", "overview"} \cup Chats /\ loop \notin Chats
        /\ llm \in BOOLEAN /\ sendOff \in BOOLEAN
    BY <2>1 DEF DashboardInit, ChatInit
  <2> QED BY <2>2, <2>3, <2>4, <2>5 DEF DashboardTypeOK
<1>2. turns \in [Chats -> Seq(Turns)] /\ results \in [Chats -> Seq(STRING)]
  BY DEF DashboardInit, ChatInit
<1>3. \A c \in Chats : RequestOK(c)
  BY DEF DashboardInit, ChatInit, RequestOK, Running
<1>4. waiting <= polls /\ OneProbe
  BY DEF DashboardInit, ChatInit, OneProbe
<1> QED BY <1>1, <1>2, <1>3, <1>4 DEF DashboardInv

\* What a request brings along is a conversation.
LEMMA RequestStep ==
    ASSUME DashboardInv, NEW c \in Chats, NEW how \in {"form", "diagnose", "post"},
           NEW h \in Seq(Texts), Request(c, how, h)
    PROVE  /\ via' \in [Chats -> {"none", "form", "diagnose", "post"}]
           /\ at' \in [Chats -> {"none", "sent", "ask", "reading", "tools", "done", "broken"}]
           /\ loop \in Chats => via'[loop] = "post" /\ at'[loop] \in Running
           /\ turns' \in [Chats -> Seq(Turns)]
           /\ \A d \in Chats : RequestOK(d)'
<1>1. Append(h, Question(c)) \in Seq(Turns) /\ Append(h, Question(c)) # <<>>
      /\ Append(h, Question(c))[Len(Append(h, Question(c)))] = Question(c)
  <2>1. h \in Seq(Turns)
    <3>1. <<>> \in Seq(STRING)
      OBVIOUS
    <3>2. Texts \subseteq Turns
      BY <3>1 DEF Texts, Turns
    <3> QED BY <3>2
  <2>2. Question(c) \in Turns
    BY DEF Question, Turn, Turns
  <2> QED BY <2>1, <2>2
<1>2. turns' \in [Chats -> Seq(Turns)]
  BY <1>1 DEF Request, DashboardInv
<1>3. loop \in Chats => loop # c
  BY DEF Request, DashboardInv, DashboardTypeOK
<1>4. \A d \in Chats : RequestOK(d)'
  <2> TAKE d \in Chats
  <2>1. CASE d = c
    <3>1. at'[c] = "sent" /\ via'[c] = how /\ turns'[c] = Append(h, Question(c)) /\ round'[c] = 0
      BY DEF Request, DashboardInv, DashboardTypeOK, RequestOK
    <3>2. turns'[c][Len(turns'[c])].role = "user"
      BY <1>1, <3>1 DEF Question, Turn
    <3> QED BY <1>1, <2>1, <3>1, <3>2 DEF RequestOK, Last, Running
  <2>2. CASE d # c
    BY <2>2 DEF Request, DashboardInv, DashboardTypeOK, RequestOK, Last
  <2> QED BY <2>1, <2>2
<1> QED BY <1>2, <1>3, <1>4 DEF Request, DashboardInv, DashboardTypeOK, Running

\* A step of the server leaves the page and the overviews alone.
LEMMA ServeStepOK ==
    ASSUME DashboardInv, NEW c \in Chats, ServeStep(c)
    PROVE  DashboardInv'
<1> USE DEF DashboardInv
<1>0. /\ at[c] \in {"none", "sent", "ask", "reading", "tools", "done", "broken"}
      /\ via[c] \in {"none", "form", "diagnose", "post"}
      /\ round[c] \in 0..MaxRounds /\ MaxRounds \in Nat
      /\ turns[c] \in Seq(Turns) /\ results[c] \in Seq(STRING)
      /\ loop \in {"free", "overview"} \cup Chats
      /\ c \notin {"free", "overview"}
      /\ RequestOK(c)
  BY ChatAssumption, DashboardAssumption DEF DashboardTypeOK
<1>1. UNCHANGED <<pageVars, overviewVars, via>>
  BY DEF ServeStep, Serve, Begin, Fallback, Ask, Stop, Finish, Raise, Use, CallTool, Answer
<1>2. \A d \in Chats \ {c} : at'[d] = at[d] /\ turns'[d] = turns[d] /\ round'[d] = round[d]
                              /\ results'[d] = results[d]
  BY DEF ServeStep, Serve, Begin, Fallback, Ask, Stop, Finish, Raise, Use, CallTool, Answer,
         Over, DashboardTypeOK
<1>3. /\ at' \in [Chats -> {"none", "sent", "ask", "reading", "tools", "done", "broken"}]
      /\ round' \in [Chats -> 0..MaxRounds]
      /\ llm' \in BOOLEAN
  <2>1. CASE Begin(c) \/ Fallback(c) \/ CallTool(c) \/ Answer(c)
    BY <2>1, <1>0 DEF Begin, Fallback, CallTool, Answer, DashboardTypeOK
  <2>2. CASE Ask(c)
    <3>1. round[c] + 1 \in 0..MaxRounds
      BY <2>2, <1>0 DEF Ask
    <3> QED BY <2>2, <3>1 DEF Ask, DashboardTypeOK
  <2>3. CASE Stop(c) \/ Finish(c) \/ Raise(c)
    BY <2>3 DEF Stop, Finish, Raise, Over, DashboardTypeOK
  <2>4. CASE \E u \in Replies : Use(c, u)
    BY <2>4 DEF Use, DashboardTypeOK
  <2> QED BY <2>1, <2>2, <2>3, <2>4 DEF ServeStep, Serve
<1>4. \/ loop' = loop /\ (at[c] \in Running /\ via[c] = "post" => at'[c] \in Running)
      \/ loop = "free" /\ via[c] = "post" /\ loop' = c /\ at'[c] = "ask"
      \/ loop = c /\ loop' = "free" /\ at'[c] \in {"done", "broken"}
  <2>1. CASE Begin(c)
    BY <2>1, <1>0 DEF Begin, DashboardTypeOK, Running
  <2>2. CASE Fallback(c)
    BY <2>2 DEF Fallback, Running
  <2>3. CASE Ask(c) \/ CallTool(c) \/ Answer(c) \/ \E u \in Replies : Use(c, u)
    BY <2>3, <1>0 DEF Ask, CallTool, Answer, Use, DashboardTypeOK, Running
  <2>4. CASE Stop(c) \/ Finish(c) \/ Raise(c)
    BY <2>4, <1>0 DEF Stop, Finish, Raise, Over, DashboardTypeOK, RequestOK, Running
  <2> QED BY <2>1, <2>2, <2>3, <2>4 DEF ServeStep, Serve
<1>5. turns' \in [Chats -> Seq(Turns)] /\ results' \in [Chats -> Seq(STRING)] /\ RequestOK(c)'
  <2>1. CASE Begin(c) \/ Fallback(c) \/ Ask(c) \/ Stop(c) \/ Finish(c) \/ Raise(c)
    <3>1. turns' = turns /\ results' = results
      BY <2>1 DEF Begin, Fallback, Ask, Stop, Finish, Raise
    <3>2. /\ at[c] \in {"sent", "ask", "reading"}
          /\ at'[c] = "ask" \/ at'[c] \in {"done", "broken"} \/ at'[c] = "reading"
          /\ at'[c] = "reading" => round'[c] >= 1
          /\ at[c] = "sent" => at'[c] # "reading" /\ (at'[c] = "ask" /\ via[c] = "post" => loop' = c)
      BY <2>1, <1>0 DEF Begin, Fallback, Ask, Stop, Finish, Raise, Over, DashboardTypeOK
    <3>3. via[c] # "none" /\ turns[c] # <<>> /\ Last(c).role = "user"
          /\ (via[c] = "post" /\ at[c] \in Running => loop = c)
      BY <3>2, <1>0 DEF RequestOK
    <3>4. via[c] = "post" /\ at'[c] \in Running => loop' = c
      BY <1>0, <1>4, <3>2, <3>3 DEF Running
    <3> QED BY <1>1, <3>1, <3>2, <3>3, <3>4 DEF RequestOK, Last
  <2>2. ASSUME NEW u \in Replies, Use(c, u)
        PROVE  turns' \in [Chats -> Seq(Turns)] /\ results' \in [Chats -> Seq(STRING)] /\ RequestOK(c)'
    <3>1. /\ at[c] = "reading" /\ at'[c] = "tools"
          /\ turns' = [turns EXCEPT ![c] = Append(turns[c], Turn("assistant", c, u))]
          /\ results' = [results EXCEPT ![c] = <<>>] /\ round' = round /\ loop' = loop
      BY <2>2 DEF Use, DashboardTypeOK
    <3>2. Turn("assistant", c, u) \in Turns
      BY ChatAssumption DEF Turn, Turns
    <3>21. PICK x \in Turns : x = Turn("assistant", c, u)
      BY <3>2
    <3>3. PICK t : t = Append(turns[c], x)
      OBVIOUS
    <3>31. t \in Seq(Turns) /\ t # <<>> /\ Len(t) = Len(turns[c]) + 1
          /\ t[Len(turns[c]) + 1] = x
      <4>1. turns[c] \in Seq(Turns)
        BY <1>0
      <4> QED BY <4>1, <3>3, AppendSeq
    <3>4. t # <<>> /\ t[Len(t)] = Turn("assistant", c, u)
      BY <3>21, <3>31
    <3>5. turns'[c] = t /\ results'[c] = <<>>
      BY <3>1, <3>21, <3>3
    <3>6. Last(c)' = Turn("assistant", c, u)
      BY <3>4, <3>5 DEF Last
    <3>7. turns' \in [Chats -> Seq(Turns)] /\ results' \in [Chats -> Seq(STRING)]
      BY <3>1, <3>21, <3>3, <3>31
    <3>8. u \in Seq(STRING)
      BY ChatAssumption
    <3>9. /\ Last(c)'.role = "assistant" /\ Last(c)'.of = c
          /\ Len(results'[c]) <= Len(Last(c)'.uses) /\ Len(results'[c]) = 0
      BY <3>5, <3>6, <3>8 DEF Turn
    <3>10. round[c] >= 1 /\ via[c] # "none" /\ (via[c] = "post" => loop = c)
      BY <1>0, <3>1 DEF RequestOK, Running
    <3> QED BY <1>1, <3>1, <3>4, <3>5, <3>7, <3>9, <3>10 DEF RequestOK, Last
  <2>3. CASE CallTool(c)
    <3>1. /\ at[c] = "tools" /\ at' = at /\ turns' = turns /\ round' = round /\ loop' = loop
          /\ Len(results[c]) < Len(Last(c).uses)
          /\ results' = [results EXCEPT ![c] = Append(results[c], Last(c).uses[Len(results[c]) + 1])]
      BY <2>3 DEF CallTool, Asked, Last
    <3>2. Last(c) \in Turns
      BY <1>0, <3>1 DEF RequestOK, Last
    <3>3. PICK w \in Seq(STRING) : w = Last(c).uses
      BY <3>2 DEF Turns
    <3>4. w[Len(results[c]) + 1] \in STRING
      BY <1>0, <3>1, <3>3
    <3>41. PICK r : r = Append(results[c], w[Len(results[c]) + 1])
      OBVIOUS
    <3>42. /\ r \in Seq(STRING)
          /\ Len(r) = Len(results[c]) + 1 /\ r[Len(results[c]) + 1] = w[Len(results[c]) + 1]
          /\ \A i \in 1..Len(results[c]) : r[i] = results[c][i]
      BY <1>0, <3>4, <3>41, AppendSeq
    <3>5. \A i \in 1..Len(results[c]) : results[c][i] = w[i]
      BY <1>0, <3>1, <3>3 DEF RequestOK
    <3>6. Len(r) <= Len(w) /\ \A i \in 1..Len(r) : r[i] = w[i]
      <4>1. Len(results[c]) \in Nat /\ Len(w) \in Nat /\ Len(results[c]) < Len(w)
        BY <1>0, <3>1, <3>3
      <4> QED BY <4>1, <3>42, <3>5
    <3>7. results'[c] = r /\ results' \in [Chats -> Seq(STRING)]
      BY <3>1, <3>3, <3>41, <3>42
    <3>8. Last(c)' = Last(c)
      BY <3>1 DEF Last
    <3> QED BY <1>0, <1>1, <3>1, <3>3, <3>6, <3>7, <3>8 DEF RequestOK, Running
  <2>4. CASE Answer(c)
    <3>1. /\ at[c] = "tools" /\ at'[c] = "ask" /\ results' = results /\ round' = round /\ loop' = loop
          /\ turns' = [turns EXCEPT ![c] = Append(turns[c], Turn("user", c, results[c]))]
      BY <2>4 DEF Answer, DashboardTypeOK
    <3>2. Turn("user", c, results[c]) \in Turns
      BY <1>0 DEF Turn, Turns
    <3>21. PICK x \in Turns : x = Turn("user", c, results[c])
      BY <3>2
    <3>3. PICK t : t = Append(turns[c], x)
      OBVIOUS
    <3>31. t \in Seq(Turns) /\ t # <<>> /\ Len(t) = Len(turns[c]) + 1
          /\ t[Len(turns[c]) + 1] = x
      <4>1. turns[c] \in Seq(Turns)
        BY <1>0
      <4> QED BY <4>1, <3>3, AppendSeq
    <3>4. t # <<>> /\ t[Len(t)].role = "user"
      BY <3>21, <3>31 DEF Turn
    <3>5. turns'[c] = t /\ turns' \in [Chats -> Seq(Turns)]
      BY <3>1, <3>21, <3>3, <3>31
    <3>6. via[c] # "none" /\ (via[c] = "post" => loop = c)
      BY <1>0, <3>1 DEF RequestOK, Running
    <3> QED BY <1>1, <3>1, <3>4, <3>5, <3>6 DEF RequestOK, Last
  <2> QED BY <2>1, <2>2, <2>3, <2>4 DEF ServeStep, Serve
<1>7. \A d \in Chats : RequestOK(d)'
  <2> TAKE d \in Chats
  <2>1. CASE d = c
    BY <2>1, <1>5
  <2>2. CASE d # c
    <3>1. loop = d => loop' = d
      BY <1>4, <2>2, <1>0, DashboardAssumption
    <3>2. /\ at'[d] = at[d] /\ turns'[d] = turns[d] /\ round'[d] = round[d]
          /\ results'[d] = results[d] /\ via'[d] = via[d]
      BY <1>1, <1>2, <2>2
    <3>3. Last(d)' = Last(d)
      BY <3>2 DEF Last
    <3>4. RequestOK(d)
      OBVIOUS
    <3> QED BY <3>1, <3>2, <3>3, <3>4 DEF RequestOK
  <2> QED BY <2>1, <2>2
<1>8. loop' \in {"free", "overview"} \cup Chats
      /\ (loop' \in Chats => via'[loop'] = "post" /\ at'[loop'] \in Running)
  <2>1. CASE loop' = loop /\ (at[c] \in Running /\ via[c] = "post" => at'[c] \in Running)
    <3>1. loop = c => at[c] \in Running /\ via[c] = "post"
      BY DEF DashboardTypeOK, Running
    <3> QED BY <1>0, <1>1, <1>2, <2>1, <3>1 DEF DashboardTypeOK, Running
  <2>2. CASE loop = "free" /\ via[c] = "post" /\ loop' = c /\ at'[c] = "ask"
    BY <1>1, <2>2 DEF Running
  <2>3. CASE loop = c /\ loop' = "free" /\ at'[c] \in {"done", "broken"}
    BY <2>3, DashboardAssumption
  <2> QED BY <1>4, <2>1, <2>2, <2>3
<1>9. DashboardTypeOK'
  BY <1>1, <1>3, <1>8 DEF DashboardTypeOK, pageVars, overviewVars, Running
<1>10. OneProbe'
  BY <1>0, <1>1, <1>4 DEF OneProbe, overviewVars
<1> QED BY <1>1, <1>5, <1>7, <1>9, <1>10 DEF overviewVars

\* Requests of the page and of another client, and answers that arrive.
LEMMA PageStepOK ==
    ASSUME DashboardInv, NEW c \in Chats,
           Submit(c) \/ Diagnose(c) \/ Post(c) \/ ReadEnd(c) \/ ReadError(c)
    PROVE  DashboardInv'
<1>0. history \in Seq(Texts) /\ bubble \in [Chats -> {"none", "typing", "text", "error"}]
  BY DEF DashboardInv, DashboardTypeOK
<1>1. Turn("user", c, <<>>) \in Texts /\ Turn("assistant", c, <<>>) \in Texts
  BY DEF Texts, Turn
<1>2. ASSUME NEW how \in {"form", "diagnose"}, SendMessage(c, how), UNCHANGED overviewVars
      PROVE  DashboardInv'
  <2>1. Request(c, how, history) /\ history' = Append(history, Turn("user", c, <<>>))
        /\ bubble' \in [Chats -> {"none", "typing", "text", "error"}] /\ sendOff' \in BOOLEAN
    BY <1>0, <1>2 DEF SendMessage, Question
  <2>2. history' \in Seq(Texts)
    BY <1>0, <1>1, <2>1, AppendSeq
  <2>3. /\ via' \in [Chats -> {"none", "form", "diagnose", "post"}]
        /\ at' \in [Chats -> {"none", "sent", "ask", "reading", "tools", "done", "broken"}]
        /\ loop \in Chats => via'[loop] = "post" /\ at'[loop] \in Running
        /\ turns' \in [Chats -> Seq(Turns)]
        /\ \A d \in Chats : RequestOK(d)'
    BY <1>0, <2>1, RequestStep
  <2> QED BY <1>2, <2>1, <2>2, <2>3
      DEF Request, DashboardInv, DashboardTypeOK, OneProbe, overviewVars, Running
<1>3. CASE Post(c)
  <2>1. Request(c, "post", <<>>) /\ <<>> \in Seq(Texts)
    BY <1>3 DEF Post
  <2>2. /\ via' \in [Chats -> {"none", "form", "diagnose", "post"}]
        /\ at' \in [Chats -> {"none", "sent", "ask", "reading", "tools", "done", "broken"}]
        /\ loop \in Chats => via'[loop] = "post" /\ at'[loop] \in Running
        /\ turns' \in [Chats -> Seq(Turns)]
        /\ \A d \in Chats : RequestOK(d)'
    BY <2>1, RequestStep
  <2> QED BY <1>3, <2>1, <2>2
      DEF Post, Request, DashboardInv, DashboardTypeOK, OneProbe, pageVars, overviewVars, Running
<1>4. CASE ReadEnd(c) \/ ReadError(c)
  <2>1. /\ bubble' \in [Chats -> {"none", "typing", "text", "error"}] /\ sendOff' \in BOOLEAN
        /\ history' = history \/ history' = Append(history, Turn("assistant", c, <<>>))
        /\ UNCHANGED <<chatVars, overviewVars>>
    BY <1>0, <1>4 DEF ReadEnd, ReadError
  <2>2. history' \in Seq(Texts)
    BY <1>0, <1>1, <2>1, AppendSeq
  <2>3. \A d \in Chats : RequestOK(d)'
    BY <2>1 DEF DashboardInv, RequestOK, Last, chatVars
  <2> QED BY <2>1, <2>2, <2>3
      DEF DashboardInv, DashboardTypeOK, OneProbe, chatVars, overviewVars
<1> QED BY <1>2, <1>3, <1>4 DEF Submit, Diagnose

Overview == \/ Poll \/ StartOverview \/ TimesOut \/ Leave
            \/ \E k \in 1..Clusters : ProbeEnds(k)

\* The overviews, which hold the loop from their first probe to their last.
LEMMA OverviewStepOK ==
    ASSUME DashboardInv, Overview
    PROVE  DashboardInv'
<1>0. /\ waiting \in Nat /\ polls \in Nat /\ MaxPolls \in Nat /\ Clusters \in Nat \ {0}
      /\ probe \in 0..Clusters /\ probing \subseteq 1..Clusters
      /\ phase \in {"idle", "result", "leave"}
      /\ loop \in {"free", "overview"} \cup Chats
      /\ "overview" \notin Chats /\ "free" \notin Chats
  BY DashboardAssumption DEF DashboardInv, DashboardTypeOK
<1>1. UNCHANGED <<via, at, turns, round, results, llm, pageVars>>
  BY DEF Overview, Poll, StartOverview, TimesOut, Leave, Onward, ProbeEnds, chatVars
<1>2. loop' = loop \/ (loop \notin Chats /\ loop' \in {"free", "overview"})
  BY <1>0 DEF Overview, Poll, StartOverview, TimesOut, Leave, Onward, ProbeEnds, chatVars
<1>3. \A d \in Chats : RequestOK(d)'
  BY <1>0, <1>1, <1>2 DEF DashboardInv, RequestOK, Last
<1>4. /\ waiting' \in 0..MaxPolls /\ polls' \in 0..MaxPolls /\ waiting' <= polls'
      /\ probe' \in 0..Clusters /\ probing' \subseteq 1..Clusters
      /\ phase' \in {"idle", "result", "leave"} /\ OneProbe'
  <2>0. /\ waiting \in 0..MaxPolls /\ polls \in 0..MaxPolls /\ waiting <= polls
        /\ probing \subseteq {probe}
        /\ loop # "overview" => probing = {}
    BY DEF DashboardInv, DashboardTypeOK, OneProbe
  <2>1. CASE Poll
    BY <1>0, <2>0, <2>1 DEF Poll, OneProbe, chatVars
  <2>2. CASE StartOverview
    <3>1. probing = {}
      BY <2>0, <2>2 DEF StartOverview
    <3>2. /\ probe' = 1 /\ probing' = {1} /\ phase' = "result"
          /\ waiting' = waiting - 1 /\ waiting > 0 /\ polls' = polls /\ loop' = "overview"
      BY <2>2, <3>1 DEF StartOverview, Submitted
    <3> QED BY <1>0, <2>0, <3>2 DEF OneProbe
  <2>3. CASE Leave
    <3>1. probing = {} /\ UNCHANGED <<waiting, polls>> /\ loop = "overview"
      BY <2>0, <2>3 DEF Leave, Onward
    <3>2. CASE probe < Clusters
      <4>1. /\ probe' = probe + 1 /\ probing' = {probe + 1} /\ phase' = "result"
            /\ loop' = "overview"
        BY <2>3, <3>1, <3>2 DEF Leave, Onward, Submitted
      <4> QED BY <1>0, <2>0, <3>1, <3>2, <4>1 DEF OneProbe
    <3>3. CASE ~(probe < Clusters)
      <4>1. probe' = 0 /\ probing' = {} /\ phase' = "idle"
        BY <2>3, <3>1, <3>3 DEF Leave, Onward
      <4> QED BY <1>0, <2>0, <3>1, <4>1 DEF OneProbe
    <3> QED BY <3>2, <3>3
  <2>4. CASE TimesOut
    BY <1>0, <2>0, <2>4 DEF TimesOut, OneProbe, chatVars
  <2>5. ASSUME NEW k \in 1..Clusters, ProbeEnds(k)
        PROVE  /\ UNCHANGED <<waiting, polls, probe, phase, loop>>
               /\ probing' = probing \ {k}
    BY <2>5 DEF ProbeEnds, chatVars
  <2>6. CASE \E k \in 1..Clusters : ProbeEnds(k)
    BY <1>0, <2>0, <2>5, <2>6 DEF OneProbe
  <2> QED BY <2>1, <2>2, <2>3, <2>4, <2>6 DEF Overview
<1>5. DashboardTypeOK'
  BY <1>0, <1>1, <1>2, <1>4 DEF DashboardInv, DashboardTypeOK, pageVars
<1> QED BY <1>1, <1>3, <1>4, <1>5 DEF DashboardInv

LEMMA DashboardInvStep == DashboardInv /\ [DashboardNext]_dashboardVars => DashboardInv'
<1> SUFFICES ASSUME DashboardInv, [DashboardNext]_dashboardVars PROVE DashboardInv'
  OBVIOUS
<1>1. CASE UNCHANGED dashboardVars
  BY <1>1 DEF dashboardVars, chatVars, pageVars, overviewVars, DashboardInv, DashboardTypeOK,
              RequestOK, Last, OneProbe
<1>2. CASE DashboardNext
  BY <1>2, ServeStepOK, PageStepOK, OverviewStepOK DEF DashboardNext, Overview
<1> QED BY <1>1, <1>2

LEMMA DashboardInvariant == DashboardSpec => []DashboardInv
<1> QED BY DashboardInvInit, DashboardInvStep, PTL DEF DashboardSpec

-----------------------------------------------------------------------------

\* DashboardTypeOK, for any requests, replies, rounds, clusters and overviews:
\* sendMessage, stream_chat, run_chat and api_clusters keep their types, and a
\* handler on the event loop is one of run_chat.
THEOREM DashboardTypeCorrect == DashboardSpec => []DashboardTypeOK
<1>1. DashboardInv => DashboardTypeOK
  BY DEF DashboardInv
<1> QED BY <1>1, DashboardInvariant, PTL

\* OneProbe: whenever probes time out and whenever they end, _reachable leaves none
\* behind, however many clusters there are and overviews are asked for.
THEOREM DashboardOneProbe == DashboardSpec => []OneProbe
<1>1. DashboardInv => OneProbe
  BY DEF DashboardInv
<1> QED BY <1>1, DashboardInvariant, PTL

-----------------------------------------------------------------------------
(* The conversation of module Conversation.                                *)

Status == [c \in Chats |-> StatusOf(c)]
Left == [c \in Chats |-> LeftOf(c)]

LEMMA StatusAndLeft ==
    ASSUME NEW c \in Chats
    PROVE  /\ at[c] = "none" => StatusOf(c) = "new" /\ LeftOf(c) = MaxRounds - round[c]
           /\ at[c] \in {"sent", "ask", "tools"} =>
                 StatusOf(c) = "open" /\ LeftOf(c) = MaxRounds - round[c]
           /\ at[c] = "reading" => StatusOf(c) = "open" /\ LeftOf(c) = MaxRounds - round[c] + 1
           /\ at[c] \in {"done", "broken"} => StatusOf(c) = "over" /\ LeftOf(c) = 0
BY DEF StatusOf, LeftOf

LEMMA StatusAndLeftNext ==
    ASSUME NEW c \in Chats
    PROVE  /\ at'[c] = "none" => StatusOf(c)' = "new" /\ LeftOf(c)' = MaxRounds - round'[c]
           /\ at'[c] \in {"sent", "ask", "tools"} =>
                 StatusOf(c)' = "open" /\ LeftOf(c)' = MaxRounds - round'[c]
           /\ at'[c] = "reading" => StatusOf(c)' = "open" /\ LeftOf(c)' = MaxRounds - round'[c] + 1
           /\ at'[c] \in {"done", "broken"} => StatusOf(c)' = "over" /\ LeftOf(c)' = 0
BY DEF StatusOf, LeftOf

\* The mapped variables when only c moves.
LEMMA OnlyOne ==
    ASSUME NEW c \in Chats,
           \A d \in Chats \ {c} : at'[d] = at[d] /\ round'[d] = round[d]
    PROVE  /\ Status' = [Status EXCEPT ![c] = StatusOf(c)']
           /\ Left' = [Left EXCEPT ![c] = LeftOf(c)']
<1>1. \A d \in Chats \ {c} : StatusOf(d)' = StatusOf(d) /\ LeftOf(d)' = LeftOf(d)
  BY DEF StatusOf, LeftOf
<1>2. Status' = [d \in Chats |-> StatusOf(d)'] /\ Left' = [d \in Chats |-> LeftOf(d)']
  BY DEF Status, Left
<1>3. [Status EXCEPT ![c] = StatusOf(c)'] = [d \in Chats |-> StatusOf(d)']
  BY <1>1 DEF Status
<1>4. [Left EXCEPT ![c] = LeftOf(c)'] = [d \in Chats |-> LeftOf(d)']
  BY <1>1 DEF Left
<1> QED BY <1>2, <1>3, <1>4

LEMMA ConversationBegins == DashboardInit => Conversations!ConversationInit
<1> SUFFICES ASSUME DashboardInit PROVE Conversations!ConversationInit
  OBVIOUS
<1>1. turns = [c \in Chats |-> <<>>]
  BY DEF DashboardInit, ChatInit
<1>2. \A c \in Chats : at[c] = "none" /\ round[c] = 0
  BY DEF DashboardInit, ChatInit
<1>3. \A c \in Chats : StatusOf(c) = "new" /\ LeftOf(c) = MaxRounds
  <2> TAKE c \in Chats
  <2>1. StatusOf(c) = "new" /\ LeftOf(c) = MaxRounds - 0
    BY <1>2, StatusAndLeft
  <2> QED BY <2>1, ChatAssumption
<1> QED BY <1>1, <1>3 DEF Conversations!ConversationInit

\* A request opens its conversation.
LEMMA RequestOpens ==
    ASSUME DashboardInv, NEW c \in Chats, NEW how, NEW h \in Seq(Texts), Request(c, how, h)
    PROVE  Conversations!Open(c)
<1>0. h \in Seq(Turns) /\ Question(c) \in Turns
  <2>1. <<>> \in Seq(STRING)
    OBVIOUS
  <2>2. Texts \subseteq Turns
    BY <2>1 DEF Texts, Turns
  <2>3. h \in Seq(Turns)
    BY <2>2
  <2> QED BY <2>1, <2>3 DEF Question, Turn, Turns
<1>1. /\ at[c] = "none" /\ at' = [at EXCEPT ![c] = "sent"] /\ round' = round
      /\ turns' = [turns EXCEPT ![c] = Append(h, Question(c))]
  BY DEF Request
<1>2. turns'[c] = Append(h, Question(c)) /\ at'[c] = "sent"
  BY <1>1 DEF DashboardInv, DashboardTypeOK
<1>3. turns'[c] # <<>> /\ turns'[c][Len(turns'[c])] = Question(c)
  BY <1>0, <1>2, AppendSeq
<1>4. Status' = [Status EXCEPT ![c] = StatusOf(c)'] /\ Left' = [Left EXCEPT ![c] = LeftOf(c)']
  <2>1. \A d \in Chats \ {c} : at'[d] = at[d] /\ round'[d] = round[d]
    BY <1>1 DEF DashboardInv, DashboardTypeOK
  <2> QED BY <2>1, OnlyOne
<1>5. StatusOf(c) = "new" /\ StatusOf(c)' = "open" /\ LeftOf(c)' = LeftOf(c)
  BY <1>1, <1>2, StatusAndLeft, StatusAndLeftNext
<1>6. Status[c] = "new" /\ Status' = [Status EXCEPT ![c] = "open"] /\ Left' = Left
  BY <1>4, <1>5 DEF Status, Left
<1>7. Question(c) = Conversations!Turn("user", c, <<>>)
  BY DEF Question, Turn, Conversations!Turn
<1> QED BY <1>1, <1>2, <1>3, <1>6, <1>7 DEF Conversations!Open, Status, Left

\* A step of the server replies, answers, ends the conversation or leaves it.
LEMMA ServeConverses ==
    ASSUME DashboardInv, NEW c \in Chats, ServeStep(c)
    PROVE  \/ Conversations!Answer(c) \/ Conversations!End(c)
           \/ \E u \in Replies : Conversations!Reply(c, u)
           \/ UNCHANGED <<turns, Left, Status>>
<1>0. /\ round[c] \in Nat /\ MaxRounds \in Nat /\ round[c] <= MaxRounds
      /\ turns \in [Chats -> Seq(Turns)] /\ RequestOK(c)
      /\ at[c] \in {"none", "sent", "ask", "reading", "tools", "done", "broken"}
  BY ChatAssumption DEF DashboardInv, DashboardTypeOK
<1>1. \A d \in Chats \ {c} : at'[d] = at[d] /\ round'[d] = round[d]
  BY DEF ServeStep, Serve, Begin, Fallback, Ask, Stop, Finish, Raise, Use, CallTool, Answer,
         Over, DashboardInv, DashboardTypeOK
<1>2. Status' = [Status EXCEPT ![c] = StatusOf(c)'] /\ Left' = [Left EXCEPT ![c] = LeftOf(c)']
  BY <1>1, OnlyOne
<1>3. Status[c] = StatusOf(c) /\ Left[c] = LeftOf(c)
  BY DEF Status, Left
<1>4. CASE Begin(c) \/ Ask(c) \/ CallTool(c)
  <2>1. /\ turns' = turns
        /\ \/ at[c] = "sent" /\ at'[c] = "ask" /\ round'[c] = round[c]
           \/ at[c] = "ask" /\ at'[c] = "reading" /\ round'[c] = round[c] + 1
           \/ at[c] = "tools" /\ at'[c] = "tools" /\ round'[c] = round[c]
    BY <1>4 DEF Begin, Ask, CallTool, DashboardInv, DashboardTypeOK
  <2>2. StatusOf(c)' = StatusOf(c) /\ LeftOf(c)' = LeftOf(c)
    BY <1>0, <2>1, StatusAndLeft, StatusAndLeftNext
  <2>3. Status' = Status /\ Left' = Left
    BY <1>2, <1>3, <2>2 DEF Status, Left
  <2> QED BY <2>1, <2>3
<1>5. CASE Fallback(c) \/ Stop(c) \/ Finish(c) \/ Raise(c)
  <2>1. turns' = turns /\ at[c] \in {"sent", "ask", "reading"} /\ at'[c] \in {"done", "broken"}
    BY <1>5 DEF Fallback, Stop, Finish, Raise, Over, DashboardInv, DashboardTypeOK
  <2>2. StatusOf(c) = "open" /\ StatusOf(c)' = "over" /\ LeftOf(c)' = 0
    BY <2>1, StatusAndLeft, StatusAndLeftNext
  <2>3. turns[c][Len(turns[c])].role = "user"
    BY <1>0, <2>1 DEF RequestOK, Last
  <2>4. Conversations!End(c)
    BY <1>2, <1>3, <2>1, <2>2, <2>3 DEF Conversations!End, Conversations!LastTurn, Status, Left
  <2> QED BY <2>4
<1>6. ASSUME NEW u \in Replies, Use(c, u) PROVE Conversations!Reply(c, u)
  <2>1. /\ at[c] = "reading" /\ at'[c] = "tools" /\ round' = round
        /\ turns' = [turns EXCEPT ![c] = Append(turns[c], Turn("assistant", c, u))]
    BY <1>6 DEF Use, DashboardInv, DashboardTypeOK
  <2>2. /\ StatusOf(c) = "open" /\ StatusOf(c)' = "open"
        /\ LeftOf(c) = MaxRounds - round[c] + 1 /\ LeftOf(c)' = MaxRounds - round[c]
    BY <2>1, StatusAndLeft, StatusAndLeftNext
  <2>3. LeftOf(c) > 0 /\ LeftOf(c)' = LeftOf(c) - 1
    BY <1>0, <2>2
  <2>4. Status' = Status
    BY <1>2, <1>3, <2>2 DEF Status
  <2>5. turns[c][Len(turns[c])].role = "user"
    BY <1>0, <2>1 DEF RequestOK, Last
  <2>6. Conversations!Turn("assistant", c, u) = Turn("assistant", c, u)
    BY DEF Turn, Conversations!Turn
  <2> QED BY <1>2, <1>3, <2>1, <2>2, <2>3, <2>4, <2>5, <2>6
      DEF Conversations!Reply, Conversations!LastTurn, Status, Left
<1>7. CASE Answer(c)
  <2>1. /\ at[c] = "tools" /\ at'[c] = "ask" /\ round' = round
        /\ Len(results[c]) = Len(Last(c).uses)
        /\ turns' = [turns EXCEPT ![c] = Append(turns[c], Turn("user", c, results[c]))]
    BY <1>7 DEF Answer, Asked, Last, DashboardInv, DashboardTypeOK
  <2>2. StatusOf(c) = "open" /\ StatusOf(c)' = "open" /\ LeftOf(c)' = LeftOf(c)
    BY <2>1, StatusAndLeft, StatusAndLeftNext
  <2>3. Status' = Status /\ Left' = Left
    BY <1>2, <1>3, <2>2 DEF Status, Left
  <2>4. Last(c).role = "assistant" /\ \A i \in 1..Len(results[c]) : results[c][i] = Last(c).uses[i]
    BY <1>0, <2>1 DEF RequestOK
  <2>5. results[c] = Last(c).uses
    <3>1. Last(c) \in Turns
      BY <1>0, <2>1 DEF RequestOK, Last
    <3>2. PICK w \in Seq(STRING) : w = Last(c).uses
      BY <3>1 DEF Turns
    <3>3. results[c] \in Seq(STRING)
      BY DEF DashboardInv
    <3> QED BY <2>1, <2>4, <3>2, <3>3
  <2>6. Conversations!Turn("user", c, Last(c).uses) = Turn("user", c, results[c])
    BY <2>5 DEF Turn, Conversations!Turn
  <2>7. Conversations!Answer(c)
    BY <1>3, <2>1, <2>2, <2>3, <2>4, <2>6
    DEF Conversations!Answer, Conversations!LastTurn, Last, Status, Left
  <2> QED BY <2>7
<1> QED BY <1>4, <1>5, <1>6, <1>7 DEF ServeStep, Serve

LEMMA ConversationGoesOn ==
    DashboardInv /\ [DashboardNext]_dashboardVars
        => [Conversations!ConversationNext]_Conversations!conversationVars
<1> SUFFICES ASSUME DashboardInv, [DashboardNext]_dashboardVars
             PROVE  [Conversations!ConversationNext]_Conversations!conversationVars
  OBVIOUS
<1>0. history \in Seq(Texts) /\ <<>> \in Seq(Texts)
  BY DEF DashboardInv, DashboardTypeOK
<1>1. ASSUME UNCHANGED <<turns, at, round>>
      PROVE  UNCHANGED Conversations!conversationVars
  BY <1>1 DEF Conversations!conversationVars, StatusOf, LeftOf
<1>2. CASE UNCHANGED dashboardVars
  BY <1>1, <1>2 DEF dashboardVars, chatVars
<1>3. CASE Overview
  BY <1>1, <1>3
  DEF Overview, Poll, StartOverview, TimesOut, Leave, Onward, ProbeEnds, chatVars
<1>4. ASSUME NEW c \in Chats, ReadEnd(c) \/ ReadError(c)
      PROVE  UNCHANGED Conversations!conversationVars
  BY <1>1, <1>4 DEF ReadEnd, ReadError, chatVars
<1>5. ASSUME NEW c \in Chats, Submit(c) \/ Diagnose(c) \/ Post(c)
      PROVE  Conversations!ConversationNext
  <2>1. \E how : \E h \in Seq(Texts) : Request(c, how, h)
    BY <1>0, <1>5 DEF Submit, Diagnose, Post, SendMessage
  <2> QED BY <2>1, RequestOpens DEF Conversations!ConversationNext
<1>6. ASSUME NEW c \in Chats, ServeStep(c)
      PROVE  [Conversations!ConversationNext]_Conversations!conversationVars
  BY <1>6, ServeConverses DEF Conversations!ConversationNext, Conversations!conversationVars,
                              Status, Left
<1> QED BY <1>2, <1>3, <1>4, <1>5, <1>6 DEF DashboardNext, Overview

\* ChatImplementsConversation, for any requests, replies and rounds: whatever
\* tools do, however requests overlap and wherever the API raises, stream_chat and
\* run_chat carry out a conversation in which each reply's tool uses are answered,
\* all and in order, in the next turn, and no reply comes after the last round.
THEOREM DashboardImplementsConversation == DashboardSpec => ChatImplementsConversation
<1> QED BY DashboardInvariant, ConversationBegins, ConversationGoesOn, PTL
    DEF DashboardSpec, ChatImplementsConversation, Conversations!ConversationSpec

-----------------------------------------------------------------------------
(* The page.                                                               *)

\* The question of c is in the history, and up to it the model is told the same.
ToldSame(c, k) ==
    /\ k \in DOMAIN history /\ k \in DOMAIN turns[c]
    /\ history[k] = Question(c)
    /\ \A i \in 1..k : turns[c][i] = history[i]

Entry(i) ==
    LET c == history[i].of
    IN  \/ history[i] = Question(c) /\ via[c] \in Page
        \/ /\ history[i] = Turn("assistant", c, <<>>)
           /\ bubble[c] = "text"
           /\ \E j \in 1..(i - 1) : history[j] = Question(c)

Distinct == \A i, j \in DOMAIN history : history[i] = history[j] => i = j

OneTyping ==
    (\A c \in Chats : via[c] # "diagnose") =>
        /\ \A c, d \in Chats : bubble[c] = "typing" /\ bubble[d] = "typing" => c = d
        /\ sendOff <=> \E c \in Chats : bubble[c] = "typing"

PageInv ==
    /\ \A c \in Chats : bubble[c] # "none" <=> via[c] \in Page
    /\ \A c \in Chats : bubble[c] = "text" => at[c] = "done"
    /\ \A c \in Chats : via[c] \in Page => \E k \in Nat : ToldSame(c, k)
    /\ \A i \in DOMAIN history : Entry(i)
    /\ Distinct
    /\ OneTyping

LEMMA PageInvInit == DashboardInit => PageInv
<1> SUFFICES ASSUME DashboardInit PROVE PageInv
  OBVIOUS
<1>1. DOMAIN history = {}
  BY DEF DashboardInit
<1> QED BY <1>1 DEF DashboardInit, ChatInit, PageInv, Page, Distinct, OneTyping

\* The server only adds to what the model is told.
LEMMA ServeExtends ==
    ASSUME DashboardInv, NEW c \in Chats, ServeStep(c), NEW d \in Chats
    PROVE  /\ DOMAIN turns[d] \subseteq DOMAIN turns'[d]
           /\ \A i \in DOMAIN turns[d] : turns'[d][i] = turns[d][i]
           /\ at[d] = "done" => at'[d] = "done"
           /\ UNCHANGED <<via, pageVars>>
<1>0. turns \in [Chats -> Seq(Turns)] /\ results[c] \in Seq(STRING)
  BY DEF DashboardInv
<1>1. UNCHANGED <<via, pageVars>>
  BY DEF ServeStep, Serve, Begin, Fallback, Ask, Stop, Finish, Raise, Use, CallTool, Answer
<1>2. at[d] = "done" => at'[d] = "done"
  BY DEF ServeStep, Serve, Begin, Fallback, Ask, Stop, Finish, Raise, Use, CallTool, Answer,
         Over, DashboardInv, DashboardTypeOK
<1>3. turns' = turns \/ \E x \in Turns : turns' = [turns EXCEPT ![c] = Append(turns[c], x)]
  <2>1. ASSUME NEW u \in Replies, Use(c, u)
        PROVE  \E x \in Turns : turns' = [turns EXCEPT ![c] = Append(turns[c], x)]
    <3>1. Turn("assistant", c, u) \in Turns
      BY ChatAssumption DEF Turn, Turns
    <3> QED BY <2>1, <3>1 DEF Use
  <2>2. CASE Answer(c)
    <3>1. Turn("user", c, results[c]) \in Turns
      BY <1>0 DEF Turn, Turns
    <3> QED BY <2>2, <3>1 DEF Answer
  <2> QED BY <2>1, <2>2
      DEF ServeStep, Serve, Begin, Fallback, Ask, Stop, Finish, Raise, CallTool
<1>4. CASE turns' = turns
  BY <1>1, <1>2, <1>4
<1>5. ASSUME NEW x \in Turns, turns' = [turns EXCEPT ![c] = Append(turns[c], x)]
      PROVE  /\ DOMAIN turns[d] \subseteq DOMAIN turns'[d]
             /\ \A i \in DOMAIN turns[d] : turns'[d][i] = turns[d][i]
  <2>1. CASE d # c
    BY <1>0, <1>5, <2>1
  <2>2. CASE d = c
    <3>1. turns'[c] = Append(turns[c], x) /\ turns[c] \in Seq(Turns)
      BY <1>0, <1>5
    <3>2. /\ turns'[c] \in Seq(Turns) /\ Len(turns'[c]) = Len(turns[c]) + 1
          /\ \A i \in 1..Len(turns[c]) : turns'[c][i] = turns[c][i]
      BY <3>1, AppendSeq
    <3>3. DOMAIN turns[c] = 1..Len(turns[c]) /\ DOMAIN turns'[c] = 1..Len(turns'[c])
          /\ Len(turns[c]) \in Nat
      BY <3>1, <3>2
    <3> QED BY <2>2, <3>2, <3>3
  <2> QED BY <2>1, <2>2
<1> QED BY <1>1, <1>2, <1>3, <1>4, <1>5

\* A new text goes to the end of the history, which keeps what it had.
LEMMA HistoryGrows ==
    ASSUME DashboardInv, NEW x \in Texts, history' = Append(history, x),
           \A i \in DOMAIN history : history[i] # x, Distinct
    PROVE  \E n \in Nat :
              /\ DOMAIN history = 1..n /\ DOMAIN history' = 1..(n + 1)
              /\ history'[n + 1] = x
              /\ \A i \in 1..n : history'[i] = history[i]
              /\ Distinct'
<1>1. history \in Seq(Texts)
  BY DEF DashboardInv, DashboardTypeOK
<1>2. PICK n \in Nat : n = Len(history)
  BY <1>1
<1>3. /\ history' \in Seq(Texts) /\ Len(history') = n + 1 /\ history'[n + 1] = x
      /\ \A i \in 1..n : history'[i] = history[i]
  BY <1>1, <1>2, AppendSeq
<1>4. DOMAIN history = 1..n /\ DOMAIN history' = 1..(n + 1)
  BY <1>1, <1>2, <1>3
<1>5. Distinct'
  <2> SUFFICES ASSUME NEW i \in 1..(n + 1), NEW j \in 1..(n + 1), history'[i] = history'[j]
               PROVE  i = j
    BY <1>4 DEF Distinct
  <2>1. CASE i \in 1..n /\ j \in 1..n
    BY <1>3, <1>4, <2>1 DEF Distinct
  <2>2. CASE i = n + 1 /\ j \in 1..n
    BY <1>3, <1>4, <2>2
  <2>3. CASE i \in 1..n /\ j = n + 1
    BY <1>3, <1>4, <2>3
  <2> QED BY <2>1, <2>2, <2>3
<1> QED BY <1>3, <1>4, <1>5

\* Asking: by the form, or by a Diagnose button.
LEMMA SendMessageOK ==
    ASSUME DashboardInv, PageInv, NEW c \in Chats, NEW how \in Page, SendMessage(c, how),
           how = "form" => ~sendOff
    PROVE  PageInv'
<1>0. /\ history \in Seq(Texts) /\ bubble \in [Chats -> {"none", "typing", "text", "error"}]
      /\ via \in [Chats -> {"none", "form", "diagnose", "post"}] /\ turns \in [Chats -> Seq(Turns)]
      /\ at \in [Chats -> {"none", "sent", "ask", "reading", "tools", "done", "broken"}]
  BY DEF DashboardInv, DashboardTypeOK
<1>1. /\ at[c] = "none" /\ via[c] = "none" /\ bubble[c] = "none"
      /\ at' = [at EXCEPT ![c] = "sent"] /\ via' = [via EXCEPT ![c] = how]
      /\ turns' = [turns EXCEPT ![c] = Append(history, Question(c))]
      /\ history' = Append(history, Question(c))
      /\ bubble' = [bubble EXCEPT ![c] = "typing"] /\ sendOff' = TRUE
  BY <1>0 DEF SendMessage, Request, DashboardInv, RequestOK, PageInv, Page
<1>2. Question(c) \in Texts /\ Question(c).of = c
  BY DEF Question, Turn, Texts
<1>3. \A i \in DOMAIN history : history[i] # Question(c)
  <2> SUFFICES ASSUME NEW i \in DOMAIN history, history[i] = Question(c) PROVE FALSE
    OBVIOUS
  <2>1. Entry(i) /\ history[i].of = c
    BY <1>2 DEF PageInv
  <2> QED BY <1>1, <2>1 DEF Entry, Page
<1>4. PICK n \in Nat :
        /\ DOMAIN history = 1..n /\ DOMAIN history' = 1..(n + 1)
        /\ history'[n + 1] = Question(c)
        /\ \A i \in 1..n : history'[i] = history[i]
        /\ Distinct'
  BY <1>1, <1>2, <1>3, HistoryGrows DEF PageInv
<1>5. \A d \in Chats : bubble'[d] # "none" <=> via'[d] \in Page
  BY <1>0, <1>1 DEF PageInv, Page
<1>6. \A d \in Chats : bubble'[d] = "text" => at'[d] = "done"
  BY <1>0, <1>1 DEF PageInv
<1>7. ASSUME NEW d \in Chats, via'[d] \in Page PROVE \E k \in Nat : ToldSame(d, k)'
  <2>1. CASE d = c
    <3>1. turns'[c] = history'
      BY <1>0, <1>1
    <3>2. n + 1 \in DOMAIN history' /\ n + 1 \in Nat
      BY <1>4
    <3>3. ToldSame(c, n + 1)'
      BY <1>4, <3>1, <3>2 DEF ToldSame, Question
    <3> QED BY <2>1, <3>2, <3>3
  <2>2. CASE d # c
    <3>1. turns'[d] = turns[d] /\ via[d] \in Page
      BY <1>0, <1>1, <1>7, <2>2
    <3>2. PICK k \in Nat : ToldSame(d, k)
      BY <3>1 DEF PageInv
    <3>3. k \in 1..n
      BY <1>4, <3>2 DEF ToldSame
    <3>4. ToldSame(d, k)'
      BY <1>4, <3>1, <3>2, <3>3 DEF ToldSame, Question
    <3> QED BY <3>4
  <2> QED BY <2>1, <2>2
<1>8. ASSUME NEW i \in 1..(n + 1) PROVE Entry(i)'
  <2>1. CASE i = n + 1
    <3>1. history'[i] = Question(c) /\ history'[i].of = c /\ via'[c] = how
      BY <1>0, <1>1, <1>2, <1>4, <2>1
    <3> QED BY <3>1 DEF Entry, Question
  <2>2. CASE i \in 1..n
    <3>1. Entry(i) /\ history'[i] = history[i] /\ history[i].of \in Chats
      <4>1. history[i] \in Texts
        BY <1>0, <1>4, <2>2
      <4> QED BY <1>4, <2>2, <4>1 DEF PageInv, Texts
    <3>2. \A j \in 1..(i - 1) : history'[j] = history[j]
      BY <1>4, <2>2
    <3>3. history[i].of # c
      BY <1>1, <3>1 DEF Entry, Page
    <3>4. via'[history[i].of] = via[history[i].of] /\ bubble'[history[i].of] = bubble[history[i].of]
      BY <1>0, <1>1, <3>1, <3>3
    <3> QED BY <3>1, <3>2, <3>4 DEF Entry, Question
  <2> QED BY <2>1, <2>2
<1>9. OneTyping'
  <2> SUFFICES ASSUME \A d \in Chats : via'[d] # "diagnose"
               PROVE  /\ \A d, e \in Chats : bubble'[d] = "typing" /\ bubble'[e] = "typing" => d = e
                      /\ sendOff' <=> \E d \in Chats : bubble'[d] = "typing"
    BY DEF OneTyping
  <2>1. \A d \in Chats : via[d] # "diagnose"
    BY <1>0, <1>1
  <2>2. how = "form"
    BY <1>0, <1>1 DEF Page
  <2>3. \A d \in Chats : bubble[d] # "typing"
    BY <2>1, <2>2 DEF PageInv, OneTyping
  <2>4. \A d \in Chats : bubble'[d] = "typing" <=> d = c
    BY <1>0, <1>1, <2>3
  <2> QED BY <1>1, <2>4
<1> QED BY <1>4, <1>5, <1>6, <1>7, <1>8, <1>9 DEF PageInv

\* An answer arrives, in full or broken off.
LEMMA ReadOK ==
    ASSUME DashboardInv, PageInv, NEW c \in Chats, ReadEnd(c) \/ ReadError(c)
    PROVE  PageInv'
<1>0. /\ history \in Seq(Texts) /\ bubble \in [Chats -> {"none", "typing", "text", "error"}]
  BY DEF DashboardInv, DashboardTypeOK
<1>1. UNCHANGED <<via, at, turns>> /\ bubble[c] = "typing" /\ sendOff' = FALSE
  BY DEF ReadEnd, ReadError, chatVars
<1>2. OneTyping'
  <2> SUFFICES ASSUME \A d \in Chats : via[d] # "diagnose"
               PROVE  \A d \in Chats : bubble'[d] # "typing"
    BY <1>1 DEF OneTyping
  <2>1. \A d \in Chats : bubble[d] = "typing" => d = c
    BY <1>1 DEF PageInv, OneTyping
  <2> QED BY <1>0, <2>1 DEF ReadEnd, ReadError
<1>3. CASE ReadError(c)
  <2>1. history' = history /\ bubble' = [bubble EXCEPT ![c] = "error"]
    BY <1>3 DEF ReadError
  <2>2. ASSUME NEW i \in DOMAIN history PROVE Entry(i)'
    <3>1. Entry(i) /\ history[i] \in Texts
      BY <1>0 DEF PageInv
    <3>2. bubble[history[i].of] = "text" => bubble'[history[i].of] = "text"
      BY <1>0, <1>1, <2>1, <3>1 DEF Texts
    <3> QED BY <1>1, <2>1, <3>1, <3>2 DEF Entry, Question
  <2>3. \A d \in Chats : /\ bubble'[d] # "none" <=> bubble[d] # "none"
                         /\ bubble'[d] = "text" => bubble[d] = "text"
    BY <1>0, <1>1, <2>1
  <2> QED BY <1>1, <1>2, <2>1, <2>2, <2>3 DEF PageInv, Distinct, ToldSame, Question
<1>4. CASE ReadEnd(c)
  <2>1. /\ history' = Append(history, Turn("assistant", c, <<>>)) /\ at[c] = "done"
        /\ bubble' = [bubble EXCEPT ![c] = "text"]
    BY <1>4 DEF ReadEnd
  <2>2. Turn("assistant", c, <<>>) \in Texts /\ Turn("assistant", c, <<>>).of = c
        /\ Turn("assistant", c, <<>>) # Question(c)
    BY DEF Turn, Texts, Question
  <2>3. \A i \in DOMAIN history : history[i] # Turn("assistant", c, <<>>)
    <3> SUFFICES ASSUME NEW i \in DOMAIN history, history[i] = Turn("assistant", c, <<>>)
                 PROVE  FALSE
      OBVIOUS
    <3>1. Entry(i) /\ history[i].of = c
      BY <2>2 DEF PageInv
    <3> QED BY <1>1, <2>2, <3>1 DEF Entry
  <2>4. PICK n \in Nat :
          /\ DOMAIN history = 1..n /\ DOMAIN history' = 1..(n + 1)
          /\ history'[n + 1] = Turn("assistant", c, <<>>)
          /\ \A i \in 1..n : history'[i] = history[i]
          /\ Distinct'
    BY <2>1, <2>2, <2>3, HistoryGrows DEF PageInv
  <2>5. \A d \in Chats : /\ bubble'[d] # "none" <=> bubble[d] # "none"
                         /\ bubble'[d] = "text" => bubble[d] = "text" \/ at[d] = "done"
                         /\ bubble[d] = "text" => bubble'[d] = "text"
    BY <1>0, <1>1, <2>1
  <2>6. ASSUME NEW d \in Chats, via[d] \in Page PROVE \E k \in Nat : ToldSame(d, k)'
    <3>1. PICK k \in Nat : ToldSame(d, k)
      BY <2>6 DEF PageInv
    <3>2. k \in 1..n
      BY <2>4, <3>1 DEF ToldSame
    <3>3. ToldSame(d, k)'
      BY <1>1, <2>4, <3>1, <3>2 DEF ToldSame, Question
    <3> QED BY <3>3
  <2>7. ASSUME NEW i \in 1..(n + 1) PROVE Entry(i)'
    <3>1. CASE i = n + 1
      <4>1. PICK k \in Nat : ToldSame(c, k)
        BY <1>1 DEF PageInv
      <4>2. k \in 1..n /\ history'[k] = Question(c)
        BY <2>4, <4>1 DEF ToldSame
      <4>3. k \in 1..(i - 1)
        BY <3>1, <4>2
      <4>4. bubble'[c] = "text" /\ history'[i] = Turn("assistant", c, <<>>) /\ history'[i].of = c
        BY <1>0, <2>1, <2>2, <2>4, <3>1
      <4> QED BY <4>2, <4>3, <4>4 DEF Entry, Question
    <3>2. CASE i \in 1..n
      <4>1. Entry(i) /\ history'[i] = history[i] /\ history[i] \in Texts
        BY <1>0, <2>4, <3>2 DEF PageInv
      <4>2. \A j \in 1..(i - 1) : history'[j] = history[j]
        BY <2>4, <3>2
      <4>3. bubble[history[i].of] = "text" => bubble'[history[i].of] = "text"
        BY <2>5, <4>1 DEF Texts
      <4> QED BY <1>1, <4>1, <4>2, <4>3 DEF Entry, Question
    <3> QED BY <3>1, <3>2
  <2> QED BY <1>1, <1>2, <2>4, <2>5, <2>6, <2>7 DEF PageInv
<1> QED BY <1>3, <1>4

LEMMA PageInvStep == DashboardInv /\ PageInv /\ [DashboardNext]_dashboardVars => PageInv'
<1> SUFFICES ASSUME DashboardInv, PageInv, [DashboardNext]_dashboardVars PROVE PageInv'
  OBVIOUS
<1>1. ASSUME UNCHANGED <<via, pageVars>>,
             \A d \in Chats :
                /\ DOMAIN turns[d] \subseteq DOMAIN turns'[d]
                /\ \A i \in DOMAIN turns[d] : turns'[d][i] = turns[d][i]
                /\ at[d] = "done" => at'[d] = "done"
      PROVE  PageInv'
  <2>0. history' = history /\ bubble' = bubble /\ sendOff' = sendOff /\ via' = via
    BY <1>1 DEF pageVars
  <2>1. ASSUME NEW d \in Chats, via[d] \in Page PROVE \E k \in Nat : ToldSame(d, k)'
    <3>1. PICK k \in Nat : ToldSame(d, k)
      BY <2>1 DEF PageInv
    <3>2. \A i \in 1..k : i \in DOMAIN turns[d]
      <4>1. turns[d] \in Seq(Turns)
        BY DEF DashboardInv
      <4> QED BY <3>1, <4>1 DEF ToldSame
    <3>3. ToldSame(d, k)'
      BY <1>1, <2>0, <3>1, <3>2 DEF ToldSame, Question
    <3> QED BY <3>3
  <2>2. \A i \in DOMAIN history : Entry(i)'
    BY <2>0 DEF PageInv, Entry, Question
  <2> QED BY <1>1, <2>0, <2>1, <2>2 DEF PageInv, Distinct, OneTyping
<1>2. ASSUME UNCHANGED <<chatVars, pageVars>> PROVE PageInv'
  BY <1>1, <1>2 DEF chatVars
<1>3. CASE UNCHANGED dashboardVars
  BY <1>2, <1>3 DEF dashboardVars
<1>4. CASE Overview
  BY <1>1, <1>2, <1>4
  DEF Overview, Poll, StartOverview, TimesOut, Leave, Onward, ProbeEnds, chatVars
<1>5. ASSUME NEW c \in Chats, ServeStep(c) PROVE PageInv'
  <2>1. UNCHANGED <<via, pageVars>>
    BY <1>5, ServeExtends
  <2> QED BY <1>1, <1>5, <2>1, ServeExtends
<1>6. ASSUME NEW c \in Chats, Submit(c) \/ Diagnose(c) PROVE PageInv'
  BY <1>6, SendMessageOK DEF Submit, Diagnose, Page
<1>7. ASSUME NEW c \in Chats, Post(c) PROVE PageInv'
  <2>0. at[c] = "none" /\ via[c] = "none"
    BY <1>7 DEF Post, Request, DashboardInv, RequestOK
  <2>1. /\ UNCHANGED pageVars /\ via' = [via EXCEPT ![c] = "post"]
        /\ \A d \in Chats \ {c} : turns'[d] = turns[d] /\ at'[d] = at[d] /\ via'[d] = via[d]
        /\ via'[c] = "post"
    BY <1>7 DEF Post, Request, DashboardInv, DashboardTypeOK
  <2>2. history' = history /\ bubble' = bubble /\ sendOff' = sendOff
    BY <2>1 DEF pageVars
  <2>3. bubble[c] = "none"
    BY <2>0 DEF PageInv, DashboardInv, DashboardTypeOK, Page
  <2>4. ASSUME NEW d \in Chats, via'[d] \in Page PROVE \E k \in Nat : ToldSame(d, k)'
    <3>1. d # c /\ turns'[d] = turns[d] /\ via[d] \in Page
      BY <2>1, <2>4 DEF Page
    <3>2. PICK k \in Nat : ToldSame(d, k)
      BY <3>1 DEF PageInv
    <3>3. ToldSame(d, k)'
      BY <2>2, <3>1, <3>2 DEF ToldSame, Question
    <3> QED BY <3>3
  <2>5. ASSUME NEW i \in DOMAIN history PROVE Entry(i)'
    <3>1. Entry(i) /\ history[i] \in Texts
      BY DEF PageInv, DashboardInv, DashboardTypeOK
    <3>2. via[history[i].of] \in Page => via'[history[i].of] \in Page
      BY <2>0, <2>1, <3>1 DEF Page, Texts
    <3> QED BY <2>2, <3>1, <3>2 DEF Entry, Question
  <2>6. OneTyping'
    BY <2>0, <2>1, <2>2 DEF PageInv, OneTyping
  <2>7. \A d \in Chats : /\ bubble'[d] # "none" <=> via'[d] \in Page
                         /\ bubble'[d] = "text" => at'[d] = "done"
    BY <2>1, <2>2, <2>3 DEF PageInv, Page
  <2> QED BY <2>2, <2>4, <2>5, <2>6, <2>7 DEF PageInv, Distinct
<1> QED BY <1>3, <1>4, <1>5, <1>6, <1>7, ReadOK DEF DashboardNext, Overview

LEMMA PageInvariant == DashboardSpec => [](DashboardInv /\ PageInv)
<1>1. DashboardInit => DashboardInv /\ PageInv
  BY DashboardInvInit, PageInvInit
<1>2. DashboardInv /\ PageInv /\ [DashboardNext]_dashboardVars => (DashboardInv /\ PageInv)'
  BY DashboardInvStep, PageInvStep
<1> QED BY <1>1, <1>2, PTL DEF DashboardSpec

LEMMA PageSound == DashboardInv /\ PageInv => HistorySound
<1> SUFFICES ASSUME DashboardInv, PageInv PROVE HistorySound
  OBVIOUS
<1>0. history \in Seq(Texts) /\ turns \in [Chats -> Seq(Turns)]
  BY DEF DashboardInv, DashboardTypeOK
<1>1. ASSUME NEW i \in DOMAIN history, history[i].role = "assistant"
      PROVE  /\ at[history[i].of] = "done"
             /\ \E j \in 1..(i - 1) : history[j] = Question(history[i].of)
  <2>1. Entry(i) /\ history[i] \in Texts
    BY <1>0 DEF PageInv
  <2>2. Question(history[i].of).role = "user"
    BY DEF Question, Turn
  <2> QED BY <1>1, <2>1, <2>2 DEF Entry, PageInv, Texts
<1>2. ASSUME NEW c \in Chats, via[c] \in {"form", "diagnose"}
      PROVE  SubSeq(turns[c], 1, Position(c)) = SubSeq(history, 1, Position(c))
  <2>1. PICK k \in Nat : ToldSame(c, k)
    BY <1>2 DEF PageInv, Page
  <2>2. Position(c) = k
    BY <2>1 DEF ToldSame, Position, PageInv, Distinct
  <2>3. k \in 1..Len(history) /\ k \in 1..Len(turns[c])
    BY <1>0, <2>1 DEF ToldSame
  <2>4. \A i \in 1..k : turns[c][i] = history[i]
    BY <2>1 DEF ToldSame
  <2>5. PICK s \in Seq(Turns) : s = turns[c]
    BY <1>0
  <2>6. SubSeq(s, 1, k) = SubSeq(history, 1, k)
    BY <1>0, <2>3, <2>4, <2>5
  <2> QED BY <2>2, <2>5, <2>6
<1>3. \A i, j \in DOMAIN history : history[i] = history[j] => i = j
  BY DEF PageInv, Distinct
<1> QED BY <1>1, <1>2, <1>3 DEF HistorySound

\* HistorySound, for any requests and replies: nothing is said twice in the page's
\* history, an answer follows its question and was ended with done, and what the
\* model is told is the history as it was when the question was asked.
THEOREM DashboardHistorySound == DashboardSpec => []HistorySound
<1> QED BY PageInvariant, PageSound, PTL

\* FormNeverOverlaps, for any requests: without a Diagnose button no question is
\* asked before the last one is answered, and Send is disabled in between.
THEOREM DashboardFormNeverOverlaps == DashboardSpec => []FormNeverOverlaps
<1>1. PageInv => FormNeverOverlaps
  <2> SUFFICES ASSUME PageInv, \A c \in Chats : via[c] # "diagnose"
               PROVE  /\ Cardinality({c \in Chats : bubble[c] = "typing"}) <= 1
                      /\ sendOff <=> \E c \in Chats : bubble[c] = "typing"
    BY DEF FormNeverOverlaps
  <2>1. \A c, d \in Chats : bubble[c] = "typing" /\ bubble[d] = "typing" => c = d
    BY DEF PageInv, OneTyping
  <2>2. CASE \A c \in Chats : bubble[c] # "typing"
    <3>1. {c \in Chats : bubble[c] = "typing"} = {}
      BY <2>2
    <3> QED BY <2>2, <3>1, FS_EmptySet DEF PageInv, OneTyping
  <2>3. CASE \E d \in Chats : bubble[d] = "typing"
    <3>1. PICK d \in Chats : bubble[d] = "typing"
      BY <2>3
    <3>2. {c \in Chats : bubble[c] = "typing"} = {d}
      BY <2>1, <3>1
    <3>3. Cardinality({c \in Chats : bubble[c] = "typing"}) = 1
      BY <3>2, FS_Singleton
    <3> QED BY <3>1, <3>3 DEF PageInv, OneTyping
  <2> QED BY <2>2, <2>3
<1> QED BY <1>1, PageInvariant, PTL

=============================================================================
