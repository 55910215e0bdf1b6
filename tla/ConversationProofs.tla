------------------------- MODULE ConversationProofs -------------------------
(***************************************************************************)
(* Proofs about Conversation and RetryingLLM: however an agent mixes its    *)
(* own calls with those that condense its history, every call keeps the     *)
(* contract of LLMCall, for any number of retries; and what Prepare makes   *)
(* of a history of any length pairs calls and results, keeps the recent     *)
(* messages, fits and announces the last call.  Each sleep is longer than   *)
(* the one before, as long as a time.Duration can hold it.                  *)
(***************************************************************************)
EXTENDS Conversation, FiniteSetTheorems, SequenceTheorems, WellFoundedInduction, TLAPS

\* How many requests each place in the loop of Complete stands for.
Counted ==
    /\ attempt \in Nat /\ sent \in Nat
    /\ call \in Running => attempt <= MaxRetries
    /\ call = "head" => sent = attempt
    /\ call = "request" => sent = attempt + 1
    /\ call = "sleep" => sent = attempt + 1 /\ attempt < MaxRetries

\* A call runs while the agent waits for it, so that there is one at a time.
Awaited ==
    /\ call \in {"none"} \cup Running \cup Returned
    /\ pc \in {"head", "condensing", "asking", "done"}
    /\ call \in Running => pc \in {"condensing", "asking"}

CallInv == Counted /\ Awaited /\ cancelled \in BOOLEAN

-----------------------------------------------------------------------------
\* A call begins when none is running: a new promise.
LEMMA BeginKeeps ==
    ASSUME CallInv, Begin, call \notin Running, UNCHANGED cancelled,
           pc' \in {"condensing", "asking"}
    PROVE  CallInv' /\ Contract!Ask
<1>1. call' = "head" /\ attempt' = 0 /\ sent' = 0
  BY DEF Begin
<1>2. CallInv'
  BY <1>1, RetriesAssumption DEF CallInv, Counted, Awaited, Running
<1>3. Contract!Ask
  BY <1>1 DEF Contract!Ask, CallInv, Awaited, Running, Returned
<1> QED
  BY <1>2, <1>3

\* A call returns: the promise is settled, for a reason the contract admits.
LEMMA ReturnKeeps ==
    ASSUME CallInv, NEW r \in Returned, Return(r), UNCHANGED <<pc, cancelled>>,
           call \in Running,
           r \in {"answered", "refused"} => call = "request",
           r = "exhausted" => call = "request" /\ attempt = MaxRetries,
           r = "cancelled" => cancelled
    PROVE  CallInv' /\ Contract!Settle
<1>1. call' = r /\ UNCHANGED <<attempt, sent>> /\ r \notin Running
  BY DEF Return, Running, Returned
<1>2. CallInv'
  BY <1>1 DEF CallInv, Counted, Awaited, Running
<1>3. Contract!Settle
  <2>1. r \in {"answered", "refused"} => sent > 0
    BY DEF CallInv, Counted
  <2>2. r = "exhausted" => sent = MaxRetries + 1
    BY DEF CallInv, Counted
  <2> QED
    BY <1>1, <2>1, <2>2 DEF Contract!Settle, Contract!Outcome, Running, Returned
<1> QED
  BY <1>2, <1>3

\* Each step of the loop of Complete is a request, a settlement, or unseen.
LEMMA CallStepKeeps ==
    ASSUME CallInv, CallStep, UNCHANGED pc
    PROVE  CallInv' /\ [Contract!Next]_(Contract!vars)
<1>1. UNCHANGED cancelled
  BY DEF CallStep, Attempt, Answer, Fail, Wake
<1>2. ASSUME NEW r \in Returned, Return(r), call \in Running,
             r \in {"answered", "refused"} => call = "request",
             r = "exhausted" => call = "request" /\ attempt = MaxRetries,
             r = "cancelled" => cancelled
      PROVE  CallInv' /\ [Contract!Next]_(Contract!vars)
  BY <1>1, <1>2, ReturnKeeps DEF Contract!Next
<1>3. CASE Attempt
  <2>1. CASE cancelled /\ Return("cancelled")
    BY <1>2, <1>3, <2>1 DEF Attempt, Running, Returned
  <2>2. CASE ~cancelled /\ call' = "request" /\ sent' = sent + 1 /\ UNCHANGED <<attempt, delay>>
    <3>1. call = "head" /\ call' = "request" /\ sent' = sent + 1 /\ attempt' = attempt
      BY <1>3, <2>2 DEF Attempt
    <3>2. sent = attempt /\ sent < MaxRetries + 1
      BY <3>1, RetriesAssumption DEF CallInv, Counted, Running
    <3>3. Contract!Send
      BY <1>1, <3>1, <3>2 DEF Contract!Send, Running
    <3>4. CallInv'
      BY <1>1, <3>1, <3>2 DEF CallInv, Counted, Awaited, Running
    <3> QED
      BY <3>3, <3>4 DEF Contract!Next
  <2> QED
    BY <1>3, <2>1, <2>2 DEF Attempt
<1>4. CASE Answer
  BY <1>2, <1>4 DEF Answer, Running, Returned
<1>5. CASE Fail
  <2>1. CASE Return("refused")
    BY <1>2, <1>5, <2>1 DEF Fail, Running, Returned
  <2>2. CASE attempt = MaxRetries /\ Return("exhausted")
    BY <1>2, <1>5, <2>2 DEF Fail, Running, Returned
  <2>3. CASE attempt # MaxRetries /\ call' = "sleep" /\ UNCHANGED <<attempt, sent>>
    <3>1. call = "request"
      BY <1>5 DEF Fail
    <3>2. attempt < MaxRetries
      BY <2>3, <3>1, RetriesAssumption DEF CallInv, Counted, Running
    <3>3. CallInv'
      BY <1>1, <2>3, <3>1, <3>2 DEF CallInv, Counted, Awaited, Running
    <3>4. UNCHANGED Contract!vars
      BY <1>1, <2>3, <3>1 DEF Contract!vars, Running
    <3> QED
      BY <3>3, <3>4
  <2> QED
    BY <1>5, <2>1, <2>2, <2>3 DEF Fail
<1>6. CASE Wake
  <2>1. CASE cancelled /\ Return("cancelled")
    BY <1>2, <1>6, <2>1 DEF Wake, Running, Returned
  <2>2. CASE call' = "head" /\ attempt' = attempt + 1 /\ UNCHANGED <<delay, sent>>
    <3>1. call = "sleep"
      BY <1>6 DEF Wake
    <3>2. CallInv'
      BY <1>1, <2>2, <3>1, RetriesAssumption DEF CallInv, Counted, Awaited, Running
    <3>3. UNCHANGED Contract!vars
      BY <1>1, <2>2, <3>1 DEF Contract!vars, Running
    <3> QED
      BY <3>2, <3>3
  <2> QED
    BY <1>6, <2>1, <2>2 DEF Wake
<1> QED
  BY <1>3, <1>4, <1>5, <1>6 DEF CallStep

\* A signal cancels the context of the call, too.
LEMMA SignalKeeps ==
    ASSUME CallInv, Signal, UNCHANGED pc
    PROVE  CallInv' /\ Contract!Cancel
<1>1. ~cancelled /\ cancelled' = TRUE /\ UNCHANGED <<call, attempt, sent>>
  BY DEF Signal, callVars
<1>2. CallInv'
  BY <1>1 DEF CallInv, Counted, Awaited
<1>3. Contract!Cancel
  BY <1>1 DEF Contract!Cancel
<1> QED
  BY <1>2, <1>3

\* A step of the agent itself leaves the call alone or begins the next.
LEMMA AgentKeeps ==
    ASSUME CallInv, BeginStep \/ Condensed \/ Respond \/ Stop
    PROVE  CallInv' /\ [Contract!Next]_(Contract!vars)
<1>1. UNCHANGED cancelled /\ call \notin Running
  BY DEF BeginStep, Condensed, Respond, Stop, CallInv, Awaited, Running, Returned
<1>2. CASE BeginStep \/ Condensed
  <2>1. Begin /\ pc' \in {"condensing", "asking"}
    BY <1>2 DEF BeginStep, Condensed, Ask
  <2> QED
    BY <1>1, <2>1, BeginKeeps DEF Contract!Next
<1>3. CASE Respond \/ Stop
  <2>1. UNCHANGED <<call, attempt, sent>> /\ pc' \in {"head", "done"}
    BY <1>3 DEF Respond, Stop, End, callVars
  <2>2. CallInv'
    BY <1>1, <2>1 DEF CallInv, Counted, Awaited
  <2>3. UNCHANGED Contract!vars
    BY <1>1, <2>1 DEF Contract!vars
  <2> QED
    BY <2>2, <2>3
<1> QED
  BY <1>2, <1>3

-----------------------------------------------------------------------------
LEMMA InitMaps == Init => CallInv /\ Contract!Init
<1> SUFFICES ASSUME Init
             PROVE  CallInv /\ Contract!Init
  OBVIOUS
<1>1. pc = "head" /\ call = "none" /\ attempt = 0 /\ sent = 0 /\ cancelled = FALSE
  BY DEF Init, CallInit
<1> QED
  BY <1>1 DEF CallInv, Counted, Awaited, Running, Contract!Init

LEMMA StepMaps ==
    CallInv /\ [Next]_vars => CallInv' /\ [Contract!Next]_(Contract!vars)
<1> SUFFICES ASSUME CallInv, [Next]_vars
             PROVE  CallInv' /\ [Contract!Next]_(Contract!vars)
  OBVIOUS
<1>1. CASE BeginStep \/ Condensed \/ Respond \/ Stop
  BY <1>1, AgentKeeps
<1>2. CASE Call
  BY <1>2, CallStepKeeps DEF Call, loop
<1>3. CASE Signal /\ UNCHANGED loop
  BY <1>3, SignalKeeps DEF Contract!Next, loop
<1>4. CASE UNCHANGED vars
  BY <1>4 DEF vars, loop, callVars, CallInv, Counted, Awaited, Contract!vars
<1> QED
  BY <1>1, <1>2, <1>3, <1>4 DEF Next, Agent

\* RetryingLLM.Complete, as Agent.Run and ContextManager use it, keeps what its
\* callers rely on: at most one request per attempt, an answer or a refusal only
\* after a request, exhaustion only after the last, cancellation only when the
\* context is done.
THEOREM CallsKept == Spec => CallKept
  BY InitMaps, StepMaps, PTL DEF Spec, CallKept, Contract!Spec

-----------------------------------------------------------------------------
(* What the context manager makes of a history *)

\* Calls are named by their step and number; the id is the call answered.
CallName == Nat \X Nat
Msg == [kind : Kind, size : Nat, calls : SUBSET CallName, id : {<<>>} \cup CallName]
History == Seq(Msg) \ {<<>>}

\* How many recent messages are kept.
Kept(h) == IF KeepRecent < Len(h) THEN KeepRecent ELSE Len(h) - 1

\* The messages of every kind.
LEMMA Messages ==
  /\ Prompt \in Msg /\ Nudge \in Msg /\ LastCall \in Msg
  /\ \A size \in Nat : Summary(size) \in Msg
  /\ \A size \in Nat, id \in CallName : Message("tool", size, {}, id) \in Msg
  /\ \A calls \in SUBSET CallName : Message("assistant", 1, calls, <<>>) \in Msg
<1>1. {"prompt", "summary", "nudge", "last call", "assistant", "tool"} = Kind
  BY DEF Kind
<1>2. \A k \in Kind, size \in Nat, calls \in SUBSET CallName, id \in {<<>>} \cup CallName :
         Message(k, size, calls, id) \in Msg
  BY DEF Message, Msg
<1>3. \A k \in Kind, size \in Nat : Plain(k, size) \in Msg
  <2>1. {} \in SUBSET CallName /\ <<>> \in {<<>>} \cup CallName
    OBVIOUS
  <2> QED BY <1>2, <2>1 DEF Plain
<1>4. Prompt \in Msg /\ Nudge \in Msg /\ LastCall \in Msg
  <2>1. PromptSize \in Nat /\ 1 \in Nat
    BY MessagesAssumption
  <2>2. "prompt" \in Kind /\ "nudge" \in Kind /\ "last call" \in Kind
    BY <1>1, Zenon
  <2> QED BY <1>3, <2>1, <2>2, Zenon DEF Prompt, Nudge, LastCall
<1>5. "tool" \in Kind /\ "summary" \in Kind /\ "assistant" \in Kind
  BY <1>1, Zenon
<1> QED BY <1>2, <1>3, <1>4, <1>5 DEF Summary

\* The cut leaves the prompt before it and the recent messages behind it.
LEMMA CutPlace ==
  ASSUME NEW h \in History
  PROVE  /\ Cut(h) \in 1..Len(h) /\ Len(h) = Cut(h) + Kept(h)
         /\ Kept(h) \in Nat /\ Kept(h) <= KeepRecent
         /\ Len(h) \in Nat \ {0}
<1>1. Len(h) \in Nat \ {0}
  BY DEF History
<1>2. KeepRecent \in Nat
  BY LoopAssumption
<1>3. CASE Len(h) - KeepRecent <= 1
  BY <1>1, <1>2, <1>3 DEF Cut, Kept
<1>4. CASE ~(Len(h) - KeepRecent <= 1)
  BY <1>1, <1>2, <1>4 DEF Cut, Kept
<1> QED BY <1>3, <1>4

\* The three parts of a history, message by message.
LEMMA Parts ==
  ASSUME NEW h \in History
  PROVE  /\ Pinned(h) \in Seq(Msg) /\ Len(Pinned(h)) = 1 /\ Pinned(h)[1] = h[1]
         /\ Middle(h) \in Seq(Msg) /\ Len(Middle(h)) = Cut(h) - 1
         /\ \A i \in 1..(Cut(h) - 1) : Middle(h)[i] = h[i + 1]
         /\ Recent(h) \in Seq(Msg) /\ Len(Recent(h)) = Kept(h)
         /\ \A i \in 1..Kept(h) : Recent(h)[i] = h[Cut(h) + i]
<1>1. /\ Cut(h) \in 1..Len(h) /\ Len(h) = Cut(h) + Kept(h)
      /\ Kept(h) \in Nat /\ Len(h) \in Nat \ {0}
  BY CutPlace
<1>2. \A i \in 1..Len(h) : h[i] \in Msg
  BY DEF History
<1>3. Pinned(h) \in Seq(Msg) /\ Len(Pinned(h)) = 1 /\ Pinned(h)[1] = h[1]
  <2>1. \A i \in 1..1 : h[i] \in Msg
    BY <1>1, <1>2
  <2>2. /\ SubSeq(h, 1, 1) \in Seq(Msg)
        /\ Len(SubSeq(h, 1, 1)) = 1
        /\ \A i \in 1..1 : SubSeq(h, 1, 1)[i] = h[1 + i - 1]
    BY <2>1, SubSeqProperties
  <2> QED BY <2>2 DEF Pinned
<1>4. /\ Middle(h) \in Seq(Msg) /\ Len(Middle(h)) = Cut(h) - 1
      /\ \A i \in 1..(Cut(h) - 1) : Middle(h)[i] = h[i + 1]
  <2>1. \A i \in 2..Cut(h) : h[i] \in Msg
    BY <1>1, <1>2
  <2>2. /\ SubSeq(h, 2, Cut(h)) \in Seq(Msg)
        /\ Len(SubSeq(h, 2, Cut(h))) = IF 2 <= Cut(h) THEN Cut(h) - 2 + 1 ELSE 0
        /\ \A i \in 1..(Cut(h) - 2 + 1) : SubSeq(h, 2, Cut(h))[i] = h[2 + i - 1]
    BY <1>1, <2>1, SubSeqProperties
  <2> HIDE DEF Cut
  <2> QED BY <1>1, <2>2 DEF Middle
<1>5. /\ Recent(h) \in Seq(Msg) /\ Len(Recent(h)) = Kept(h)
      /\ \A i \in 1..Kept(h) : Recent(h)[i] = h[Cut(h) + i]
  <2> DEFINE m == Cut(h) + 1
             n == Len(h)
  <2>1. \A i \in m..n : h[i] \in Msg
    BY <1>1, <1>2
  <2>2. /\ SubSeq(h, m, n) \in Seq(Msg)
        /\ Len(SubSeq(h, m, n)) = IF m <= n THEN n - m + 1 ELSE 0
        /\ \A i \in 1..(n - m + 1) : SubSeq(h, m, n)[i] = h[m + i - 1]
    <3>1. m \in Int /\ n \in Int
      BY <1>1
    <3> HIDE DEF m, n
    <3> QED BY <2>1, <3>1, SubSeqProperties
  <2>3. n - m + 1 = Kept(h) /\ (m <= n <=> Kept(h) > 0)
    BY <1>1
  <2>4. \A i \in 1..Kept(h) : m + i - 1 = Cut(h) + i
    BY <1>1
  <2>5. Recent(h) = SubSeq(h, m, n)
    BY DEF Recent
  <2> HIDE DEF m, n
  <2>6. Recent(h) \in Seq(Msg) /\ Len(Recent(h)) = IF m <= n THEN Kept(h) ELSE 0
    BY <2>2, <2>3, <2>5
  <2>7. Len(Recent(h)) = Kept(h)
    BY <1>1, <2>3, <2>6
  <2>8. \A i \in 1..Kept(h) : Recent(h)[i] = h[Cut(h) + i]
    BY <2>2, <2>3, <2>4, <2>5
  <2> QED BY <2>6, <2>7, <2>8
<1> QED BY <1>3, <1>4, <1>5

\* Truncating changes the sizes of results only.
Alike(m, n) == m.kind = n.kind /\ m.calls = n.calls /\ m.id = n.id

LEMMA Truncated ==
  ASSUME NEW m \in Msg
  PROVE  Truncate(m) \in Msg /\ Alike(Truncate(m), m)
<1>1. TruncateAt + Marker \in Nat
  BY WindowAssumption
<1> QED BY <1>1 DEF Truncate, Msg, Alike

\* Two parts of a history, one behind the other.
LEMMA Joined ==
  ASSUME NEW a \in Seq(Msg), NEW b \in Seq(Msg)
  PROVE  /\ a \o b \in Seq(Msg) /\ Len(a \o b) = Len(a) + Len(b)
         /\ \A i \in 1..Len(a) : (a \o b)[i] = a[i]
         /\ \A i \in 1..Len(b) : (a \o b)[Len(a) + i] = b[i]
<1>1. /\ a \o b \in Seq(Msg) /\ Len(a \o b) = Len(a) + Len(b)
      /\ \A i \in 1..(Len(a) + Len(b)) : (a \o b)[i] = IF i <= Len(a) THEN a[i] ELSE b[i - Len(a)]
  BY ConcatProperties
<1>2. Len(a) \in Nat /\ Len(b) \in Nat
  OBVIOUS
<1>3. \A i \in 1..Len(a) : i \in 1..(Len(a) + Len(b)) /\ i <= Len(a)
  BY <1>2
<1>4. \A i \in 1..Len(b) : /\ Len(a) + i \in 1..(Len(a) + Len(b)) /\ ~(Len(a) + i <= Len(a))
                           /\ (Len(a) + i) - Len(a) = i
  BY <1>2
<1> QED BY <1>1, <1>3, <1>4

\* A history with its middle shortened has the same messages, but for their
\* sizes, and the same recent ones.
LEMMA ShortenedIs ==
  ASSUME NEW h \in History
  PROVE  /\ Shortened(h) \in History /\ Len(Shortened(h)) = Len(h)
         /\ Shortened(h)[1] = h[1]
         /\ \A i \in 1..Len(h) : Alike(Shortened(h)[i], h[i])
         /\ \A i \in (Cut(h) + 1)..Len(h) : Shortened(h)[i] = h[i]
<1> DEFINE p == Pinned(h)
           t == TruncateToolResults(Middle(h))
           r == Recent(h)
           c == Cut(h)
<1>1. c \in 1..Len(h) /\ Len(h) = c + Kept(h) /\ Kept(h) \in Nat /\ Len(h) \in Nat \ {0}
  BY CutPlace
<1>2. p \in Seq(Msg) /\ Len(p) = 1 /\ p[1] = h[1]
  BY Parts
<1>3. r \in Seq(Msg) /\ Len(r) = Kept(h) /\ \A i \in 1..Kept(h) : r[i] = h[c + i]
  BY Parts
<1>4. /\ t \in Seq(Msg) /\ Len(t) = c - 1
      /\ \A i \in 1..(c - 1) : Alike(t[i], h[i + 1])
  <2> DEFINE m == Middle(h)
  <2>1. m \in Seq(Msg) /\ Len(m) = c - 1 /\ \A i \in 1..(c - 1) : m[i] = h[i + 1]
    BY Parts
  <2> HIDE DEF m, c
  <2>2. DOMAIN m = 1..(c - 1) /\ \A i \in 1..(c - 1) : m[i] \in Msg
    BY <2>1
  <2>3. TruncateToolResults(m) = [i \in 1..(c - 1) |-> Truncate(m[i])]
    BY <2>2 DEF TruncateToolResults
  <2>4. \A i \in 1..(c - 1) : Truncate(m[i]) \in Msg /\ Alike(Truncate(m[i]), m[i])
    BY <2>2, Truncated
  <2>5. c - 1 \in Nat
    BY <1>1
  <2>6. TruncateToolResults(m) \in Seq(Msg) /\ Len(TruncateToolResults(m)) = c - 1
    BY <2>3, <2>4, <2>5
  <2> QED BY <2>1, <2>3, <2>4, <2>6 DEF m
<1>5. Shortened(h) = p \o t \o r
  BY DEF Shortened
<1> HIDE DEF p, t, r, c
<1> DEFINE q == p \o t
<1>6. /\ q \in Seq(Msg) /\ Len(q) = c /\ q[1] = p[1]
      /\ \A i \in 1..(c - 1) : q[1 + i] = t[i]
  <2>1. /\ q \in Seq(Msg) /\ Len(q) = Len(p) + Len(t)
        /\ \A i \in 1..Len(p) : q[i] = p[i]
        /\ \A i \in 1..Len(t) : q[Len(p) + i] = t[i]
    BY <1>2, <1>4, Joined
  <2> HIDE DEF q
  <2> QED BY <1>1, <1>2, <1>4, <2>1
<1> DEFINE g == Shortened(h)
<1>g. g = q \o r
  BY <1>5 DEF q
<1> HIDE DEF g, q
<1>7. /\ g \in Seq(Msg) /\ Len(g) = Len(h)
      /\ \A i \in 1..c : g[i] = q[i]
      /\ \A i \in 1..Kept(h) : g[c + i] = r[i]
  <2>1. /\ q \o r \in Seq(Msg) /\ Len(q \o r) = Len(q) + Len(r)
        /\ \A i \in 1..Len(q) : (q \o r)[i] = q[i]
        /\ \A i \in 1..Len(r) : (q \o r)[Len(q) + i] = r[i]
    BY <1>3, <1>6, Joined
  <2>2. /\ g \in Seq(Msg) /\ Len(g) = Len(q) + Len(r)
        /\ \A i \in 1..Len(q) : g[i] = q[i]
        /\ \A i \in 1..Len(r) : g[Len(q) + i] = r[i]
    BY <1>g, <2>1, Zenon
  <2> QED BY <1>1, <1>3, <1>6, <2>2
<1>8. g[1] = h[1]
  <2>1. 1 \in 1..c
    BY <1>1
  <2> QED BY <1>2, <1>6, <1>7, <1>g, <2>1
<1>9. \A i \in (c + 1)..Len(h) : g[i] = h[i]
  <2> TAKE i \in (c + 1)..Len(h)
  <2>1. i - c \in 1..Kept(h) /\ c + (i - c) = i
    BY <1>1
  <2> QED BY <1>3, <1>7, <1>g, <2>1
<1>10. \A i \in 1..Len(h) : Alike(g[i], h[i])
  <2> TAKE i \in 1..Len(h)
  <2>1. CASE i = 1
    BY <1>8, <2>1 DEF Alike
  <2>2. CASE i > c
    <3>1. i \in (c + 1)..Len(h)
      BY <1>1, <2>2
    <3> QED BY <1>9, <3>1 DEF Alike
  <2>3. CASE i # 1 /\ i <= c
    <3>1. i - 1 \in 1..(c - 1) /\ 1 + (i - 1) = i /\ (i - 1) + 1 = i /\ i \in 1..c
      BY <1>1, <2>3
    <3>2. g[i] = t[i - 1]
      BY <1>6, <1>7, <1>g, <3>1
    <3> QED BY <1>4, <3>1, <3>2
  <2> QED BY <1>1, <2>1, <2>2, <2>3
<1>11. g \in History /\ Len(g) = Len(h)
  <2>1. g \in Seq(Msg) /\ Len(g) = Len(h)
    BY <1>7, <1>g
  <2>2. g # <<>>
    BY <1>1, <2>1
  <2> QED BY <2>1, <2>2 DEF History
<1> QED BY <1>8, <1>9, <1>10, <1>11 DEF c, g

\* Without its middle a history is its prompt, what is put in the place of the
\* middle, and its recent messages.
Replaced(h, s) == Pinned(h) \o s \o Recent(h)

LEMMA ReplacedIs ==
  ASSUME NEW h \in History, NEW s \in Seq(Msg)
  PROVE  /\ Replaced(h, s) \in History /\ Len(Replaced(h, s)) = 1 + Len(s) + Kept(h)
         /\ Replaced(h, s)[1] = h[1]
         /\ \A i \in 1..Len(s) : Replaced(h, s)[1 + i] = s[i]
         /\ \A i \in 1..Kept(h) : Replaced(h, s)[1 + Len(s) + i] = h[Cut(h) + i]
<1> DEFINE p == Pinned(h)
           q == p \o s
           r == Recent(h)
           n == Len(s)
           k == Kept(h)
           g == q \o r
<1>1. p \in Seq(Msg) /\ Len(p) = 1 /\ p[1] = h[1]
  BY Parts
<1>2. r \in Seq(Msg) /\ Len(r) = k /\ \A i \in 1..k : r[i] = h[Cut(h) + i]
  BY Parts
<1>3. k \in Nat /\ n \in Nat
  BY CutPlace
<1> HIDE DEF p, r, k, n
<1>4. /\ q \in Seq(Msg) /\ Len(q) = 1 + n /\ q[1] = p[1]
      /\ \A i \in 1..n : q[1 + i] = s[i]
  BY <1>1, Joined DEF n
<1> HIDE DEF q
<1>5. /\ g \in Seq(Msg) /\ Len(g) = 1 + n + k
      /\ \A i \in 1..(1 + n) : g[i] = q[i]
      /\ \A i \in 1..k : g[1 + n + i] = r[i]
  <2>1. /\ g \in Seq(Msg) /\ Len(g) = Len(q) + Len(r)
        /\ \A i \in 1..Len(q) : g[i] = q[i]
        /\ \A i \in 1..Len(r) : g[Len(q) + i] = r[i]
    BY <1>2, <1>4, Joined
  <2> HIDE DEF g
  <2> QED BY <1>2, <1>3, <1>4, <2>1
<1> HIDE DEF g
<1>6. g[1] = h[1]
  <2>1. 1 \in 1..(1 + n)
    BY <1>3
  <2> QED BY <1>1, <1>4, <1>5, <2>1
<1>7. \A i \in 1..n : g[1 + i] = s[i]
  <2> TAKE i \in 1..n
  <2>1. 1 + i \in 1..(1 + n)
    BY <1>3
  <2> QED BY <1>4, <1>5, <2>1
<1>8. \A i \in 1..k : g[1 + n + i] = h[Cut(h) + i]
  BY <1>2, <1>5
<1>9. g \in History
  <2>1. g # <<>>
    BY <1>3, <1>5
  <2> QED BY <1>5, <2>1 DEF History
<1> QED BY <1>5, <1>6, <1>7, <1>8, <1>9 DEF g, q, n, p, r, k, Replaced

\* The two forms that the middle of a history is replaced by.
LEMMA Replacements ==
  ASSUME NEW h \in History
  PROVE  /\ WithoutMiddle(h) = Replaced(h, <<>>)
         /\ \A size \in Nat : /\ Summarized(h, size) = Replaced(h, <<Summary(size)>>)
                              /\ <<Summary(size)>> \in Seq(Msg)
<1>1. Pinned(h) \o <<>> = Pinned(h)
  BY Parts, ConcatEmptySeq
<1>2. \A size \in Nat : <<Summary(size)>> \in Seq(Msg)
  <2> TAKE size \in Nat
  <2>1. Summary(size) \in Msg
    BY Messages
  <2> QED BY <2>1
<1> QED BY <1>1, <1>2, Zenon DEF WithoutMiddle, Summarized, Replaced

\* What Prepare may make of a history: it begins with the prompt and ends with
\* the recent messages as they were.
Prepared(h, g) ==
    /\ g \in History
    /\ g[1] = h[1]
    /\ Len(g) > Kept(h)
    /\ \A i \in 1..Kept(h) : g[Len(g) - Kept(h) + i] = h[Cut(h) + i]

LEMMA ShortenedPrepared == ASSUME NEW h \in History PROVE Prepared(h, Shortened(h))
<1> DEFINE g == Shortened(h)
<1>1. Cut(h) \in 1..Len(h) /\ Len(h) = Cut(h) + Kept(h) /\ Kept(h) \in Nat /\ Len(h) \in Nat
  BY CutPlace
<1>2. g \in History /\ Len(g) = Len(h) /\ g[1] = h[1]
  BY ShortenedIs
<1>3. \A i \in (Cut(h) + 1)..Len(h) : g[i] = h[i]
  BY ShortenedIs
<1> HIDE DEF g
<1>4. \A i \in 1..Kept(h) : g[Len(g) - Kept(h) + i] = h[Cut(h) + i]
  <2> TAKE i \in 1..Kept(h)
  <2>1. Len(g) - Kept(h) + i = Cut(h) + i /\ Cut(h) + i \in (Cut(h) + 1)..Len(h)
    BY <1>1, <1>2
  <2> QED BY <1>3, <2>1
<1>5. Len(g) > Kept(h)
  BY <1>1, <1>2
<1> QED BY <1>2, <1>4, <1>5 DEF Prepared, g

LEMMA ReplacedPrepared ==
  ASSUME NEW h \in History, NEW s \in Seq(Msg)
  PROVE  Prepared(h, Replaced(h, s))
<1> DEFINE g == Replaced(h, s)
<1>1. Kept(h) \in Nat /\ Len(s) \in Nat
  BY CutPlace
<1>2. g \in History /\ Len(g) = 1 + Len(s) + Kept(h) /\ g[1] = h[1]
  BY ReplacedIs
<1>3. \A i \in 1..Kept(h) : g[1 + Len(s) + i] = h[Cut(h) + i]
  BY ReplacedIs
<1> HIDE DEF g
<1>4. Len(g) - Kept(h) = 1 + Len(s) /\ Len(g) > Kept(h)
  BY <1>1, <1>2
<1> QED BY <1>2, <1>3, <1>4 DEF Prepared, g

LEMMA SamePrepared == ASSUME NEW h \in History PROVE Prepared(h, h)
<1>1. Cut(h) \in 1..Len(h) /\ Len(h) = Cut(h) + Kept(h) /\ Kept(h) \in Nat /\ Len(h) \in Nat
  BY CutPlace
<1>2. Len(h) - Kept(h) = Cut(h) /\ Len(h) > Kept(h)
  BY <1>1
<1> QED BY <1>2 DEF Prepared

LEMMA WithoutMiddlePrepared == ASSUME NEW h \in History PROVE Prepared(h, WithoutMiddle(h))
<1>1. <<>> \in Seq(Msg)
  OBVIOUS
<1> QED BY <1>1, Replacements, ReplacedPrepared

\* Condensing keeps the recent messages, with the summary or without.
LEMMA FittingPrepared ==
  ASSUME NEW h \in History, NEW size \in SummarySizes
  PROVE  Prepared(h, Fitting(h, size))
<1>1. size \in Nat
  BY MessagesAssumption
<1>2. Prepared(h, Summarized(h, size))
  BY <1>1, Replacements, ReplacedPrepared
<1> QED BY <1>2, WithoutMiddlePrepared DEF Fitting

\* What is prepared keeps what is pinned.
LEMMA PreparedKeeps ==
  ASSUME NEW h \in History, NEW g, Prepared(h, g), h[1] = Prompt
  PROVE  KeepsPinned(h, g)
<1> DEFINE n == Kept(h)
<1>1. Cut(h) \in 1..Len(h) /\ Len(h) = Cut(h) + n /\ n \in Nat /\ Len(h) \in Nat
  BY CutPlace
<1>2. g \in Seq(Msg) /\ Len(g) > n /\ g[1] = Prompt /\ Len(g) \in Nat
  BY DEF Prepared, History
<1>3. \A i \in 1..n : g[Len(g) - n + i] = h[Cut(h) + i]
  BY DEF Prepared
<1>4. h \in Seq(Msg)
  BY DEF History
<1> HIDE DEF n
<1>5. \A s \in Seq(Msg) : Len(s) >= n =>
         /\ LastOf(s, n) \in Seq(Msg) /\ Len(LastOf(s, n)) = n
         /\ \A i \in 1..n : LastOf(s, n)[i] = s[Len(s) - n + i]
  <2> TAKE s \in Seq(Msg)
  <2> HAVE Len(s) >= n
  <2> DEFINE a == Len(s) - n + 1
             b == Len(s)
  <2>1. a \in Int /\ b \in Int /\ \A i \in a..b : s[i] \in Msg
    BY <1>1
  <2>2. b - a + 1 = n /\ (a <= b <=> n > 0) /\ \A i \in 1..n : a + i - 1 = Len(s) - n + i
    BY <1>1
  <2>3. LastOf(s, n) = SubSeq(s, a, b)
    BY DEF LastOf
  <2> HIDE DEF a, b
  <2>4. /\ SubSeq(s, a, b) \in Seq(Msg)
        /\ Len(SubSeq(s, a, b)) = IF a <= b THEN b - a + 1 ELSE 0
        /\ \A i \in 1..(b - a + 1) : SubSeq(s, a, b)[i] = s[a + i - 1]
    BY <2>1, SubSeqProperties
  <2>5. Len(SubSeq(s, a, b)) = n
    BY <1>1, <2>2, <2>4
  <2>6. \A i \in 1..n : SubSeq(s, a, b)[i] = s[Len(s) - n + i]
    BY <2>2, <2>4
  <2> QED BY <2>3, <2>4, <2>5, <2>6
<1>6. LastOf(g, n) = LastOf(h, n)
  <2> DEFINE u == LastOf(g, n)
             v == LastOf(h, n)
  <2>1. u \in Seq(Msg) /\ Len(u) = n /\ \A i \in 1..n : u[i] = g[Len(g) - n + i]
    BY <1>1, <1>2, <1>5
  <2>2. v \in Seq(Msg) /\ Len(v) = n /\ \A i \in 1..n : v[i] = h[Len(h) - n + i]
    BY <1>1, <1>4, <1>5
  <2>3. Len(h) - n = Cut(h)
    BY <1>1
  <2> HIDE DEF u, v
  <2>4. \A i \in 1..n : u[i] = v[i]
    BY <1>3, <2>1, <2>2, <2>3
  <2>5. u = v
    BY <2>1, <2>2, <2>4, SeqEqual
  <2> QED BY <2>5 DEF u, v
<1>7. n = IF KeepRecent < Len(h) THEN KeepRecent ELSE Len(h) - 1
  BY DEF n, Kept
<1> QED BY <1>2, <1>6, <1>7, Zenon DEF KeepsPinned

-----------------------------------------------------------------------------
(* What the loop makes of a history *)

\* The history begins with the prompt, whatever is appended or condensed.
HistoryInv == msgs \in History /\ msgs[1] = Prompt /\ step \in Nat

LEMMA Fields ==
  /\ \A k, s, c, i : /\ Message(k, s, c, i).kind = k
                     /\ Message(k, s, c, i).calls = c
                     /\ Message(k, s, c, i).id = i
  /\ \A k, s : Plain(k, s).kind = k /\ Plain(k, s).calls = {}
<1>1. \A k, s, c, i : /\ Message(k, s, c, i).kind = k
                      /\ Message(k, s, c, i).calls = c
                      /\ Message(k, s, c, i).id = i
  BY DEF Message
<1> QED BY <1>1 DEF Plain

\* The first message stays the first.
LEMMA Appended ==
  ASSUME NEW h \in History, NEW t \in Seq(Msg)
  PROVE  /\ h \o t \in History /\ Len(h \o t) = Len(h) + Len(t)
         /\ \A i \in 1..Len(h) : (h \o t)[i] = h[i]
         /\ \A i \in 1..Len(t) : (h \o t)[Len(h) + i] = t[i]
         /\ (h \o t)[1] = h[1]
<1>1. h \in Seq(Msg) /\ Len(h) \in Nat \ {0} /\ Len(t) \in Nat
  BY DEF History
<1>2. /\ h \o t \in Seq(Msg) /\ Len(h \o t) = Len(h) + Len(t)
      /\ \A i \in 1..Len(h) : (h \o t)[i] = h[i]
      /\ \A i \in 1..Len(t) : (h \o t)[Len(h) + i] = t[i]
  BY <1>1, Joined
<1> DEFINE g == h \o t
<1> HIDE DEF g
<1>3. g \in Seq(Msg) /\ Len(g) = Len(h) + Len(t) /\ \A i \in 1..Len(h) : g[i] = h[i]
  BY <1>2, Zenon DEF g
<1>4. g # <<>> /\ 1 \in 1..Len(h)
  BY <1>1, <1>3
<1>5. g \in History /\ g[1] = h[1]
  BY <1>3, <1>4 DEF History
<1> QED BY <1>2, <1>5, Zenon DEF g

\* An answer with n calls, of which the first k have their results.
Replied(h, n, sizes) == h \o <<Assistant(n)>> \o Results(sizes)

LEMMA RepliedIs ==
  ASSUME NEW h \in History, step \in Nat, NEW n \in Nat, NEW k \in Nat,
         NEW sizes \in [1..k -> ResultSizes]
  PROVE  /\ Replied(h, n, sizes) \in History /\ Len(Replied(h, n, sizes)) = Len(h) + 1 + k
         /\ Replied(h, n, sizes)[1] = h[1]
         /\ \A i \in 1..Len(h) : Replied(h, n, sizes)[i] = h[i]
         /\ Replied(h, n, sizes)[Len(h) + 1] = Assistant(n)
         /\ \A j \in 1..k : Replied(h, n, sizes)[Len(h) + 1 + j] = Message("tool", sizes[j], {}, <<step, j>>)
<1> DEFINE a == <<Assistant(n)>>
           r == Results(sizes)
           f == h \o a
           g == f \o r
           l == Len(h)
<1>1. a \in Seq(Msg) /\ Len(a) = 1 /\ a[1] = Assistant(n)
  <2>1. {<<step, j>> : j \in 1..n} \in SUBSET CallName
    BY DEF CallName
  <2>2. Assistant(n) \in Msg
    BY <2>1, Messages DEF Assistant
  <2> QED BY <2>2
<1>2. /\ r \in Seq(Msg) /\ Len(r) = k
      /\ \A j \in 1..k : r[j] = Message("tool", sizes[j], {}, <<step, j>>)
  <2>1. r = [j \in 1..k |-> Message("tool", sizes[j], {}, <<step, j>>)]
    BY DEF Results
  <2>2. \A j \in 1..k : Message("tool", sizes[j], {}, <<step, j>>) \in Msg
    <3> TAKE j \in 1..k
    <3>1. sizes[j] \in ResultSizes /\ <<step, j>> \in Nat \X Nat
      OBVIOUS
    <3>2. sizes[j] \in Nat /\ <<step, j>> \in CallName
      BY <3>1, MessagesAssumption, Zenon DEF CallName
    <3> QED BY <3>2, Messages
  <2> HIDE DEF r
  <2> QED BY <2>1, <2>2
<1>3. l \in Nat \ {0}
  BY DEF History
<1> HIDE DEF a, r, l
<1>4. /\ f \in History /\ Len(f) = l + 1 /\ f[1] = h[1]
      /\ \A i \in 1..l : f[i] = h[i]
      /\ f[l + 1] = Assistant(n)
  <2>1. /\ f \in History /\ Len(f) = Len(h) + Len(a) /\ f[1] = h[1]
        /\ \A i \in 1..Len(h) : f[i] = h[i]
        /\ \A i \in 1..Len(a) : f[Len(h) + i] = a[i]
    BY <1>1, Appended
  <2> HIDE DEF f
  <2> QED BY <1>1, <2>1 DEF l
<1> HIDE DEF f
<1>5. /\ g \in History /\ Len(g) = l + 1 + k /\ g[1] = f[1]
      /\ \A i \in 1..(l + 1) : g[i] = f[i]
      /\ \A j \in 1..k : g[l + 1 + j] = r[j]
  <2>1. /\ g \in History /\ Len(g) = Len(f) + Len(r) /\ g[1] = f[1]
        /\ \A i \in 1..Len(f) : g[i] = f[i]
        /\ \A i \in 1..Len(r) : g[Len(f) + i] = r[i]
    BY <1>2, <1>4, Appended
  <2> HIDE DEF g
  <2> QED BY <1>2, <1>4, <2>1
<1> HIDE DEF g
<1>6. \A i \in 1..l : i \in 1..(l + 1)
  BY <1>3
<1>7. l + 1 \in 1..(l + 1)
  BY <1>3
<1>8. Replied(h, n, sizes) = g
  BY DEF Replied, g, f, a, r
<1> QED BY <1>2, <1>4, <1>5, <1>6, <1>7, <1>8 DEF l

\* What is appended to a history in the loop.
LEMMA Replies ==
  ASSUME HistoryInv, Respond
  PROVE  /\ pc = "asking" /\ call = "answered" /\ step' = step + 1
         /\ UNCHANGED <<condensed, cancelled>>
         /\ \/ pc' = "head" /\ msgs' = msgs \o <<Assistant(0), Nudge>>
            \/ /\ pc' = "head"
               /\ \E n \in Nat : \E sizes \in [1..n -> ResultSizes] :
                     msgs' = Replied(msgs, n, sizes) \o Reminder
            \/ /\ pc' = "done"
               /\ \E n, k \in Nat : \E sizes \in [1..k -> ResultSizes] :
                     msgs' = Replied(msgs, n, sizes)
<1>1. 1..MaxCalls \subseteq Nat /\ 0..(MaxCalls - 1) \subseteq Nat
  BY LoopAssumption
<1>2. /\ pc = "asking" /\ call = "answered" /\ step' = step + 1
      /\ UNCHANGED <<condensed, cancelled>>
  BY DEF Respond
<1>3. CASE msgs' = msgs \o <<Assistant(0), Nudge>> /\ pc' = "head"
  BY <1>2, <1>3
<1>4. CASE \E n \in 1..MaxCalls : \E sizes \in [1..n -> ResultSizes] :
             msgs' = msgs \o <<Assistant(n)>> \o Results(sizes) \o Reminder /\ pc' = "head"
  BY <1>1, <1>2, <1>4, Zenon DEF Replied
<1>5. CASE \E n \in 1..MaxCalls, k \in 0..(MaxCalls - 1) : \E sizes \in [1..k -> ResultSizes] :
             msgs' = msgs \o <<Assistant(n)>> \o Results(sizes) /\ End("submitted")
  BY <1>1, <1>2, <1>5, Zenon DEF Replied, End
<1> QED BY <1>3, <1>4, <1>5, Zenon DEF Respond

LEMMA Words ==
  /\ <<Assistant(0), Nudge>> \in Seq(Msg) /\ Len(<<Assistant(0), Nudge>>) = 2
  /\ Reminder \in Seq(Msg) /\ <<LastCall>> \in Seq(Msg) /\ Len(<<LastCall>>) = 1
<1>1. Assistant(0) \in Msg
  <2>1. {<<step, j>> : j \in 1..0} = {}
    OBVIOUS
  <2> QED BY <2>1, Messages DEF Assistant
<1>2. Nudge \in Msg /\ LastCall \in Msg
  BY Messages
<1>3. <<LastCall>> \in Seq(Msg) /\ <<>> \in Seq(Msg)
  BY <1>2
<1> QED BY <1>1, <1>2, <1>3 DEF Reminder

\* The steps that leave the history alone.
Idle == UNCHANGED <<step, msgs, condensed>> /\ (pc' # "done" => pc' = pc)

LEMMA Steps ==
  ASSUME [Next]_vars
  PROVE  BeginStep \/ Condensed \/ Respond \/ Idle
<1>1. CASE Stop
  BY <1>1 DEF Stop, Idle, End
<1>2. CASE Call \/ UNCHANGED vars \/ (Signal /\ UNCHANGED loop)
  BY <1>2 DEF Call, vars, loop, Idle
<1> QED BY <1>1, <1>2 DEF Next, Agent

LEMMA PrepareStep ==
  ASSUME HistoryInv, BeginStep \/ Condensed
  PROVE  Prepared(msgs, msgs') /\ UNCHANGED step /\ pc \in {"head", "condensing"}
<1>1. msgs \in History
  BY DEF HistoryInv
<1>2. CASE BeginStep
  <2>1. msgs' = msgs \/ msgs' = Shortened(msgs)
    BY <1>2 DEF BeginStep, Ask
  <2> QED BY <1>1, <1>2, <2>1, SamePrepared, ShortenedPrepared DEF BeginStep
<1>3. CASE Condensed
  <2>1. msgs' = WithoutMiddle(msgs) \/ \E size \in SummarySizes : msgs' = Fitting(msgs, size)
    BY <1>3 DEF Condensed, Ask
  <2> QED BY <1>1, <1>3, <2>1, WithoutMiddlePrepared, FittingPrepared DEF Condensed
<1> QED BY <1>2, <1>3

LEMMA HistoryInit == Init => HistoryInv
<1> SUFFICES ASSUME Init PROVE HistoryInv
  OBVIOUS
<1>1. msgs = <<Prompt>> /\ step = 0 /\ Prompt \in Msg
  BY Messages DEF Init
<1> QED BY <1>1 DEF HistoryInv, History

LEMMA HistoryStep == ASSUME HistoryInv, [Next]_vars PROVE HistoryInv'
<1>1. msgs \in History /\ msgs[1] = Prompt /\ step \in Nat
  BY DEF HistoryInv
<1>2. CASE BeginStep \/ Condensed
  BY <1>1, <1>2, PrepareStep DEF Prepared, HistoryInv
<1>3. CASE Respond
  <2>1. msgs' \in History /\ msgs'[1] = msgs[1]
    <3>1. CASE msgs' = msgs \o <<Assistant(0), Nudge>>
      BY <1>1, <3>1, Words, Appended
    <3>2. CASE \E n \in Nat : \E sizes \in [1..n -> ResultSizes] :
                  msgs' = Replied(msgs, n, sizes) \o Reminder
      <4>1. PICK n \in Nat : \E sizes \in [1..n -> ResultSizes] :
                    msgs' = Replied(msgs, n, sizes) \o Reminder
        BY <3>2
      <4>2. PICK sizes \in [1..n -> ResultSizes] : msgs' = Replied(msgs, n, sizes) \o Reminder
        BY <4>1
      <4>3. Replied(msgs, n, sizes) \in History /\ Replied(msgs, n, sizes)[1] = msgs[1]
        BY <1>1, RepliedIs
      <4> QED BY <4>2, <4>3, Words, Appended
    <3>3. CASE \E n, k \in Nat : \E sizes \in [1..k -> ResultSizes] :
                  msgs' = Replied(msgs, n, sizes)
      BY <1>1, <3>3, RepliedIs
    <3> QED BY <1>3, <3>1, <3>2, <3>3, Replies
  <2>2. step' \in Nat
    BY <1>1, <1>3, Replies
  <2> QED BY <1>1, <2>1, <2>2 DEF HistoryInv
<1>4. CASE Idle
  BY <1>4 DEF Idle, HistoryInv
<1> QED BY <1>2, <1>3, <1>4, Steps

\* The prompt and the most recent turns are pinned: what Prepare returns begins
\* with the one and ends with the others as they were, for any history.
THEOREM RecentPinned == Spec => RecentKept
<1>1. ASSUME HistoryInv, [Next]_vars, pc \in {"head", "condensing"}
      PROVE  KeepsPinned(msgs, msgs')
  <2>1. msgs \in History /\ msgs[1] = Prompt
    BY <1>1 DEF HistoryInv
  <2>2. Prepared(msgs, msgs')
    <3>1. CASE BeginStep \/ Condensed
      BY <1>1, <3>1, PrepareStep
    <3>2. CASE Respond
      BY <1>1, <3>2 DEF Respond
    <3>3. CASE Idle
      BY <2>1, <3>3, SamePrepared DEF Idle
    <3> QED BY <1>1, <3>1, <3>2, <3>3, Steps
  <2> QED BY <2>1, <2>2, PreparedKeeps
<1>2. HistoryInv /\ [Next]_vars => [(pc \in {"head", "condensing"}) => KeepsPinned(msgs, msgs')]_vars
  BY <1>1
<1>3. HistoryInv /\ [Next]_vars => HistoryInv'
  BY HistoryStep
<1> QED BY <1>2, <1>3, HistoryInit, PTL DEF Spec, RecentKept

-----------------------------------------------------------------------------
(* The last call *)

Announcing == {"nudge", "last call"}

\* Before its last call the history ends with words that announce it.
AnnouncedInv ==
    pc # "done" /\ step > 0 /\ step = AgentSteps - 1 /\ KeepRecent > 0
        => Len(msgs) > 1 /\ msgs[Len(msgs)].kind \in Announcing

LEMMA Announces == Nudge.kind \in Announcing /\ LastCall.kind \in Announcing
  BY Fields, Zenon DEF Nudge, LastCall, Announcing

\* The last message of a history is among those that are kept.
LEMMA LastKept ==
  ASSUME NEW h \in History, NEW g, Prepared(h, g), KeepRecent > 0, Len(h) > 1
  PROVE  Len(g) > 1 /\ g[Len(g)] = h[Len(h)]
<1>1. Cut(h) \in 1..Len(h) /\ Len(h) = Cut(h) + Kept(h) /\ Kept(h) \in Nat /\ Len(h) \in Nat
  BY CutPlace
<1>2. Kept(h) > 0
  BY <1>1, LoopAssumption DEF Kept
<1>3. Len(g) \in Nat /\ Len(g) > Kept(h)
  BY DEF Prepared, History
<1>4. Kept(h) \in 1..Kept(h) /\ Len(g) - Kept(h) + Kept(h) = Len(g)
  BY <1>1, <1>2, <1>3
<1>5. g[Len(g) - Kept(h) + Kept(h)] = h[Cut(h) + Kept(h)]
  BY <1>4 DEF Prepared
<1> QED BY <1>1, <1>2, <1>3, <1>4, <1>5

LEMMA AnnouncedInit == Init => AnnouncedInv
  BY DEF Init, AnnouncedInv

LEMMA AnnouncedStep == ASSUME HistoryInv, AnnouncedInv, [Next]_vars PROVE AnnouncedInv'
<1>h. msgs \in History /\ Len(msgs) \in Nat \ {0} /\ step \in Nat
  BY DEF HistoryInv, History
<1>1. CASE BeginStep \/ Condensed
  <2>1. /\ Prepared(msgs, msgs') /\ step' = step
        /\ pc \in {"head", "condensing"}
    BY <1>1, PrepareStep
  <2>2. ASSUME step > 0, step = AgentSteps - 1, KeepRecent > 0
        PROVE  Len(msgs') > 1 /\ msgs'[Len(msgs')].kind \in Announcing
    BY <1>h, <2>1, <2>2, LastKept DEF AnnouncedInv
  <2> QED BY <2>1, <2>2 DEF AnnouncedInv
<1>2. CASE Respond
  <2>1. step' = step + 1
    BY <1>2, Replies
  <2>2. CASE pc' = "done"
    BY <2>2 DEF AnnouncedInv
  <2>3. CASE msgs' = msgs \o <<Assistant(0), Nudge>>
    <3> DEFINE t == <<Assistant(0), Nudge>>
    <3>1. t \in Seq(Msg) /\ Len(t) = 2 /\ t[2] = Nudge
      BY Words
    <3> HIDE DEF t
    <3>2. /\ Len(msgs') = Len(msgs) + Len(t)
          /\ \A i \in 1..Len(t) : msgs'[Len(msgs) + i] = t[i]
      BY <1>h, <2>3, <3>1, Appended DEF t
    <3>3. Len(msgs') > 1 /\ msgs'[Len(msgs')] = Nudge
      BY <1>h, <3>1, <3>2
    <3> QED BY <3>3, Announces DEF AnnouncedInv
  <2>4. ASSUME NEW n \in Nat, NEW sizes \in [1..n -> ResultSizes],
               msgs' = Replied(msgs, n, sizes) \o Reminder
        PROVE  AnnouncedInv'
    <3>1. CASE step' = AgentSteps - 1
      <4> DEFINE g == Replied(msgs, n, sizes)
                 t == <<LastCall>>
      <4>1. AgentSteps - step - 1 = 1
        BY <1>h, <2>1, <3>1, LoopAssumption
      <4>2. msgs' = g \o t
        BY <2>4, <4>1 DEF Reminder
      <4>3. g \in History /\ Len(g) = Len(msgs) + 1 + n
        BY <1>h, RepliedIs
      <4>4. t \in Seq(Msg) /\ Len(t) = 1 /\ t[1] = LastCall
        BY Words
      <4> HIDE DEF g, t
      <4>5. /\ Len(msgs') = Len(g) + Len(t)
            /\ \A i \in 1..Len(t) : msgs'[Len(g) + i] = t[i]
        BY <4>2, <4>3, <4>4, Appended
      <4>6. Len(msgs') > 1 /\ msgs'[Len(msgs')] = LastCall
        BY <1>h, <4>3, <4>4, <4>5
      <4> QED BY <4>6, Announces DEF AnnouncedInv
    <3>2. CASE step' # AgentSteps - 1
      BY <3>2 DEF AnnouncedInv
    <3> QED BY <3>1, <3>2
  <2> QED BY <1>2, <2>2, <2>3, <2>4, Replies
<1>3. CASE Idle
  BY <1>3 DEF Idle, AnnouncedInv
<1> QED BY <1>1, <1>2, <1>3, Steps

\* Before its last call an agent is always told so, or that it has to use a
\* tool, and condensing never takes the words away.
THEOREM LastCallTold == Spec => []LastCallAnnounced
<1>1. AnnouncedInv => LastCallAnnounced
  BY Zenon DEF AnnouncedInv, LastCallAnnounced, Asking, Announcing
<1>2. HistoryInv /\ [Next]_vars => HistoryInv'
  BY HistoryStep
<1>3. HistoryInv /\ AnnouncedInv /\ [Next]_vars => AnnouncedInv'
  BY AnnouncedStep
<1> QED BY <1>1, <1>2, <1>3, HistoryInit, AnnouncedInit, PTL DEF Spec

-----------------------------------------------------------------------------
(* The window *)

Fits(h) == \/ Weight(h) < CompactAt
           \/ ~(Weight(h) > Window)
           \/ Len(h) <= 1 + KeepRecent

FitsInv == pc = "asking" => Fits(msgs)

\* Without its middle a history is no longer than what is pinned.
LEMMA WithoutMiddleFits == ASSUME NEW h \in History PROVE Fits(WithoutMiddle(h))
<1>1. WithoutMiddle(h) = Replaced(h, <<>>) /\ <<>> \in Seq(Msg) /\ Len(<<>>) = 0
  BY Replacements
<1>2. Len(WithoutMiddle(h)) = 1 + 0 + Kept(h)
  BY <1>1, ReplacedIs
<1> QED BY <1>2, CutPlace, LoopAssumption DEF Fits

\* Whatever the sizes of messages, of summaries and of the window, what is sent
\* is below the threshold, no larger than the window, or what is pinned.
THEOREM SentFits == Spec => []RequestFits
<1>1. Init => FitsInv
  BY DEF Init, FitsInv
<1>2. ASSUME HistoryInv, FitsInv, [Next]_vars PROVE FitsInv'
  <2>h. msgs \in History
    BY <1>2 DEF HistoryInv
  <2>1. CASE BeginStep
    <3>1. pc' = "asking" => Weight(msgs') < CompactAt
      BY <2>1, Zenon DEF BeginStep, Ask
    <3> QED BY <3>1 DEF FitsInv, Fits
  <2>2. CASE Condensed
    <3>1. CASE msgs' = WithoutMiddle(msgs)
      BY <2>h, <3>1, WithoutMiddleFits DEF FitsInv
    <3>2. ASSUME NEW size \in SummarySizes, msgs' = Fitting(msgs, size)
          PROVE  Fits(msgs')
      <4>1. CASE Weight(Summarized(msgs, size)) > Window
        BY <2>h, <3>2, <4>1, WithoutMiddleFits DEF Fitting
      <4>2. CASE ~(Weight(Summarized(msgs, size)) > Window)
        BY <3>2, <4>2, Zenon DEF Fitting, Fits
      <4> QED BY <4>1, <4>2
    <3> QED BY <2>2, <3>1, <3>2 DEF Condensed, Ask, FitsInv
  <2>3. CASE Respond
    <3>1. pc' # "asking"
      BY <1>2, <2>3, Replies
    <3> QED BY <3>1 DEF FitsInv
  <2>4. CASE Idle
    BY <1>2, <2>4 DEF Idle, FitsInv
  <2> QED BY <1>2, <2>1, <2>2, <2>3, <2>4, Steps
<1>3. FitsInv => RequestFits
  BY DEF FitsInv, Fits, RequestFits, Asking
<1>4. HistoryInv /\ [Next]_vars => HistoryInv'
  BY HistoryStep
<1> QED BY <1>1, <1>2, <1>3, <1>4, HistoryInit, PTL DEF Spec

-----------------------------------------------------------------------------
(* Calls and their results *)

\* Message i makes n calls, and the n messages behind it are their results.
AnsweredBy(h, i, s, n) ==
    /\ h[i].calls = {<<s, k>> : k \in 1..n}
    /\ i + n <= Len(h)
    /\ \A k \in 1..n : h[i + k].kind = "tool" /\ h[i + k].id = <<s, k>>
    /\ i + n + 1 <= Len(h) => h[i + n + 1].kind # "tool"

Answered(h, i) == \E s, n \in Nat : AnsweredBy(h, i, s, n)

\* Once a middle has been replaced, results may be left behind what is pinned.
PairedAt(h, c, i) == \/ h[i].kind = "tool"
                     \/ Answered(h, i)
                     \/ c /\ h[i].kind \in {"prompt", "summary"}

Paired(h, c) == \A i \in 1..Len(h) : PairedAt(h, c, i)

PairedInv == condensed \in BOOLEAN /\ (pc # "done" => Paired(msgs, condensed))

\* A message without calls wants no results.
LEMMA NoCalls ==
  ASSUME NEW h \in History, NEW i \in 1..Len(h), h[i].calls = {},
         i + 1 <= Len(h) => h[i + 1].kind # "tool"
  PROVE  Answered(h, i)
<1>1. {<<0, k>> : k \in 1..0} = {} /\ 1..0 = {}
  OBVIOUS
<1>2. i + 0 = i /\ i <= Len(h)
  BY DEF History
<1>3. AnsweredBy(h, i, 0, 0)
  BY <1>1, <1>2 DEF AnsweredBy
<1> QED BY <1>3 DEF Answered

\* Sizes do not matter.
LEMMA AlikePaired ==
  ASSUME NEW h \in History, NEW g \in History, Len(g) = Len(h),
         \A i \in 1..Len(h) : Alike(g[i], h[i]), NEW c, Paired(h, c)
  PROVE  Paired(g, c)
<1>0. Len(h) \in Nat
  BY DEF History
<1>1. \A i \in 1..Len(h) : g[i].kind = h[i].kind /\ g[i].calls = h[i].calls /\ g[i].id = h[i].id
  BY DEF Alike
<1>2. ASSUME NEW i \in 1..Len(h), NEW s \in Nat, NEW n \in Nat, AnsweredBy(h, i, s, n)
      PROVE  AnsweredBy(g, i, s, n)
  <2>1. i + n <= Len(h) /\ \A k \in 1..n : i + k \in 1..Len(h)
    BY <1>0, <1>2 DEF AnsweredBy
  <2>2. i + n + 1 <= Len(h) => i + n + 1 \in 1..Len(h)
    BY <1>0
  <2> QED BY <1>1, <1>2, <2>1, <2>2 DEF AnsweredBy
<1> QED BY <1>1, <1>2 DEF Paired, PairedAt, Answered

\* What is put behind a history does not begin with a result.
LEMMA ExtendedPaired ==
  ASSUME NEW h \in History, NEW g \in History, Len(g) >= Len(h),
         \A i \in 1..Len(h) : g[i] = h[i],
         Len(g) > Len(h) => g[Len(h) + 1].kind # "tool",
         NEW c, Paired(h, c)
  PROVE  \A i \in 1..Len(h) : PairedAt(g, c, i)
<1>0. Len(h) \in Nat /\ Len(g) \in Nat
  BY DEF History
<1>1. ASSUME NEW i \in 1..Len(h), NEW s \in Nat, NEW n \in Nat, AnsweredBy(h, i, s, n)
      PROVE  AnsweredBy(g, i, s, n)
  <2>1. i + n <= Len(h) /\ i + n <= Len(g) /\ \A k \in 1..n : i + k \in 1..Len(h)
    BY <1>0, <1>1 DEF AnsweredBy
  <2>2. ASSUME i + n + 1 <= Len(g) PROVE g[i + n + 1].kind # "tool"
    <3>1. CASE i + n + 1 <= Len(h)
      <4>1. i + n + 1 \in 1..Len(h)
        BY <1>0, <3>1
      <4> QED BY <1>1, <3>1, <4>1 DEF AnsweredBy
    <3>2. CASE ~(i + n + 1 <= Len(h))
      <4>1. i + n + 1 = Len(h) + 1 /\ Len(g) > Len(h)
        BY <1>0, <2>1, <2>2, <3>2
      <4> QED BY <4>1
    <3> QED BY <3>1, <3>2
  <2> QED BY <1>1, <2>1, <2>2 DEF AnsweredBy
<1> QED BY <1>1 DEF Paired, PairedAt, Answered

\* The cut leaves the recent messages as they are, d places further in front.
LEMMA ReplacedPaired ==
  ASSUME NEW h \in History, h[1].kind = "prompt", NEW c \in BOOLEAN, Paired(h, c),
         NEW s \in Seq(Msg), \A i \in 1..Len(s) : s[i].kind = "summary"
  PROVE  Paired(Replaced(h, s), TRUE)
<1> DEFINE g == Replaced(h, s)
           m == 1 + Len(s)
           d == Cut(h) - m
<1>1. Cut(h) \in 1..Len(h) /\ Len(h) = Cut(h) + Kept(h) /\ Kept(h) \in Nat /\ Len(h) \in Nat
  BY CutPlace
<1>2. /\ g \in History /\ Len(g) = m + Kept(h) /\ g[1] = h[1]
      /\ \A i \in 1..Len(s) : g[1 + i] = s[i]
      /\ \A i \in 1..Kept(h) : g[m + i] = h[Cut(h) + i]
  BY ReplacedIs
<1>3. m \in Nat \ {0} /\ d \in Int /\ Len(g) + d = Len(h) /\ Len(g) \in Nat /\ d = Cut(h) - m
  <2>1. Len(s) \in Nat
    OBVIOUS
  <2> HIDE DEF g
  <2> QED BY <1>1, <1>2, <2>1
<1> HIDE DEF g, m, d
<1>4. \A i \in (m + 1)..Len(g) : g[i] = h[i + d] /\ i + d \in 1..Len(h)
  <2> TAKE i \in (m + 1)..Len(g)
  <2>1. Len(g) = m + Kept(h)
    BY <1>2
  <2>2. i - m \in 1..Kept(h) /\ m + (i - m) = i
    BY <1>1, <1>3, <2>1
  <2>3. Cut(h) + (i - m) = i + d /\ i + d \in 1..Len(h)
    BY <1>1, <1>3, <2>2
  <2>4. g[m + (i - m)] = h[Cut(h) + (i - m)]
    BY <1>2, <2>2
  <2> QED BY <2>2, <2>3, <2>4
<1>5. \A i \in 1..m : g[i].kind \in {"prompt", "summary"}
  <2> TAKE i \in 1..m
  <2>0. m = 1 + Len(s) /\ Len(s) \in Nat
    BY DEF m
  <2>1. CASE i = 1
    BY <1>2, <2>1
  <2>2. CASE i # 1
    <3>1. i - 1 \in 1..Len(s) /\ 1 + (i - 1) = i
      BY <2>0, <2>2
    <3>2. g[i] = s[i - 1]
      BY <1>2, <3>1
    <3> QED BY <3>1, <3>2
  <2> QED BY <2>1, <2>2
<1>6. ASSUME NEW i \in (m + 1)..Len(g), NEW st \in Nat, NEW n \in Nat, AnsweredBy(h, i + d, st, n)
      PROVE  AnsweredBy(g, i, st, n)
  <2>1. (i + d) + n <= Len(h)
    BY <1>6 DEF AnsweredBy
  <2>2. i + n <= Len(g)
    BY <1>3, <2>1
  <2>3. \A k \in 1..n : i + k \in (m + 1)..Len(g) /\ (i + k) + d = (i + d) + k
    BY <1>3, <2>2
  <2>4. i + n + 1 <= Len(g) =>
          /\ i + n + 1 \in (m + 1)..Len(g) /\ (i + n + 1) + d = (i + d) + n + 1
          /\ (i + d) + n + 1 <= Len(h)
    BY <1>3
  <2>5. g[i] = h[i + d]
    BY <1>4
  <2>6. \A k \in 1..n : g[i + k] = h[(i + d) + k]
    BY <1>4, <2>3
  <2>7. i + n + 1 <= Len(g) => g[i + n + 1] = h[(i + d) + n + 1]
    BY <1>4, <2>4
  <2> QED BY <1>6, <2>2, <2>4, <2>5, <2>6, <2>7 DEF AnsweredBy
<1>7. ASSUME NEW i \in 1..Len(g) PROVE PairedAt(g, TRUE, i)
  <2>1. CASE i \in 1..m
    BY <1>5, <2>1 DEF PairedAt
  <2>2. CASE i \notin 1..m
    <3>1. i \in (m + 1)..Len(g)
      BY <1>3, <2>2
    <3>2. PairedAt(h, c, i + d) /\ g[i] = h[i + d]
      BY <1>4, <3>1 DEF Paired
    <3>3. Answered(h, i + d) => Answered(g, i)
      BY <1>6, <3>1 DEF Answered
    <3> QED BY <3>2, <3>3 DEF PairedAt
  <2> QED BY <2>1, <2>2
<1> QED BY <1>7 DEF Paired, g

\* An answer with all its results.
LEMMA RepliedPaired ==
  ASSUME HistoryInv, NEW c, Paired(msgs, c), NEW n \in Nat, NEW sizes \in [1..n -> ResultSizes]
  PROVE  Paired(Replied(msgs, n, sizes), c)
<1> DEFINE g == Replied(msgs, n, sizes)
           l == Len(msgs)
<1>1. msgs \in History /\ step \in Nat /\ l \in Nat
  BY DEF HistoryInv, History
<1>2. /\ g \in History /\ Len(g) = l + 1 + n
      /\ \A i \in 1..l : g[i] = msgs[i]
      /\ g[l + 1] = Assistant(n)
      /\ \A j \in 1..n : g[l + 1 + j] = Message("tool", sizes[j], {}, <<step, j>>)
  <2>1. g \in History /\ Len(g) = l + 1 + n
    BY <1>1, RepliedIs
  <2>2. \A i \in 1..l : g[i] = msgs[i]
    BY <1>1, RepliedIs
  <2>3. g[l + 1] = Assistant(n)
    BY <1>1, RepliedIs
  <2>4. \A j \in 1..n : g[l + 1 + j] = Message("tool", sizes[j], {}, <<step, j>>)
    BY <1>1, RepliedIs
  <2> QED BY <2>1, <2>2, <2>3, <2>4, Zenon
<1> HIDE DEF g, l
<1>3. Assistant(n).kind = "assistant" /\ Assistant(n).calls = {<<step, k>> : k \in 1..n}
  BY Fields, Zenon DEF Assistant
<1>4. \A j \in 1..n : g[l + 1 + j].kind = "tool" /\ g[l + 1 + j].id = <<step, j>>
  <2> TAKE j \in 1..n
  <2>1. g[l + 1 + j] = Message("tool", sizes[j], {}, <<step, j>>)
    BY <1>2
  <2>2. \A z, i : Message("tool", z, {}, i).kind = "tool" /\ Message("tool", z, {}, i).id = i
    BY DEF Message
  <2> QED BY <2>1, <2>2
<1>5. \A i \in 1..l : PairedAt(g, c, i)
  <2>1. Len(g) >= l /\ g[l + 1].kind # "tool"
    BY <1>1, <1>2, <1>3
  <2> QED BY <1>1, <1>2, <2>1, ExtendedPaired DEF l
<1>6. AnsweredBy(g, l + 1, step, n)
  <2>1. l + 1 + n <= Len(g) /\ ~(l + 1 + n + 1 <= Len(g))
    BY <1>1, <1>2
  <2>2. g[l + 1].calls = {<<step, k>> : k \in 1..n}
    BY <1>2, <1>3
  <2> QED BY <1>4, <2>1, <2>2, Zenon DEF AnsweredBy
<1>7. ASSUME NEW i \in 1..Len(g) PROVE PairedAt(g, c, i)
  <2>1. CASE i \in 1..l
    BY <1>5, <2>1
  <2>2. CASE i = l + 1
    BY <1>1, <1>6, <2>2 DEF PairedAt, Answered
  <2>3. CASE i \notin 1..(l + 1)
    <3>1. i - (l + 1) \in 1..n /\ l + 1 + (i - (l + 1)) = i
      BY <1>1, <1>2, <2>3
    <3> QED BY <1>4, <3>1 DEF PairedAt
  <2> QED BY <1>1, <2>1, <2>2, <2>3
<1> QED BY <1>7 DEF Paired, g

\* Words without calls behind a history.
LEMMA WordsPaired ==
  ASSUME NEW h \in History, NEW c, Paired(h, c), NEW t \in Seq(Msg),
         \A j \in 1..Len(t) : t[j].calls = {} /\ t[j].kind # "tool"
  PROVE  Paired(h \o t, c)
<1> DEFINE g == h \o t
           l == Len(h)
<1>1. l \in Nat /\ Len(t) \in Nat
  BY DEF History
<1>2. /\ g \in History /\ Len(g) = l + Len(t)
      /\ \A i \in 1..l : g[i] = h[i]
      /\ \A j \in 1..Len(t) : g[l + j] = t[j]
  BY Appended
<1> HIDE DEF g, l
<1>3. \A i \in (l + 1)..Len(g) : g[i].calls = {} /\ g[i].kind # "tool"
  <2> TAKE i \in (l + 1)..Len(g)
  <2>1. i - l \in 1..Len(t) /\ l + (i - l) = i
    BY <1>1, <1>2
  <2> QED BY <1>2, <2>1
<1>4. \A i \in 1..l : PairedAt(g, c, i)
  <2>1. Len(g) >= l /\ (Len(g) > l => g[l + 1].kind # "tool")
    BY <1>1, <1>2, <1>3
  <2> QED BY <1>2, <2>1, ExtendedPaired DEF l
<1>5. ASSUME NEW i \in 1..Len(g) PROVE PairedAt(g, c, i)
  <2>1. CASE i \in 1..l
    BY <1>4, <2>1
  <2>2. CASE i \notin 1..l
    <3>1. i \in (l + 1)..Len(g) /\ (i + 1 <= Len(g) => i + 1 \in (l + 1)..Len(g))
      BY <1>1, <1>2, <2>2
    <3>2. Answered(g, i)
      BY <1>2, <1>3, <3>1, NoCalls
    <3> QED BY <3>2 DEF PairedAt
  <2> QED BY <2>1, <2>2
<1> QED BY <1>5 DEF Paired, g

LEMMA Wordless ==
  /\ Assistant(0).calls = {} /\ Assistant(0).kind # "tool"
  /\ Nudge.calls = {} /\ Nudge.kind # "tool"
  /\ LastCall.calls = {} /\ LastCall.kind # "tool"
<1>1. {<<step, k>> : k \in 1..0} = {}
  OBVIOUS
<1>2. "assistant" # "tool" /\ "nudge" # "tool" /\ "last call" # "tool"
  BY Zenon
<1>3. Assistant(0).calls = {} /\ Assistant(0).kind = "assistant"
  BY <1>1, Fields DEF Assistant
<1>4. Nudge.calls = {} /\ Nudge.kind = "nudge"
  BY Fields, Zenon DEF Nudge
<1>5. LastCall.calls = {} /\ LastCall.kind = "last call"
  BY Fields, Zenon DEF LastCall
<1> QED BY <1>2, <1>3, <1>4, <1>5, Zenon

LEMMA PairedInit == Init => PairedInv
<1> SUFFICES ASSUME Init PROVE Paired(msgs, condensed)
  BY DEF Init, PairedInv
<1>1. msgs = <<Prompt>> /\ Prompt \in Msg
  BY Messages DEF Init
<1>2. Prompt.calls = {}
  BY Fields DEF Prompt
<1>3. msgs \in History /\ Len(msgs) = 1 /\ msgs[1] = Prompt
  BY <1>1 DEF History
<1>4. Answered(msgs, 1)
  BY <1>2, <1>3, NoCalls
<1> QED BY <1>3, <1>4 DEF Paired, PairedAt

LEMMA PairedStep == ASSUME HistoryInv, PairedInv, [Next]_vars PROVE PairedInv'
<1>h. msgs \in History /\ step \in Nat /\ msgs[1] = Prompt /\ condensed \in BOOLEAN
  BY DEF HistoryInv, PairedInv
<1>p. Prompt.kind = "prompt"
  BY Fields DEF Prompt
<1>1. CASE BeginStep
  <2>1. /\ pc # "done" /\ condensed' = condensed
        /\ msgs' = msgs \/ msgs' = Shortened(msgs)
    BY <1>1 DEF BeginStep, Ask
  <2>2. Paired(msgs, condensed)
    BY <2>1 DEF PairedInv
  <2>3. Paired(Shortened(msgs), condensed)
    <3>1. /\ Shortened(msgs) \in History /\ Len(Shortened(msgs)) = Len(msgs)
          /\ \A i \in 1..Len(msgs) : Alike(Shortened(msgs)[i], msgs[i])
      BY <1>h, ShortenedIs
    <3> HIDE DEF Shortened
    <3> QED BY <1>h, <2>2, <3>1, AlikePaired
  <2> QED BY <2>1, <2>2, <2>3 DEF PairedInv
<1>2. CASE Condensed
  <2>1. pc # "done" /\ condensed' = TRUE
    BY <1>2 DEF Condensed
  <2>2. Paired(msgs, condensed)
    BY <2>1 DEF PairedInv
  <2>3. Paired(WithoutMiddle(msgs), TRUE)
    <3>1. <<>> \in Seq(Msg) /\ \A i \in 1..Len(<<>>) : <<>>[i].kind = "summary"
      OBVIOUS
    <3>2. Paired(Replaced(msgs, <<>>), TRUE)
      BY <1>h, <1>p, <2>2, <3>1, ReplacedPaired
    <3> QED BY <1>h, <3>2, Replacements
  <2>4. \A size \in SummarySizes : Paired(Summarized(msgs, size), TRUE)
    <3> TAKE size \in SummarySizes
    <3> DEFINE s == <<Summary(size)>>
    <3>1. size \in Nat
      BY MessagesAssumption
    <3>2. s \in Seq(Msg) /\ \A i \in 1..Len(s) : s[i].kind = "summary"
      BY <1>h, <3>1, Replacements, Fields DEF Summary
    <3> HIDE DEF s
    <3>3. Paired(Replaced(msgs, s), TRUE)
      BY <1>h, <1>p, <2>2, <3>2, ReplacedPaired
    <3> QED BY <1>h, <3>1, <3>3, Replacements DEF s
  <2>5. Paired(msgs', TRUE)
    BY <1>2, <2>3, <2>4 DEF Condensed, Ask, Fitting
  <2> QED BY <2>1, <2>5 DEF PairedInv
<1>3. CASE Respond
  <2>1. condensed' = condensed /\ pc # "done"
    BY <1>3, Replies
  <2>2. Paired(msgs, condensed)
    BY <2>1 DEF PairedInv
  <2>3. CASE pc' = "done"
    BY <2>1, <2>3 DEF PairedInv
  <2>4. CASE msgs' = msgs \o <<Assistant(0), Nudge>>
    <3> DEFINE t == <<Assistant(0), Nudge>>
    <3>1. t \in Seq(Msg) /\ \A j \in 1..Len(t) : t[j].calls = {} /\ t[j].kind # "tool"
      <4>1. t \in Seq(Msg) /\ Len(t) = 2 /\ t[1] = Assistant(0) /\ t[2] = Nudge
        BY Words
      <4> HIDE DEF t
      <4> QED BY <4>1, Wordless
    <3> HIDE DEF t
    <3>2. Paired(msgs \o t, condensed)
      BY <1>h, <2>2, <3>1, WordsPaired
    <3> QED BY <2>1, <2>4, <3>2 DEF PairedInv, t
  <2>5. ASSUME NEW n \in Nat, NEW sizes \in [1..n -> ResultSizes],
               msgs' = Replied(msgs, n, sizes) \o Reminder
        PROVE  PairedInv'
    <3>1. Paired(Replied(msgs, n, sizes), condensed) /\ Replied(msgs, n, sizes) \in History
      BY <1>h, <2>2, RepliedPaired, RepliedIs
    <3>2. /\ Reminder \in Seq(Msg)
          /\ \A j \in 1..Len(Reminder) : Reminder[j].calls = {} /\ Reminder[j].kind # "tool"
      <4>1. CASE Reminder = <<LastCall>>
        BY <4>1, Words, Wordless
      <4>2. CASE Reminder = <<>>
        BY <4>2
      <4> QED BY <4>1, <4>2 DEF Reminder
    <3>3. Paired(Replied(msgs, n, sizes) \o Reminder, condensed)
      BY <3>1, <3>2, WordsPaired
    <3> QED BY <2>1, <2>5, <3>3 DEF PairedInv
  <2> QED BY <1>3, <2>1, <2>3, <2>4, <2>5, Replies
<1>4. CASE Idle
  BY <1>4 DEF Idle, PairedInv
<1> QED BY <1>1, <1>2, <1>3, <1>4, Steps

\* The results behind a message, counted.
LEMMA BlockOf ==
  ASSUME NEW h \in History, NEW i \in 1..Len(h), NEW s \in Nat, NEW n \in Nat,
         AnsweredBy(h, i, s, n)
  PROVE  /\ h[i].calls = {h[k].id : k \in Block(h, i)}
         /\ Cardinality(Block(h, i)) = Cardinality(h[i].calls)
<1>0. Len(h) \in Nat /\ DOMAIN h = 1..Len(h)
  BY DEF History
<1>1. i + n <= Len(h) /\ \A k \in 1..n : h[i + k].kind = "tool" /\ h[i + k].id = <<s, k>>
  BY DEF AnsweredBy
<1>2. \A k \in (i + 1)..(i + n) : /\ k - i \in 1..n /\ i + (k - i) = k
                                  /\ k \in 1..Len(h) /\ k > i
  BY <1>0, <1>1
<1>3. \A k \in (i + 1)..(i + n) : h[k].kind = "tool" /\ h[k].id = <<s, k - i>>
  BY <1>1, <1>2
<1>4. Block(h, i) = (i + 1)..(i + n)
  <2>1. ASSUME NEW k \in Block(h, i) PROVE k \in (i + 1)..(i + n)
    <3>1. k \in 1..Len(h) /\ k > i /\ \A j \in (i + 1)..k : h[j].kind = "tool"
      BY <1>0 DEF Block
    <3>2. CASE k > i + n
      <4>1. i + n + 1 \in (i + 1)..k /\ i + n + 1 <= Len(h)
        BY <1>0, <3>1, <3>2
      <4> QED BY <3>1, <4>1 DEF AnsweredBy
    <3> QED BY <3>1, <3>2
  <2>2. ASSUME NEW k \in (i + 1)..(i + n) PROVE k \in Block(h, i)
    <3>1. \A j \in (i + 1)..k : j \in (i + 1)..(i + n)
      OBVIOUS
    <3> QED BY <1>0, <1>2, <1>3, <3>1 DEF Block
  <2> QED BY <2>1, <2>2
<1>5. h[i].calls = {<<s, k>> : k \in 1..n}
  BY DEF AnsweredBy
<1>6. {h[k].id : k \in (i + 1)..(i + n)} = {<<s, k>> : k \in 1..n}
  <2> DEFINE I == (i + 1)..(i + n)
             J == 1..n
  <2>1. \A k \in J : i + k \in I
    OBVIOUS
  <2>2. \A k \in J : h[i + k].id = <<s, k>>
    BY <1>1
  <2>3. \A k \in I : k - i \in J
    BY <1>2
  <2>4. \A k \in I : h[k].id = <<s, k - i>>
    BY <1>3
  <2> HIDE DEF I, J
  <2>5. {h[k].id : k \in I} \subseteq {<<s, k>> : k \in J}
    BY <2>3, <2>4, Zenon
  <2>6. {<<s, k>> : k \in J} \subseteq {h[k].id : k \in I}
    BY <2>1, <2>2, Zenon
  <2>7. {h[k].id : k \in I} = {<<s, k>> : k \in J}
    BY <2>5, <2>6, Zenon
  <2> QED BY <2>7, Zenon DEF I, J
<1>7. Cardinality((i + 1)..(i + n)) = n
  BY FS_Interval
<1>8. Cardinality({<<s, k>> : k \in 1..n}) = n
  <2> DEFINE I == 1..n
  <2>1. IsFiniteSet(I) /\ Cardinality(I) = n
    BY FS_Interval
  <2>2. IsFiniteSet({s}) /\ Cardinality({s}) = 1
    BY FS_Singleton
  <2>3. {<<s, k>> : k \in I} = {s} \X I
    OBVIOUS
  <2> HIDE DEF I
  <2>4. Cardinality({s} \X I) = 1 * n
    BY <2>1, <2>2, FS_Product
  <2>5. Cardinality({s} \X I) = n
    BY <2>4
  <2> QED BY <2>3, <2>5, Zenon DEF I
<1> QED BY <1>4, <1>5, <1>6, <1>7, <1>8, Zenon

\* With the adapter that keeps every message, each call that is sent has its one
\* result directly behind it, however often the history has been condensed.
THEOREM CallsPaired ==
  ASSUME Provider = "openai"
  PROVE  Spec => []PairsKept
<1>1. ASSUME HistoryInv, PairedInv PROVE PairsKept
  <2> SUFFICES ASSUME Asking
               PROVE  \A i \in DOMAIN msgs :
                        \/ msgs[i].kind = "tool"
                        \/ /\ msgs[i].calls = {msgs[k].id : k \in Block(msgs, i)}
                           /\ Cardinality(Block(msgs, i)) = Cardinality(msgs[i].calls)
                        \/ condensed /\ msgs[i].kind \in {"prompt", "summary"}
    BY Zenon DEF PairsKept, Converted
  <2> TAKE i \in DOMAIN msgs
  <2>1. msgs \in History /\ i \in 1..Len(msgs)
    BY <1>1 DEF HistoryInv, History
  <2>2. PairedAt(msgs, condensed, i)
    BY <1>1, <2>1 DEF Asking, PairedInv, Paired
  <2> QED BY <2>1, <2>2, BlockOf DEF PairedAt, Answered
<1>2. HistoryInv /\ [Next]_vars => HistoryInv'
  BY HistoryStep
<1>3. HistoryInv /\ PairedInv /\ [Next]_vars => PairedInv'
  BY PairedStep
<1> QED BY <1>1, <1>2, <1>3, HistoryInit, PairedInit, PTL DEF Spec

-----------------------------------------------------------------------------
(* The sleeps of a call *)

\* Induction: of natural numbers that are not as claimed there is a least one.
Less == {ss \in Nat \X Nat : ss[1] < ss[2]}

LEMMA Least ==
    ASSUME NEW S, S \subseteq Nat, S # {}
    PROVE  \E x \in S : \A y \in S : x <= y
<1>1. IsWellFoundedOn(Less, Nat)
  BY NatLessThanWellFounded DEF OpToRel, Less
<1>2. PICK x \in S : \A y \in S : ~(<<y, x>> \in Less)
  BY <1>1, WFMin
<1>3. ASSUME NEW y \in S PROVE x <= y
  <2>1. x \in Nat /\ y \in Nat
    OBVIOUS
  <2>2. ~(<<y, x>> \in Less)
    BY <1>2
  <2>3. ~(y < x)
    BY <2>1, <2>2 DEF Less
  <2> QED
    BY <2>1, <2>3
<1> QED
  BY <1>3

\* The recursion of Backoff, carried out for the first k retries.
Doubled(g, n) == IF n = 0 THEN BaseDelay ELSE 2 * g[n - 1]
FirstDelays(g, k) == g = [n \in 0..MaxRetries |-> IF n <= k THEN Doubled(g, n) ELSE 0]

LEMMA DelayNext ==
    ASSUME NEW k \in 0..(MaxRetries - 1), NEW g, FirstDelays(g, k)
    PROVE  \E h : FirstDelays(h, k + 1)
<1> DEFINE h == [g EXCEPT ![k + 1] = Doubled(g, k + 1)]
<1>1. MaxRetries \in Nat /\ k \in Nat /\ k + 1 \in 0..MaxRetries
  BY RetriesAssumption
<1>2. DOMAIN g = 0..MaxRetries /\ g = [n \in 0..MaxRetries |-> g[n]]
  BY DEF FirstDelays
<1>3. DOMAIN h = 0..MaxRetries /\ h = [n \in 0..MaxRetries |-> h[n]]
  BY <1>2
<1>4. h[k + 1] = Doubled(g, k + 1) /\ \A n \in 0..MaxRetries : n # k + 1 => h[n] = g[n]
  BY <1>1, <1>2
<1> HIDE DEF h
<1>5. ASSUME NEW n \in 0..MaxRetries, n <= k + 1
      PROVE  Doubled(h, n) = Doubled(g, n)
  <2>1. n # 0 => n - 1 \in 0..MaxRetries /\ n - 1 # k + 1
    BY <1>1, <1>5
  <2> QED
    BY <1>4, <2>1 DEF Doubled
<1>6. ASSUME NEW n \in 0..MaxRetries
      PROVE  h[n] = IF n <= k + 1 THEN Doubled(h, n) ELSE 0
  <2>1. g[n] = IF n <= k THEN Doubled(g, n) ELSE 0
    BY DEF FirstDelays
  <2>2. CASE n = k + 1
    BY <1>1, <1>4, <1>5, <2>2
  <2>3. CASE n <= k
    BY <1>1, <1>4, <1>5, <2>1, <2>3
  <2>4. CASE n > k + 1
    BY <1>1, <1>4, <2>1, <2>4
  <2> QED
    BY <1>1, <2>2, <2>3, <2>4
<1>7. h = [n \in 0..MaxRetries |-> IF n <= k + 1 THEN Doubled(h, n) ELSE 0]
  BY <1>3, <1>6
<1>8. FirstDelays(h, k + 1)
  BY <1>7 DEF FirstDelays
<1> QED
  BY <1>8

LEMMA DelaysExist ==
    ASSUME NEW k \in 0..MaxRetries
    PROVE  \E g : FirstDelays(g, k)
<1> DEFINE Bad == {l \in 0..MaxRetries : ~ \E g : FirstDelays(g, l)}
<1>0. MaxRetries \in Nat
  BY RetriesAssumption
<1>1. 0 \notin Bad
  <2> DEFINE g == [n \in 0..MaxRetries |-> IF n = 0 THEN BaseDelay ELSE 0]
  <2>1. \A n \in 0..MaxRetries : n <= 0 <=> n = 0
    BY <1>0
  <2>2. Doubled(g, 0) = BaseDelay
    BY Zenon DEF Doubled
  <2>3. g = [n \in 0..MaxRetries |-> IF n <= 0 THEN Doubled(g, n) ELSE 0]
    BY <2>1, <2>2
  <2>4. FirstDelays(g, 0)
    BY <2>3 DEF FirstDelays
  <2> QED
    BY <2>4
<1>2. ASSUME Bad # {} PROVE FALSE
  <2>0. Bad \subseteq 0..MaxRetries /\ Bad \subseteq Nat
    OBVIOUS
  <2>b. \A l \in 0..MaxRetries : l \in Bad <=> ~ \E g : FirstDelays(g, l)
    OBVIOUS
  <2> HIDE DEF Bad
  <2>1. PICK l \in Bad : \A m \in Bad : l <= m
    BY <1>2, <2>0, Least
  <2>2. l # 0 /\ l \in 0..MaxRetries
    BY <1>1, <2>0
  <2>3. l - 1 \in 0..(MaxRetries - 1) /\ l - 1 \in 0..MaxRetries /\ ~(l <= l - 1)
    BY <1>0, <2>2
  <2>4. \E g : FirstDelays(g, l - 1)
    BY <2>1, <2>3, <2>b
  <2>5. \E h : FirstDelays(h, (l - 1) + 1)
    BY <2>3, <2>4, DelayNext
  <2>6. (l - 1) + 1 = l
    BY <2>2
  <2> QED
    BY <2>0, <2>1, <2>5, <2>6, <2>b
<1> QED
  BY <1>2

LEMMA BackoffDef ==
    Backoff = [n \in 0..MaxRetries |-> IF n = 0 THEN BaseDelay ELSE 2 * Backoff[n - 1]]
<1>0. MaxRetries \in 0..MaxRetries /\ \A n \in 0..MaxRetries : n <= MaxRetries
  BY RetriesAssumption
<1>1. PICK g : FirstDelays(g, MaxRetries)
  BY <1>0, DelaysExist
<1>2. g = [n \in 0..MaxRetries |-> IF n = 0 THEN BaseDelay ELSE 2 * g[n - 1]]
  BY <1>0, <1>1 DEF FirstDelays, Doubled
<1> QED
  BY <1>2, Zenon DEF Backoff

LEMMA BackoffNext ==
    /\ Backoff[0] = BaseDelay
    /\ \A n \in 0..(MaxRetries - 1) : Backoff[n + 1] = 2 * Backoff[n]
<1>1. 0 \in 0..MaxRetries
  BY RetriesAssumption
<1>2. ASSUME NEW n \in 0..(MaxRetries - 1) PROVE Backoff[n + 1] = 2 * Backoff[n]
  <2>1. n + 1 \in 0..MaxRetries /\ n + 1 # 0 /\ (n + 1) - 1 = n
    BY RetriesAssumption
  <2> QED
    BY <2>1, BackoffDef
<1> QED
  BY <1>1, <1>2, BackoffDef

\* Before its random part no delay is below the first.
LEMMA BackoffGrowing ==
    ASSUME NEW n \in 0..MaxRetries
    PROVE  Backoff[n] \in Nat /\ Backoff[n] >= BaseDelay
<1> DEFINE Good(m) == Backoff[m] \in Nat /\ Backoff[m] >= BaseDelay
           Bad == {m \in 0..MaxRetries : ~Good(m)}
<1>0. MaxRetries \in Nat /\ BaseDelay \in Nat
  BY RetriesAssumption, DelayAssumption
<1>1. Good(0)
  BY <1>0, BackoffNext
<1>2. ASSUME NEW m \in 0..(MaxRetries - 1), Good(m) PROVE Good(m + 1)
  <2>1. Backoff[m + 1] = 2 * Backoff[m]
    BY BackoffNext
  <2> QED
    BY <1>0, <1>2, <2>1
<1>3. /\ Bad \subseteq 0..MaxRetries /\ Bad \subseteq Nat
      /\ \A m \in 0..MaxRetries : m \in Bad <=> ~Good(m)
  OBVIOUS
<1> HIDE DEF Good, Bad
<1>4. ASSUME Bad # {} PROVE FALSE
  <2>1. PICK l \in Bad : \A m \in Bad : l <= m
    BY <1>3, <1>4, Least
  <2>2. l \in 0..MaxRetries /\ l # 0
    BY <1>1, <1>3, <2>1
  <2>3. l - 1 \in 0..(MaxRetries - 1) /\ l - 1 \in 0..MaxRetries /\ ~(l <= l - 1) /\ (l - 1) + 1 = l
    BY <1>0, <2>2
  <2>4. Good(l - 1)
    BY <1>3, <2>1, <2>3
  <2> QED
    BY <1>2, <1>3, <2>1, <2>2, <2>3, <2>4
<1> QED
  BY <1>3, <1>4 DEF Good

\* None is longer than the last.
LEMMA BackoffBelow ==
    ASSUME NEW n \in 0..(MaxRetries - 1)
    PROVE  Backoff[n] <= Backoff[MaxRetries - 1]
<1> DEFINE last == MaxRetries - 1
           Good(m) == Backoff[last - m] <= Backoff[last]
           Bad == {m \in 0..last : ~Good(m)}
<1>0. last \in Nat /\ last = MaxRetries - 1 /\ \A m \in 0..last : m \in 0..MaxRetries
  BY RetriesAssumption
<1> HIDE DEF last
<1>1. Good(0)
  <2>1. last - 0 = last /\ Backoff[last] \in Nat
    BY <1>0, BackoffGrowing
  <2> QED
    BY <2>1
<1>2. ASSUME NEW m \in 0..(last - 1), Good(m) PROVE Good(m + 1)
  <2> DEFINE i == last - (m + 1)
  <2>1. /\ i \in 0..(last - 1) /\ i + 1 = last - m
        /\ i \in 0..last /\ i + 1 \in 0..last /\ last \in 0..last
    BY <1>0
  <2> HIDE DEF i
  <2>2. Backoff[i + 1] = 2 * Backoff[i] /\ Backoff[i] \in Nat /\ Backoff[last] \in Nat
    BY <1>0, <2>1, BackoffNext, BackoffGrowing
  <2>3. Backoff[i + 1] <= Backoff[last]
    BY <1>2, <2>1
  <2>4. Backoff[i] <= Backoff[last]
    BY <2>2, <2>3
  <2> QED
    BY <2>4 DEF i
<1>3. /\ Bad \subseteq 0..last /\ Bad \subseteq Nat
      /\ \A m \in 0..last : m \in Bad <=> ~Good(m)
  OBVIOUS
<1> HIDE DEF Good, Bad
<1>4. ASSUME Bad # {} PROVE FALSE
  <2>1. PICK l \in Bad : \A m \in Bad : l <= m
    BY <1>3, <1>4, Least
  <2>2. l \in 0..last /\ l # 0
    BY <1>1, <1>3, <2>1
  <2>3. l - 1 \in 0..(last - 1) /\ l - 1 \in 0..last /\ ~(l <= l - 1) /\ (l - 1) + 1 = l
    BY <1>0, <2>2
  <2>4. Good(l - 1)
    BY <1>3, <2>1, <2>3
  <2> QED
    BY <1>2, <1>3, <2>1, <2>2, <2>3, <2>4
<1>5. last - n \in 0..last /\ last - (last - n) = n
  BY <1>0
<1>6. Good(last - n)
  BY <1>3, <1>4, <1>5
<1> QED
  BY <1>0, <1>5, <1>6 DEF Good

\* Retries so few that even the last sleep is no longer than a time.Duration can
\* be: with the default delay of half a second up to 35, where the default is three.
DelaysFit == Backoff[MaxRetries - 1] + BaseDelay - 1 <= MaxDuration

\* What the last sleep was below: the next, before its random part.
SleepInv ==
    /\ delay \in Int
    /\ call \in {"head", "request"} => delay < Backoff[attempt]
    /\ call = "sleep" => delay < Backoff[attempt] + BaseDelay

LEMMA SleepStep ==
    ASSUME DelaysFit, CallInv, SleepInv, [Next]_vars
    PROVE  SleepInv' /\ (call # "sleep" /\ call' = "sleep" => delay' > delay)
<1>1. /\ MaxRetries \in Nat /\ BaseDelay \in Nat \ {0} /\ MaxDuration \in Nat
      /\ attempt \in Nat /\ (call \in Running => attempt \in 0..MaxRetries)
      /\ delay \in Int
  BY RetriesAssumption, DelayAssumption DEF CallInv, Counted, SleepInv
<1>2. CASE UNCHANGED callVars
  BY <1>2 DEF SleepInv, callVars
<1>3. CASE Begin
  <2>1. call' = "head" /\ attempt' = 0 /\ delay' = 0
    BY <1>3 DEF Begin
  <2>2. Backoff[attempt'] = BaseDelay
    BY <2>1, BackoffNext
  <2> QED
    BY <1>1, <2>1, <2>2 DEF SleepInv
<1>4. ASSUME NEW o \in Returned, Return(o)
      PROVE  SleepInv' /\ (call # "sleep" /\ call' = "sleep" => delay' > delay)
  BY <1>1, <1>4 DEF Return, Returned, SleepInv
<1>5. CASE Attempt
  <2>1. CASE cancelled /\ Return("cancelled")
    BY <1>4, <2>1 DEF Returned
  <2>2. CASE call = "head" /\ call' = "request" /\ UNCHANGED <<attempt, delay>>
    BY <2>2 DEF SleepInv
  <2> QED
    BY <1>5, <2>1, <2>2 DEF Attempt
<1>6. CASE Answer
  BY <1>4, <1>6 DEF Answer, Returned
<1>7. CASE Fail
  <2>1. CASE Return("refused") \/ Return("exhausted")
    BY <1>4, <2>1 DEF Returned
  <2>2. CASE /\ call = "request" /\ attempt # MaxRetries
             /\ call' = "sleep" /\ attempt' = attempt
             /\ \E j \in Jitter : delay' = Duration(Backoff[attempt] + j)
    <3>1. PICK j \in 0..(BaseDelay - 1) : delay' = Duration(Backoff[attempt] + j)
      BY <2>2 DEF Jitter
    <3>2. attempt \in 0..(MaxRetries - 1) /\ attempt \in 0..MaxRetries
      BY <1>1, <2>2 DEF Running
    <3> DEFINE b == Backoff[attempt]
               d == Backoff[MaxRetries - 1]
    <3>3. b \in Nat /\ b >= BaseDelay /\ b <= d /\ d \in Nat /\ d + BaseDelay - 1 <= MaxDuration
      <4>1. MaxRetries - 1 \in 0..MaxRetries
        BY RetriesAssumption
      <4> QED
        BY <3>2, <4>1, BackoffGrowing, BackoffBelow DEF DelaysFit
    <3>4. delay < b /\ delay' = Duration(b + j)
      BY <2>2, <3>1 DEF SleepInv
    <3> HIDE DEF b, d
    <3>5. b + j <= MaxDuration
      BY <1>1, <3>3
    <3>6. delay' = b + j
      BY <3>4, <3>5 DEF Duration
    <3>7. delay' \in Int /\ delay' < b + BaseDelay /\ delay' > delay
      BY <1>1, <3>3, <3>4, <3>6
    <3> QED
      BY <2>2, <3>7 DEF SleepInv, b
  <2> QED
    BY <1>7, <2>1, <2>2 DEF Fail
<1>8. CASE Wake
  <2>1. CASE cancelled /\ Return("cancelled")
    BY <1>4, <2>1 DEF Returned
  <2>2. CASE call = "sleep" /\ call' = "head" /\ attempt' = attempt + 1 /\ UNCHANGED delay
    <3>1. attempt \in 0..(MaxRetries - 1) /\ attempt \in 0..MaxRetries
      BY <1>1, <2>2 DEF CallInv, Counted
    <3> DEFINE b == Backoff[attempt]
               c == Backoff[attempt + 1]
    <3>2. b \in Nat /\ b >= BaseDelay /\ c = 2 * b
      BY <3>1, BackoffGrowing, BackoffNext
    <3>3. delay < b + BaseDelay
      BY <2>2 DEF SleepInv
    <3> HIDE DEF b, c
    <3>4. delay < c
      BY <1>1, <3>2, <3>3
    <3> QED
      BY <1>1, <2>2, <3>4 DEF SleepInv, c
  <2> QED
    BY <1>8, <2>1, <2>2 DEF Wake
<1>9. Begin \/ UNCHANGED callVars \/ Attempt \/ Answer \/ Fail \/ Wake
  <2>1. CASE BeginStep \/ Condensed \/ Respond \/ Stop
    BY <2>1 DEF BeginStep, Condensed, Respond, Stop, Ask
  <2>2. CASE Call \/ UNCHANGED vars \/ (Signal /\ UNCHANGED loop)
    BY <2>2 DEF Call, CallStep, Signal, vars
  <2> QED
    BY <2>1, <2>2 DEF Next, Agent
<1> QED
  BY <1>2, <1>3, <1>5, <1>6, <1>7, <1>8, <1>9

\* RetryingLLM sleeps longer before each attempt than before the one before,
\* whatever the random parts are and however many attempts there are, if none
\* of the sleeps is too long for a time.Duration.
THEOREM SleepsLonger == ASSUME DelaysFit PROVE Spec => BackoffGrows
<1>1. Init => SleepInv
  BY DEF Init, CallInit, SleepInv
<1>2. CallInv /\ SleepInv /\ [Next]_vars
         => SleepInv' /\ [call # "sleep" /\ call' = "sleep" => delay' > delay]_<<callVars, cancelled>>
  BY SleepStep
<1>3. Init => CallInv
  BY InitMaps
<1>4. CallInv /\ [Next]_vars => CallInv'
  BY StepMaps
<1> QED
  BY <1>1, <1>2, <1>3, <1>4, PTL DEF Spec, BackoffGrows
=============================================================================
