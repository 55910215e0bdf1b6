---------------------------- MODULE Conversation ----------------------------
(***************************************************************************)
(* What one agent says to the LLM: the loop of Agent.Run as it grows the    *)
(* message history, ContextManager.Prepare as it condenses it, the calls of *)
(* RetryingLLM that both make, and what the adapter of the provider makes   *)
(* of a history.  The budget and the other agents are in AnalysisPool, the  *)
(* store in AgentRun.                                                       *)
(***************************************************************************)
EXTENDS RetryingLLM, Sequences, FiniteSets, SequencesExt

CONSTANTS
    AgentSteps,   \* maxSteps
    KeepRecent,   \* AGENT_KEEP_RECENT
    Window,       \* AGENT_CONTEXT_WINDOW
    CompactAt,    \* the part of it at which a history is condensed
    TruncateAt,   \* maxToolResultRunes
    Marker,       \* the length of "...[truncated]..."
    Provider,     \* LLM_PROVIDER
    PromptSize,   \* bound: the size of the first message
    ResultSizes,  \* bound: the sizes of what a tool returns
    SummarySizes, \* bound: the sizes of a summary
    MaxCalls      \* bound: how many tools a response may call

ASSUME LoopAssumption == AgentSteps \in Nat \ {0} /\ KeepRecent \in Nat /\ MaxCalls \in Nat
ASSUME WindowAssumption == Window \in Nat /\ CompactAt \in Nat /\ TruncateAt \in Nat /\ Marker \in Nat
ASSUME MessagesAssumption == /\ PromptSize \in Nat /\ ResultSizes \subseteq Nat
                             /\ SummarySizes \subseteq Nat
ASSUME ProviderAssumption == Provider \in {"openai", "anthropic"}

\* A message: its size, in one unit for runes and tokens, the calls that it
\* makes and the call that it answers.  A call is named by its step and number.
Message(kind, size, calls, id) == [kind |-> kind, size |-> size, calls |-> calls, id |-> id]
Plain(kind, size) == Message(kind, size, {}, <<>>)

Prompt == Plain("prompt", PromptSize)
Summary(size) == Plain("summary", size)
Nudge == Plain("nudge", 1)         \* "Use a tool, or call submit_finding"
LastCall == Plain("last call", 1)  \* "Your next response MUST call submit_finding"

VARIABLES
    pc,         \* where the loop is
    step,       \* the step of the loop
    msgs,       \* the history
    condensed,  \* whether a middle has been replaced or dropped
    out         \* Result.Stop, or "error"

loop == <<pc, step, msgs, condensed, out>>
vars == <<loop, callVars, cancelled>>

Kind == {"prompt", "summary", "nudge", "last call", "assistant", "tool"}

\* The loop and its call: a call runs in the two labels that wait for it only.
TypeOK ==
    /\ CallOK
    /\ pc \in {"head", "condensing", "asking", "done"}
    /\ call \in Running => pc \in {"condensing", "asking"}
    /\ step \in 0..AgentSteps
    /\ \A i \in DOMAIN msgs : msgs[i].kind \in Kind /\ msgs[i].size \in Nat
    /\ condensed \in BOOLEAN
    /\ out \in {"none", "submitted", "max_steps", "error", "cancelled"}

Init ==
    /\ CallInit
    /\ pc = "head"
    /\ step = 0
    /\ msgs = <<Prompt>>
    /\ condensed = FALSE
    /\ out = "none"

-----------------------------------------------------------------------------
(* ContextManager *)

\* CountMessages.
Weight(h) == FoldSeq(LAMBDA m, n : m.size + n, 0, h)

\* Mutant: the message that makes the number of recent ones full is condensed.
CutLate(h) == IF Len(h) - KeepRecent <= 1 THEN 1 ELSE Len(h) - KeepRecent + 1

\* How many messages come before the recent ones: never less than the prompt.
Cut(h) == IF Len(h) - KeepRecent <= 1 THEN 1 ELSE Len(h) - KeepRecent

Pinned(h) == SubSeq(h, 1, 1)
Middle(h) == SubSeq(h, 2, Cut(h))
Recent(h) == SubSeq(h, Cut(h) + 1, Len(h))

\* What is left is longer than the limit, by the marker.
Truncate(m) == IF m.kind = "tool" /\ m.size > TruncateAt
               THEN [m EXCEPT !.size = TruncateAt + Marker] ELSE m

TruncateToolResults(h) == [i \in DOMAIN h |-> Truncate(h[i])]

Shortened(h) == Pinned(h) \o TruncateToolResults(Middle(h)) \o Recent(h)
WithoutMiddle(h) == Pinned(h) \o Recent(h)
Summarized(h, size) == Pinned(h) \o <<Summary(size)>> \o Recent(h)

\* Mutant: a summary is kept whatever the window is.
FittingAny(h, size) == Summarized(h, size)

\* The summary goes, too, if the history is larger than the window with it;
\* it may be without it.
Fitting(h, size) ==
    IF Weight(Summarized(h, size)) > Window THEN WithoutMiddle(h) ELSE Summarized(h, size)

-----------------------------------------------------------------------------
(* The adapters *)

\* Mutant: toOpenAIMessages has no case for the results of tools.
ConvertedBare(h) == SelectSeq(h, LAMBDA m : m.kind # "tool")

\* splitSystem gives an assistant's message without its calls, and nothing for
\* the result of a tool.
SplitSystem(h) ==
    LET kept == SelectSeq(h, LAMBDA m : m.kind # "tool")
    IN  [i \in DOMAIN kept |-> [kept[i] EXCEPT !.calls = {}]]

\* toOpenAIMessages keeps every message, its calls and the call it answers.
Converted(h) == IF Provider = "openai" THEN h ELSE SplitSystem(h)

-----------------------------------------------------------------------------
(* Agent.Run *)

\* The LLM is asked with the history h.
Ask(h) == msgs' = h /\ pc' = "asking" /\ Begin

End(o) == pc' = "done" /\ out' = o

\* The head of the loop: Prepare returns the history, the history with its
\* tool results truncated, or has the middle summarized.
BeginStep ==
    /\ pc = "head" /\ step < AgentSteps
    /\ ~cancelled
    /\ \/ Weight(msgs) < CompactAt /\ Ask(msgs)
       \/ /\ Weight(msgs) >= CompactAt
          /\ Weight(Shortened(msgs)) < CompactAt
          /\ Ask(Shortened(msgs))
       \/ /\ Weight(msgs) >= CompactAt
          /\ Weight(Shortened(msgs)) >= CompactAt
          /\ pc' = "condensing" /\ Begin
          /\ UNCHANGED msgs
    /\ UNCHANGED <<step, condensed, out, cancelled>>

\* An error of the summarizer is logged, and the middle dropped.
Condensed ==
    /\ pc = "condensing"
    /\ \/ call = "answered" /\ \E size \in SummarySizes : Ask(Fitting(msgs, size))
       \/ call \in Returned \ {"answered"} /\ Ask(WithoutMiddle(msgs))
    /\ condensed' = TRUE
    /\ UNCHANGED <<step, out, cancelled>>

\* The response to this step makes n calls, and each call that is not a valid
\* submission has a result: what the tool says, its error, or why a submission
\* is rejected.
Assistant(n) == Message("assistant", 1, {<<step, k>> : k \in 1..n}, <<>>)
Results(sizes) == [k \in DOMAIN sizes |-> Message("tool", sizes[k], {}, <<step, k>>)]

\* Mutant: the last call is announced when it has been made.
ReminderLate == IF step + 1 = AgentSteps THEN <<LastCall>> ELSE <<>>

Reminder == IF AgentSteps - step - 1 = 1 THEN <<LastCall>> ELSE <<>>

\* Prose is answered with a reminder to use tools; the results of calls are
\* appended in their order; a valid submission, after k results, ends the run
\* at once.
Respond ==
    /\ pc = "asking" /\ call = "answered"
    /\ \/ msgs' = msgs \o <<Assistant(0), Nudge>> /\ pc' = "head" /\ UNCHANGED out
       \/ \E n \in 1..MaxCalls : \E sizes \in [1..n -> ResultSizes] :
             /\ msgs' = msgs \o <<Assistant(n)>> \o Results(sizes) \o Reminder
             /\ pc' = "head"
             /\ UNCHANGED out
       \/ \E n \in 1..MaxCalls, k \in 0..(MaxCalls - 1) : \E sizes \in [1..k -> ResultSizes] :
             /\ k < n
             /\ msgs' = msgs \o <<Assistant(n)>> \o Results(sizes)
             /\ End("submitted")
    /\ step' = step + 1
    /\ UNCHANGED <<condensed, callVars, cancelled>>

\* Mutant: a step whose call fails is tried again.
StopAgain ==
    /\ \/ pc = "asking" /\ call \in Returned \ {"answered"} /\ pc' = "head" /\ UNCHANGED out
       \/ pc = "head" /\ step < AgentSteps /\ cancelled /\ End("cancelled")
       \/ pc = "head" /\ step = AgentSteps /\ End("max_steps")
    /\ UNCHANGED <<step, msgs, condensed, callVars, cancelled>>

\* Complete fails, the context is done, or no step is left.
Stop ==
    /\ \/ pc = "asking" /\ call \in Returned \ {"answered"} /\ End("error")
       \/ pc = "head" /\ step < AgentSteps /\ cancelled /\ End("cancelled")
       \/ pc = "head" /\ step = AgentSteps /\ End("max_steps")
    /\ UNCHANGED <<step, msgs, condensed, callVars, cancelled>>

Call == pc \in {"condensing", "asking"} /\ CallStep /\ UNCHANGED loop

Agent == BeginStep \/ Condensed \/ Respond \/ Stop \/ Call

Next == Agent \/ (pc # "done" /\ Signal /\ UNCHANGED loop)

Spec == Init /\ [][Next]_vars

\* The agent is scheduled, the provider answers or the attempt's time is over,
\* and a sleep ends: each step of the agent, whichever it is, is taken.
FairSpec == Spec /\ WF_vars(Agent)
-----------------------------------------------------------------------------
(* What is sent *)

Asking == pc = "asking" /\ call \in Running

\* The results directly behind message i, which is where providers want the
\* results of its calls.
Block(h, i) == {k \in DOMAIN h : k > i /\ \A j \in (i + 1)..k : h[j].kind = "tool"}

\* Every call of a request has its one result, directly behind it, and every
\* result its call: nowhere does the cut part the two, but in front of the
\* recent messages, where results may be left behind the prompt or a summary.
PairsKept == Asking =>
    LET h == Converted(msgs) IN \A i \in DOMAIN h :
       \/ h[i].kind = "tool"
       \/ /\ h[i].calls = {h[k].id : k \in Block(h, i)}
          /\ Cardinality(Block(h, i)) = Cardinality(h[i].calls)
       \/ condensed /\ h[i].kind \in {"prompt", "summary"}

LastOf(h, n) == SubSeq(h, Len(h) - n + 1, Len(h))

KeepsPinned(old, new) ==
    LET n == IF KeepRecent < Len(old) THEN KeepRecent ELSE Len(old) - 1
    IN  /\ new[1] = Prompt
        /\ Len(new) > n
        /\ LastOf(new, n) = LastOf(old, n)

\* README: "The system prompt and the most recent turns are pinned and never
\* evicted", nor changed: what Prepare returns begins with the prompt and ends
\* with the KeepRecent last messages as they were, however often it is applied.
RecentKept == [][(pc \in {"head", "condensing"}) => KeepsPinned(msgs, msgs')]_vars

\* What is sent is below the threshold, or no larger than the window, or
\* reduced to what is pinned, which may be larger than both.
RequestFits == Asking =>
    \/ Weight(msgs) < CompactAt
    \/ ~(Weight(msgs) > Window)
    \/ Len(msgs) <= 1 + KeepRecent

\* Before its last call the agent is told so, or that it has to use a tool, and
\* condensing does not take the words away.
LastCallAnnounced ==
    Asking /\ step > 0 /\ step = AgentSteps - 1 /\ KeepRecent > 0 =>
        msgs[Len(msgs)].kind \in {"nudge", "last call"}

\* However the provider behaves each call returns, and the agent comes to an end.
ConversationEnds == Contract!Returns /\ <>(pc = "done")

(* What the documentation promises and the code does not keep *)

\* README: "OpenAI and Anthropic are both implemented and can be swapped": the
\* result of every tool that was called reaches the provider.
ResultsDelivered == Asking =>
    \A i \in DOMAIN msgs : msgs[i].kind = "tool" =>
        \E k \in DOMAIN Converted(msgs) : Converted(msgs)[k].id = msgs[i].id
=============================================================================
