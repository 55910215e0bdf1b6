------------------------------ MODULE AgentRun ------------------------------
(***************************************************************************)
(* Agent.Run for ONE clause, with the store that makes it durable: the      *)
(* processes run analyze-clause, each a loop of LLM calls whose message     *)
(* history is stored after every step, and the rows of agent_runs and       *)
(* agent_steps are what a process that died leaves to the next.             *)
(*                                                                          *)
(* A history is the sequence of the turns it stands for: that Prepare may   *)
(* condense them for a small context window is left out.  analyze-clause    *)
(* has no budget; the pool of analyze, whose agents have a budget and no    *)
(* store, is the module AnalysisPool.                                       *)
(***************************************************************************)
EXTENDS Integers, Sequences, FiniteSets

CONSTANTS
    Procs,      \* the processes that may run the agent at the same time
    AgentSteps, \* maxSteps
    Faults,     \* what may go wrong, a subset of AllFaults
    MaxCuts     \* bound: how many cuts there are

\* Four of them cut a run short.  "abort": the process stops (a crash, a failed
\* call).  "signal": the context is cancelled, and the process goes on as far
\* as it does without it.  "lost step" and "lost finish": the errors of
\* AppendAgentStep and FinishAgentRun, which are discarded.  The other,
\* "failed row": analyze stores a failed analysis of the clause.
AllFaults == {"abort", "signal", "lost step", "lost finish", "failed row"}

ASSUME ProcsAssumption == Procs # {} /\ "unsaved" \notin Procs
ASSUME StepsAssumption == AgentSteps \in Nat \ {0} /\ MaxCuts \in Nat
ASSUME FaultsAssumption == Faults \subseteq AllFaults

StepIndex == 0..(AgentSteps - 1)

\* What a step adds to the history: a valid submission, or anything else (tool
\* calls and their results, a rejected submission, prose and the reminder).
Turn == {"open", "submit"}
RunStatus == {"none", "running", "submitted", "max_steps"}

\* A process inserts at most one row, because it does so only while there is
\* none: its name is the id of its row.  "unsaved" is a fresh id without a row.
RunId == Procs \cup {"unsaved"}

VARIABLES
    runStatus, \* agent_runs.status, "none" for a row that does not exist
    latest,    \* the row with the latest started_at, "unsaved" for none
    stored,    \* agent_steps: the history stored with each step, or <<>>
    analyses,  \* what analyze has stored of the clause in clause_analyses
    pc,        \* where each process is
    runId,     \* agentRunID of each process
    step,      \* the step of its loop
    msgs,      \* its message history, without the prompt
    out,       \* what it printed
    calls,     \* how often the LLM was called for each row
    cuts       \* how many aborts, signals, lost steps and lost finishes there were

rows == <<runStatus, latest, stored, analyses>>
memory == <<runId, step, msgs>>
counts == <<calls, cuts>>
vars == <<rows, pc, memory, out, counts>>

Labels == {"idle", "load", "load_steps", "finding", "start", "head", "append",
           "submitted", "max_steps"}
Output == {"none", "error", "finding", "no risk", "max_steps"}

TypeOK ==
    /\ runStatus \in [Procs -> RunStatus]
    /\ latest \in RunId
    /\ stored \in [Procs -> [StepIndex -> Seq(Turn)]]
    /\ analyses \subseteq {"ok", "failed"}
    /\ pc \in [Procs -> Labels]
    /\ runId \in [Procs -> RunId]
    /\ step \in [Procs -> 0..AgentSteps]
    /\ msgs \in [Procs -> Seq(Turn)]
    /\ out \in [Procs -> Output]
    /\ calls \in [Procs -> Nat]
    /\ cuts \in Nat

Init ==
    /\ runStatus = [r \in Procs |-> "none"]
    /\ latest = "unsaved"
    /\ stored = [r \in Procs |-> [i \in StepIndex |-> <<>>]]
    /\ analyses = {}
    /\ pc = [p \in Procs |-> "idle"]
    /\ runId = [p \in Procs |-> "unsaved"]
    /\ step = [p \in Procs |-> 0]
    /\ msgs = [p \in Procs |-> <<>>]
    /\ out = [p \in Procs |-> "none"]
    /\ calls = [r \in Procs |-> 0]
    /\ cuts = 0

-----------------------------------------------------------------------------
Goto(p, l) == pc' = [pc EXCEPT ![p] = l]

\* Where the loop begins, and with what.
Begin(p, r, i, m) ==
    /\ runId' = [runId EXCEPT ![p] = r]
    /\ step' = [step EXCEPT ![p] = i]
    /\ msgs' = [msgs EXCEPT ![p] = m]

Show(p, o) == out' = [out EXCEPT ![p] = o]

\* The process ends and its memory is gone.
Leave(p, o) == Goto(p, "idle") /\ Begin(p, "unsaved", 0, <<>>) /\ Show(p, o)

Start(p) ==
    /\ pc[p] = "idle"
    /\ Goto(p, "load")
    /\ Show(p, "none")
    /\ UNCHANGED <<rows, memory, counts>>

Abort(p) ==
    /\ "abort" \in Faults /\ cuts < MaxCuts
    /\ pc[p] # "idle"
    /\ Leave(p, "error")
    /\ cuts' = cuts + 1
    /\ UNCHANGED <<rows, calls>>

Submits(p) == msgs[p][Len(msgs[p])] = "submit"

\* The loop has its submission, or is over without one: neither path looks at
\* the context again.
Answers(p) == pc[p] = "submitted" \/ (pc[p] = "append" /\ Submits(p))
GivesUp(p) == ~Answers(p) /\ \/ pc[p] = "max_steps"
                             \/ pc[p] = "head" /\ step[p] = AgentSteps
                             \/ pc[p] = "append" /\ step[p] + 1 = AgentSteps

\* The context is cancelled: what the process still stores is lost without a
\* word, and it ends with the answer that it had, or where it next looks at the
\* context (the head of the loop, the LLM, a query).
Signal(p) ==
    /\ "signal" \in Faults /\ cuts < MaxCuts
    /\ pc[p] # "idle"
    /\ \/ Answers(p) /\ Leave(p, "finding")
       \/ GivesUp(p) /\ Leave(p, "max_steps")
       \/ ~Answers(p) /\ ~GivesUp(p) /\ Leave(p, "error")
    /\ cuts' = cuts + 1
    /\ UNCHANGED <<rows, calls>>

Cut(p) == Abort(p) \/ Signal(p)

\* Mutant: a run that has submitted is resumed like one that is running.
LoadRunAgain(p) ==
    /\ pc[p] = "load"
    /\ \/ latest = "unsaved" /\ Goto(p, "start") /\ UNCHANGED memory
       \/ /\ latest # "unsaved"
          /\ \/ /\ runStatus[latest] \in {"running", "submitted"}
                /\ Goto(p, "load_steps")
                /\ Begin(p, latest, 0, <<>>)
             \/ runStatus[latest] = "max_steps" /\ Goto(p, "head") /\ UNCHANGED memory
    /\ UNCHANGED <<rows, out, counts>>

\* LoadAgentRun reads the row and then, with another query, its steps.  A run
\* that ended without submitting is neither resumed nor replaced: the agent
\* goes on with an id of which there is no row.
LoadRun(p) ==
    /\ pc[p] = "load"
    /\ \/ latest = "unsaved" /\ Goto(p, "start") /\ UNCHANGED memory
       \/ /\ latest # "unsaved"
          /\ \/ runStatus[latest] = "submitted" /\ Goto(p, "finding") /\ UNCHANGED memory
             \/ /\ runStatus[latest] = "running"
                /\ Goto(p, "load_steps")
                /\ Begin(p, latest, 0, <<>>)
             \/ runStatus[latest] = "max_steps" /\ Goto(p, "head") /\ UNCHANGED memory
    /\ UNCHANGED <<rows, out, counts>>

\* The last row by step_index has the whole history up to its step.
Stored(r) == {i \in StepIndex : stored[r][i] # <<>>}

\* Mutant: the loop begins at the last stored step and not after it.
LoadStepsLast(p) ==
    /\ pc[p] = "load_steps"
    /\ Goto(p, "head")
    /\ \/ Stored(runId[p]) = {} /\ UNCHANGED memory
       \/ \E last \in Stored(runId[p]) :
             /\ \A i \in Stored(runId[p]) : i <= last
             /\ Begin(p, runId[p], last, stored[runId[p]][last])
    /\ UNCHANGED <<rows, out, counts>>

\* Mutant: the run is resumed from its first step.
LoadNoSteps(p) ==
    /\ pc[p] = "load_steps"
    /\ Goto(p, "head")
    /\ UNCHANGED <<rows, memory, out, counts>>

LoadSteps(p) ==
    /\ pc[p] = "load_steps"
    /\ Goto(p, "head")
    /\ \/ Stored(runId[p]) = {} /\ UNCHANGED memory
       \/ \E last \in Stored(runId[p]) :
             /\ \A i \in Stored(runId[p]) : i <= last
             /\ Begin(p, runId[p], last + 1, stored[runId[p]][last])
    /\ UNCHANGED <<rows, out, counts>>

StartAgentRun(p) ==
    /\ pc[p] = "start"
    /\ runStatus' = [runStatus EXCEPT ![p] = "running"]
    /\ latest' = p
    /\ Goto(p, "head")
    /\ Begin(p, p, 0, <<>>)
    /\ UNCHANGED <<stored, analyses, out, counts>>

\* analyze-clause never stores a finding: it is the one that analyze stored,
\* if it did.  The ids are random, so that ORDER BY id takes any row, and a
\* failed row has no risk level.
GetStoredFinding(p) ==
    /\ pc[p] = "finding"
    /\ \/ analyses = {} /\ Leave(p, "error")
       \/ "ok" \in analyses /\ Leave(p, "finding")
       \/ "failed" \in analyses /\ Leave(p, "no risk")
    /\ UNCHANGED <<rows, counts>>

\* The response and what the tools make of it.
Complete(p) ==
    /\ pc[p] = "head" /\ step[p] < AgentSteps
    /\ \E t \in Turn : msgs' = [msgs EXCEPT ![p] = Append(@, t)]
    /\ calls' = [r \in Procs |-> IF r = runId[p] THEN calls[r] + 1 ELSE calls[r]]
    /\ Goto(p, "append")
    /\ UNCHANGED <<rows, runId, step, out, cuts>>

\* Mutant: a step that submits is followed by the next one.
AppendAgentStepOn(p) ==
    /\ pc[p] = "append"
    /\ \/ /\ runId[p] # "unsaved"
          /\ stored' = [stored EXCEPT ![runId[p]][step[p]] = msgs[p]]
          /\ UNCHANGED cuts
       \/ runId[p] = "unsaved" /\ UNCHANGED <<stored, cuts>>
       \/ /\ "lost step" \in Faults /\ cuts < MaxCuts
          /\ cuts' = cuts + 1
          /\ UNCHANGED stored
    /\ step' = [step EXCEPT ![p] = @ + 1]
    /\ Goto(p, "head")
    /\ UNCHANGED <<runStatus, latest, analyses, runId, msgs, out, calls>>

\* An upsert, which fails for an id without a row.
AppendAgentStep(p) ==
    /\ pc[p] = "append"
    /\ \/ /\ runId[p] # "unsaved"
          /\ stored' = [stored EXCEPT ![runId[p]][step[p]] = msgs[p]]
          /\ UNCHANGED cuts
       \/ runId[p] = "unsaved" /\ UNCHANGED <<stored, cuts>>
       \/ /\ "lost step" \in Faults /\ cuts < MaxCuts
          /\ cuts' = cuts + 1
          /\ UNCHANGED stored
    /\ step' = [step EXCEPT ![p] = @ + 1]
    /\ Goto(p, IF Submits(p) THEN "submitted" ELSE "head")
    /\ UNCHANGED <<runStatus, latest, analyses, runId, msgs, out, calls>>

\* Mutant: an agent without a step left returns without finishing its run.
ExhaustStepsUnfinished(p) ==
    /\ pc[p] = "head" /\ step[p] = AgentSteps
    /\ Leave(p, "max_steps")
    /\ UNCHANGED <<rows, counts>>

\* The loop is over, or was not entered at all.
ExhaustSteps(p) ==
    /\ pc[p] = "head" /\ step[p] = AgentSteps
    /\ Goto(p, "max_steps")
    /\ UNCHANGED <<rows, memory, out, counts>>

FinishAgentRun(p) ==
    /\ pc[p] \in {"submitted", "max_steps"}
    /\ \/ /\ runId[p] # "unsaved"
          /\ runStatus' = [runStatus EXCEPT ![runId[p]] = pc[p]]
          /\ UNCHANGED cuts
       \/ runId[p] = "unsaved" /\ UNCHANGED <<runStatus, cuts>>
       \/ /\ "lost finish" \in Faults /\ cuts < MaxCuts
          /\ cuts' = cuts + 1
          /\ UNCHANGED runStatus
    /\ Leave(p, IF pc[p] = "submitted" THEN "finding" ELSE "max_steps")
    /\ UNCHANGED <<latest, stored, analyses, calls>>

\* analyze has run the clause's other agent, the one of AnalysisPool.
SaveAnalysis ==
    /\ \E a \in {"ok"} \cup {f \in {"failed"} : "failed row" \in Faults} :
          a \notin analyses /\ analyses' = analyses \cup {a}
    /\ UNCHANGED <<runStatus, latest, stored, pc, memory, out, counts>>

Step(p) == \/ LoadRun(p) \/ LoadSteps(p) \/ StartAgentRun(p) \/ GetStoredFinding(p)
           \/ Complete(p) \/ AppendAgentStep(p) \/ ExhaustSteps(p) \/ FinishAgentRun(p)

Next == \/ \E p \in Procs : Start(p) \/ Step(p) \/ Cut(p)
        \/ SaveAnalysis

Spec == Init /\ [][Next]_vars

\* A process that runs takes its next step (every call returns or times out),
\* and the user runs the command again.  Cuts are finitely many: MaxCuts.
FairSpec == Spec /\ \A p \in Procs : WF_vars(Step(p)) /\ WF_vars(Start(p))

-----------------------------------------------------------------------------
(* What durability means *)

MemoryComplete(p) == Len(msgs[p]) = IF pc[p] = "append" THEN step[p] + 1 ELSE step[p]

\* A stored step carries the turn of every step up to it, although rows in
\* between may be lost, and an agent that goes on, resumed or not, has the
\* turn of every step before: nothing is asked of the LLM without its past.
HistoryComplete ==
    /\ \A r \in Procs, i \in StepIndex : stored[r][i] # <<>> => Len(stored[r][i]) = i + 1
    /\ \A p \in Procs : MemoryComplete(p)

\* An agent resumes a run that exists and stores a step within the limit.
LabelsAgree(p) == /\ pc[p] = "append" => step[p] < AgentSteps
                  /\ pc[p] = "load_steps" => runId[p] # "unsaved"

AgentInv == TypeOK /\ HistoryComplete /\ \A p \in Procs : LabelsAgree(p)

(* With one process at a time *)

\* README: "It does not re-run completed steps or re-bill for work already
\* done": a run costs one call per step and one more for each cut, be it that
\* the process ended with a step unsaved or that the step could not be saved.
CallsBounded == \A r \in Procs : calls[r] <= AgentSteps + cuts

\* A run that was left running is resumed and brought to an end.
RunFinishes == \A r \in Procs : runStatus[r] = "running" ~> runStatus[r] # "running"

\* README: "It does not re-run completed steps": no step is asked of the LLM for
\* a run that has its row, and none for a clause whose run has submitted.  A run
\* that ended in max_steps is started again from its first step, but under an id
\* without a row.
NothingAskedTwice ==
    \A p \in Procs : pc[p] = "append" =>
        /\ runId[p] # "unsaved" => stored[runId[p]][step[p]] = <<>>
        /\ latest # "unsaved" => runStatus[latest] # "submitted"

\* The step that submits is stored before the run is finished; a run that is cut
\* in between, or whose status is lost, is resumed behind its submission, which
\* is never looked at.  Each cut costs one submission at most, and without a cut
\* no submission is passed over.
SubmissionsPassed ==
    \A p \in Procs : pc[p] = "head" =>
        Cardinality({i \in DOMAIN msgs[p] : msgs[p][i] = "submit"}) <= cuts
=============================================================================
