# TLA+ models of the contract review agent

The program is a Go command line tool that takes a contract in PDF through a
pipeline: its text is extracted, an LLM splits it into clauses, one agent per
clause analyses its risk, a reviewer may decide on every clause, and an LLM
writes a report.  All state is kept in PostgreSQL, so that a command may be
killed and another one take over.  This directory holds TLA+ modules of the
parts where order, failure and concurrency matter, TLC configurations that
check them, and proofs for TLAPS.  Paths below are relative to the repository.

## Inventory

| part | state | operations | what is hard | what makes it correct |
|---|---|---|---|---|
| **contract pipeline** (`main.go`, `pipeline/`) | rows of `contracts`, `clauses`, `clause_analyses`, `reviews`, `summaries`; the file `summary_<id>.md`; what each command holds in local variables | `process`, `extract`, `extract-clauses`, `analyze`, `review`, `resume`, `summarize` | every command reads the status, works and writes the status, without a transaction around them; it may die at any step; several may run | the status is true; nothing is lost, paid twice or reported without review; the contract reaches its report |
| **clause analysis pool** (`pipeline/analyze.go`, `agent/budget.go`, `cost/`) | goroutines, one `Budget` behind a mutex, totals behind another, an errgroup with a limit | dispatch, the steps of each agent, `Record`, `Exceeded`, `SaveAnalysis`, `Wait` | check-then-act on the budget by several agents, failing calls and rows, a signal in the middle | limits are kept up to a known overshoot, every clause is accounted for, the run ends |
| **durable agent run** (`agent/agent.go`, `store/postgres.go`) | rows of `agent_runs`, `agent_steps`; the message history | load, start, call, append a step, finish, answer from the store | death between a call, its row and the end of the run; store errors that are discarded; two processes on one run | a resumed history is complete, calls are repeated only for what was lost |
| **analysis stage** (`pipeline/analyze.go`, `runAnalyze`) | `contracts.status`, the rows of `clause_analyses` | check, mark, filter, pool, complete; run again | a signal or a crash between any two of them, a pool that goes on after the signal, a budget that starts anew | no clause is paid for twice, the status is set only when every clause has a row |
| **review session** (`RunReview`) | the rows of `reviews`; what was read of the input | read a decision, a note, the decision after it; save | one stream of lines with two meanings, its end, a signal that no read looks at | the rows are what was typed, clause by clause |
| **context manager** (`agent/context.go`, `tokens/`) | none: a function of the history, with an LLM call inside | `Prepare` | cuts a history by distance from its end; an LLM call that may fail | what is sent is a valid history within the window |
| **retrying LLM client** (`llm/retry.go`, `llm/factory.go`) | attempt counter | `Complete` | time-outs of calls that were billed, wrapped errors, cancellation | bounded attempts, an answer or a reason |
| **LLM adapters** (`llm/openai.go`, `llm/anthropic.go`) | none | `Complete` | two readings of one history | the provider sees what the agent wrote |
| **store** (`store/`, `query/`, `migrations/`) | the tables | one query per operation, one transaction (`SaveClauses`) | unordered reads, `UNIQUE` constraints, upserts | - |
| agent tools, prompts, PDF, configuration, logging | none or read-only | | | pure translations |
| `status`, `trace`, `--dry-run` | none | print | | change nothing |
| `store/db` (generated), `store/fake.go`, `llm/fake.go` | | | | generated; test doubles |

The parts meet in three places.  Commands meet in the rows of the store only:
there is no lock, no compare-and-set and no lease.  `analyze` (also as a stage
of `process`) starts a pool, whose agents meet in the budget, in the totals and
in the context that a signal cancels.  `analyze-clause` runs one agent **with**
a store; the agents of the pool have a budget and **no** store, so that no
agent in the program has both.

The hazards of each part, with the line where they bite and the properties that
look after them, are listed in `PROJECT.json` under `hazards`.

## Modules

| module | models | proofs |
|---|---|---|
| `Pipeline` | the commands of `main.go` and the stages of `pipeline/` on one contract | `PipelineProofs`, `SerialProofs` |
| `ReviewWorkflow` | what the pipeline promises, without statuses, processes or stages; implemented by `Pipeline` | `WorkflowProofs` |
| `AnalysisPool` | one `AnalyzeClauses` with its agents and their shared budget | `AnalysisPoolProofs` |
| `AgentRun` | `Agent.Run` with its store, on the rows of one clause | `AgentRunProofs` |
| `AnalysisStage` | `AnalyzeClauses` around that pool, run again and again; implements the stage of `Pipeline` | `AnalysisStageProofs` |
| `LLMCall` | what a caller of `llm.LLM` relies on; implemented by `RetryingLLM` | `ConversationProofs` |
| `RetryingLLM` | one call of `RetryingLLM.Complete` | `ConversationProofs` |
| `Conversation` | `Agent.Run` with its `ContextManager`, on top of `RetryingLLM`, and the adapters | `ConversationProofs` |
| `ReviewSession` | `RunReview` line by line; implements the review stage of `Pipeline` | `ReviewSessionProofs` |
| `MCPipeline`, `MCAnalysisPool`, `MCAgentRun`, `MCAnalysisStage` | the instances for TLC; the other modules are run as they are | |

`Agent.Run` appears in three modules, each with what its questions need:
`AnalysisPool` has many agents and the budget, `AgentRun` one with its rows,
`Conversation` one with its messages.  No agent of the program has a store and
a budget at once, and neither looks into a message.

### Pipeline

Each element of `Procs` is an operating-system process that can run a command.
`pc` says which store access comes next, `cmd` which command runs, `todo` and
`view` hold what was read: the clauses still to handle, the findings and
decisions to be shown or reported.  **One action is one store access**
(`GetContract`, `UpdateContractStatus`, `SaveReview`, ...) together with the
decision the code takes on it.  A read that cannot go stale is merged with the
next step: the clauses are stored at most once (`UNIQUE (contract_id,
sequence_number)`, one transaction), so `GetClauses` has no step of its own.

- `UpdateContractStatus` overwrites, as the `UPDATE` does: nothing compares
  with the status that was read.
- `Abort` may end a command before any of its steps and stands for a crash, for
  SIGINT and for every error return: none of them writes anything more.
- `Shown` is the set of findings a reader may end up with.  `GetAnalyses` has
  no `ORDER BY` and the readers build a map in which the last row of a clause
  wins, so each row of the clause is possible; a failed row reads as "unknown".
- `AnalyzeClause` is the whole run of one agent as the other commands see it:
  a row more for the clause, or a lost one.  `AnalysisPool` is what is inside.
- `SummarizeDecisions` reads the reviews **again**: it is not the read that
  `RunResume` based its check on.
- `Commands` are command lines, as far as they differ: `process` comes without
  `--review`, with it before the path and with it behind.  `ReviewFlag` is what
  `fs.Parse` makes of them (`main.go:97`): it stops at the first argument that is
  no flag, so that the last form, the one of the usage text and of this
  repository's README, is one without the flag.  `CreateContract` stores what was
  parsed, and the same value decides in `PostSet`.
- A command that is refused (wrong status) and one that is done both `Exit`;
  the messages they print are left out.

Left out: `RunExtractContract`, which no command calls; the flags of
`summarize`; the wording of the report, which is modelled as one entry (finding
and decision) per clause; the input loop of `RunReview`, which is `ReviewSession`.

### ReviewWorkflow

Four variables: whether the contract is gated, its clauses, the decisions taken
on each, and what was published of each.  `Pipeline` maps its stored report to
`published` and its rows to the others.  The point of the refinement is that it
forbids what the invariants do not mention: a decision on an ungated contract, a
decision that disappears, a second list of clauses, a published decision that no
reviewer took.

### AnalysisPool

`phase` is where the goroutine of each clause is: queued, at the head of the
loop of `Agent.Run`, before the budget check, in the call, about to store the
outcome, done.  The loop is cut where agents meet: everything between two
points happens in one goroutine's memory.  `usedTokens`, `usedCost` and
`usedSteps` are the `Budget`; `billed` is what the provider charges, recorded or
not.  A call is a pair of input and output tokens, priced apart as in
`cost/pricing.go`; `ModelKnown` says whether the table has the model.  Two things
are charged and not recorded.  One `Complete` may send `Retries + 1` requests
(`llm/retry.go:39`), and one that timed out may have been charged: `Bill` adds
anything up to `Retries` such requests to an answer, and up to all of them to a
call that fails.  `Prepare`, which comes **before** the check of the budget, may
have the summarizer called: it adds anything up to `Condensing`.  `Unseen` is what
both can come to, and part of the bound of `CostOvershoot`.
`stop` is `Result.Stop`, or "error" for a run that returned an error
("cancelled" is always returned with one).

### AgentRun

The rows: `runStatus` (`agent_runs.status`), `latest` (the row `LoadAgentRun`
takes, the one with the latest `started_at`), `stored` (`messages_json` of each
step) and `analyses` (the rows of `clause_analyses`, which only `analyze`
writes).  The memory of a process: `runId`, `step`, `msgs`.  A history is a
sequence of turns; a turn is a valid submission or anything else, which covers
tool calls, rejected submissions and prose, all of which go on to the next step.
`LoadAgentRun` is two queries and therefore two actions.  The errors of
`AppendAgentStep` and `FinishAgentRun` are discarded by the code (`_ =`): the
faults "lost step" and "lost finish".  A crash or a failed call ends the process
(`Abort`).  A signal only cancels the context: `Signal` is the rest of the process
at once, since nothing that it still does reaches the rows.  It prints the
submission or the lack of one if it had got that far, although the step and the
end of the run are lost, and otherwise ends where it next looks at the context.
Each of the four counts as one of `cuts`.

### AnalysisStage

Extends `AnalysisPool`, whose variables are the memory of the process, with the
rows that outlive it: `status` and `saved`, the results that each clause has in
`clause_analyses`.  `Check`, `Mark`, `Filter` and `Complete` are the store
accesses of `AnalyzeClauses`, `PoolStep` is any step of the pool.  `Filter`
resets the pool, as a new process with a new `Budget` does; `earlier` counts the
steps that pools before were billed.

- `Interrupt` is SIGINT: the context is done, every store access fails from then
  on, and the pool still runs to its end, with its agents cancelled.  `Crash`
  takes the process at once.  `Fail` is the error return of the command.
- `GetClauses` is merged with `Mark` as in `Pipeline`.
- `ImplementsStage` maps a running pool to the label `an_agents` of `Pipeline`,
  with the clauses that are not done as its `todo`, and a signal to an `Abort`
  at once: what the pool still does is not seen in the database.  Of the faults
  of the pool, "lost row" is one of `Pipeline`, too; a call that fails is its
  "no finding".  The five
  actions of `Pipeline` therefore stand for all that goroutines, budgets, calls
  and signals do; this composes the two modules.

### RetryingLLM and LLMCall

`call` is where `Complete` is: at the head of its loop, in a request, in the
sleep between two, or what it returned.  A request fails for any reason at any
time, which covers its time limit.  The adapters wrap their errors with
`fmt.Errorf`, so that the type assertion on `*PermanentError` fails for them:
of the two `Errors`, only "wrapped" occurs with the adapters of this program.
`delay` is in the unit of `LLM_RETRY_BASE_MS`: `Backoff` is `baseDelay*(1<<attempt)`,
`Jitter` the random part, and `Duration` wraps around behind `MaxDuration`, as
`time.Duration` does.
The `select` between the timer and the context is a choice when both are ready.
`LLMCall` is the promise, without attempts or delays; `CallKept` says that the
call of `RetryingLLM`, used by an agent, keeps it, and `ConversationEnds` that it returns.

### Conversation

`msgs` is the history: for each message its kind, its size, the calls it makes
and the call it answers.  One unit stands for tokens and runes.  `BeginStep`,
`Condensed`, `Respond` and `Stop` are the pieces of one turn of the loop between
its LLM calls, of which there may be two: the one of the step and, before it,
the one that summarizes.  Both run through the actions of `RetryingLLM`.

- `Cut` is the index arithmetic of `split`, with the prompt as the one pinned
  message; `Shortened`, `Summarized`, `WithoutMiddle` and `Fitting` are the four
  results of `Prepare`.
- A truncated result is longer than the limit by the marker, as in the code.
- `Respond` appends what the response leads to: a nudge, results in the order of
  the calls and the reminder before the last step, or nothing after a valid
  submission.  A rejected submission has a result like any tool, and so has a
  failing or unknown one.
- `Converted` is what the adapter sends: `toOpenAIMessages` keeps all there is,
  `SplitSystem` loses the calls and the results.

### ReviewSession

`rest` holds the lines that were not read yet; a line is one of the four that
`ParseDecision` tells apart.  `prompt`, `note` and `final` are the three reads of
the loop, `save` is before `SaveReview`.  At the end of the input `ReadString`
returns no line and an error that is dropped: at `prompt` and `final` the code
then loops for ever, which is a state without a step (the loop changes nothing),
at `note` the annotation is empty.  `Signal` cancels the context; only the store
looks at it.  `Meaning` says independently of the labels what a sequence of lines
decides, and `DecisionsAsTyped` compares it with the rows.

## Runs

`Faults` names in every module what may go wrong; a run states which of it.

| run | asks | instance |
|---|---|---|
| `pipeline_serial` | one command after the other, each possibly cut short: `StatusForward`, `ReportMatchesReview`, and `ResumableStagesAdvance` under fairness | 1 process, 3 clauses |
| `pipeline_concurrent` | two commands at a time: `DataBehindStatus`, `AnalysisBehindStatus`, `ReviewGate`, `DecisionsReported`, the inductive invariant `IInv`, and `ImplementsWorkflow` | 2 processes, 2 clauses, 1 risk |
| `pool_limits` | `PoolInv`, the overshoot of each limit, `TotalsComplete`, `RowsTellTheOutcome`, `HalfDoneBounded`, and `RunEnds` under fairness | 3 clauses, 2 agents, 2 steps each, limits of 4 steps, 15 tokens and 3 dollars, 1 retry, a condensed history for 1 dollar at most |
| `agent_concurrent` | `AgentInv` with two processes on one run | 2 processes, 2 steps, 1 cut |
| `agent_resume` | `CallsBounded`, `NothingAskedTwice`, `SubmissionsPassed`, and `RunFinishes` under fairness | 1 process, 4 steps, 3 cuts |
| `conversation` | what is sent: `PairsKept`, `RequestFits`, `RecentKept`, `LastCallAnnounced`; what it costs: `CallKept`, `BackoffGrows`; `ConversationEnds` under fairness | 5 steps, 2 calls each, 2 retries, a window of 10 that condenses at 8 |
| `stage_rerun` | `StatusHonest`, `PaidOnce`, `LossBounded`, `StepsAcrossRuns`, `ImplementsStage`, and `AnalysisCompletes` under fairness | 3 clauses, 2 agents, 2 steps each, a limit of 3 steps per run, 2 cuts |
| `review_session` | `DecisionsAsTyped`, `InOrderOnce`, `ImplementsReview`, and `SessionEnds` under fairness | 3 clauses, 4 lines, 2 sessions |

Why these bounds.  Two clauses are the least with which a contract can be half
reviewed or half analysed; with three a command can be cut short twice within
one stage.  One risk level and the outcome "failed" make findings differ; the
levels themselves matter to the report only (`pipeline_high_risk` has two).
Two processes give every pair of commands in every interleaving; an
interference needs one that has read and one that writes.  Three clauses with
two agents make a queue, a full pool and an agent that starts while another is
in its call.  The two calls of `MCCalls` are a long prompt, and a short one with
an answer, which alone costs a unit of money: which limit is reached first depends
on which calls are made, and each of the three is reached alone in some behaviour.
In `AgentRun` two steps are the least with a stored step before a lost
one, four steps and three cuts let a run be resumed in the middle several times.
In `conversation` results of size 5 are truncated to 4, and with `KeepRecent = 3`
a response with two results fills the recent part, so that the cut falls between
a call and its result as well as in front of it; summaries of size 3 can be too
large for the window and of size 1 not; all four results of `Prepare` occur, one
after the other.  Two retries are the least with a sleep that follows a sleep,
and `MaxDuration = 7` has room for them; with 4 the second sleep may wrap around, and
`BackoffGrows` does not hold.
Two cuts in `stage_rerun` make three runs, of which the second is cut short
again.  Four lines hold a note with its decision and one decision more, or three
decisions and an error; two sessions are a resumed one.
`stage_rerun` leaves the bill out (`Retries`, `Condensing` and the prices are 0): its
questions are about steps and rows.
`MaxClauses`, `Calls`, `Condensing`, `MaxCuts`, `MaxCalls`, `PromptSize`, `ResultSizes`, `SummarySizes`, `MaxLines` and `MaxSessions` are the bounds of the
models; `Concurrency`, `AgentSteps` and the limits are settings of the program,
with small values.  The runs of the pool, the conversation and the review session
are checked without deadlock detection: `g.Wait` returns, the agent ends, and the
last session is over or waits for input that does not come.  Processes are interchangeable: `SYMMETRY` is
used where only safety is checked, and `ImplementsWorkflow` has no liveness part.

The safety properties of `pipeline_serial`, and `InOrderOnce` and `PaidOnce`, are
**not** true of commands that overlap, and the code does not say they are: a stale
`analyze` sets a contract back that is past it, two reviewers decide twice, two
analyses pay twice.  What holds
then, too, is the list of `pipeline_concurrent`.

### What the runs that end in a counterexample show

| run | the text | the code |
|---|---|---|
| `pipeline_crash_stuck` | README.md:10-11, crashes do not lose work | `extracting`, `analyzing_clauses` and `summarizing` are refused by every stage, and `process` always makes a new contract; likewise a contract that `analyze`, as a command, brought to `analyzed`: only `process` goes on from there |
| `pipeline_high_risk` | README.md:28, every high-risk clause | a failed row of the same clause may hide it (two overlapping `analyze`) |
| `conversation_anthropic` | README.md:136, the providers can be swapped | `splitSystem` drops every tool result and the calls of the assistant: an agent of Anthropic never sees what a tool said |
| `pipeline_review_flag` | README.md:151-152 and `main.go:81`, `process <path> --review` pauses after the analysis | `fs.Parse` stops at the path: the flag is not seen, and the report is written with nobody asked |

Further places where the text and the code part:

- README.md:124, a clause over the limit does not start: the check is made
  before every step, so that clauses are stopped in the middle, billed and without
  a finding.  `HalfDoneBounded` says how many.
- README.md:12, tokens and dollars are tracked: the call that condenses a history
  is not, nor is a request that timed out and was repeated.  `CostOvershoot` says
  by how much the bill may pass the limit because of that.
- README.md:115, the risk level is a required field: a run that was submitted is
  answered with the row of `clause_analyses` that has the greatest random id
  (`store/postgres.go:416`), which `analyze` may have stored for a failed agent.
  `runAnalyzeClause` then dereferences a nil `RiskLevel` (`main.go:406`); in
  `AgentRun` it is the output "no risk".
- A finding is printed and stored nowhere when the agent works under an id without
  a row, after a run that ended in `max_steps`, or after a signal: `analyze-clause`
  never writes `clause_analyses` (`agent/agent.go:77`).
- README.md:121, completed steps are not re-run: those of a run that ended in
  `max_steps` are, under an id without a row (`agent/agent.go:95`), and none of
  them is stored again: `NothingAskedTwice`.
- README.md:10, crashes do not lose work: a submission stored just before a crash
  is resumed behind, and never looked at (`agent/agent.go:206`).
  `SubmissionsPassed` says when that is possible.
- README.md:10, again: a decision typed after Ctrl-C is lost, since the reads do
  not look at the context and the store refuses it (`pipeline/review.go:132`); at
  the end of the input `review` asks for ever and cannot be interrupted.
- README.md:12, the limits are those of one process: each `analyze` starts with a
  new `Budget` (`main.go:292`), so that a contract may cost the limit as often as
  it is run again: `StepsAcrossRuns`.
- README.md:13 and 130, recent turns are never evicted: the cut counts messages
  and not turns, so that a result may stay without the call it answers
  (`PairsKept` allows that in one place); and what is pinned may be larger than the
  window, in which case it is sent as it is (`RequestFits`).  With an empty middle
  a summary of nothing is requested in every step.
- `.env.example:14`, retries are for transient errors: the adapters wrap all of
  theirs, so that a wrong key is tried as often as an overloaded server; and
  `LLM_MAX_RETRIES=0` means 3 (`llm/factory.go:21`).
- A tool result of 501 to 518 runes gets longer by being truncated
  (`agent/context.go:88`); `AGENT_KEEP_RECENT=0` condenses the reminders away that
  `LastCallAnnounced` is about; a negative one makes `split` panic.  None of these
  values is refused by `config`.

- README.md:163, a stored report is printed: only when the status got to `done`,
  three steps after the report was stored (`pipeline/summarize.go:97`).  Before
  that the contract is one of those that `pipeline_crash_stuck` is about.
- README.md:337, `analyzed` means that all clauses are done: an error of
  `SaveAnalysis` is logged and forgotten (`pipeline/analyze.go:147`); with the
  fault "lost row" `AnalysisBehindStatus` does not hold, which is why
  `pipeline_concurrent` leaves that fault out.
- README.md:136, enforcement is accurate for every model: one without a price
  costs nothing (`cost/pricing.go:17`), and the name looked up is the one in the
  provider's answer.  `CostOvershoot` is about models that have one; nothing limits
  the bill of the others.
- README.md:10, every agent step is written: not those of `analyze`, whose
  agents are given no store (`pipeline/analyze.go:97`).
- `AGENT_MAX_TOKENS` and `AGENT_MAX_COST_USD` (`.env.example:28-31`) are read by
  `config` and used by nothing.

## Fairness

- `Pipeline`: `WF(Step(p))`, a command that runs takes its next step: store
  calls return, LLM calls time out (`llm/retry.go`, an error is an abort), the
  reviewer answers.  `SF(Start(p, c))` for the commands that take a contract id:
  a user who waits for a report runs them again and again.  It is strong
  fairness because a command can only start while no other runs in the process.
  The liveness properties assume that aborts come to an end (`NoMoreAborts`):
  no program makes progress against a user who always kills it.
- `AnalysisPool`: weak fairness of each agent, and of the goroutine that dispatches
  them and then waits: goroutines are scheduled and calls return.  No call is assumed to
  succeed and no agent to submit.
- `AgentRun`: weak fairness of the steps of a process and of starting it again.
  Aborts need no assumption, `MaxCuts` bounds them.
- `AnalysisStage`: weak fairness of the steps of the command, whichever is
  possible, and of running it again.  `AnalysisCompletes` needs nothing else: cuts
  are bounded, and a pool may end with failed clauses and still completes.
- `Conversation`: weak fairness of the agent as one process: a request is answered
  or fails within its time limit, and a sleep ends.  Signals need none.
- `ReviewSession`: weak fairness of the steps of the session.  `SessionEnds` asks
  for lines enough; how many are enough is computed from the lines alone.

## Proofs

TLAPS proves the following for all values of the constants, under the named
`ASSUME`s of the modules (sizes are natural numbers, sets of processes are not
empty, the sizes of calls have a maximum).

**`PipelineProofs`.** `TypeCorrect`, `Invariance`, and from these
`DataFollowsStatus`, `GateHolds` and `ReportsDecisions`.  None of the three
properties is inductive: a process that is about to set `clauses_extracted` may
do so only because the clauses are there, which it learnt steps ago, and others
have run since.  `IInv` records what a process may rely on at each label:

- `ProcessInv`: who runs which command; a `process` that still works on its
  contract has in memory what is in its row, whether a review is required;
- `StageInv`: past a label the text, or the clauses, are stored - a status was
  read, and both are never removed;
- `GateInv`: at `res_set` and behind the gate every clause has a review.  It
  needs that reviews are only added and that the clauses do not change once
  they exist;
- `ReportInv`: a report in memory, in the table or in the file lists the
  clauses there are;
- `DecisionInv`: what was read after the gate carries a decision per clause.

The proof has one lemma per stage and per conjunct the stage can disturb.

**`WorkflowProofs`.** `WorkflowImplemented`: every step of a process is a step of
`ReviewWorkflow` or a stutter.  `StepStores` sorts the steps by what they change:
all but seven touch the status at most.  Of those seven the hard one is
`SaveSummary`, which publishes what was read several steps before: `HeldInv` says
that every decision a process holds is still in the table, and `Ungated` that a
contract without a gate is never under review.  `RowsBehindStatus` shows
`AnalysisBehindStatus` under the hypothesis `StoreWorks`, that "lost row" is not
among the faults: an error of `SaveAnalysis` is logged and the status set all the
same, so that it is false otherwise.

**`SerialProofs`.** What holds as long as commands run one at a time, a hypothesis
of the theorems (`OneProcess`), since it does not hold of commands that overlap; the
number of clauses, of commands and of aborts is any.  `StatusOnlyForward` rests on
`LabelInv`: with nobody else, the status at each label is the one that the command
found or wrote.  `ReportTellsReview` needs the longest invariant of the project:
a clause behind a gate has one row at most (`OnceInv`), so that every reading of
`clause_analyses` shows the same finding; it is the one that the reviewer saw
(`SeenInv`) and that the report has beside the decision (`MatchInv`).

**`AnalysisPoolProofs`.** `PoolBounded` is inductive as it stands.
`StepsBounded`, `TokensBounded` and `CostBounded` count the calls in flight:
passing the check means that less than the limit is **recorded**, and at most
`Concurrency - 1` other agents are in a call, each with at most one.  The sum
over the recorded calls and the ones in flight is what does not exceed the
bound, so the invariants speak of it and not of the recorded calls alone.
`CallStep` says what a step does to both, `Overshoot` is the arithmetic that
tokens and dollars share.  `CostBounded` speaks of what the provider charges.  Its
invariant splits the bill into what was recorded and what was not: the first is
bounded as tokens are, the second by `Unseen`, which is charged per call, per agent
that has prepared a call and per agent that failed.  `UnseenKept` shows that no
step charges more than it moves the counts (`BillStep`, `UnseenGrows`); once the
limit is reached an agent can condense its history once more and no call begins,
so that the counts of agents are enough.
`FewHalfDone` follows the clauses that a limit has stopped or may still stop: up to
the moment it is reached they are agents that run, and after it none is added.
`RowsTell` follows the outcome of an agent from its last step to its row.
`TotalsAddUp` says what the totals are at **every** moment, while some goroutines
have added theirs and some have not (`TotalsInv`); counting those that have is why
the proof needs cardinalities.

**`AgentRunProofs`.** `HistoriesComplete`: every stored history has one turn per
step up to its own, and every history in memory one per step before, for any
number of processes that resume, overwrite and lose each other's rows.  It is
inductive with `LabelsAgree`, which says that a step is stored within the limit
and resumed from a run that exists.  `CallsPaid`, `AskedOnce` and `PassedOnlyAtCuts`
are about one process at a time (`OneProcess`): two of them ask for the same steps
and overwrite each other.  `SoloInv` says that the one row is that of the process,
which works on it only until it has submitted and only behind its stored steps; `PaidInv` that each call
but one per cut has its row; `PassedInv` that each cut leaves one submission at most
behind, whichever of the four kinds it is.  `PassedOnlyAtCuts` does not say that a
stored submission is what is printed: a run that was finished is answered from
`clause_analyses`, which knows nothing of it.

**`AnalysisStageProofs`.** `AnalyzedHonest`, under the assumption that the
store does not fail: `SaveAnalysis` only logs a row that was lost, and the
status is set all the same.  `StatusHonest` is not inductive: that the status
may be set is known from what each goroutine stored before it ended, which
`DoneStored` says of a pool whose context is alive.  `StepsAcross` rests on
`StepsKept`, the lemma behind `StepsBounded`, since a step of the pool inside the
stage is a step of `AnalysisPool`.  Its invariant bounds what the runs before the
last were billed, because the pool itself starts from nothing.  `FindingPaidOnce`
needs that a clause with a finding has no goroutine, in the pools of crashed
processes too.  `LossLimited` is the counterpart of `FewHalfDone` for signals and
crashes, and assumes like `AnalyzedHonest` that the store works.
`StageIsAnalyze` is the refinement: for any number of goroutines, calls, signals
and runs, with rows lost or not, a step of the stage is one of the `analyze` command
of `Pipeline` or is not seen.  It needs `PaidInv` (what the pool has
stored is in the table, and a clause with a finding has no goroutine) and `WaitedInv` (`Complete` comes after the last goroutine).

**`ReviewSessionProofs`.** `DecidedInOrder`, from types (`TypeCorrect`), from
`Prepared` (there is a decision when one is stored) and from `Ahead`: a session
asks for exactly the clauses behind the rows.  That holds because the rows are
read before the first question and nobody else writes any; the theorem is about
one session at a time.  What happens when two meet is in `Pipeline`.
`SessionIsReview`: reading lines stutters, the rest is the review of `Pipeline`.
`DecisionsTyped` is the correctness of the input loop for inputs of any length.
`Meanings` is recursive, from the last line to the first, while the loop goes from
the first to the last; `ReadInv` joins the two.  It says of every label that,
**however many** of the lines to come are typed, the input means what is stored,
followed by what it means from the line the label is at (`Follows`).  At `final`
that is a line further back, the one where the note was begun.
The induction over the lines is by a least counterexample (`Least`, from the
first-order theorems of `WellFoundedInduction`): `Partial` carries the recursion out
for the last lines, one more each time, so that `MeaningsDef` gets the function
that the definition describes.

**`ConversationProofs`.** `CallsKept` is a refinement: every step of the agent, of
its `ContextManager` and of the loop of `Complete` is a step of `LLMCall` or
stutters.  `Counted` ties the requests sent to the place in the loop, which is
what bounds them when the call gives up; `Awaited` says that a call runs only
while the agent waits for it, so that a new one never overwrites a promise.
`SleepsLonger`: the sleep before an attempt is below what the next begins with
(`SleepInv`).  It assumes `DelaysFit`, that no delay is beyond `MaxDuration`: with
the default of half a second it holds for up to 35 retries, beyond which the code
sleeps for a negative time, that is not at all.  `Backoff` is recursive and is treated as
`Meanings` is above.
`RecentPinned`, `SentFits`, `LastCallTold` and `CallsPaired` are about histories of
any length.  `Parts`, `ShortenedIs` and `ReplacedIs` say message by message what the
four results of `Prepare` are, `Prepared` is what they have in common.  `CallsPaired`
is for `Provider = "openai"`: what `SplitSystem` makes of a history has neither
calls nor results, so that there is nothing to be paired.

Only checked by TLC: the six liveness properties (`ResumableStagesAdvance`, `RunEnds`,
`RunFinishes`, `AnalysisCompletes`, `ConversationEnds`, `SessionEnds`), since fairness
and `ENABLED` are out of reach of the prover.  Every other property of the passing
runs is a theorem, some under the hypotheses named above.

## Plan

Done, in the order of importance:

1. `Pipeline` and `ReviewWorkflow` with their proofs.
2. `AnalysisPool` with its bounds.
3. `AgentRun` with the completeness of histories.
4. `Conversation`: `ContextManager` in the loop of the agent.
5. `RetryingLLM` and its contract `LLMCall`.
6. `AnalysisStage`: the pool in its stage, shown to implement that of `Pipeline`.
7. `ReviewSession`: the input loop, shown to implement the review of `Pipeline`.
8. The proofs of every safety and action property and of every refinement that
   a run checks.

## Not modelled

The tools, prompts and the PDF extraction translate data and keep no state; a
failure of any of them is an abort, a failing call or an open turn.  Of the
adapters, the schemas, stop reasons and token counts are passed through and left
out.  Which text a tool finds, and how long a token is, is abstracted to a size.
Configuration and logging are read-only or output.  `store/db` is
generated by sqlc.  The fakes serve the tests.  `status`, `trace` and
`--dry-run` only print.  Each is listed in `PROJECT.json` with its reason.

## Running the checks

    tlc -config pipeline_concurrent.cfg MCPipeline
    tlapm PipelineProofs.tla

The module of each configuration is named in `PROJECT.json` under `runs`.
