---------------------------- MODULE AnalysisPool ----------------------------
(***************************************************************************)
(* One run of AnalyzeClauses: a pool of goroutines, one agent per clause,   *)
(* that share one Budget.  An agent's loop is cut at the points where it    *)
(* meets the others: the context check, the budget check, the LLM call and  *)
(* the recording of what the call used.  The clauses are those that         *)
(* clausesNeedingAnalysis returned, in their order.                         *)
(***************************************************************************)
EXTENDS Integers, FiniteSets

CONSTANTS
    NumClauses,     \* how many clauses need analysis
    Concurrency,    \* AnalysisConcurrency, at least 1
    AgentSteps,     \* maxSteps of every agent (defaultMaxSteps)
    MaxTokens,      \* RunMaxTokens, 0 for no limit
    MaxCost,        \* RunMaxCostUSD, 0 for no limit
    MaxSteps,       \* RunMaxSteps, 0 for no limit
    Calls,          \* bound: the input and output tokens that a call may use
    Retries,        \* maxRetries of RetryingLLM
    Condensing,     \* bound: what condensing one history may cost, with its retries
    InPrice,        \* what the provider charges per input token
    OutPrice,       \* and per output token
    ModelKnown,     \* whether the table of cost.Estimate has the model
    Faults          \* what may go wrong, a subset of AllFaults

\* "llm error": Complete fails after its retries.  "signal": the context is
\* cancelled.  "lost row": SaveAnalysis fails.
AllFaults == {"llm error", "signal", "lost row"}

ASSUME SizesAssumption == NumClauses \in Nat /\ Concurrency \in Nat \ {0}
                          /\ AgentSteps \in Nat \ {0}
ASSUME LimitsAssumption == MaxTokens \in Nat /\ MaxCost \in Nat /\ MaxSteps \in Nat
ASSUME PricesAssumption == InPrice \in Nat /\ OutPrice \in Nat /\ ModelKnown \in BOOLEAN

\* What a call uses and what the provider charges for it.
Tokens(k) == k.in + k.out
Cost(k) == InPrice * k.in + OutPrice * k.out

MostTokens == Tokens(CHOOSE k \in Calls : \A l \in Calls : Tokens(l) <= Tokens(k))
HighestCost == Cost(CHOOSE k \in Calls : \A l \in Calls : Cost(l) <= Cost(k))

\* The size of a call is limited: by the context window and max_tokens.
ASSUME CallsAssumption ==
    /\ Calls \subseteq [in : Nat, out : Nat]
    /\ \E k \in Calls : \A l \in Calls : Tokens(l) <= Tokens(k)
    /\ \E k \in Calls : \A l \in Calls : Cost(l) <= Cost(k)
ASSUME UnseenAssumption == Retries \in Nat /\ Condensing \in Nat
ASSUME FaultsAssumption == Faults \subseteq AllFaults

Clause == 1..NumClauses

VARIABLES
    phase,       \* where the goroutine of each clause is
    step,        \* the step of each agent's loop
    stop,        \* why each agent stopped: Result.Stop, or "error"
    usage,       \* Result.Usage of each agent
    usedTokens,  \* Budget.usedTokens
    usedCost,    \* Budget.usedCostUSD
    usedSteps,   \* Budget.usedSteps
    billed,      \* what the provider charges, whether recorded or not
    cancelled,   \* whether the context is done
    rows,        \* the row of clause_analyses that each clause got
    totalTokens, \* totals of the run, under mu
    okCount,
    failedCount,
    finished     \* whether g.Wait has returned

budget == <<usedTokens, usedCost, usedSteps, billed>>
totals == <<rows, totalTokens, okCount, failedCount>>
vars == <<phase, step, stop, usage, budget, cancelled, totals, finished>>

Phase == {"queued", "head", "check", "calling", "saving", "done"}
Stop == {"none", "submitted", "budget", "max_steps", "error"}

TypeOK ==
    /\ phase \in [Clause -> Phase]
    /\ step \in [Clause -> Nat]
    /\ stop \in [Clause -> Stop]
    /\ usage \in [Clause -> Nat]
    /\ usedTokens \in Nat
    /\ usedCost \in Nat
    /\ usedSteps \in Nat
    /\ billed \in Nat
    /\ cancelled \in BOOLEAN
    /\ rows \in [Clause -> {"none", "ok", "failed"}]
    /\ totalTokens \in Nat
    /\ okCount \in Nat
    /\ failedCount \in Nat
    /\ finished \in BOOLEAN

Init ==
    /\ phase = [c \in Clause |-> "queued"]
    /\ step = [c \in Clause |-> 0]
    /\ stop = [c \in Clause |-> "none"]
    /\ usage = [c \in Clause |-> 0]
    /\ usedTokens = 0
    /\ usedCost = 0
    /\ usedSteps = 0
    /\ billed = 0
    /\ cancelled = FALSE
    /\ rows = [c \in Clause |-> "none"]
    /\ totalTokens = 0
    /\ okCount = 0
    /\ failedCount = 0
    /\ finished = FALSE

-----------------------------------------------------------------------------
(* Budget *)

\* Mutant: output tokens at the price of input tokens.
EstimateFlat(k) == IF ModelKnown THEN InPrice * Tokens(k) ELSE 0

\* A model that the table does not have costs nothing.
Estimate(k) == IF ModelKnown THEN Cost(k) ELSE 0

\* Mutant: the limit itself is let through.
ExceededBeyond ==
    \/ MaxTokens > 0 /\ usedTokens > MaxTokens
    \/ MaxCost > 0 /\ usedCost > MaxCost
    \/ MaxSteps > 0 /\ usedSteps > MaxSteps

Exceeded ==
    \/ MaxTokens > 0 /\ usedTokens >= MaxTokens
    \/ MaxCost > 0 /\ usedCost >= MaxCost
    \/ MaxSteps > 0 /\ usedSteps >= MaxSteps

Record(k) ==
    /\ usedTokens' = usedTokens + Tokens(k)
    /\ usedCost' = usedCost + Estimate(k)
    /\ usedSteps' = usedSteps + 1

\* What the provider charges for one Complete: the answer that is returned, if
\* one is, and anything up to so many attempts that brought none.  A request
\* that timed out may be charged, and RetryingLLM keeps the last response only.
Bill(answer, attempts) ==
    \E w \in 0..(attempts * HighestCost) : billed' = billed + answer + w

-----------------------------------------------------------------------------
(* The pool *)

Active == {c \in Clause : phase[c] \notin {"queued", "done"}}

Enter(c, p) == phase' = [phase EXCEPT ![c] = p]

\* Mutant: the group has no limit.
DispatchAll(c) ==
    /\ phase[c] = "queued"
    /\ \A d \in Clause : phase[d] = "queued" => c <= d
    /\ Enter(c, "head")
    /\ UNCHANGED <<step, stop, usage, budget, cancelled, totals, finished>>

\* g.Go takes the clauses in order and blocks while Concurrency of them run.
Dispatch(c) ==
    /\ phase[c] = "queued"
    /\ \A d \in Clause : phase[d] = "queued" => c <= d
    /\ Cardinality(Active) < Concurrency
    /\ Enter(c, "head")
    /\ UNCHANGED <<step, stop, usage, budget, cancelled, totals, finished>>

\* g.Wait: no goroutine returns an error, so it waits for all of them.
Wait ==
    /\ ~finished
    /\ \A c \in Clause : phase[c] = "done"
    /\ finished' = TRUE
    /\ UNCHANGED <<phase, step, stop, usage, budget, cancelled, totals>>

Signal ==
    /\ "signal" \in Faults
    /\ ~cancelled /\ ~finished
    /\ cancelled' = TRUE
    /\ UNCHANGED <<phase, step, stop, usage, budget, totals, finished>>

-----------------------------------------------------------------------------
(* Agent.Run, for the agent of clause c *)

\* The run is over: the goroutine goes on to store its outcome.
StopWith(c, s) == Enter(c, "saving") /\ stop' = [stop EXCEPT ![c] = s]

\* ContextManager.Prepare may have the LLM summarize the middle of a history
\* that is too long.  What that costs is not recorded, whether it returns a
\* summary or fails, so that the middle is dropped.
Prepare == \E b \in 0..Condensing : billed' = billed + b

\* The head of the loop: the context is looked at, then prepared.
BeginStep(c) ==
    /\ phase[c] = "head"
    /\ \/ cancelled /\ StopWith(c, "error") /\ UNCHANGED budget
       \/ /\ ~cancelled
          /\ Enter(c, "check")
          /\ Prepare
          /\ UNCHANGED <<stop, usedTokens, usedCost, usedSteps>>
    /\ UNCHANGED <<step, usage, cancelled, totals, finished>>

\* With a context that is done, Complete fails before it sends anything.
CheckBudget(c) ==
    /\ phase[c] = "check"
    /\ \/ Exceeded /\ StopWith(c, "budget")
       \/ ~Exceeded /\ cancelled /\ StopWith(c, "error")
       \/ ~Exceeded /\ ~cancelled /\ Enter(c, "calling") /\ UNCHANGED stop
    /\ UNCHANGED <<step, usage, budget, cancelled, totals, finished>>

\* Mutant: the step is tried again after an error.
LLMFailsAgain(c) ==
    /\ phase[c] = "calling"
    /\ cancelled \/ "llm error" \in Faults
    /\ Enter(c, "head")
    /\ UNCHANGED <<step, stop, usage, budget, cancelled, totals, finished>>

\* No attempt brought an answer; each of them may have been charged.
LLMFails(c) ==
    /\ phase[c] = "calling"
    /\ cancelled \/ "llm error" \in Faults
    /\ StopWith(c, "error")
    /\ Bill(0, Retries + 1)
    /\ UNCHANGED <<step, usage, usedTokens, usedCost, usedSteps, cancelled, totals, finished>>

\* The call returns and is recorded.  The agent submits a valid finding, goes
\* on, or has used its last step.
LLMReturns(c) ==
    /\ phase[c] = "calling"
    /\ \E k \in Calls : /\ Record(k)
                        /\ Bill(Cost(k), Retries)
                        /\ usage' = [usage EXCEPT ![c] = @ + Tokens(k)]
    /\ step' = [step EXCEPT ![c] = @ + 1]
    /\ \/ StopWith(c, "submitted")
       \/ step[c] + 1 < AgentSteps /\ Enter(c, "head") /\ UNCHANGED stop
       \/ step[c] + 1 = AgentSteps /\ StopWith(c, "max_steps")
    /\ UNCHANGED <<cancelled, totals, finished>>

\* Mutant: only a run that returned an error counts, and is stored, as failed.
SaveAnalysisErrorsOnly(c) ==
    /\ phase[c] = "saving"
    /\ Enter(c, "done")
    /\ \/ /\ ~cancelled
          /\ rows' = [rows EXCEPT ![c] = IF stop[c] = "error" THEN "failed" ELSE "ok"]
       \/ (cancelled \/ "lost row" \in Faults) /\ UNCHANGED rows
    /\ totalTokens' = IF stop[c] = "error" THEN totalTokens ELSE totalTokens + usage[c]
    /\ okCount' = IF stop[c] = "error" THEN okCount ELSE okCount + 1
    /\ failedCount' = IF stop[c] = "error" THEN failedCount + 1 ELSE failedCount
    /\ UNCHANGED <<step, stop, usage, budget, cancelled, finished>>

\* The goroutine stores the row, which is lost when the context is done, and
\* adds to the totals; the usage of a run that returned an error is unknown.
SaveAnalysis(c) ==
    /\ phase[c] = "saving"
    /\ Enter(c, "done")
    /\ \/ /\ ~cancelled
          /\ rows' = [rows EXCEPT ![c] = IF stop[c] = "submitted" THEN "ok" ELSE "failed"]
       \/ (cancelled \/ "lost row" \in Faults) /\ UNCHANGED rows
    /\ totalTokens' = IF stop[c] = "error" THEN totalTokens ELSE totalTokens + usage[c]
    /\ okCount' = IF stop[c] = "submitted" THEN okCount + 1 ELSE okCount
    /\ failedCount' = IF stop[c] = "submitted" THEN failedCount ELSE failedCount + 1
    /\ UNCHANGED <<step, stop, usage, budget, cancelled, finished>>

Agent(c) == BeginStep(c) \/ CheckBudget(c) \/ LLMFails(c) \/ LLMReturns(c) \/ SaveAnalysis(c)

Next == \/ \E c \in Clause : Dispatch(c) \/ Agent(c)
        \/ Wait
        \/ Signal

Spec == Init /\ [][Next]_vars

\* Goroutines are scheduled, a call returns or times out (RetryingLLM bounds
\* every attempt), and the loop over the clauses goes on when it can, to g.Wait.
FairSpec ==
    /\ Spec
    /\ \A c \in Clause : WF_vars(Agent(c))
    /\ WF_vars((\E c \in Clause : Dispatch(c)) \/ Wait)

-----------------------------------------------------------------------------
(* What the shared budget and the pool guarantee *)

InFlight == {c \in Clause : phase[c] = "calling"}

\* The check is made before the calls and the recording after them, so that
\* up to Concurrency calls may have passed the check that one of them would
\* have failed.  The overshoot is no larger than that: the calls made, and the
\* ones in flight, exceed the step limit by at most Concurrency - 1.
StepOvershoot ==
    MaxSteps > 0 => usedSteps + Cardinality(InFlight) <= MaxSteps - 1 + Concurrency

StepsLeft(c) == /\ step[c] <= AgentSteps
                /\ phase[c] \notin {"saving", "done"} => step[c] < AgentSteps

\* The invariant behind the bounds: the pool holds at most Concurrency agents,
\* an agent makes one call at a time, and one that goes on has a step left.
PoolInv ==
    /\ TypeOK
    /\ Cardinality(Active) <= Concurrency
    /\ \A c \in Clause : StepsLeft(c)

\* The same of tokens: the limit is passed by less than Concurrency of the
\* largest calls.
TokenOvershoot ==
    MaxTokens > 0 =>
        usedTokens + Cardinality(InFlight) * MostTokens <= MaxTokens - 1 + Concurrency * MostTokens

\* Agents that prepared a history for a call that is not recorded, or not yet;
\* and agents that ended in an error, of the call or of the context.
Prepared == {c \in Clause : phase[c] \in {"check", "calling"} \/ stop[c] \in {"budget", "error"}}
Failed == {c \in Clause : stop[c] = "error"}

\* What the budget is not told: for every call at most one condensed history
\* and the attempts before the answer, and all attempts of a call that failed.
Unseen(steps, prepared, failed) ==
    (steps + prepared) * Condensing + (steps * Retries + failed * (Retries + 1)) * HighestCost

\* README: "tokens, dollars, and steps are tracked".  What the provider charges,
\* recorded or not, passes the dollar limit by less than Concurrency of the
\* dearest calls and what the budget is not told: that grows with each call,
\* but past the limit with each agent at most once.  (A model that the table
\* does not have is recorded at no cost, and then nothing limits the bill.)
CostOvershoot ==
    MaxCost > 0 /\ ModelKnown =>
        billed + Cardinality(InFlight) * HighestCost
           <= MaxCost - 1 + Concurrency * HighestCost
              + Unseen(usedSteps, Cardinality(Prepared), Cardinality(Failed))

\* When the run is complete every clause is counted once and as what became
\* of it, and the tokens of the runs that returned no error add up to what the
\* agents used; the budget knows of those of failed runs, too.
TotalsComplete ==
    finished =>
        /\ okCount = Cardinality({c \in Clause : stop[c] = "submitted"})
        /\ okCount + failedCount = NumClauses
        /\ totalTokens <= usedTokens
        /\ (\A c \in Clause : stop[c] # "error") => totalTokens = usedTokens

\* A clause whose agent submitted has no failed row, and the other way round;
\* without a signal and with a store that works every clause gets its row.
RowsTellTheOutcome ==
    /\ \A c \in Clause : /\ rows[c] = "ok" => stop[c] = "submitted"
                         /\ rows[c] = "failed" => stop[c] \in Stop \ {"none", "submitted"}
    /\ finished /\ ~cancelled /\ "lost row" \notin Faults
          => \A c \in Clause : rows[c] # "none"

\* Whatever fails, and with a signal too, the run comes to an end.
RunEnds == <>finished

\* README: "A clause that would exceed the token or cost limit does not start
\* at all.  This prevents the state where work is half-done and already billed
\* but nothing was saved."  The check is made before every step, so that a
\* limit does stop clauses half done; but no more of them than agents run.
HalfDoneBounded ==
    Cardinality({c \in Clause : stop[c] = "budget" /\ usage[c] > 0}) <= Concurrency
=============================================================================
