--------------------------- MODULE AnalysisStage ---------------------------
(***************************************************************************)
(* The whole of AnalyzeClauses, again and again: the analyze command reads  *)
(* the status, sets it, picks the clauses that have no finding, runs the    *)
(* pool of AnalysisPool over them and sets the status once more.  A crash   *)
(* or a signal ends the command anywhere; the user runs it again, in a new  *)
(* process with a new budget and on the rows the last one left.             *)
(***************************************************************************)
EXTENDS AnalysisPool

CONSTANT MaxCuts  \* bound: how many crashes and signals there are

ASSUME CutsAssumption == MaxCuts \in Nat

VARIABLES
    status,   \* contracts.status
    stage,    \* where the command is
    saved,    \* the results that each clause has in clause_analyses
    pools,    \* how many pools were started
    earlier,  \* the steps that the agents of earlier pools were billed
    cuts

pool == <<phase, step, stop, usage, budget, totals, finished>>
stageVars == <<status, stage, saved, pools, earlier, cuts>>
allVars == <<vars, stageVars>>

Stage == {"idle", "check", "mark", "filter", "pool", "aborted"}

StageOK ==
    /\ TypeOK
    /\ status \in {"clauses_extracted", "analyzing", "analyzed"}
    /\ stage \in Stage
    /\ saved \in [Clause -> SUBSET {"ok", "failed"}]
    /\ pools \in Nat
    /\ earlier \in Nat
    /\ cuts \in 0..MaxCuts
    /\ stage = "pool" => pools > 0

\* The clauses are stored and no pool has run.
StageInit ==
    /\ Init
    /\ status = "clauses_extracted"
    /\ stage = "idle"
    /\ saved = [c \in Clause |-> {}]
    /\ pools = 0
    /\ earlier = 0
    /\ cuts = 0

Runs == stage \notin {"idle", "aborted"}

\* The command is run, in a process with a context of its own.
Invoke ==
    /\ ~Runs
    /\ stage' = "check"
    /\ cancelled' = FALSE
    /\ UNCHANGED <<pool, status, saved, pools, earlier, cuts>>

\* Mutant: an analysis that was interrupted is refused.
CheckFresh ==
    /\ stage = "check" /\ ~cancelled
    /\ stage' = IF status \in {"analyzed", "analyzing"} THEN "idle" ELSE "mark"
    /\ UNCHANGED <<pool, cancelled, status, saved, pools, earlier, cuts>>

\* A contract that is analyzed is left as it is, failed clauses and all.
Check ==
    /\ stage = "check" /\ ~cancelled
    /\ stage' = IF status = "analyzed" THEN "idle" ELSE "mark"
    /\ UNCHANGED <<pool, cancelled, status, saved, pools, earlier, cuts>>

Mark ==
    /\ stage = "mark" /\ ~cancelled
    /\ status' = "analyzing"
    /\ stage' = "filter"
    /\ UNCHANGED <<pool, cancelled, saved, pools, earlier, cuts>>

\* Mutant: the stored analyses are not looked at.
WithoutFindingAgain == Clause

WithoutFinding == {c \in Clause : "ok" \notin saved[c]}

\* The pool starts from nothing: neither the budget nor the agents know of the
\* pools before.
Filter ==
    /\ stage = "filter" /\ ~cancelled
    /\ stage' = "pool"
    /\ pools' = pools + 1
    /\ earlier' = earlier + usedSteps + Cardinality(InFlight)
    /\ phase' = [c \in Clause |-> IF c \in WithoutFinding THEN "queued" ELSE "done"]
    /\ step' = [c \in Clause |-> 0]
    /\ stop' = [c \in Clause |-> "none"]
    /\ usage' = [c \in Clause |-> 0]
    /\ usedTokens' = 0 /\ usedCost' = 0 /\ usedSteps' = 0 /\ billed' = 0
    /\ rows' = [c \in Clause |-> "none"]
    /\ totalTokens' = 0 /\ okCount' = 0 /\ failedCount' = 0
    /\ finished' = FALSE
    /\ UNCHANGED <<cancelled, status, saved, cuts>>

\* A step of the pool; the row that it may store is one more of its clause.
PoolStep ==
    /\ stage = "pool"
    /\ \/ \E c \in Clause : Dispatch(c) \/ Agent(c)
       \/ Wait
    /\ saved' = [c \in Clause |-> saved[c] \cup ({rows'[c]} \ {"none"})]
    /\ UNCHANGED <<status, stage, pools, earlier, cuts>>

\* Mutant: the status is set although the context is done.
CompleteDetached ==
    /\ stage = "pool" /\ finished
    /\ status' = "analyzed" /\ stage' = "idle"
    /\ UNCHANGED <<pool, cancelled, saved, pools, earlier, cuts>>

\* Mutant: the status is set once the last clause has been dispatched.
CompleteUnwaited ==
    /\ stage = "pool" /\ ~cancelled
    /\ \A c \in Clause : phase[c] # "queued"
    /\ status' = "analyzed" /\ stage' = "idle"
    /\ UNCHANGED <<pool, cancelled, saved, pools, earlier, cuts>>

Complete ==
    /\ stage = "pool" /\ finished /\ ~cancelled
    /\ status' = "analyzed" /\ stage' = "idle"
    /\ UNCHANGED <<pool, cancelled, saved, pools, earlier, cuts>>

\* With a context that is done every access of the store fails, and the command
\* returns an error; from the pool only when g.Wait has returned.
Fail ==
    /\ cancelled
    /\ stage \in {"check", "mark", "filter"} \/ (stage = "pool" /\ finished)
    /\ stage' = "aborted"
    /\ UNCHANGED <<pool, cancelled, status, saved, pools, earlier, cuts>>

\* SIGINT, and the death of the process, which takes its goroutines with it.
Interrupt ==
    /\ Runs /\ ~cancelled /\ cuts < MaxCuts
    /\ cancelled' = TRUE
    /\ cuts' = cuts + 1
    /\ UNCHANGED <<pool, status, stage, saved, pools, earlier>>

Crash ==
    /\ Runs /\ cuts < MaxCuts
    /\ stage' = "aborted"
    /\ cuts' = cuts + 1
    /\ UNCHANGED <<pool, cancelled, status, saved, pools, earlier>>

StageStep == Check \/ Mark \/ Filter \/ PoolStep \/ Complete \/ Fail

StageNext == Invoke \/ StageStep \/ Interrupt \/ Crash

StageSpec == StageInit /\ [][StageNext]_allVars

\* A command that runs goes on, and one that was cut short is run again.
FairStageSpec == StageSpec /\ WF_allVars(StageStep) /\ WF_allVars(Invoke)
-----------------------------------------------------------------------------
(* What the stage keeps over its runs *)

\* The stage of the module Pipeline, for one process that runs analyze.  A
\* signal is an abort at the moment it arrives: what the pool still does in
\* that process is not seen in the database.
Alive == Runs /\ ~cancelled

StageLabel == [check |-> "an_check", mark |-> "an_mark", filter |-> "an_filter",
               pool |-> "an_agents"]

Label == IF Alive THEN StageLabel[stage] ELSE IF Runs THEN "aborted" ELSE stage
Command == IF Alive THEN "analyze" ELSE "none"
Pending == IF Alive /\ stage = "pool" THEN {c \in Clause : phase[c] # "done"} ELSE {}
Results == [c \in Clause |-> {IF r = "ok" THEN "high" ELSE "failed" : r \in saved[c]}]
Unlisted == [c \in Clause |-> [finding |-> "none", decision |-> "none"]]

Pipe == INSTANCE Pipeline WITH
    Procs <- {"analyze"},
    Commands <- {"analyze"},
    MaxClauses <- NumClauses,
    Risks <- {"high"},
    Faults <- {"abort", "no finding"} \cup (Faults \cap {"lost row"}),
    requiresReview <- FALSE,
    text <- TRUE,
    clauses <- Clause,
    analyses <- Results,
    reviews <- [c \in Clause |-> {}],
    summary <- Unlisted,
    report <- Unlisted,
    pc <- [p \in {"analyze"} |-> Label],
    cmd <- [p \in {"analyze"} |-> Command],
    todo <- [p \in {"analyze"} |-> Pending],
    view <- [p \in {"analyze"} |-> Unlisted]

\* The goroutines, agents and budgets of every run, and every cut, are what the
\* module Pipeline says in five actions: no step of the pool does to the rows
\* or the status what these actions do not.
ImplementsStage == [][Pipe!Next]_(Pipe!vars)

\* A contract is analyzed only when every clause has a row, in spite of cuts.
StatusHonest == status = "analyzed" => \A c \in Clause : saved[c] # {}

\* "Re-running the analysis skips clauses that already have a saved finding":
\* no call is made for such a clause, and it gets no other row.
PaidOnce == [][\A c \in Clause : "ok" \in saved[c] =>
                   saved'[c] = saved[c] /\ c \notin InFlight']_allVars

\* The budget does not survive the process: the steps of all runs keep to the
\* limit and its overshoot per run, and not in total.
StepsAcrossRuns ==
    MaxSteps > 0 /\ pools > 0 =>
        earlier + usedSteps + Cardinality(InFlight) <= pools * (MaxSteps - 1 + Concurrency)

\* The agents of the pool have no store.  What a crash or a signal loses is the
\* billed work of at most Concurrency clauses: those the signal finds queued
\* are not begun.
LossBounded ==
    Cardinality({c \in Clause : usage[c] > 0 /\ rows[c] = "none"}) <= Concurrency

\* Run again after every cut, the command gets the contract analyzed.
AnalysisCompletes == <>(status = "analyzed")
=============================================================================
