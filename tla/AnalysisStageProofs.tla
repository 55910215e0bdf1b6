------------------------ MODULE AnalysisStageProofs ------------------------
(***************************************************************************)
(* Proofs about AnalysisStage: for any number of clauses, agents and cuts,  *)
(* a contract that is analyzed has a row for every clause, the steps of all *)
(* runs together keep to one limit per run, and the stage is that of the    *)
(* module Pipeline.                                                         *)
(***************************************************************************)
EXTENDS AnalysisStage, AnalysisPoolProofs

\* What is true of the pool of the last run, whether or not it came to an end.
PoolSound == PoolInv /\ StepOvershoot

\* A goroutine that is done has stored its row, as long as the context is not
\* done; and g.Wait returns when all of them are.
DoneStored ==
    stage = "pool" =>
        /\ ~cancelled => \A c \in Clause : phase[c] = "done" => saved[c] # {}
        /\ finished => \A c \in Clause : phase[c] = "done"

HonestInv == StageOK /\ DoneStored /\ StatusHonest

\* The most steps of one run, and what the runs before the last were billed.
StepsPerRun == MaxSteps - 1 + Concurrency

EarlierBounded ==
    /\ pools = 0 => earlier = 0 /\ usedSteps = 0 /\ InFlight = {}
    /\ MaxSteps > 0 /\ pools > 0 => earlier <= (pools - 1) * StepsPerRun

AcrossInv == StageOK /\ PoolSound /\ EarlierBounded

-----------------------------------------------------------------------------
(* What the actions of the stage do to the pool *)

\* A step of the pool is a step of AnalysisPool.
LEMMA PoolMoves ==
    ASSUME PoolStep
    PROVE  /\ [Next]_vars
           /\ stage = "pool" /\ UNCHANGED <<status, stage, pools, earlier, cuts>>
           /\ saved' = [c \in Clause |-> saved[c] \cup ({rows'[c]} \ {"none"})]
  BY DEF PoolStep, Next

\* The other actions either leave the pool alone or start a new one.
PoolKeptAlone == UNCHANGED pool /\ cancelled' \in BOOLEAN

LEMMA PoolAlone ==
    ASSUME StageOK,
           \/ Invoke \/ Check \/ Mark \/ Complete \/ Fail \/ Interrupt \/ Crash
           \/ UNCHANGED allVars
    PROVE  PoolKeptAlone /\ UNCHANGED <<saved, pools, earlier>>
  BY DEF Invoke, Check, Mark, Complete, Fail, Interrupt, Crash, PoolKeptAlone, allVars,
     stageVars, vars, pool, StageOK, TypeOK

\* In a pool that is left alone everything stays as it was.
LEMMA AloneKeeps ==
    ASSUME PoolKeptAlone
    PROVE  /\ TypeOK => TypeOK'
           /\ PoolSound => PoolSound'
           /\ InFlight' = InFlight
           /\ UNCHANGED <<phase, finished, usedSteps>>
<1>1. UNCHANGED <<phase, step, stop, usage, budget, totals, finished>> /\ cancelled' \in BOOLEAN
  BY DEF PoolKeptAlone, pool
<1>2. TypeOK => TypeOK'
  BY <1>1 DEF TypeOK, budget, totals
<1>3. PoolSound => PoolSound'
  BY <1>1, <1>2 DEF PoolSound, PoolInv, StepOvershoot, InFlight, Active, StepsLeft, budget
<1> QED
  BY <1>1, <1>2, <1>3 DEF InFlight, budget

\* A new pool is empty and has used nothing.
LEMMA FilterStarts ==
    ASSUME StageOK, Filter
    PROVE  /\ TypeOK' /\ PoolSound' /\ InFlight' = {} /\ usedSteps' = 0
           /\ earlier' \in Nat /\ pools' \in Nat /\ pools' > 0
<1>1. Cardinality(InFlight) \in Nat
  BY Countable
<1>2. TypeOK'
  BY SizesAssumption DEF Filter, StageOK, TypeOK, Phase, Stop
<1>3. Active' = {} /\ InFlight' = {}
  BY DEF Filter, Active, InFlight
<1>4. \A c \in Clause : StepsLeft(c)'
  BY SizesAssumption DEF Filter, StepsLeft
<1>5. Cardinality(Active') = 0 /\ Cardinality(InFlight') = 0
  BY <1>3, FS_EmptySet
<1>6. PoolInv'
  BY <1>2, <1>4, <1>5, SizesAssumption DEF PoolInv
<1>7. StepOvershoot'
  BY <1>5, SizesAssumption, LimitsAssumption DEF Filter, StepOvershoot
<1>8. earlier' \in Nat /\ pools' \in Nat /\ pools' > 0
  BY <1>1 DEF Filter, StageOK, TypeOK
<1>9. usedSteps' = 0
  BY DEF Filter
<1> QED
  BY <1>2, <1>3, <1>6, <1>7, <1>8, <1>9 DEF PoolSound

\* At the start, too, the pool is empty.
LEMMA StageStarts == StageInit => StageOK /\ PoolSound /\ InFlight = {} /\ usedSteps = 0
<1> SUFFICES ASSUME StageInit PROVE StageOK /\ PoolSound /\ InFlight = {} /\ usedSteps = 0
  OBVIOUS
<1>1. PoolInv /\ InFlight = {} /\ StepOvershoot
  BY InitPool, StepsInit DEF StageInit
<1>2. StageOK
  BY <1>1, CutsAssumption DEF StageInit, StageOK, Stage, PoolInv
<1>3. usedSteps = 0
  BY DEF StageInit, Init
<1> QED
  BY <1>1, <1>2, <1>3 DEF PoolSound

-----------------------------------------------------------------------------
(* Types *)

LEMMA StageTypes == ASSUME StageOK, [StageNext]_allVars PROVE StageOK'
<1>1. ASSUME \/ Invoke \/ Check \/ Mark \/ Complete \/ Fail \/ Interrupt \/ Crash
             \/ UNCHANGED allVars
      PROVE  StageOK'
  <2>1. TypeOK' /\ UNCHANGED <<saved, pools, earlier>>
    BY <1>1, PoolAlone, AloneKeeps DEF StageOK
  <2>2. /\ status' \in {"clauses_extracted", "analyzing", "analyzed"}
        /\ stage' \in Stage /\ (stage' = "pool" => stage = "pool")
        /\ cuts' \in 0..MaxCuts
    BY <1>1, CutsAssumption DEF Invoke, Check, Mark, Complete, Fail, Interrupt, Crash,
       allVars, stageVars, StageOK, Stage
  <2> QED
    BY <2>1, <2>2 DEF StageOK
<1>2. CASE Filter
  <2>1. TypeOK' /\ earlier' \in Nat /\ pools' \in Nat /\ pools' > 0
    BY <1>2, FilterStarts
  <2> QED
    BY <1>2, <2>1 DEF Filter, StageOK, Stage
<1>3. CASE PoolStep
  <2>1. TypeOK'
    BY <1>3, PoolMoves, TypeStep DEF StageOK
  <2>2. saved' \in [Clause -> SUBSET {"ok", "failed"}]
    <3>1. rows' \in [Clause -> {"none", "ok", "failed"}]
      BY <2>1 DEF TypeOK
    <3> QED
      BY <1>3, <3>1, PoolMoves DEF StageOK
  <2> QED
    BY <1>3, <2>1, <2>2, PoolMoves DEF StageOK
<1> QED
  BY <1>1, <1>2, <1>3 DEF StageNext, StageStep

-----------------------------------------------------------------------------
(* Every clause has a row *)

\* A goroutine that ends with its context alive has stored its row.
LEMMA RowStored ==
    ASSUME StoreWorks, StageOK, DoneStored, PoolStep
    PROVE  DoneStored'
<1>m. /\ stage = "pool" /\ stage' = "pool"
      /\ saved' = [c \in Clause |-> saved[c] \cup ({rows'[c]} \ {"none"})]
  BY PoolMoves
<1>t. TypeOK
  BY DEF StageOK
<1>g. \A d \in Clause : saved[d] \subseteq saved'[d]
  BY <1>m
<1>1. ASSUME NEW c \in Clause, Dispatch(c) \/ BeginStep(c) \/ CheckBudget(c) \/ LLMFails(c)
                               \/ LLMReturns(c)
      PROVE  DoneStored'
  <2>1. /\ cancelled' = cancelled /\ finished' = finished /\ phase[c] # "done"
        /\ \A d \in Clause : phase'[d] = "done" => phase[d] = "done"
    BY <1>1, <1>t DEF Dispatch, BeginStep, CheckBudget, LLMFails, LLMReturns, StopWith,
       Enter, TypeOK
  <2> QED
    BY <1>m, <1>g, <2>1 DEF DoneStored
<1>2. ASSUME NEW c \in Clause, SaveAnalysis(c) PROVE DoneStored'
  <2>1. /\ cancelled' = cancelled /\ finished' = finished /\ phase[c] # "done"
        /\ \A d \in Clause \ {c} : phase'[d] = phase[d]
    BY <1>2, <1>t DEF SaveAnalysis, Enter, TypeOK
  <2>2. ~cancelled => rows'[c] \in {"ok", "failed"}
    BY <1>2, <1>t DEF SaveAnalysis, TypeOK, StoreWorks
  <2>3. ~cancelled => saved'[c] # {}
    BY <1>m, <2>2
  <2> QED
    BY <1>m, <1>g, <2>1, <2>3 DEF DoneStored
<1>3. CASE Wait
  <2>1. cancelled' = cancelled /\ phase' = phase /\ \A c \in Clause : phase[c] = "done"
    BY <1>3 DEF Wait
  <2> QED
    BY <1>m, <1>g, <2>1 DEF DoneStored
<1> QED
  BY <1>1, <1>2, <1>3 DEF PoolStep, Agent

\* Rows are only added, and the status is set when every clause has one.
LEMMA HonestStep ==
    ASSUME StoreWorks, HonestInv, [StageNext]_allVars
    PROVE  HonestInv'
<1>t. StageOK'
  BY StageTypes DEF HonestInv
<1>1. CASE PoolStep
  <2>1. DoneStored'
    BY <1>1, RowStored DEF HonestInv
  <2>2. status' = status /\ \A c \in Clause : saved[c] \subseteq saved'[c]
    BY <1>1, PoolMoves
  <2> QED
    BY <1>t, <2>1, <2>2 DEF HonestInv, StatusHonest
<1>2. CASE Filter
  <2>1. /\ stage' = "pool" /\ finished' = FALSE /\ UNCHANGED <<saved, status>>
        /\ \A c \in Clause : phase'[c] = "done" => saved[c] # {}
    BY <1>2 DEF Filter, WithoutFinding
  <2> QED
    BY <1>t, <2>1 DEF HonestInv, DoneStored, StatusHonest
<1>3. CASE Complete
  <2>1. stage' = "idle" /\ saved' = saved /\ \A c \in Clause : saved[c] # {}
    BY <1>3 DEF Complete, HonestInv, DoneStored
  <2> QED
    BY <1>t, <2>1 DEF HonestInv, DoneStored, StatusHonest
<1>4. ASSUME \/ Invoke \/ Check \/ Mark \/ Fail \/ Interrupt \/ Crash \/ UNCHANGED allVars
      PROVE  HonestInv'
  <2>1. saved' = saved /\ phase' = phase /\ finished' = finished
    BY <1>4, PoolAlone, AloneKeeps DEF HonestInv
  <2>2. status' = "analyzed" => status = "analyzed"
    BY <1>4 DEF Invoke, Check, Mark, Fail, Interrupt, Crash, allVars, stageVars
  <2>3. stage' = "pool" => stage = "pool" /\ (cancelled' = cancelled \/ cancelled' = TRUE)
    BY <1>4 DEF Invoke, Check, Mark, Fail, Interrupt, Crash, allVars, stageVars, vars
  <2> QED
    BY <1>t, <2>1, <2>2, <2>3 DEF HonestInv, DoneStored, StatusHonest
<1> QED
  BY <1>1, <1>2, <1>3, <1>4 DEF StageNext, StageStep

\* A contract is analyzed only when every clause has a row, whatever was cut
\* short and however often the command was run, if the store works.
THEOREM AnalyzedHonest ==
    ASSUME StoreWorks
    PROVE  StageSpec => []StatusHonest
<1>1. StageInit => HonestInv
  BY StageStarts DEF StageInit, HonestInv, DoneStored, StatusHonest
<1>2. HonestInv /\ [StageNext]_allVars => HonestInv'
  BY HonestStep
<1>3. HonestInv => StatusHonest
  BY DEF HonestInv
<1> QED
  BY <1>1, <1>2, <1>3, PTL DEF StageSpec

-----------------------------------------------------------------------------
(* The steps of all runs *)

\* One more run adds at most StepsPerRun to what the runs before were billed.
LEMMA OneMoreRun ==
    ASSUME AcrossInv, Filter
    PROVE  EarlierBounded'
<1>1. Cardinality(InFlight) \in Nat /\ usedSteps \in Nat /\ pools \in Nat /\ earlier \in Nat
  BY Countable DEF AcrossInv, StageOK, TypeOK
<1>2. pools' = pools + 1 /\ earlier' = earlier + usedSteps + Cardinality(InFlight)
  BY DEF Filter
<1>3. ASSUME MaxSteps > 0 PROVE earlier' <= (pools' - 1) * StepsPerRun
  <2>1. StepsPerRun \in Nat
    BY <1>3, SizesAssumption, LimitsAssumption DEF StepsPerRun
  <2>2. CASE pools = 0
    <3>1. Cardinality(InFlight) = 0 /\ earlier = 0 /\ usedSteps = 0
      BY <2>2, FS_EmptySet DEF AcrossInv, EarlierBounded
    <3>2. pools * StepsPerRun = 0
      BY <2>1, <2>2
    <3> QED
      BY <1>1, <1>2, <3>1, <3>2
  <2>3. CASE pools > 0
    <3>1. earlier <= (pools - 1) * StepsPerRun
      BY <1>3, <2>3 DEF AcrossInv, EarlierBounded
    <3>2. usedSteps + Cardinality(InFlight) <= StepsPerRun
      BY <1>3 DEF AcrossInv, PoolSound, StepOvershoot, StepsPerRun
    <3>3. (pools - 1) * StepsPerRun + StepsPerRun = pools * StepsPerRun
      BY <1>1, <2>1
    <3>4. (pools - 1) * StepsPerRun \in Int
      BY <1>1, <2>1
    <3> QED
      BY <1>1, <1>2, <2>1, <3>1, <3>2, <3>3, <3>4
  <2> QED
    BY <1>1, <2>2, <2>3
<1>4. pools' # 0
  BY <1>1, <1>2
<1> QED
  BY <1>3, <1>4 DEF EarlierBounded, StepsPerRun

LEMMA AcrossStep == ASSUME AcrossInv, [StageNext]_allVars PROVE AcrossInv'
<1>t. StageOK'
  BY StageTypes DEF AcrossInv
<1>1. CASE PoolStep
  <2>1. PoolSound'
    BY <1>1, PoolMoves, PoolKept, StepsKept DEF AcrossInv, PoolSound
  <2>2. pools > 0 /\ UNCHANGED <<pools, earlier>>
    BY <1>1, PoolMoves DEF AcrossInv, StageOK
  <2> QED
    BY <1>t, <2>1, <2>2 DEF AcrossInv, EarlierBounded, StepsPerRun
<1>2. CASE Filter
  BY <1>t, <1>2, OneMoreRun, FilterStarts DEF AcrossInv
<1>3. ASSUME \/ Invoke \/ Check \/ Mark \/ Complete \/ Fail \/ Interrupt \/ Crash
             \/ UNCHANGED allVars
      PROVE  AcrossInv'
  <2>1. PoolSound' /\ InFlight' = InFlight /\ UNCHANGED <<pools, earlier, usedSteps>>
    BY <1>3, PoolAlone, AloneKeeps DEF AcrossInv
  <2> QED
    BY <1>t, <2>1 DEF AcrossInv, EarlierBounded, StepsPerRun
<1> QED
  BY <1>1, <1>2, <1>3 DEF StageNext, StageStep

\* The pool is sound and what was spent is bounded, in every state.
LEMMA AcrossAlways == StageSpec => []AcrossInv
<1>1. StageInit => AcrossInv
  BY StageStarts DEF StageInit, AcrossInv, EarlierBounded
<1>2. AcrossInv /\ [StageNext]_allVars => AcrossInv'
  BY AcrossStep
<1> QED
  BY <1>1, <1>2, PTL DEF StageSpec

\* The budget is one process's: all runs together use at most the limit and
\* its overshoot for every run, whatever cut the others short.
THEOREM StepsAcross == StageSpec => []StepsAcrossRuns
<1>1. ASSUME AcrossInv, MaxSteps > 0, pools > 0
      PROVE  earlier + usedSteps + Cardinality(InFlight) <= pools * StepsPerRun
  <2>1. /\ Cardinality(InFlight) \in Nat /\ usedSteps \in Nat
        /\ pools \in Nat /\ earlier \in Nat /\ StepsPerRun \in Nat
    BY <1>1, Countable, SizesAssumption, LimitsAssumption
       DEF AcrossInv, StageOK, TypeOK, StepsPerRun
  <2>2. earlier <= (pools - 1) * StepsPerRun
    BY <1>1 DEF AcrossInv, EarlierBounded
  <2>3. usedSteps + Cardinality(InFlight) <= StepsPerRun
    BY <1>1 DEF AcrossInv, PoolSound, StepOvershoot, StepsPerRun
  <2>4. /\ (pools - 1) * StepsPerRun + StepsPerRun = pools * StepsPerRun
        /\ (pools - 1) * StepsPerRun \in Int
    BY <2>1
  <2> QED
    BY <2>1, <2>2, <2>3, <2>4
<1>2. AcrossInv => StepsAcrossRuns
  BY <1>1 DEF StepsAcrossRuns, StepsPerRun
<1> QED
  BY <1>2, AcrossAlways, PTL

-----------------------------------------------------------------------------
(* What a finding costs *)

\* A clause that has a finding has no agent that runs, and what the pool has
\* stored is in the table.
PaidInv ==
    \A c \in Clause : /\ "ok" \in saved[c] => phase[c] = "done"
                      /\ rows[c] = "none" \/ rows[c] \in saved[c]

\* A goroutine that is done stays done, and a row comes with the last step of
\* a goroutine.
LEMMA RowComesLast ==
    ASSUME TypeOK, PoolStep, NEW c \in Clause
    PROVE  /\ phase[c] = "done" => phase'[c] = "done"
           /\ rows'[c] = rows[c] \/ (phase[c] # "done" /\ phase'[c] = "done")
<1>1. CASE Wait
  BY <1>1 DEF Wait, totals
<1>2. ASSUME NEW d \in Clause, Dispatch(d) \/ Agent(d)
      PROVE  /\ phase[c] = "done" => phase'[c] = "done"
             /\ rows'[c] = rows[c] \/ (phase[c] # "done" /\ phase'[c] = "done")
  <2>1. CASE SaveAnalysis(d)
    BY <2>1 DEF SaveAnalysis, Enter, TypeOK
  <2>2. CASE Dispatch(d) \/ BeginStep(d) \/ CheckBudget(d) \/ LLMFails(d) \/ LLMReturns(d)
    <3>1. rows' = rows /\ phase[d] # "done"
      BY <2>2 DEF Dispatch, BeginStep, CheckBudget, LLMFails, LLMReturns, totals
    <3>2. c # d => phase'[c] = phase[c]
      BY <2>2 DEF Dispatch, BeginStep, CheckBudget, LLMFails, LLMReturns, StopWith, Enter, TypeOK
    <3> QED
      BY <3>1, <3>2
  <2> QED
    BY <1>2, <2>1, <2>2 DEF Agent
<1> QED
  BY <1>1, <1>2 DEF PoolStep

LEMMA PaidStep ==
    ASSUME StageOK, PaidInv, [StageNext]_allVars
    PROVE  /\ PaidInv'
           /\ \A c \in Clause : "ok" \in saved[c] =>
                  saved'[c] = saved[c] /\ c \notin InFlight'
<1>1. ASSUME PoolStep, NEW c \in Clause
      PROVE  /\ "ok" \in saved'[c] => phase'[c] = "done"
             /\ rows'[c] = "none" \/ rows'[c] \in saved'[c]
             /\ "ok" \in saved[c] => saved'[c] = saved[c] /\ c \notin InFlight'
  <2>1. saved'[c] = saved[c] \cup ({rows'[c]} \ {"none"})
    BY <1>1, PoolMoves
  <2>2. /\ phase[c] = "done" => phase'[c] = "done"
        /\ rows'[c] = rows[c] \/ (phase[c] # "done" /\ phase'[c] = "done")
    BY <1>1, RowComesLast DEF StageOK
  <2>3. "ok" \in saved[c] => phase[c] = "done"
    BY DEF PaidInv
  <2>4. rows[c] = "none" \/ rows[c] \in saved[c]
    BY DEF PaidInv
  <2> QED
    BY <2>1, <2>2, <2>3, <2>4 DEF InFlight
<1>2. ASSUME Filter, NEW c \in Clause
      PROVE  /\ "ok" \in saved'[c] => phase'[c] = "done"
             /\ rows'[c] = "none"
             /\ "ok" \in saved[c] => saved'[c] = saved[c] /\ c \notin InFlight'
  BY <1>2 DEF Filter, WithoutFinding, InFlight
<1>3. ASSUME \/ Invoke \/ Check \/ Mark \/ Complete \/ Fail \/ Interrupt \/ Crash
             \/ UNCHANGED allVars
      PROVE  UNCHANGED <<saved, phase, rows>> /\ InFlight' = InFlight
  BY <1>3, PoolAlone, AloneKeeps DEF PoolKeptAlone, pool, totals
<1> QED
  BY <1>1, <1>2, <1>3 DEF StageNext, StageStep, PaidInv, InFlight

\* A clause with a finding is not called for again, and its row stays the only
\* one of its kind, in every run.
THEOREM FindingPaidOnce == StageSpec => PaidOnce
<1>1. StageInit => StageOK /\ PaidInv
  BY StageStarts DEF StageInit, Init, PaidInv
<1>2. StageOK /\ PaidInv /\ [StageNext]_allVars => StageOK' /\ PaidInv'
  BY StageTypes, PaidStep
<1>3. StageOK /\ PaidInv /\ [StageNext]_allVars =>
          [\A c \in Clause : "ok" \in saved[c] =>
               saved'[c] = saved[c] /\ c \notin InFlight']_allVars
  BY PaidStep
<1> QED
  BY <1>1, <1>2, <1>3, PTL DEF StageSpec, PaidOnce

-----------------------------------------------------------------------------
(* What a cut loses *)

\* The clauses that calls were made for and that have no row of this pool.
Invested == {c \in Clause : rows[c] = "none" /\ (usage[c] > 0 \/ phase[c] = "calling")}

\* Before the signal these are clauses of agents that run; after it no clause
\* is added to them.
LossInv ==
    /\ \A c \in Clause : phase[c] = "queued" => usage[c] = 0
    /\ stage = "pool" /\ ~cancelled =>
           \A c \in Clause : phase[c] = "done" /\ rows[c] = "none" => usage[c] = 0
    /\ IsFiniteSet(Invested) /\ Cardinality(Invested) <= Concurrency

\* A goroutine that ends with its context alive has a row in this pool, too.
LEMMA DoneCounted ==
    ASSUME StoreWorks, StageOK, LossInv, PoolStep, ~cancelled,
           NEW c \in Clause, phase'[c] = "done", rows'[c] = "none"
    PROVE  usage'[c] = 0
<1>t. TypeOK /\ stage = "pool" /\ (phase[c] = "done" /\ rows[c] = "none" => usage[c] = 0)
  BY PoolMoves DEF StageOK, LossInv
<1>1. CASE Wait
  BY <1>1, <1>t DEF Wait, totals
<1>2. ASSUME NEW d \in Clause,
             Dispatch(d) \/ BeginStep(d) \/ CheckBudget(d) \/ LLMFails(d)
      PROVE  usage'[c] = 0
  BY <1>2, <1>t DEF Dispatch, BeginStep, CheckBudget, LLMFails, StopWith, Enter, TypeOK, totals
<1>3. ASSUME NEW d \in Clause, LLMReturns(d) PROVE usage'[c] = 0
  <2>1. rows' = rows /\ phase'[d] # "done" /\ (c # d => phase'[c] = phase[c] /\ usage'[c] = usage[c])
    BY <1>3, <1>t DEF LLMReturns, StopWith, Enter, TypeOK, totals
  <2> QED
    BY <1>t, <2>1
<1>4. ASSUME NEW d \in Clause, SaveAnalysis(d) PROVE usage'[c] = 0
  <2>1. /\ usage' = usage /\ rows'[d] # "none"
        /\ c # d => phase'[c] = phase[c] /\ rows'[c] = rows[c]
    BY <1>4, <1>t DEF SaveAnalysis, Enter, TypeOK, StoreWorks
  <2> QED
    BY <1>t, <2>1
<1> QED
  BY <1>1, <1>2, <1>3, <1>4 DEF PoolStep, Agent

\* With a context that is done no call begins.
LEMMA NoneInvested ==
    ASSUME TypeOK, PoolStep, cancelled, \A c \in Clause : phase[c] = "queued" => usage[c] = 0
    PROVE  Invested' \subseteq Invested
<1>1. CASE Wait
  BY <1>1 DEF Wait, totals, Invested
<1>2. ASSUME NEW d \in Clause,
             Dispatch(d) \/ BeginStep(d) \/ CheckBudget(d) \/ LLMFails(d)
      PROVE  Invested' \subseteq Invested
  <2>1. usage' = usage /\ rows' = rows /\ phase'[d] # "calling"
    BY <1>2 DEF Dispatch, BeginStep, CheckBudget, LLMFails, StopWith, Enter, TypeOK, totals
  <2>2. \A c \in Clause \ {d} : phase'[c] = phase[c]
    BY <1>2 DEF Dispatch, BeginStep, CheckBudget, LLMFails, StopWith, Enter, TypeOK
  <2> QED
    BY <2>1, <2>2 DEF Invested
<1>3. ASSUME NEW d \in Clause, LLMReturns(d) PROVE Invested' \subseteq Invested
  <2>1. rows' = rows /\ phase[d] = "calling"
    BY <1>3 DEF LLMReturns, totals
  <2>2. \A c \in Clause \ {d} : phase'[c] = phase[c] /\ usage'[c] = usage[c]
    BY <1>3 DEF LLMReturns, StopWith, Enter, TypeOK
  <2> QED
    BY <2>1, <2>2 DEF Invested
<1>4. ASSUME NEW d \in Clause, SaveAnalysis(d) PROVE Invested' \subseteq Invested
  <2>1. usage' = usage /\ phase'[d] # "calling" /\ rows' = rows
    BY <1>4 DEF SaveAnalysis, Enter, TypeOK
  <2>2. \A c \in Clause \ {d} : phase'[c] = phase[c]
    BY <1>4 DEF SaveAnalysis, Enter, TypeOK
  <2> QED
    BY <2>1, <2>2 DEF Invested
<1> QED
  BY <1>1, <1>2, <1>3, <1>4 DEF PoolStep, Agent

LEMMA LossStep ==
    ASSUME StoreWorks, AcrossInv, LossInv, [StageNext]_allVars
    PROVE  LossInv'
<1>t. TypeOK /\ PoolInv
  BY DEF AcrossInv, StageOK, PoolSound
<1>1. CASE PoolStep
  <2>1. (\A c \in Clause : phase[c] = "queued" => usage[c] = 0)'
    BY <1>1, <1>t, PoolMoves, QueuedUntouched DEF LossInv
  <2>2. cancelled' = cancelled
    BY <1>1 DEF PoolStep, Dispatch, Agent, BeginStep, CheckBudget, LLMFails, LLMReturns,
       SaveAnalysis, Wait
  <2>3. CASE ~cancelled
    <3>1. \A c \in Clause : phase'[c] = "done" /\ rows'[c] = "none" => usage'[c] = 0
      BY <1>1, <2>3, DoneCounted DEF AcrossInv
    <3>2. Invested' \subseteq Active'
      <4> SUFFICES ASSUME NEW c \in Clause, c \in Invested'
                   PROVE  c \in Active'
        BY DEF Invested
      <4>1. rows'[c] = "none" /\ (usage'[c] > 0 \/ phase'[c] = "calling")
        BY DEF Invested
      <4>2. usage'[c] = 0 => phase'[c] = "calling"
        BY <4>1
      <4> QED
        BY <2>1, <3>1, <4>1, <4>2 DEF Active
    <3>3. IsFiniteSet(Active') /\ Cardinality(Active') <= Concurrency
      <4>1. IsFiniteSet(Clause)
        BY FS_Interval, SizesAssumption DEF Clause
      <4>2. Active' \subseteq Clause
        BY DEF Active
      <4> QED
        BY <1>1, <1>t, <4>1, <4>2, FS_Subset, PoolMoves, PoolKept DEF PoolInv
    <3>4. IsFiniteSet(Invested') /\ Cardinality(Invested') <= Concurrency
      BY <3>2, <3>3, SmallerCounts
    <3> QED
      BY <2>1, <3>1, <3>4 DEF LossInv
  <2>4. CASE cancelled
    <3>1. Invested' \subseteq Invested
      BY <1>1, <1>t, <2>4, NoneInvested DEF LossInv
    <3>2. IsFiniteSet(Invested') /\ Cardinality(Invested') <= Concurrency
      BY <3>1, SmallerCounts DEF LossInv
    <3> QED
      BY <2>1, <2>2, <2>4, <3>2 DEF LossInv
  <2> QED
    BY <2>3, <2>4
<1>2. CASE Filter
  <2>1. \A c \in Clause : usage'[c] = 0 /\ phase'[c] # "calling"
    BY <1>2 DEF Filter
  <2>2. Invested' = {}
    BY <2>1 DEF Invested
  <2> QED
    BY <2>1, <2>2, FS_EmptySet, SizesAssumption DEF LossInv
<1>3. ASSUME \/ Invoke \/ Check \/ Mark \/ Complete \/ Fail \/ Interrupt \/ Crash
             \/ UNCHANGED allVars
      PROVE  LossInv'
  <2>1. UNCHANGED <<phase, usage, rows>> /\ Invested' = Invested
    BY <1>3, PoolAlone DEF AcrossInv, PoolKeptAlone, pool, totals, Invested
  <2>2. stage' = "pool" => stage = "pool" /\ (cancelled' = cancelled \/ cancelled' = TRUE)
    BY <1>3 DEF Invoke, Check, Mark, Complete, Fail, Interrupt, Crash, allVars, stageVars, vars
  <2> QED
    BY <2>1, <2>2 DEF LossInv
<1> QED
  BY <1>1, <1>2, <1>3 DEF StageNext, StageStep

\* What a crash or a signal loses is the billed work of at most Concurrency
\* clauses, if the store works.
THEOREM LossLimited ==
    ASSUME StoreWorks
    PROVE  StageSpec => []LossBounded
<1>1. StageInit => LossInv
  <2> SUFFICES ASSUME StageInit PROVE LossInv
    OBVIOUS
  <2>1. \A c \in Clause : usage[c] = 0 /\ phase[c] # "calling"
    BY DEF StageInit, Init
  <2>2. Invested = {}
    BY <2>1 DEF Invested
  <2> QED
    BY <2>1, <2>2, FS_EmptySet, SizesAssumption DEF LossInv
<1>2. AcrossInv /\ LossInv /\ [StageNext]_allVars => LossInv'
  BY LossStep
<1>3. LossInv => LossBounded
  <2>1. {c \in Clause : usage[c] > 0 /\ rows[c] = "none"} \subseteq Invested
    BY DEF Invested
  <2> QED
    BY <2>1, SmallerCounts DEF LossInv, LossBounded
<1> QED
  BY <1>1, <1>2, <1>3, AcrossAlways, PTL DEF StageSpec
-----------------------------------------------------------------------------
(* The stage is that of the pipeline: most of what the pool does stutters *)

\* g.Wait has returned only when all goroutines are done.
WaitedInv == finished => \A c \in Clause : phase[c] = "done"

ShownInv == StageOK /\ PaidInv /\ WaitedInv

LEMMA WaitedStep ==
    ASSUME StageOK, WaitedInv, [StageNext]_allVars
    PROVE  WaitedInv'
<1>1. CASE PoolStep
  <2>1. CASE Wait
    BY <2>1 DEF Wait, WaitedInv
  <2>2. ASSUME NEW c \in Clause, Dispatch(c) \/ Agent(c) PROVE WaitedInv'
    <3>1. finished' = finished /\ phase[c] # "done"
      BY <2>2 DEF Dispatch, Agent, BeginStep, CheckBudget, LLMFails, LLMReturns, SaveAnalysis
    <3> QED
      BY <3>1 DEF WaitedInv
  <2> QED
    BY <1>1, <2>1, <2>2 DEF PoolStep
<1>2. CASE Filter
  BY <1>2 DEF Filter, WaitedInv
<1>3. ASSUME \/ Invoke \/ Check \/ Mark \/ Complete \/ Fail \/ Interrupt \/ Crash
             \/ UNCHANGED allVars
      PROVE  WaitedInv'
  BY <1>3, PoolAlone, AloneKeeps DEF WaitedInv
<1> QED
  BY <1>1, <1>2, <1>3 DEF StageNext, StageStep

LEMMA ShownAlways == StageSpec => []ShownInv
<1>1. StageInit => ShownInv
  BY StageStarts DEF StageInit, Init, PaidInv, WaitedInv, ShownInv
<1>2. ShownInv /\ [StageNext]_allVars => ShownInv'
  BY StageTypes, PaidStep, WaitedStep DEF ShownInv
<1> QED
  BY <1>1, <1>2, PTL DEF StageSpec

\* The pipeline's variables are functions of the one process.
LEMMA SingleProcess ==
    ASSUME NEW a, NEW b
    PROVE  [[p \in {"analyze"} |-> a] EXCEPT !["analyze"] = b] = [p \in {"analyze"} |-> b]
  OBVIOUS

\* The actions of the pipeline that the stage takes.
LEMMA PipeActs ==
    ASSUME Pipe!Invoke("analyze", "analyze") \/ Pipe!Analyze("analyze") \/ Pipe!Abort("analyze")
    PROVE  Pipe!Next
<1>1. CASE Pipe!Invoke("analyze", "analyze")
  BY <1>1 DEF Pipe!Next, Pipe!Start
<1>2. CASE Pipe!Analyze("analyze")
  BY <1>2 DEF Pipe!Next, Pipe!Step
<1>3. CASE Pipe!Abort("analyze")
  BY <1>3 DEF Pipe!Next
<1> QED
  BY <1>1, <1>2, <1>3

\* A command of one stage is over when the stage is.
LEMMA PipeExits ==
    ASSUME NEW l, Alive, Pipe!Exit("analyze")
    PROVE  Pipe!After("analyze", l)
<1>1. Command = "analyze"
  BY DEF Command
<1>2. ~Pipe!Processing("analyze")
  BY <1>1 DEF Pipe!Processing, Pipe!ProcessCommands
<1> QED
  BY <1>2 DEF Pipe!After

\* What the pipeline sees of a command that is not alive, and of one that is.
LEMMA SeenDead ==
    ASSUME StageOK, ~Alive
    PROVE  /\ Label \in {"idle", "aborted"} /\ (Runs => Label = "aborted") /\ (~Runs => Label = stage)
           /\ Command = "none" /\ Pending = {}
  BY DEF Alive, Runs, Label, Command, Pending, StageOK, Stage

LEMMA SeenAlive ==
    ASSUME StageOK, Alive
    PROVE  /\ Label = StageLabel[stage] /\ Label \notin {"idle", "aborted"} /\ Command = "analyze"
           /\ stage # "pool" => Pending = {}
           /\ stage = "pool" => Pending = {c \in Clause : phase[c] # "done"}
  BY DEF Alive, Runs, Label, StageLabel, Command, Pending, StageOK, Stage

\* Rows that are left alone are left alone in the pipeline.
LEMMA RowsAlone ==
    ASSUME UNCHANGED saved
    PROVE  UNCHANGED <<Results, Unlisted>> /\ UNCHANGED Pipe!data
<1>1. UNCHANGED <<Results, Unlisted>>
  BY DEF Results, Unlisted
<1> QED
  BY <1>1 DEF Pipe!data

LEMMA InvokeShown ==
    ASSUME StageOK, Invoke
    PROVE  Pipe!Invoke("analyze", "analyze")
<1>1. /\ ~Alive /\ ~Runs /\ stage' = "check" /\ cancelled' = FALSE
      /\ UNCHANGED <<saved, status, phase>>
  BY DEF Invoke, Alive, pool
<1>2. Label \in {"idle", "aborted"} /\ Pending = {}
  BY <1>1, SeenDead
<1>3. Label' = "an_check" /\ Command' = "analyze" /\ Pending' = {}
  BY <1>1 DEF Label, StageLabel, Command, Pending, Alive, Runs
<1>4. Pipe!FirstLabel("analyze") = "an_check"
  BY DEF Pipe!FirstLabel
<1>5. UNCHANGED Unlisted /\ UNCHANGED Pipe!data
  BY <1>1, RowsAlone
<1>6. status # "none"
  BY DEF StageOK
<1> QED
  BY <1>1, <1>2, <1>3, <1>4, <1>5, <1>6, SingleProcess DEF Pipe!Invoke, Pipe!StageCommands, Pipe!Free

\* The command ends: with the end of the stage, or cut short.
LEMMA LeaveShown ==
    ASSUME ~Alive', NEW l, Label' = l, Command' = "none", Pending' = {}
    PROVE  Pipe!Leave("analyze", l)
  BY SingleProcess DEF Pipe!Leave, Pipe!Blank, Unlisted, Pipe!Clause, Clause, Pipe!NoEntry

LEMMA CheckShown ==
    ASSUME StageOK, Check
    PROVE  Pipe!AnalyzeCheck("analyze")
<1>1. /\ Alive /\ stage = "check" /\ UNCHANGED <<saved, status, phase, cancelled>>
      /\ stage' = IF status = "analyzed" THEN "idle" ELSE "mark"
  BY DEF Check, Alive, Runs, pool
<1>2. Label = "an_check" /\ Command = "analyze" /\ Pending = {}
  BY <1>1, SeenAlive DEF StageLabel
<1>3. Pipe!Read /\ UNCHANGED Unlisted
  BY <1>1, RowsAlone DEF Pipe!Read
<1>4. CASE status = "analyzed"
  <2>1. ~Alive' /\ Label' = "idle" /\ Command' = "none" /\ Pending' = {}
    BY <1>1, <1>4 DEF Label, Command, Pending, Alive, Runs
  <2>2. Pipe!After("analyze", "post_check")
    BY <1>1, <2>1, LeaveShown, PipeExits DEF Pipe!Exit
  <2> QED
    BY <1>2, <1>3, <1>4, <2>2 DEF Pipe!AnalyzeCheck, Pipe!At
<1>5. CASE status # "analyzed"
  <2>1. Label' = "an_mark" /\ Command' = "analyze" /\ Pending' = {}
    BY <1>1, <1>5 DEF Label, StageLabel, Command, Pending, Alive, Runs
  <2>2. Pipe!Goto("analyze", "an_mark")
    BY <1>2, <1>3, <2>1, SingleProcess DEF Pipe!Goto, Pipe!locals
  <2>3. status \in {"clauses_extracted", "analyzing"}
    BY <1>5 DEF StageOK
  <2> QED
    BY <1>2, <1>3, <2>2, <2>3 DEF Pipe!AnalyzeCheck, Pipe!At
<1> QED
  BY <1>4, <1>5

LEMMA MarkShown ==
    ASSUME StageOK, Mark
    PROVE  Pipe!AnalyzeMark("analyze")
<1>1. /\ Alive /\ stage = "mark" /\ stage' = "filter" /\ status' = "analyzing"
      /\ UNCHANGED <<saved, cancelled>>
  BY DEF Mark, Alive, Runs
<1>2. Label = "an_mark" /\ Command = "analyze" /\ Pending = {}
  BY <1>1, SeenAlive DEF StageLabel
<1>3. Label' = "an_filter" /\ Command' = "analyze" /\ Pending' = {}
  BY <1>1 DEF Label, StageLabel, Command, Pending, Alive, Runs
<1>4. UNCHANGED Unlisted /\ Pipe!UpdateContractStatus("analyzing")
  BY <1>1, RowsAlone DEF Pipe!UpdateContractStatus
<1>5. Pipe!Goto("analyze", "an_filter")
  BY <1>2, <1>3, <1>4, SingleProcess DEF Pipe!Goto, Pipe!locals
<1> QED
  BY <1>2, <1>4, <1>5 DEF Pipe!AnalyzeMark, Pipe!At

\* The clauses that are queued are those without a finding.
LEMMA FilterShown ==
    ASSUME StageOK, Filter
    PROVE  Pipe!FilterClauses("analyze")
<1>1. /\ Alive /\ stage = "filter" /\ stage' = "pool"
      /\ UNCHANGED <<saved, status, cancelled>>
      /\ phase' = [c \in Clause |-> IF c \in WithoutFinding THEN "queued" ELSE "done"]
  BY DEF Filter, Alive, Runs
<1>2. Label = "an_filter" /\ Command = "analyze"
  BY <1>1, SeenAlive DEF StageLabel
<1>3. Label' = "an_agents" /\ Command' = "analyze"
  BY <1>1 DEF Label, StageLabel, Command, Alive, Runs
<1>4. Pending' = WithoutFinding
  <2>1. Pending' = {c \in Clause : phase'[c] # "done"}
    BY <1>1 DEF Pending, Alive, Runs
  <2>2. WithoutFinding \subseteq Clause
    BY DEF WithoutFinding
  <2> QED
    BY <1>1, <2>1, <2>2
<1>5. WithoutFinding = Pipe!ClausesNeedingAnalysis
  <2>1. ASSUME NEW c \in Clause
        PROVE  "ok" \notin saved[c] <=> ~Pipe!Analyzed(c)
    <3>1. Results[c] = {IF r = "ok" THEN "high" ELSE "failed" : r \in saved[c]}
      BY DEF Results
    <3>2. Pipe!Analyzed(c) <=> "high" \in Results[c]
      BY DEF Pipe!Analyzed
    <3> QED
      BY <3>1, <3>2
  <2> QED
    BY <2>1 DEF WithoutFinding, Pipe!ClausesNeedingAnalysis
<1>6. Pipe!Read /\ UNCHANGED Unlisted
  BY <1>1, RowsAlone DEF Pipe!Read
<1> QED
  BY <1>2, <1>3, <1>4, <1>5, <1>6, SingleProcess DEF Pipe!FilterClauses, Pipe!At

\* The status is set when no clause is pending.
LEMMA CompleteShown ==
    ASSUME StageOK, WaitedInv, Complete
    PROVE  Pipe!AnalyzeDone("analyze")
<1>1. /\ Alive /\ stage = "pool" /\ stage' = "idle" /\ status' = "analyzed"
      /\ saved' = saved /\ \A c \in Clause : phase[c] = "done"
  BY DEF Complete, Alive, Runs, WaitedInv
<1>2. Label = "an_agents" /\ Pending = {}
  BY <1>1, SeenAlive DEF StageLabel
<1>3. ~Alive' /\ Label' = "idle" /\ Command' = "none" /\ Pending' = {}
  BY <1>1 DEF Label, Command, Pending, Alive, Runs
<1>4. Pipe!UpdateContractStatus("analyzed")
  BY <1>1, RowsAlone DEF Pipe!UpdateContractStatus
<1>5. Pipe!After("analyze", "post_check")
  BY <1>1, <1>3, LeaveShown, PipeExits DEF Pipe!Exit
<1> QED
  BY <1>2, <1>4, <1>5 DEF Pipe!AnalyzeDone, Pipe!At

\* A signal or a crash is an abort, if the command was alive; after a signal
\* neither the crash nor the error of the store is seen.
LEMMA CutShown ==
    ASSUME StageOK, Interrupt \/ Crash \/ Fail
    PROVE  Pipe!Abort("analyze") \/ UNCHANGED Pipe!vars
<1>1. /\ Runs /\ UNCHANGED <<saved, status, phase>>
      /\ ~Alive' /\ (Runs' \/ stage' = "aborted")
  BY DEF Interrupt, Crash, Fail, Runs, Alive, pool
<1>2. Label' = "aborted" /\ Command' = "none" /\ Pending' = {}
  BY <1>1 DEF Label, Command, Pending, Alive, Runs
<1>3. Pipe!Read /\ UNCHANGED Unlisted /\ UNCHANGED Pipe!data
  BY <1>1, RowsAlone DEF Pipe!Read
<1>4. CASE Alive
  <2>1. ~Pipe!Free("analyze")
    BY <1>4, SeenAlive DEF Pipe!Free
  <2>2. Pipe!Leave("analyze", "aborted")
    BY <1>1, <1>2, LeaveShown
  <2> QED
    BY <1>3, <2>1, <2>2, Zenon DEF Pipe!Abort
<1>5. CASE ~Alive
  <2>1. Label = "aborted" /\ Command = "none" /\ Pending = {}
    BY <1>1, <1>5, SeenDead
  <2> QED
    BY <1>1, <1>2, <1>3, <2>1 DEF Pipe!vars, Pipe!locals
<1> QED
  BY <1>4, <1>5

\* What a step of the pool may do that the pipeline sees: one goroutine is done,
\* and its clause has one row more unless the store lost it.
OneDone(c) ==
    /\ phase[c] # "done" /\ phase'[c] = "done"
    /\ \A d \in Clause \ {c} : phase'[d] = phase[d]
    /\ \/ (cancelled \/ ~StoreWorks) /\ UNCHANGED rows
       \/ /\ ~cancelled /\ rows'[c] \in {"ok", "failed"}
          /\ \A d \in Clause \ {c} : rows'[d] = rows[d]

NoneDone ==
    /\ UNCHANGED rows
    /\ \A c \in Clause : phase'[c] = "done" <=> phase[c] = "done"

LEMMA PoolSeen ==
    ASSUME TypeOK, PoolStep
    PROVE  cancelled' = cancelled /\ (NoneDone \/ \E c \in Clause : OneDone(c))
<1>1. CASE Wait
  BY <1>1 DEF Wait, totals, NoneDone
<1>2. ASSUME NEW c \in Clause, Dispatch(c) PROVE cancelled' = cancelled /\ NoneDone
  BY <1>2 DEF Dispatch, Enter, totals, NoneDone, TypeOK
<1>3. ASSUME NEW c \in Clause, BeginStep(c) \/ CheckBudget(c) \/ LLMFails(c) \/ LLMReturns(c)
      PROVE  cancelled' = cancelled /\ NoneDone
  BY <1>3, AgentMoves DEF NoneDone, totals, TypeOK
<1>4. ASSUME NEW c \in Clause, SaveAnalysis(c) PROVE cancelled' = cancelled /\ OneDone(c)
  <2>1. phase[c] = "saving" /\ phase' = [phase EXCEPT ![c] = "done"] /\ cancelled' = cancelled
    BY <1>4, SavedRest
  <2>2. \/ ~cancelled /\ rows' = [rows EXCEPT ![c] = IF stop[c] = "submitted" THEN "ok" ELSE "failed"]
        \/ (cancelled \/ ~StoreWorks) /\ rows' = rows
    BY <1>4, SavedRow
  <2>3. phase \in [Clause -> Phase] /\ rows \in [Clause -> {"none", "ok", "failed"}]
    BY DEF TypeOK
  <2> QED
    BY <2>1, <2>2, <2>3 DEF OneDone
<1> QED
  BY <1>1, <1>2, <1>3, <1>4 DEF PoolStep, Agent

\* The rows of a step that stores nothing, and of one that stores a row.
LEMMA NothingSaved ==
    ASSUME StageOK, PaidInv, PoolStep, UNCHANGED rows
    PROVE  UNCHANGED saved
<1>1. saved' = [c \in Clause |-> saved[c] \cup ({rows[c]} \ {"none"})]
  BY PoolMoves
<1>2. ASSUME NEW c \in Clause PROVE saved[c] \cup ({rows[c]} \ {"none"}) = saved[c]
  BY DEF PaidInv
<1>3. saved = [c \in Clause |-> saved[c]]
  BY DEF StageOK
<1> QED
  BY <1>1, <1>2, <1>3

LEMMA OneSaved ==
    ASSUME StageOK, PaidInv, PoolStep, NEW c \in Clause, rows'[c] \in {"ok", "failed"},
           \A d \in Clause \ {c} : rows'[d] = rows[d]
    PROVE  \E r \in {"high", "failed"} : Results' = [Results EXCEPT ![c] = @ \cup {r}]
<1>1. saved' = [d \in Clause |-> saved[d] \cup ({rows'[d]} \ {"none"})]
  BY PoolMoves
<1>2. ASSUME NEW d \in Clause \ {c} PROVE saved'[d] = saved[d]
  BY <1>1 DEF PaidInv
<1>3. saved'[c] = saved[c] \cup {rows'[c]}
  BY <1>1
<1> DEFINE r == IF rows'[c] = "ok" THEN "high" ELSE "failed"
<1>4. Results'[c] = Results[c] \cup {r}
  BY <1>3 DEF Results
<1>5. ASSUME NEW d \in Clause \ {c} PROVE Results'[d] = Results[d]
  BY <1>2 DEF Results
<1>6. DOMAIN Results = Clause /\ Results' = [d \in Clause |-> Results'[d]]
  BY DEF Results
<1>7. Results' = [Results EXCEPT ![c] = @ \cup {r}]
  BY <1>4, <1>5, <1>6
<1>8. r \in {"high", "failed"}
  OBVIOUS
<1> QED
  BY <1>7, <1>8

\* AnalyzeClause, once what it does to the rows is known.
LEMMA ClauseShown ==
    ASSUME Label = "an_agents", NEW c \in Pending, NEW r \in {"high", "failed"},
           UNCHANGED <<status, Label, Command, Unlisted>>, Pending' = Pending \ {c},
           \/ Results' = [Results EXCEPT ![c] = @ \cup {r}]
           \/ ~StoreWorks /\ Results' = Results
    PROVE  Pipe!AnalyzeClause("analyze")
<1>1. r \in Pipe!Outcome
  <2>1. r = "high" \/ r = "failed"
    OBVIOUS
  <2> QED
    BY <2>1 DEF Pipe!Outcome
<1>2. [p \in {"analyze"} |-> Pending'] =
          [[p \in {"analyze"} |-> Pending] EXCEPT !["analyze"] = @ \ {c}]
  OBVIOUS
<1>3. [p \in {"analyze"} |-> Pending]["analyze"] = Pending
      /\ [p \in {"analyze"} |-> Label]["analyze"] = "an_agents"
  OBVIOUS
<1> QED
  BY <1>1, <1>2, <1>3, Zenon DEF Pipe!AnalyzeClause, Pipe!At, StoreWorks

\* A step of the pool analyzes a clause, or the pipeline does not see it: agents
\* that run change nothing, and after a signal nothing is stored.
LEMMA PoolShown ==
    ASSUME StageOK, PaidInv, PoolStep
    PROVE  Pipe!AnalyzeClause("analyze") \/ UNCHANGED Pipe!vars
<1>1. stage = "pool" /\ UNCHANGED <<status, stage>> /\ cancelled' = cancelled
  BY PoolMoves, PoolSeen DEF StageOK
<1>2. UNCHANGED <<Label, Command, Unlisted>> /\ Alive' = Alive
  BY <1>1 DEF Label, StageLabel, Command, Unlisted, Alive, Runs
<1>3. ASSUME UNCHANGED <<rows, Pending>> PROVE UNCHANGED Pipe!vars
  <2>1. UNCHANGED Unlisted /\ UNCHANGED Pipe!data
    BY <1>3, NothingSaved, RowsAlone
  <2> QED
    BY <1>1, <1>2, <1>3, <2>1 DEF Pipe!vars, Pipe!locals
<1>4. CASE NoneDone
  <2>1. UNCHANGED <<rows, Pending>>
    BY <1>1, <1>2, <1>4 DEF NoneDone, Pending
  <2> QED
    BY <1>3, <2>1
<1>5. ASSUME NEW c \in Clause, OneDone(c), cancelled
      PROVE  UNCHANGED Pipe!vars
  <2>1. UNCHANGED <<rows, Pending>>
    BY <1>1, <1>2, <1>5 DEF OneDone, Pending, Alive
  <2> QED
    BY <1>3, <2>1
<1>6. ASSUME NEW c \in Clause, OneDone(c), ~cancelled
      PROVE  Pipe!AnalyzeClause("analyze")
  <2>1. Alive
    BY <1>1, <1>6 DEF Alive, Runs
  <2>2. Label = "an_agents" /\ Pending = {d \in Clause : phase[d] # "done"}
    BY <1>1, <2>1, SeenAlive DEF StageLabel
  <2>3. Pending' = {d \in Clause : phase'[d] # "done"}
    BY <1>1, <1>2, <2>1 DEF Pending
  <2>4. c \in Pending /\ Pending' = Pending \ {c}
    BY <1>6, <2>2, <2>3 DEF OneDone
  <2>5. CASE ~StoreWorks /\ UNCHANGED rows
    <3>1. Results' = Results
      BY <2>5, NothingSaved, RowsAlone
    <3> QED
      BY <1>1, <1>2, <2>2, <2>4, <2>5, <3>1, ClauseShown
  <2>6. CASE rows'[c] \in {"ok", "failed"} /\ \A d \in Clause \ {c} : rows'[d] = rows[d]
    <3>1. PICK r \in {"high", "failed"} : Results' = [Results EXCEPT ![c] = @ \cup {r}]
      BY <2>6, OneSaved
    <3> QED
      BY <1>1, <1>2, <2>2, <2>4, <3>1, ClauseShown
  <2> QED
    BY <1>6, <2>5, <2>6 DEF OneDone
<1> QED
  BY <1>4, <1>5, <1>6, PoolSeen DEF StageOK

LEMMA NextShown == ShownInv /\ [StageNext]_allVars => [Pipe!Next]_(Pipe!vars)
<1> SUFFICES ASSUME ShownInv, [StageNext]_allVars
             PROVE  [Pipe!Next]_(Pipe!vars)
  OBVIOUS
<1>i. StageOK /\ PaidInv /\ WaitedInv
  BY DEF ShownInv
<1>1. CASE Invoke
  BY <1>i, <1>1, InvokeShown, PipeActs
<1>2. CASE Check
  BY <1>i, <1>2, CheckShown, PipeActs DEF Pipe!Analyze
<1>3. CASE Mark
  BY <1>i, <1>3, MarkShown, PipeActs DEF Pipe!Analyze
<1>4. CASE Filter
  BY <1>i, <1>4, FilterShown, PipeActs DEF Pipe!Analyze
<1>5. CASE PoolStep
  BY <1>i, <1>5, PoolShown, PipeActs DEF Pipe!Analyze
<1>6. CASE Complete
  BY <1>i, <1>6, CompleteShown, PipeActs DEF Pipe!Analyze
<1>7. CASE Interrupt \/ Crash \/ Fail
  BY <1>i, <1>7, CutShown, PipeActs
<1>8. CASE UNCHANGED allVars
  <2>1. UNCHANGED <<saved, status, stage, phase, cancelled>>
    BY <1>8 DEF allVars, stageVars, vars
  <2>2. UNCHANGED <<Label, Command, Pending>>
    BY <2>1 DEF Label, StageLabel, Command, Pending, Alive, Runs
  <2>3. UNCHANGED Unlisted /\ UNCHANGED Pipe!data
    BY <2>1, RowsAlone
  <2> QED
    BY <2>1, <2>2, <2>3 DEF Pipe!vars, Pipe!locals
<1> QED
  BY <1>1, <1>2, <1>3, <1>4, <1>5, <1>6, <1>7, <1>8 DEF StageNext, StageStep

\* The goroutines, agents and budgets of every run, and every cut, are the
\* analysis stage of the pipeline: whatever the pool does, the rows and the
\* status change as the command's own steps change them, for any number of
\* clauses and agents.
THEOREM StageIsAnalyze == StageSpec => ImplementsStage
  BY ShownAlways, NextShown, PTL DEF StageSpec, ImplementsStage
=============================================================================
