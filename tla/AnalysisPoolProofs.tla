------------------------- MODULE AnalysisPoolProofs -------------------------
(***************************************************************************)
(* Proofs about AnalysisPool: for any number of clauses and agents, any     *)
(* limits and any size of the calls, the shared budget is overshot by less  *)
(* than one call per agent that runs; the rows tell what became of their    *)
(* clauses, and the totals add up.                                          *)
(***************************************************************************)
EXTENDS AnalysisPool, FiniteSetTheorems, TLAPS

\* The agents that run and the calls in flight can be counted, and a call in
\* flight is the call of an agent that runs.
LEMMA Countable ==
    /\ IsFiniteSet(Active) /\ IsFiniteSet(InFlight)
    /\ Cardinality(Active) \in Nat /\ Cardinality(InFlight) \in Nat
    /\ Cardinality(InFlight) <= Cardinality(Active)
<1>1. IsFiniteSet(Clause)
  BY FS_Interval, SizesAssumption DEF Clause
<1>2. IsFiniteSet(Active)
  BY <1>1, FS_Subset DEF Active
<1>3. InFlight \subseteq Active
  BY DEF InFlight, Active
<1>4. IsFiniteSet(InFlight) /\ Cardinality(InFlight) <= Cardinality(Active)
  BY <1>2, <1>3, FS_Subset
<1> QED BY <1>2, <1>4, FS_CardinalityType

\* The same of the sets after a step.
LEMMA CountableNext ==
    /\ Cardinality(Active') \in Nat /\ Cardinality(InFlight') \in Nat
    /\ Cardinality(InFlight') <= Cardinality(Active')
<1>1. IsFiniteSet(Clause)
  BY FS_Interval, SizesAssumption DEF Clause
<1>2. IsFiniteSet(Active')
  BY <1>1, FS_Subset DEF Active
<1>3. InFlight' \subseteq Active'
  BY DEF InFlight, Active
<1>4. IsFiniteSet(InFlight') /\ Cardinality(InFlight') <= Cardinality(Active')
  BY <1>2, <1>3, FS_Subset
<1> QED BY <1>2, <1>4, FS_CardinalityType

\* What a call uses and costs is a natural number, and within the largest.
LEMMA CallBounds ==
    /\ MostTokens \in Nat /\ HighestCost \in Nat
    /\ \A k \in Calls : /\ Tokens(k) \in Nat /\ Tokens(k) <= MostTokens
                        /\ Cost(k) \in Nat /\ Cost(k) <= HighestCost
                        /\ Estimate(k) \in Nat
<1>1. \A k \in Calls : k.in \in Nat /\ k.out \in Nat
  BY CallsAssumption
<1>2. \A k \in Calls : Tokens(k) \in Nat
  BY <1>1 DEF Tokens
<1>3. \A k \in Calls : Cost(k) \in Nat
  <2> TAKE k \in Calls
  <2>1. InPrice * k.in \in Nat /\ OutPrice * k.out \in Nat
    BY <1>1, PricesAssumption
  <2> QED BY <2>1 DEF Cost
<1>4. \A k \in Calls : Estimate(k) \in Nat
  BY <1>3 DEF Estimate
<1>5. MostTokens \in Nat /\ \A k \in Calls : Tokens(k) <= MostTokens
  BY <1>2, CallsAssumption DEF MostTokens
<1>6. HighestCost \in Nat /\ \A k \in Calls : Cost(k) <= HighestCost
  BY <1>3, CallsAssumption DEF HighestCost
<1> QED BY <1>2, <1>3, <1>4, <1>5, <1>6

\* What one Complete adds to the bill.
LEMMA Billed ==
  ASSUME billed \in Nat, NEW answer \in Nat, NEW attempts \in Nat, Bill(answer, attempts)
  PROVE  /\ billed' \in Nat
         /\ billed' <= billed + answer + attempts * HighestCost
<1>1. attempts * HighestCost \in Nat
  BY CallBounds
<1> HIDE DEF HighestCost
<1>2. PICK w \in 0..(attempts * HighestCost) : billed' = billed + answer + w
  BY DEF Bill
<1> QED BY <1>1, <1>2

\* The variables have their types at the start, and the pool is empty.
LEMMA InitPool == Init => PoolInv /\ InFlight = {}
<1> SUFFICES ASSUME Init PROVE PoolInv /\ InFlight = {}
  OBVIOUS
<1>1. TypeOK
  BY SizesAssumption DEF Init, TypeOK, Phase, Stop
<1>2. Active = {} /\ InFlight = {}
  BY DEF Init, Active, InFlight
<1>3. \A c \in Clause : StepsLeft(c)
  BY SizesAssumption DEF Init, StepsLeft
<1> QED BY <1>1, <1>2, <1>3, FS_EmptySet, SizesAssumption DEF PoolInv

\* Every step keeps the variables in their types.
LEMMA TypeStep == ASSUME TypeOK, [Next]_vars PROVE TypeOK'
<1> USE SizesAssumption DEF TypeOK, Enter, StopWith, budget, totals, Phase, Stop
<1>1. CASE UNCHANGED vars
  BY <1>1 DEF vars
<1>2. ASSUME NEW c \in Clause, Dispatch(c) PROVE TypeOK'
  BY <1>2 DEF Dispatch
<1>3. ASSUME NEW c \in Clause, Agent(c) PROVE TypeOK'
  <2>1. CASE BeginStep(c)
    BY <2>1, UnseenAssumption DEF BeginStep, Prepare
  <2>2. CASE CheckBudget(c)
    BY <2>2 DEF CheckBudget
  <2>3. CASE LLMFails(c)
    <3>1. Bill(0, Retries + 1)
      BY <2>3, Zenon DEF LLMFails
    <3>2. billed' \in Nat
      <4>1. Retries + 1 \in Nat
        BY UnseenAssumption
      <4> QED BY <3>1, <4>1, Billed
    <3> QED BY <2>3, <3>2 DEF LLMFails
  <2>4. CASE LLMReturns(c)
    <3>1. PICK k \in Calls : /\ Record(k) /\ Bill(Cost(k), Retries)
                             /\ usage' = [usage EXCEPT ![c] = @ + Tokens(k)]
      BY <2>4 DEF LLMReturns
    <3>b. billed' \in Nat
      BY <3>1, CallBounds, Billed, UnseenAssumption
    <3>2. Tokens(k) \in Nat /\ Estimate(k) \in Nat /\ Cost(k) \in Nat
      BY CallBounds
    <3>3. /\ usage' \in [Clause -> Nat] /\ usedSteps' \in Nat
          /\ usedTokens' \in Nat /\ usedCost' \in Nat /\ billed' \in Nat
      BY <3>1, <3>2, <3>b DEF Record
    <3>4. step' \in [Clause -> Nat]
      BY <2>4 DEF LLMReturns
    <3> QED BY <2>4, <3>3, <3>4 DEF LLMReturns
  <2>5. CASE SaveAnalysis(c)
    <3>1. rows' \in [Clause -> {"none", "ok", "failed"}] /\ phase' \in [Clause -> Phase]
      BY <2>5 DEF SaveAnalysis
    <3>2. usage[c] \in Nat
      OBVIOUS
    <3>3. totalTokens' \in Nat
      <4>1. totalTokens' = totalTokens \/ totalTokens' = totalTokens + usage[c]
        BY <2>5, Zenon DEF SaveAnalysis
      <4> QED BY <3>2, <4>1
    <3>4. okCount' \in Nat /\ failedCount' \in Nat
      <4>1. okCount' \in {okCount, okCount + 1} /\ failedCount' \in {failedCount, failedCount + 1}
        BY <2>5, Zenon DEF SaveAnalysis
      <4> QED BY <4>1
    <3> QED BY <2>5, <3>1, <3>3, <3>4 DEF SaveAnalysis
  <2> QED BY <1>3, <2>1, <2>2, <2>3, <2>4, <2>5 DEF Agent
<1>4. CASE Wait
  BY <1>4 DEF Wait
<1>5. CASE Signal
  BY <1>5 DEF Signal
<1> QED BY <1>1, <1>2, <1>3, <1>4, <1>5 DEF Next

-----------------------------------------------------------------------------
(* What a step does to the sets of agents *)

\* An agent is added while there is room for it, and none otherwise.
LEMMA PoolKept == ASSUME PoolInv, [Next]_vars PROVE PoolInv'
<1>t. TypeOK /\ TypeOK'
  BY TypeStep DEF PoolInv
<1>a. Cardinality(Active) \in Nat /\ IsFiniteSet(Active)
  BY Countable
<1>k. ASSUME Active' \subseteq Active PROVE Cardinality(Active') <= Concurrency
  <2>1. Cardinality(Active') <= Cardinality(Active) /\ IsFiniteSet(Active')
    BY <1>a, <1>k, FS_Subset
  <2>2. Cardinality(Active') \in Nat
    BY <2>1, FS_CardinalityType
  <2> QED BY <1>a, <2>1, <2>2, SizesAssumption DEF PoolInv
<1>s. \A d \in Clause : StepsLeft(d)
  BY DEF PoolInv
<1>1. CASE UNCHANGED vars
  BY <1>1, <1>k, <1>t, <1>s DEF vars, Active, PoolInv, StepsLeft
<1>2. ASSUME NEW c \in Clause, Dispatch(c) PROVE PoolInv'
  <2>1. Active' = Active \cup {c} /\ c \notin Active
    BY <1>2, <1>t DEF Dispatch, Enter, Active, TypeOK
  <2>2. Cardinality(Active') = Cardinality(Active) + 1
    BY <1>a, <2>1, FS_AddElement
  <2>3. Cardinality(Active) < Concurrency
    BY <1>2 DEF Dispatch
  <2>4. \A d \in Clause : StepsLeft(d)'
    BY <1>2, <1>s, <1>t DEF Dispatch, Enter, StepsLeft, TypeOK
  <2> QED BY <1>a, <1>t, <2>2, <2>3, <2>4, SizesAssumption DEF PoolInv
<1>3. ASSUME NEW c \in Clause, Agent(c) PROVE PoolInv'
  <2>1. Active' \subseteq Active
    BY <1>3, <1>t DEF Agent, BeginStep, CheckBudget, LLMFails, LLMReturns, SaveAnalysis,
       StopWith, Enter, Active, TypeOK
  <2>2. ASSUME LLMReturns(c) PROVE \A d \in Clause : StepsLeft(d)'
    BY <2>2, <1>s, <1>t, SizesAssumption DEF LLMReturns, StopWith, Enter, StepsLeft, TypeOK
  <2>3. ASSUME BeginStep(c) \/ CheckBudget(c) \/ LLMFails(c) \/ SaveAnalysis(c)
        PROVE  \A d \in Clause : StepsLeft(d)'
    BY <2>3, <1>s, <1>t DEF BeginStep, CheckBudget, LLMFails, SaveAnalysis, StopWith,
       Enter, StepsLeft, TypeOK, totals
  <2>4. \A d \in Clause : StepsLeft(d)'
    BY <1>3, <2>2, <2>3 DEF Agent
  <2> QED BY <1>k, <1>t, <2>1, <2>4 DEF PoolInv
<1>4. CASE Wait \/ Signal
  BY <1>4, <1>k, <1>t, <1>s DEF Wait, Signal, Active, PoolInv, StepsLeft
<1> QED BY <1>1, <1>2, <1>3, <1>4 DEF Next

\* Nothing is recorded, whatever is billed.
Unrecorded == UNCHANGED <<usedTokens, usedCost, usedSteps>>

\* A call begins only within the limits and while at most Concurrency agents
\* run, and ends with its recording or with an error; no other step touches
\* the calls in flight or what is recorded.
LEMMA CallStep ==
  ASSUME PoolInv, [Next]_vars
  PROVE  \/ /\ ~Exceeded
            /\ Cardinality(InFlight') <= Concurrency
            /\ Unrecorded
         \/ /\ Cardinality(InFlight') = Cardinality(InFlight) - 1
            /\ \E k \in Calls : Record(k)
         \/ /\ Cardinality(InFlight') <= Cardinality(InFlight)
            /\ Unrecorded
<1>t. TypeOK
  BY DEF PoolInv
<1>a. IsFiniteSet(InFlight) /\ Cardinality(InFlight) \in Nat
  BY Countable
<1>k. ASSUME InFlight' \subseteq InFlight PROVE Cardinality(InFlight') <= Cardinality(InFlight)
  BY <1>a, <1>k, FS_Subset
<1>1. CASE UNCHANGED vars
  BY <1>1, <1>k DEF vars, budget, Unrecorded, InFlight
<1>2. ASSUME NEW c \in Clause, Dispatch(c)
      PROVE  InFlight' \subseteq InFlight /\ Unrecorded
  BY <1>2, <1>t DEF Dispatch, Enter, InFlight, TypeOK, budget, Unrecorded
<1>3. ASSUME NEW c \in Clause, BeginStep(c) \/ LLMFails(c) \/ SaveAnalysis(c)
      PROVE  InFlight' \subseteq InFlight /\ Unrecorded
  <2>1. InFlight' \subseteq InFlight
    BY <1>3, <1>t DEF BeginStep, LLMFails, SaveAnalysis, StopWith, Enter, InFlight, TypeOK
  <2>2. Unrecorded
    BY <1>3 DEF BeginStep, LLMFails, SaveAnalysis, budget, Unrecorded
  <2> QED BY <2>1, <2>2
<1>4. ASSUME NEW c \in Clause, CheckBudget(c)
      PROVE  /\ Unrecorded
             /\ \/ ~Exceeded /\ Cardinality(InFlight') <= Concurrency
                \/ Cardinality(InFlight') <= Cardinality(InFlight)
  <2>1. Unrecorded
    BY <1>4 DEF CheckBudget, budget, Unrecorded
  <2>2. Exceeded => InFlight' \subseteq InFlight
    BY <1>4, <1>t DEF CheckBudget, StopWith, Enter, InFlight, TypeOK
  <2>3. Cardinality(InFlight') <= Concurrency
    <3>1. PoolInv'
      BY PoolKept
    <3>2. /\ Cardinality(InFlight') \in Nat /\ Cardinality(Active') \in Nat
          /\ Cardinality(InFlight') <= Cardinality(Active')
      BY CountableNext
    <3> QED BY <3>1, <3>2, SizesAssumption DEF PoolInv
  <2> QED BY <1>k, <2>1, <2>2, <2>3
<1>5. ASSUME NEW c \in Clause, LLMReturns(c)
      PROVE  /\ Cardinality(InFlight') = Cardinality(InFlight) - 1
             /\ \E k \in Calls : Record(k)
  <2>1. InFlight' = InFlight \ {c} /\ c \in InFlight
    BY <1>5, <1>t DEF LLMReturns, StopWith, Enter, InFlight, TypeOK
  <2>2. Cardinality(InFlight') = Cardinality(InFlight) - 1
    BY <1>a, <2>1, FS_RemoveElement
  <2> QED BY <1>5, <2>2 DEF LLMReturns
<1>6. CASE Wait \/ Signal
  BY <1>6, <1>k DEF Wait, Signal, InFlight, budget, Unrecorded
<1> QED BY <1>1, <1>2, <1>3, <1>4, <1>5, <1>6, <1>k DEF Next, Agent

-----------------------------------------------------------------------------
(* The theorems *)

\* The pool never holds more agents than it may, and every variable has its
\* type.
THEOREM PoolBounded == Spec => []PoolInv
<1>1. Init => PoolInv
  BY InitPool
<1>2. PoolInv /\ [Next]_vars => PoolInv'
  BY PoolKept
<1> QED BY <1>1, <1>2, PTL DEF Spec

\* The step limit is overshot by at most Concurrency - 1 steps: at the start and
\* after every step.
LEMMA StepsInit == Init => StepOvershoot
<1> SUFFICES ASSUME Init PROVE StepOvershoot
  OBVIOUS
<1>1. usedSteps = 0 /\ Cardinality(InFlight) = 0
  BY InitPool, FS_EmptySet DEF Init
<1> QED BY <1>1, SizesAssumption, LimitsAssumption DEF StepOvershoot

LEMMA StepsKept == ASSUME PoolInv, StepOvershoot, [Next]_vars PROVE StepOvershoot'
<1>1. /\ usedSteps \in Nat /\ usedSteps' \in Nat
      /\ Cardinality(InFlight) \in Nat /\ Cardinality(InFlight') \in Nat
  <2>1. Cardinality(InFlight) \in Nat /\ Cardinality(InFlight') \in Nat
    BY Countable, CountableNext
  <2>2. PoolInv'
    BY PoolKept
  <2> QED BY <2>1, <2>2 DEF PoolInv, TypeOK
<1>2. ~Exceeded /\ MaxSteps > 0 => usedSteps < MaxSteps
  BY <1>1, LimitsAssumption DEF Exceeded
<1> QED BY <1>1, <1>2, CallStep, SizesAssumption, LimitsAssumption
       DEF StepOvershoot, Record, Unrecorded

\* The step limit is overshot by at most Concurrency - 1 steps.
THEOREM StepsBounded == Spec => []StepOvershoot
<1>1. PoolInv /\ StepOvershoot /\ [Next]_vars => StepOvershoot'
  BY StepsKept
<1> QED BY <1>1, StepsInit, PoolBounded, PTL DEF Spec

\* The arithmetic of an overshoot: n and m are the calls in flight before and
\* after a step, u and v what was used; a call begins within the limit, and
\* ends with at most the most that it may use.
Within(u, n, most, limit) == u + n * most <= limit - 1 + Concurrency * most

Moves(u, v, n, m, most, limit) ==
    \/ u < limit /\ m <= Concurrency /\ v = u
    \/ m = n - 1 /\ v <= u + most
    \/ m <= n /\ v = u

LEMMA Overshoot ==
  \A u, v, n, m, most, limit \in Nat :
      Within(u, n, most, limit) /\ Moves(u, v, n, m, most, limit) => Within(v, m, most, limit)
<1> SUFFICES ASSUME NEW u \in Nat, NEW v \in Nat, NEW n \in Nat, NEW m \in Nat,
                    NEW most \in Nat, NEW limit \in Nat,
                    Within(u, n, most, limit), Moves(u, v, n, m, most, limit)
             PROVE  Within(v, m, most, limit)
  OBVIOUS
<1>1. /\ n * most \in Nat /\ m * most \in Nat /\ Concurrency * most \in Nat
      /\ m <= n => m * most <= n * most
      /\ m <= Concurrency => m * most <= Concurrency * most
      /\ (n - 1) * most = n * most - most
  BY SizesAssumption
<1>2. CASE u < limit /\ m <= Concurrency /\ v = u
  BY <1>1, <1>2 DEF Within
<1>3. CASE m = n - 1 /\ v <= u + most
  <2>1. m * most = n * most - most
    BY <1>1, <1>3
  <2> QED BY <1>1, <1>3, <2>1 DEF Within
<1>4. CASE m <= n /\ v = u
  BY <1>1, <1>4 DEF Within
<1> QED BY <1>2, <1>3, <1>4 DEF Moves

\* At the start there is nothing in flight.
LEMMA NothingInFlight ==
  ASSUME Init, NEW most \in Nat
  PROVE  Cardinality(InFlight) * most = 0 /\ Concurrency * most \in Nat
<1>1. Cardinality(InFlight) = 0
  BY InitPool, FS_EmptySet
<1>2. 0 * most = 0 /\ Concurrency * most \in Nat
  BY SizesAssumption
<1> QED BY <1>1, <1>2

\* What a step leaves in the budget are natural numbers.
LEMMA Counted ==
  ASSUME PoolInv, [Next]_vars
  PROVE  /\ usedTokens \in Nat /\ usedTokens' \in Nat
         /\ usedCost \in Nat /\ usedCost' \in Nat
         /\ Cardinality(InFlight) \in Nat /\ Cardinality(InFlight') \in Nat
<1>1. PoolInv'
  BY PoolKept
<1> QED BY <1>1, Countable, CountableNext DEF PoolInv, TypeOK

\* The token limit is overshot by less than Concurrency of the largest calls.
THEOREM TokensBounded == Spec => []TokenOvershoot
<1>1. Init => TokenOvershoot
  <2> SUFFICES ASSUME Init PROVE TokenOvershoot
    OBVIOUS
  <2>1. Cardinality(InFlight) * MostTokens = 0 /\ Concurrency * MostTokens \in Nat
    BY NothingInFlight, CallBounds
  <2>2. usedTokens = 0
    BY DEF Init
  <2> QED BY <2>1, <2>2, LimitsAssumption DEF TokenOvershoot
<1>2. ASSUME PoolInv, TokenOvershoot, [Next]_vars, MaxTokens > 0 PROVE TokenOvershoot'
  <2> DEFINE n == Cardinality(InFlight)
             m == Cardinality(InFlight')
  <2>1. usedTokens \in Nat /\ usedTokens' \in Nat /\ n \in Nat /\ m \in Nat
    BY <1>2, Counted
  <2>2. Moves(usedTokens, usedTokens', n, m, MostTokens, MaxTokens)
    <3>1. ~Exceeded => usedTokens < MaxTokens
      BY <1>2, <2>1, LimitsAssumption DEF Exceeded
    <3>2. (\E k \in Calls : Record(k)) => usedTokens' <= usedTokens + MostTokens
      BY <2>1, CallBounds DEF Record
    <3> QED BY <1>2, <3>1, <3>2, CallStep DEF Unrecorded, Moves
  <2>3. Within(usedTokens, n, MostTokens, MaxTokens)
    BY <1>2 DEF TokenOvershoot, Within
  <2>4. Within(usedTokens', m, MostTokens, MaxTokens)
    BY <2>1, <2>2, <2>3, Overshoot, CallBounds, LimitsAssumption
  <2> QED BY <2>4 DEF TokenOvershoot, Within
<1>3. ASSUME ~(MaxTokens > 0) PROVE TokenOvershoot'
  BY <1>3 DEF TokenOvershoot
<1>4. PoolInv /\ TokenOvershoot /\ [Next]_vars => TokenOvershoot'
  BY <1>2, <1>3
<1> QED BY <1>1, <1>4, PoolBounded, PTL DEF Spec

-----------------------------------------------------------------------------
(* The bill *)

\* An agent that runs has not stopped.
RunningInv == \A c \in Clause : phase[c] \in {"head", "check", "calling", "queued"} => stop[c] = "none"

\* What is not recorded is what Unseen allows for.
UnseenInv ==
    billed <= usedCost + Unseen(usedSteps, Cardinality(Prepared), Cardinality(Failed))

\* The agents that prepared a call, or failed, can be counted.
LEMMA CountPrepared ==
    /\ IsFiniteSet(Prepared) /\ Cardinality(Prepared) \in Nat
    /\ IsFiniteSet(Failed) /\ Cardinality(Failed) \in Nat
    /\ IsFiniteSet(Prepared') /\ Cardinality(Prepared') \in Nat
    /\ IsFiniteSet(Failed') /\ Cardinality(Failed') \in Nat
<1>1. IsFiniteSet(Clause)
  BY FS_Interval, SizesAssumption DEF Clause
<1>2. /\ IsFiniteSet(Prepared) /\ IsFiniteSet(Failed)
      /\ IsFiniteSet(Prepared') /\ IsFiniteSet(Failed')
  BY <1>1, FS_Subset DEF Prepared, Failed
<1> QED BY <1>2, FS_CardinalityType

\* How much more Unseen allows for after a call, a history, a failure.
LEMMA UnseenGrows ==
  ASSUME NEW s \in Nat, NEW p \in Nat, NEW f \in Nat
  PROVE  /\ Unseen(s, p, f) \in Nat
         /\ \A q \in Nat : q >= p => Unseen(s, q, f) >= Unseen(s, p, f)
         /\ \A g \in Nat : g >= f => Unseen(s, p, g) >= Unseen(s, p, f)
         /\ Unseen(s, p + 1, f) = Unseen(s, p, f) + Condensing
         /\ Unseen(s, p, f + 1) = Unseen(s, p, f) + (Retries + 1) * HighestCost
         /\ p > 0 => Unseen(s + 1, p - 1, f) = Unseen(s, p, f) + Retries * HighestCost
<1> DEFINE H == HighestCost
           R == Retries
           K == Condensing
           F(g) == g * (R + 1)
           A(q) == (s + q) * K
           B(g) == (s * R + F(g)) * H
<1>0. H \in Nat /\ R \in Nat /\ K \in Nat
  BY CallBounds, UnseenAssumption
<1> HIDE DEF H, R, K
<1>1. \A q \in Nat : A(q) \in Nat /\ (q >= p => A(q) >= A(p))
  BY <1>0
<1>2. \A g \in Nat : F(g) \in Nat /\ (g >= f => F(g) >= F(f))
  BY <1>0
<1>3. s * R \in Nat
  BY <1>0
<1>4. \A x, y \in Nat : x * H \in Nat /\ (x >= y => x * H >= y * H) /\ (x + y) * H = x * H + y * H
  BY <1>0
<1>5. A(p + 1) = A(p) + K
  BY <1>0
<1>6. F(f + 1) = F(f) + (R + 1)
  BY <1>0
<1>7. (s + 1) * R = s * R + R
  BY <1>0
<1> HIDE DEF F
<1>8. \A g \in Nat : B(g) \in Nat /\ (g >= f => B(g) >= B(f))
  <2> TAKE g \in Nat
  <2>1. s * R + F(g) \in Nat /\ s * R + F(f) \in Nat
        /\ (g >= f => s * R + F(g) >= s * R + F(f))
    BY <1>2, <1>3
  <2> QED BY <1>4, <2>1
<1>9. B(f + 1) = B(f) + (R + 1) * H
  <2>1. s * R + F(f) \in Nat /\ R + 1 \in Nat
    BY <1>0, <1>2, <1>3
  <2>2. s * R + F(f + 1) = (s * R + F(f)) + (R + 1)
    BY <1>0, <1>2, <1>3, <1>6
  <2> QED BY <1>4, <2>1, <2>2
<1>10. ((s + 1) * R + F(f)) * H = B(f) + R * H
  <2>1. s * R + F(f) \in Nat
    BY <1>2, <1>3
  <2>2. (s + 1) * R + F(f) = (s * R + F(f)) + R
    BY <1>0, <1>2, <1>3, <1>7
  <2> QED BY <1>0, <1>4, <2>1, <2>2
<1>11. \A q, g \in Nat : Unseen(s, q, g) = A(q) + B(g)
  BY DEF Unseen, F, H, R, K
<1>12. p > 0 => Unseen(s + 1, p - 1, f) = A(p) + ((s + 1) * R + F(f)) * H
  <2>1. p > 0 => (s + 1) + (p - 1) = s + p
    OBVIOUS
  <2> QED BY <2>1 DEF Unseen, F, H, R, K
<1> HIDE DEF A, B
<1>13. (R + 1) * H \in Nat /\ R * H \in Nat
  BY <1>0, <1>4
<1>14. Unseen(s, p, f) = A(p) + B(f) /\ Unseen(s, p + 1, f) = A(p + 1) + B(f)
       /\ Unseen(s, p, f + 1) = A(p) + B(f + 1)
  BY <1>11
<1>15. A(p) \in Nat /\ B(f) \in Nat
  BY <1>1, <1>8
<1>a. \A q \in Nat : q >= p => Unseen(s, q, f) >= Unseen(s, p, f)
  <2> TAKE q \in Nat
  <2>1. Unseen(s, q, f) = A(q) + B(f) /\ A(q) \in Nat /\ (q >= p => A(q) >= A(p))
    BY <1>1, <1>11
  <2> QED BY <1>14, <1>15, <2>1
<1>b. \A g \in Nat : g >= f => Unseen(s, p, g) >= Unseen(s, p, f)
  <2> TAKE g \in Nat
  <2>1. Unseen(s, p, g) = A(p) + B(g) /\ B(g) \in Nat /\ (g >= f => B(g) >= B(f))
    BY <1>8, <1>11
  <2> QED BY <1>14, <1>15, <2>1
<1>c. Unseen(s, p + 1, f) = Unseen(s, p, f) + K
  BY <1>0, <1>5, <1>14, <1>15
<1>d. Unseen(s, p, f + 1) = Unseen(s, p, f) + (R + 1) * H
  BY <1>9, <1>13, <1>14, <1>15
<1>e. p > 0 => Unseen(s + 1, p - 1, f) = Unseen(s, p, f) + R * H
  BY <1>10, <1>12, <1>13, <1>14, <1>15
<1>f. Unseen(s, p, f) \in Nat
  BY <1>14, <1>15
<1> QED BY <1>a, <1>b, <1>c, <1>d, <1>e, <1>f DEF H, R, K

\* The same of one more history, and of one that became an answer.
LEMMA UnseenMoves ==
  \A s, p, f \in Nat :
     /\ Unseen(s, p, f) \in Nat
     /\ Unseen(s, p + 1, f) = Unseen(s, p, f) + Condensing
     /\ p > 0 => Unseen(s + 1, p - 1, f) = Unseen(s, p, f) + Retries * HighestCost
<1> TAKE s, p, f \in Nat
<1> QED BY UnseenGrows, Zenon

\* An agent that stops does not run, and no other step stops one.
LEMMA RunningKept == ASSUME TypeOK, RunningInv, [Next]_vars PROVE RunningInv'
<1> USE DEF RunningInv, TypeOK, Enter, StopWith
<1>1. CASE UNCHANGED vars \/ Wait \/ Signal
  BY <1>1 DEF vars, Wait, Signal
<1>2. ASSUME NEW c \in Clause, Dispatch(c) PROVE RunningInv'
  BY <1>2 DEF Dispatch
<1>3. ASSUME NEW c \in Clause, Agent(c) PROVE RunningInv'
  BY <1>3 DEF Agent, BeginStep, CheckBudget, LLMFails, LLMReturns, SaveAnalysis
<1> QED BY <1>1, <1>2, <1>3 DEF Next

\* What a step may add to the bill, and who pays for it.
Unmoved == /\ UNCHANGED <<billed, usedCost, usedSteps>>
           /\ Prepared \subseteq Prepared' /\ Failed \subseteq Failed'

Condensed(c) == /\ billed' <= billed + Condensing
                /\ UNCHANGED <<usedCost, usedSteps>>
                /\ c \notin Prepared /\ Prepared' = Prepared \cup {c} /\ Failed' = Failed

Failing(c) == /\ billed' <= billed + (Retries + 1) * HighestCost
              /\ UNCHANGED <<usedCost, usedSteps>>
              /\ Prepared \subseteq Prepared' /\ c \notin Failed /\ Failed' = Failed \cup {c}

Answered(c) == /\ c \in Prepared /\ Prepared' = Prepared \ {c} /\ Failed' = Failed
               /\ \E k \in Calls : /\ Record(k)
                                   /\ billed' <= billed + Cost(k) + Retries * HighestCost

LEMMA BillStep ==
  ASSUME TypeOK, RunningInv, [Next]_vars
  PROVE  \/ Unmoved
         \/ \E c \in Clause : Condensed(c) \/ Failing(c) \/ Answered(c)
<1> USE DEF TypeOK, Enter, StopWith
<1>1. CASE UNCHANGED vars \/ Wait \/ Signal
  BY <1>1 DEF vars, Wait, Signal, budget, Unmoved, Prepared, Failed
<1>2. ASSUME NEW c \in Clause, Dispatch(c) \/ CheckBudget(c) \/ SaveAnalysis(c) PROVE Unmoved
  <2>1. UNCHANGED <<billed, usedCost, usedSteps>>
    BY <1>2 DEF Dispatch, CheckBudget, SaveAnalysis, budget
  <2>2. Prepared \subseteq Prepared' /\ Failed \subseteq Failed'
    BY <1>2 DEF Dispatch, CheckBudget, SaveAnalysis, Prepared, Failed, RunningInv
  <2> QED BY <2>1, <2>2 DEF Unmoved
<1>3. ASSUME NEW c \in Clause, BeginStep(c) PROVE Unmoved \/ Condensed(c)
  <2>1. CASE cancelled
    BY <1>3, <2>1 DEF BeginStep, budget, Unmoved, Prepared, Failed
  <2>2. CASE ~cancelled
    <3>1. /\ phase[c] = "head" /\ phase' = [phase EXCEPT ![c] = "check"] /\ stop' = stop
          /\ UNCHANGED <<usedCost, usedSteps>> /\ Prepare
      BY <1>3, <2>2 DEF BeginStep
    <3>2. stop[c] = "none"
      BY <3>1 DEF RunningInv
    <3>3. billed' <= billed + Condensing
      BY <3>1, UnseenAssumption DEF Prepare
    <3> QED BY <3>1, <3>2, <3>3 DEF Condensed, Prepared, Failed
  <2> QED BY <2>1, <2>2
<1>4. ASSUME NEW c \in Clause, LLMFails(c) PROVE Failing(c)
  <2>1. /\ phase[c] = "calling" /\ phase' = [phase EXCEPT ![c] = "saving"]
        /\ stop' = [stop EXCEPT ![c] = "error"]
        /\ UNCHANGED <<usedCost, usedSteps>> /\ Bill(0, Retries + 1)
    BY <1>4 DEF LLMFails
  <2>2. stop[c] = "none"
    BY <2>1 DEF RunningInv
  <2>3. billed' <= billed + (Retries + 1) * HighestCost
    <3>1. (Retries + 1) * HighestCost \in Nat /\ Retries + 1 \in Nat
      BY CallBounds, UnseenAssumption
    <3>2. billed' <= billed + 0 + (Retries + 1) * HighestCost
      BY <2>1, <3>1, Billed
    <3> QED BY <3>1, <3>2
  <2> QED BY <2>1, <2>2, <2>3 DEF Failing, Prepared, Failed
<1>5. ASSUME NEW c \in Clause, LLMReturns(c) PROVE Answered(c)
  <2>1. PICK k \in Calls : Record(k) /\ Bill(Cost(k), Retries)
    BY <1>5 DEF LLMReturns
  <2>2. billed' <= billed + Cost(k) + Retries * HighestCost
    BY <2>1, Billed, CallBounds, UnseenAssumption
  <2>3. /\ phase[c] = "calling"
        /\ \/ phase' = [phase EXCEPT ![c] = "head"] /\ stop' = stop
           \/ /\ phase' = [phase EXCEPT ![c] = "saving"]
              /\ \/ stop' = [stop EXCEPT ![c] = "submitted"]
                 \/ stop' = [stop EXCEPT ![c] = "max_steps"]
    BY <1>5 DEF LLMReturns
  <2>4. stop[c] = "none"
    BY <2>3 DEF RunningInv
  <2>5. c \in Prepared /\ Prepared' = Prepared \ {c} /\ Failed' = Failed
    BY <2>3, <2>4 DEF Prepared, Failed
  <2> QED BY <2>1, <2>2, <2>5 DEF Answered
<1> QED BY <1>1, <1>2, <1>3, <1>4, <1>5 DEF Next, Agent

\* Every charge that is not recorded is paid for.
LEMMA UnseenKept ==
  ASSUME ModelKnown, PoolInv, RunningInv, UnseenInv, [Next]_vars PROVE UnseenInv'
<1> DEFINE p == Cardinality(Prepared)
           f == Cardinality(Failed)
           q == Cardinality(Prepared')
           g == Cardinality(Failed')
<1>t. TypeOK /\ TypeOK'
  BY TypeStep DEF PoolInv
<1>n. /\ billed \in Nat /\ billed' \in Nat /\ usedCost \in Nat /\ usedCost' \in Nat
      /\ usedSteps \in Nat /\ usedSteps' \in Nat
      /\ p \in Nat /\ f \in Nat /\ q \in Nat /\ g \in Nat
  BY <1>t, CountPrepared DEF TypeOK
<1>u. billed <= usedCost + Unseen(usedSteps, p, f)
  BY DEF UnseenInv
<1>v. SUFFICES billed' <= usedCost' + Unseen(usedSteps', q, g)
  BY DEF UnseenInv, Unseen
<1>c. /\ Condensing \in Nat /\ Retries * HighestCost \in Nat
      /\ (Retries + 1) * HighestCost \in Nat
  BY CallBounds, UnseenAssumption
<1>1. CASE Unmoved
  <2>1. q >= p /\ g >= f
    BY <1>1, CountPrepared, FS_Subset DEF Unmoved
  <2>2. Unseen(usedSteps, p, f) \in Nat /\ Unseen(usedSteps, q, f) \in Nat
        /\ Unseen(usedSteps, q, g) \in Nat
    BY <1>n, UnseenGrows
  <2>3. Unseen(usedSteps, q, f) >= Unseen(usedSteps, p, f)
    BY <1>n, <2>1, UnseenGrows
  <2>4. Unseen(usedSteps, q, g) >= Unseen(usedSteps, q, f)
    BY <1>n, <2>1, UnseenGrows
  <2> HIDE DEF p, f, q, g
  <2> QED BY <1>1, <1>n, <1>u, <2>2, <2>3, <2>4 DEF Unmoved
<1>2. ASSUME NEW c \in Clause, Condensed(c) PROVE billed' <= usedCost' + Unseen(usedSteps', q, g)
  <2>1. q = p + 1 /\ g = f
    BY <1>2, CountPrepared, FS_AddElement DEF Condensed
  <2>2. Unseen(usedSteps, q, g) = Unseen(usedSteps, p, f) + Condensing
        /\ Unseen(usedSteps, p, f) \in Nat
    <3> HIDE DEF p, f, q, g
    <3>0. usedSteps \in Nat /\ p \in Nat /\ f \in Nat
      BY <1>n
    <3>1. Unseen(usedSteps, p + 1, f) = Unseen(usedSteps, p, f) + Condensing
      BY <3>0, UnseenMoves
    <3>2. Unseen(usedSteps, p, f) \in Nat
      BY <3>0, UnseenMoves
    <3> QED BY <2>1, <3>1, <3>2
  <2> HIDE DEF p, f, q, g
  <2> QED BY <1>2, <1>n, <1>u, <1>c, <2>2 DEF Condensed
<1>3. ASSUME NEW c \in Clause, Failing(c) PROVE billed' <= usedCost' + Unseen(usedSteps', q, g)
  <2>1. g = f + 1
    BY <1>3, CountPrepared, FS_AddElement DEF Failing
  <2>2. q >= p
    BY <1>3, CountPrepared, FS_Subset DEF Failing
  <2>3. Unseen(usedSteps, q, f) >= Unseen(usedSteps, p, f)
        /\ Unseen(usedSteps, p, f) \in Nat /\ Unseen(usedSteps, q, f) \in Nat
    BY <1>n, <2>2, UnseenGrows
  <2>4. Unseen(usedSteps, q, g) = Unseen(usedSteps, q, f) + (Retries + 1) * HighestCost
    BY <1>n, <2>1, UnseenGrows
  <2> DEFINE e == (Retries + 1) * HighestCost
  <2>5. e \in Nat /\ billed' <= billed + e /\ UNCHANGED <<usedCost, usedSteps>>
        /\ Unseen(usedSteps, q, g) = Unseen(usedSteps, q, f) + e
    BY <1>3, <1>c, <2>4 DEF Failing
  <2> HIDE DEF p, f, q, g, e
  <2> QED BY <1>n, <1>u, <2>3, <2>5
<1>4. ASSUME NEW c \in Clause, Answered(c) PROVE billed' <= usedCost' + Unseen(usedSteps', q, g)
  <2>1. q = p - 1 /\ g = f /\ p > 0
    <3>1. q = p - 1 /\ g = f
      BY <1>4, CountPrepared, FS_RemoveElement DEF Answered
    <3> QED BY <1>n, <3>1
  <2>2. PICK k \in Calls : Record(k) /\ billed' <= billed + Cost(k) + Retries * HighestCost
    BY <1>4 DEF Answered
  <2>3. usedCost' = usedCost + Cost(k) /\ usedSteps' = usedSteps + 1 /\ Cost(k) \in Nat
    BY <2>2, CallBounds DEF Record, Estimate
  <2> DEFINE e == Retries * HighestCost
             k0 == Cost(k)
  <2>4. Unseen(usedSteps', q, g) = Unseen(usedSteps, p, f) + e
        /\ Unseen(usedSteps, p, f) \in Nat
    <3> HIDE DEF p, f, q, g, e
    <3>0. usedSteps \in Nat /\ p \in Nat /\ f \in Nat /\ p > 0
      BY <1>n, <2>1
    <3>1. Unseen(usedSteps + 1, p - 1, f) = Unseen(usedSteps, p, f) + Retries * HighestCost
      BY <3>0, UnseenMoves
    <3>2. Unseen(usedSteps, p, f) \in Nat
      BY <3>0, UnseenMoves
    <3> QED BY <2>1, <2>3, <3>1, <3>2 DEF e
  <2>5. e \in Nat /\ k0 \in Nat /\ billed' <= billed + k0 + e /\ usedCost' = usedCost + k0
    BY <1>c, <2>2, <2>3
  <2> HIDE DEF p, f, q, g, e, k0
  <2> QED BY <1>n, <1>u, <2>4, <2>5
<1> QED BY <1>t, <1>1, <1>2, <1>3, <1>4, BillStep

\* With a model that has a price the recorded cost stays within the limit but
\* for less than Concurrency of the dearest calls.
RecordedInv ==
    MaxCost > 0 => Within(usedCost, Cardinality(InFlight), HighestCost, MaxCost)

LEMMA RecordedKept == ASSUME ModelKnown, PoolInv, RecordedInv, [Next]_vars PROVE RecordedInv'
<1> DEFINE n == Cardinality(InFlight)
           m == Cardinality(InFlight')
<1>1. usedCost \in Nat /\ usedCost' \in Nat /\ n \in Nat /\ m \in Nat
  BY Counted
<1>2. CASE MaxCost > 0
  <2>1. ~Exceeded => usedCost < MaxCost
    BY <1>1, <1>2, LimitsAssumption DEF Exceeded
  <2>2. (\E k \in Calls : Record(k)) => usedCost' <= usedCost + HighestCost
    BY <1>1, CallBounds DEF Record, Estimate
  <2>3. Moves(usedCost, usedCost', n, m, HighestCost, MaxCost)
    BY <2>1, <2>2, CallStep DEF Unrecorded, Moves
  <2>4. Within(usedCost, n, HighestCost, MaxCost)
    BY <1>2 DEF RecordedInv
  <2>5. Within(usedCost', m, HighestCost, MaxCost)
    BY <1>1, <2>3, <2>4, Overshoot, CallBounds, LimitsAssumption
  <2> QED BY <2>5 DEF RecordedInv, Within
<1>3. CASE ~(MaxCost > 0)
  BY <1>3 DEF RecordedInv
<1> QED BY <1>2, <1>3

\* The provider charges no more than the dollar limit, less than Concurrency of
\* the dearest calls, and the histories and attempts that the budget is not told
\* of: one history and maxRetries attempts for every call, and for a call that
\* failed all of its attempts.
THEOREM CostBounded == Spec => []CostOvershoot
<1> DEFINE Inv == RunningInv /\ (ModelKnown => UnseenInv /\ RecordedInv)
<1>1. Init => Inv
  <2> SUFFICES ASSUME Init PROVE Inv
    OBVIOUS
  <2>1. Cardinality(InFlight) * HighestCost = 0 /\ Concurrency * HighestCost \in Nat
    BY NothingInFlight, CallBounds
  <2>2. usedCost = 0 /\ billed = 0 /\ usedSteps = 0
    BY DEF Init
  <2>3. RunningInv
    BY DEF Init, RunningInv
  <2>4. UnseenInv
    <3>1. Unseen(usedSteps, Cardinality(Prepared), Cardinality(Failed)) \in Nat
      BY <2>2, CountPrepared, UnseenGrows
    <3> QED BY <2>2, <3>1 DEF UnseenInv
  <2>5. RecordedInv
    BY <2>1, <2>2, LimitsAssumption DEF RecordedInv, Within
  <2> QED BY <2>3, <2>4, <2>5
<1>2. PoolInv /\ Inv /\ [Next]_vars => Inv'
  BY RunningKept, UnseenKept, RecordedKept DEF PoolInv
<1>3. PoolInv /\ Inv => CostOvershoot
  <2> SUFFICES ASSUME PoolInv, UnseenInv, RecordedInv, MaxCost > 0
               PROVE  billed + Cardinality(InFlight) * HighestCost
                         <= MaxCost - 1 + Concurrency * HighestCost
                            + Unseen(usedSteps, Cardinality(Prepared), Cardinality(Failed))
    BY DEF CostOvershoot
  <2> DEFINE n == Cardinality(InFlight) * HighestCost
             m == Concurrency * HighestCost
             u == Unseen(usedSteps, Cardinality(Prepared), Cardinality(Failed))
  <2>t. billed \in Nat /\ usedCost \in Nat /\ usedSteps \in Nat
    BY DEF PoolInv, TypeOK
  <2>n. n \in Nat /\ m \in Nat
    BY Countable, CallBounds, SizesAssumption
  <2>u. u \in Nat
    BY <2>t, CountPrepared, UnseenGrows
  <2>1. billed \in Nat /\ usedCost \in Nat /\ n \in Nat /\ m \in Nat /\ u \in Nat
    BY <2>t, <2>n, <2>u
  <2>2. billed <= usedCost + u /\ usedCost + n <= MaxCost - 1 + m
    BY DEF UnseenInv, RecordedInv, Within
  <2> HIDE DEF n, m, u
  <2> QED BY <2>1, <2>2, LimitsAssumption DEF n, m, u
<1> QED BY <1>1, <1>2, <1>3, PoolBounded, PTL DEF Spec

-----------------------------------------------------------------------------
(* Clauses that the limit stops half done *)

\* The clauses that a limit has stopped, or may still stop, after a call was
\* billed; and before the limit is reached it has stopped none.
MayBeHalfDone ==
    {c \in Clause : /\ usage[c] > 0 \/ phase[c] = "calling"
                    /\ stop[c] = "budget" \/ phase[c] \in {"head", "check", "calling"}}

HalfDoneInv ==
    /\ \A c \in Clause : phase[c] = "queued" => usage[c] = 0
    /\ IsFiniteSet(MayBeHalfDone) /\ Cardinality(MayBeHalfDone) <= Concurrency
    /\ ~Exceeded => \A c \in Clause : stop[c] # "budget"

\* A subset of the clauses is as small as the set it is in.
LEMMA SmallerCounts ==
    ASSUME NEW S, NEW T, IsFiniteSet(T), S \subseteq T, Cardinality(T) <= Concurrency
    PROVE  IsFiniteSet(S) /\ Cardinality(S) <= Concurrency
<1>1. IsFiniteSet(S) /\ Cardinality(S) <= Cardinality(T)
  BY FS_Subset
<1>2. Cardinality(S) \in Nat /\ Cardinality(T) \in Nat
  BY <1>1, FS_CardinalityType
<1> QED BY <1>1, <1>2, SizesAssumption

\* What is recorded only grows, so that a limit that is reached stays reached.
LEMMA ExceededStays == ASSUME PoolInv, [Next]_vars, Exceeded PROVE Exceeded'
<1>1. usedTokens' >= usedTokens /\ usedCost' >= usedCost /\ usedSteps' >= usedSteps
  <2>1. usedTokens \in Nat /\ usedCost \in Nat /\ usedSteps \in Nat
    BY DEF PoolInv, TypeOK
  <2>2. CASE Unrecorded
    BY <2>1, <2>2 DEF Unrecorded
  <2>3. CASE \E k \in Calls : Record(k)
    BY <2>1, <2>3, CallBounds DEF Record, Estimate
  <2> QED BY <2>2, <2>3, CallStep
<1>2. /\ usedTokens \in Nat /\ usedCost \in Nat /\ usedSteps \in Nat
      /\ usedTokens' \in Nat /\ usedCost' \in Nat /\ usedSteps' \in Nat
  BY PoolKept DEF PoolInv, TypeOK
<1> QED BY <1>1, <1>2, LimitsAssumption DEF Exceeded

\* Within the limit no agent is stopped by it.
LEMMA NoneStopped ==
    ASSUME TypeOK, [Next]_vars, ~Exceeded, \A c \in Clause : stop[c] # "budget"
    PROVE  \A c \in Clause : stop'[c] # "budget"
<1>1. CASE UNCHANGED vars \/ Wait \/ Signal
  BY <1>1 DEF vars, Wait, Signal
<1>2. ASSUME NEW d \in Clause, Dispatch(d) \/ LLMFails(d) \/ SaveAnalysis(d) \/ BeginStep(d)
      PROVE  \A c \in Clause : stop'[c] # "budget"
  BY <1>2 DEF Dispatch, LLMFails, SaveAnalysis, BeginStep, StopWith, TypeOK
<1>3. ASSUME NEW d \in Clause, CheckBudget(d) \/ LLMReturns(d)
      PROVE  \A c \in Clause : stop'[c] # "budget"
  BY <1>3 DEF CheckBudget, LLMReturns, StopWith, TypeOK
<1> QED BY <1>1, <1>2, <1>3 DEF Next, Agent

\* Past the limit no clause is added.
LEMMA NoneAdded ==
    ASSUME TypeOK, [Next]_vars, Exceeded, \A c \in Clause : phase[c] = "queued" => usage[c] = 0
    PROVE  MayBeHalfDone' \subseteq MayBeHalfDone
<1>1. CASE UNCHANGED vars \/ Wait \/ Signal
  BY <1>1 DEF vars, Wait, Signal, MayBeHalfDone
<1>2. ASSUME NEW d \in Clause, Dispatch(d) PROVE MayBeHalfDone' \subseteq MayBeHalfDone
  <2>1. phase[d] = "queued" /\ usage[d] = 0 /\ phase'[d] = "head" /\ usage' = usage
    BY <1>2 DEF Dispatch, Enter, TypeOK
  <2>2. stop' = stop /\ \A c \in Clause \ {d} : phase'[c] = phase[c]
    BY <1>2 DEF Dispatch, Enter, TypeOK
  <2> QED BY <2>1, <2>2 DEF MayBeHalfDone
<1>3. ASSUME NEW d \in Clause, BeginStep(d) \/ CheckBudget(d) \/ LLMFails(d) \/ SaveAnalysis(d)
      PROVE  MayBeHalfDone' \subseteq MayBeHalfDone
  <2>1. usage' = usage /\ \A c \in Clause \ {d} : phase'[c] = phase[c] /\ stop'[c] = stop[c]
    BY <1>3 DEF BeginStep, CheckBudget, LLMFails, SaveAnalysis, StopWith, Enter, TypeOK
  <2>2. d \in MayBeHalfDone' => d \in MayBeHalfDone
    BY <1>3 DEF BeginStep, CheckBudget, LLMFails, SaveAnalysis, StopWith, Enter, TypeOK,
       MayBeHalfDone
  <2> QED BY <2>1, <2>2 DEF MayBeHalfDone
<1>4. ASSUME NEW d \in Clause, LLMReturns(d) PROVE MayBeHalfDone' \subseteq MayBeHalfDone
  <2>1. phase[d] = "calling"
    BY <1>4 DEF LLMReturns
  <2>2. \A c \in Clause \ {d} : /\ phase'[c] = phase[c] /\ stop'[c] = stop[c]
                                /\ usage'[c] = usage[c]
    BY <1>4 DEF LLMReturns, StopWith, Enter, TypeOK
  <2> QED BY <2>1, <2>2 DEF MayBeHalfDone
<1> QED BY <1>1, <1>2, <1>3, <1>4 DEF Next, Agent

\* Clauses that wait have used nothing.
LEMMA QueuedUntouched ==
    ASSUME TypeOK, [Next]_vars, \A c \in Clause : phase[c] = "queued" => usage[c] = 0
    PROVE  \A c \in Clause : phase'[c] = "queued" => usage'[c] = 0
<1>1. CASE UNCHANGED vars \/ Wait \/ Signal
  BY <1>1 DEF vars, Wait, Signal
<1>2. ASSUME NEW d \in Clause,
             Dispatch(d) \/ BeginStep(d) \/ CheckBudget(d) \/ LLMFails(d) \/ SaveAnalysis(d)
      PROVE  \A c \in Clause : phase'[c] = "queued" => usage'[c] = 0
  BY <1>2 DEF Dispatch, BeginStep, CheckBudget, LLMFails, SaveAnalysis, StopWith, Enter, TypeOK
<1>3. ASSUME NEW d \in Clause, LLMReturns(d)
      PROVE  \A c \in Clause : phase'[c] = "queued" => usage'[c] = 0
  BY <1>3 DEF LLMReturns, StopWith, Enter, TypeOK
<1> QED BY <1>1, <1>2, <1>3 DEF Next, Agent

LEMMA HalfDoneStep == ASSUME PoolInv, HalfDoneInv, [Next]_vars PROVE HalfDoneInv'
<1>t. TypeOK
  BY DEF PoolInv
<1>q. (\A c \in Clause : phase[c] = "queued" => usage[c] = 0)'
  BY <1>t, QueuedUntouched DEF HalfDoneInv
<1>1. CASE Exceeded
  <2>1. MayBeHalfDone' \subseteq MayBeHalfDone
    BY <1>1, <1>t, NoneAdded DEF HalfDoneInv
  <2>2. IsFiniteSet(MayBeHalfDone') /\ Cardinality(MayBeHalfDone') <= Concurrency
    BY <2>1, SmallerCounts DEF HalfDoneInv
  <2> QED BY <1>1, <1>q, <2>2, ExceededStays DEF HalfDoneInv
<1>2. CASE ~Exceeded
  <2>1. \A c \in Clause : stop'[c] # "budget"
    BY <1>2, <1>t, NoneStopped DEF HalfDoneInv
  <2>2. MayBeHalfDone' \subseteq Active'
    BY <2>1 DEF MayBeHalfDone, Active
  <2>3. IsFiniteSet(Active') /\ Cardinality(Active') <= Concurrency
    <3>1. Active' \subseteq Clause /\ IsFiniteSet(Clause)
      BY FS_Interval, SizesAssumption DEF Active, Clause
    <3> QED BY <3>1, FS_Subset, PoolKept DEF PoolInv
  <2>4. IsFiniteSet(MayBeHalfDone') /\ Cardinality(MayBeHalfDone') <= Concurrency
    BY <2>2, <2>3, SmallerCounts
  <2> QED BY <1>q, <2>1, <2>4 DEF HalfDoneInv
<1> QED BY <1>1, <1>2

\* A limit stops at most Concurrency clauses after calls were billed for them:
\* those whose agents were running when it was reached.
THEOREM FewHalfDone == Spec => []HalfDoneBounded
<1>1. Init => HalfDoneInv
  <2> SUFFICES ASSUME Init PROVE HalfDoneInv
    OBVIOUS
  <2>1. MayBeHalfDone = {} /\ \A c \in Clause : stop[c] # "budget" /\ usage[c] = 0
    BY DEF Init, MayBeHalfDone
  <2> QED BY <2>1, FS_EmptySet, SizesAssumption DEF HalfDoneInv
<1>2. PoolInv /\ HalfDoneInv /\ [Next]_vars => HalfDoneInv'
  BY HalfDoneStep
<1>3. HalfDoneInv => HalfDoneBounded
  <2>1. {c \in Clause : stop[c] = "budget" /\ usage[c] > 0} \subseteq MayBeHalfDone
    BY DEF MayBeHalfDone
  <2> QED BY <2>1, SmallerCounts DEF HalfDoneInv, HalfDoneBounded
<1> QED BY <1>1, <1>2, <1>3, PoolBounded, PTL DEF Spec

-----------------------------------------------------------------------------
(* What becomes of a clause, and its row *)

\* The store takes the rows.
StoreWorks == "lost row" \notin Faults

\* An agent stops once, before its clause is stored; only a clause that is done
\* has a row, and the one of its outcome.
OutcomeInv ==
    /\ \A c \in Clause : stop[c] = "none" <=> phase[c] \notin {"saving", "done"}
    /\ \A c \in Clause : rows[c] # "none" => phase[c] = "done"
    /\ \A c \in Clause : /\ rows[c] = "ok" => stop[c] = "submitted"
                         /\ rows[c] = "failed" => stop[c] # "submitted"
    /\ ~cancelled /\ StoreWorks
          => \A c \in Clause : phase[c] = "done" => rows[c] # "none"
    /\ finished => \A c \in Clause : phase[c] = "done"

\* The steps that store nothing: they leave a clause that is done, and what
\* was counted, alone.
Unsettled ==
    /\ UNCHANGED totals
    /\ \A c \in Clause : /\ phase'[c] = "done" <=> phase[c] = "done"
                         /\ phase[c] = "done" => stop'[c] = stop[c]

\* What storing the outcome of clause c does.
LEMMA SavedRow ==
  ASSUME NEW c \in Clause, SaveAnalysis(c)
  PROVE  \/ ~cancelled /\ rows' = [rows EXCEPT ![c] = IF stop[c] = "submitted" THEN "ok" ELSE "failed"]
         \/ (cancelled \/ ~StoreWorks) /\ rows' = rows
  BY Zenon DEF SaveAnalysis, StoreWorks

LEMMA SavedRest ==
  ASSUME TypeOK, NEW c \in Clause, SaveAnalysis(c)
  PROVE  /\ phase[c] = "saving" /\ phase' = [phase EXCEPT ![c] = "done"]
         /\ UNCHANGED <<stop, usage, cancelled, finished>> /\ UNCHANGED usedTokens
         /\ totalTokens' = IF stop[c] = "error" THEN totalTokens ELSE totalTokens + usage[c]
         /\ okCount' = IF stop[c] = "submitted" THEN okCount + 1 ELSE okCount
         /\ failedCount' = IF stop[c] = "submitted" THEN failedCount ELSE failedCount + 1
  BY Zenon DEF SaveAnalysis, Enter, budget

\* How an agent gets to the end of its run.
LEMMA AgentMoves ==
  ASSUME TypeOK, NEW c \in Clause,
         BeginStep(c) \/ CheckBudget(c) \/ LLMFails(c) \/ LLMReturns(c)
  PROVE  /\ phase[c] \in {"head", "check", "calling"}
         /\ \E p \in {"head", "check", "calling", "saving"}, s \in Stop :
               /\ phase' = [phase EXCEPT ![c] = p] /\ stop' = [stop EXCEPT ![c] = s]
               /\ IF p = "saving" THEN s # "none" ELSE s = stop[c]
         /\ UNCHANGED <<cancelled, totals, finished>>
<1>1. stop[c] \in Stop /\ stop = [stop EXCEPT ![c] = stop[c]]
  BY DEF TypeOK
<1>2. phase[c] \in {"head", "check", "calling"} /\ UNCHANGED <<cancelled, totals, finished>>
  BY DEF BeginStep, CheckBudget, LLMFails, LLMReturns
<1>3. \/ \E s \in Stop \ {"none"} : StopWith(c, s)
      \/ \E p \in {"head", "check", "calling"} : Enter(c, p) /\ stop' = stop
  BY DEF BeginStep, CheckBudget, LLMFails, LLMReturns, Stop
<1>4. CASE \E s \in Stop \ {"none"} : StopWith(c, s)
  BY <1>2, <1>4 DEF StopWith, Enter
<1>5. CASE \E p \in {"head", "check", "calling"} : Enter(c, p) /\ stop' = stop
  BY <1>1, <1>2, <1>5 DEF Enter
<1> QED BY <1>3, <1>4, <1>5

LEMMA InitOutcome == Init => OutcomeInv
  BY DEF Init, OutcomeInv

LEMMA OutcomeStep == ASSUME TypeOK, OutcomeInv, [Next]_vars PROVE OutcomeInv'
<1>1. CASE UNCHANGED vars
  BY <1>1 DEF vars, totals, OutcomeInv
<1>2. CASE Wait
  BY <1>2 DEF Wait, totals, OutcomeInv
<1>3. CASE Signal
  <2>1. cancelled' /\ UNCHANGED <<phase, stop, rows, finished>>
    BY <1>3, Zenon DEF Signal, totals
  <2> QED BY <2>1 DEF OutcomeInv
<1>4. ASSUME NEW c \in Clause, Dispatch(c) PROVE OutcomeInv'
  BY <1>4 DEF Dispatch, Enter, totals, OutcomeInv, TypeOK
<1>5. ASSUME NEW c \in Clause, BeginStep(c) \/ CheckBudget(c) \/ LLMFails(c) \/ LLMReturns(c)
      PROVE  OutcomeInv'
  BY <1>5, AgentMoves DEF totals, OutcomeInv, TypeOK
<1>6. ASSUME NEW c \in Clause, SaveAnalysis(c) PROVE OutcomeInv'
  <2>1. /\ phase[c] = "saving" /\ phase' = [phase EXCEPT ![c] = "done"]
        /\ UNCHANGED <<stop, cancelled, finished>>
    BY <1>6, SavedRest
  <2>2. \/ ~cancelled /\ rows' = [rows EXCEPT ![c] = IF stop[c] = "submitted" THEN "ok" ELSE "failed"]
        \/ (cancelled \/ ~StoreWorks) /\ rows' = rows
    BY <1>6, SavedRow
  <2>3. \A d \in Clause \ {c} : phase'[d] = phase[d] /\ rows'[d] = rows[d]
    BY <2>1, <2>2 DEF TypeOK
  <2>4. phase'[c] = "done" /\ rows[c] = "none" /\ stop[c] # "none" /\ ~finished
    BY <2>1 DEF TypeOK, OutcomeInv
  <2>5. /\ rows'[c] = "ok" => stop[c] = "submitted"
        /\ rows'[c] = "failed" => stop[c] # "submitted"
        /\ ~cancelled /\ StoreWorks => rows'[c] # "none"
    BY <2>2, <2>4 DEF TypeOK
  <2> QED BY <2>1, <2>3, <2>4, <2>5 DEF OutcomeInv
<1> QED BY <1>1, <1>2, <1>3, <1>4, <1>5, <1>6 DEF Next, Agent

\* No clause that an agent submitted a finding for has a failed row, and no
\* other has a good one; with a store that works and no signal each has one.
THEOREM RowsTell == Spec => []RowsTellTheOutcome
<1>1. ASSUME TypeOK, OutcomeInv PROVE RowsTellTheOutcome
  <2>1. \A c \in Clause : /\ rows[c] = "ok" => stop[c] = "submitted"
                          /\ rows[c] = "failed" => stop[c] \in Stop \ {"none", "submitted"}
    BY <1>1 DEF OutcomeInv, TypeOK
  <2>2. finished /\ ~cancelled /\ StoreWorks => \A c \in Clause : rows[c] # "none"
    BY <1>1 DEF OutcomeInv
  <2> QED BY <2>1, <2>2, Zenon DEF RowsTellTheOutcome, StoreWorks
<1>2. PoolInv => TypeOK
  BY DEF PoolInv
<1>3. TypeOK /\ OutcomeInv /\ [Next]_vars => OutcomeInv'
  BY OutcomeStep
<1> QED BY <1>1, <1>2, <1>3, InitOutcome, PoolBounded, PTL DEF Spec

-----------------------------------------------------------------------------
(* The totals of a run *)

\* One element for each token that the agents of the clauses in S used: to add
\* up the tokens is to count them.
Units(S) == {u \in S \X Nat : 1 <= u[2] /\ u[2] <= usage[u[1]]}

\* The clauses that are done, by how their agents stopped.
DoneAs(S) == {c \in Clause : phase[c] = "done" /\ stop[c] \in S}

Failures == Stop \ {"submitted"}
Answers == Stop \ {"error"}

\* The counters count what they are named for.
TotalsInv ==
    /\ okCount = Cardinality(DoneAs({"submitted"}))
    /\ failedCount = Cardinality(DoneAs(Failures))
    /\ IsFiniteSet(Units(Clause))
    /\ usedTokens = Cardinality(Units(Clause))
    /\ totalTokens = Cardinality(Units(DoneAs(Answers)))

LEMMA FiniteClauses == IsFiniteSet(Clause) /\ Cardinality(Clause) = NumClauses
  BY FS_Interval, SizesAssumption DEF Clause

\* The tokens of clause c that follow the first a, n of them.
Strip(c, a, n) == {c} \X ((a + 1)..(a + n))

LEMMA StripCounted ==
  ASSUME NEW c, NEW a \in Nat, NEW n \in Nat
  PROVE  IsFiniteSet(Strip(c, a, n)) /\ Cardinality(Strip(c, a, n)) = n
<1> DEFINE I == (a + 1)..(a + n)
<1>1. IsFiniteSet({c}) /\ Cardinality({c}) = 1
  BY FS_Singleton
<1>2. IsFiniteSet(I) /\ Cardinality(I) = n
  BY FS_Interval
<1> HIDE DEF I
<1>3. IsFiniteSet({c} \X I) /\ Cardinality({c} \X I) = 1 * n
  BY <1>1, <1>2, FS_Product
<1> QED BY <1>3 DEF Strip, I

LEMMA UnitsGrow ==
  ASSUME NEW U, IsFiniteSet(U), NEW c, NEW a \in Nat, NEW n \in Nat,
         U \cap Strip(c, a, n) = {}
  PROVE  /\ IsFiniteSet(U \cup Strip(c, a, n))
         /\ Cardinality(U \cup Strip(c, a, n)) = Cardinality(U) + n
<1>1. IsFiniteSet(Strip(c, a, n)) /\ Cardinality(Strip(c, a, n)) = n
  BY StripCounted
<1>2. /\ IsFiniteSet(U \cup Strip(c, a, n))
      /\ Cardinality(U \cup Strip(c, a, n)) =
           Cardinality(U) + Cardinality(Strip(c, a, n)) - Cardinality(U \cap Strip(c, a, n))
  BY <1>1, FS_Union
<1>3. Cardinality(U \cap Strip(c, a, n)) = 0 /\ Cardinality(U) \in Nat
  BY FS_EmptySet, FS_CardinalityType
<1> QED BY <1>1, <1>2, <1>3

\* What stays of the totals when nothing is stored.
LEMMA UnsettledKeeps ==
  ASSUME TypeOK, Unsettled, NEW S
  PROVE  DoneAs(S)' = DoneAs(S)
  BY DEF Unsettled, DoneAs

\* A clause that is stored joins those that are done as its agent stopped.
LEMMA SavedJoins ==
  ASSUME TypeOK, NEW c \in Clause, SaveAnalysis(c), NEW S
  PROVE  /\ DoneAs(S)' = IF stop[c] \in S THEN DoneAs(S) \cup {c} ELSE DoneAs(S)
         /\ c \notin DoneAs(S)
<1>1. phase[c] = "saving" /\ phase' = [phase EXCEPT ![c] = "done"] /\ stop' = stop
  BY SavedRest
<1> QED BY <1>1 DEF DoneAs, TypeOK

LEMMA StoreCounts ==
  ASSUME TypeOK, NEW c \in Clause, SaveAnalysis(c), NEW S
  PROVE  Cardinality(DoneAs(S)') =
           IF stop[c] \in S THEN Cardinality(DoneAs(S)) + 1 ELSE Cardinality(DoneAs(S))
<1>1. IsFiniteSet(DoneAs(S))
  BY FiniteClauses, FS_Subset DEF DoneAs
<1> QED BY <1>1, SavedJoins, FS_AddElement

LEMMA InitTotals == Init => TotalsInv
<1> SUFFICES ASSUME Init PROVE TotalsInv
  OBVIOUS
<1>1. \A S : DoneAs(S) = {}
  BY DEF Init, DoneAs
<1>2. Units(Clause) = {} /\ Units({}) = {}
  BY DEF Init, Units
<1>3. okCount = 0 /\ failedCount = 0 /\ usedTokens = 0 /\ totalTokens = 0
  BY DEF Init
<1> QED BY <1>1, <1>2, <1>3, FS_EmptySet DEF TotalsInv

\* Steps that neither store nor record.
LEMMA TotalsKept ==
  ASSUME TypeOK, TotalsInv, Unsettled, UNCHANGED <<usage, usedTokens>>
  PROVE  TotalsInv'
<1>1. \A S : DoneAs(S)' = DoneAs(S)
  BY UnsettledKeeps
<1>2. \A S : Units(S)' = Units(S)
  BY DEF Units
<1>3. UNCHANGED <<okCount, failedCount, totalTokens>>
  BY DEF Unsettled, totals
<1> QED BY <1>1, <1>2, <1>3 DEF TotalsInv

\* Storing an outcome: the clause is counted, and its tokens unless its agent
\* ended with an error.
LEMMA TotalsStored ==
  ASSUME TypeOK, TotalsInv, NEW c \in Clause, SaveAnalysis(c)
  PROVE  TotalsInv'
<1>1. /\ UNCHANGED <<usage, usedTokens>>
      /\ totalTokens' = IF stop[c] = "error" THEN totalTokens ELSE totalTokens + usage[c]
      /\ okCount' = IF stop[c] = "submitted" THEN okCount + 1 ELSE okCount
      /\ failedCount' = IF stop[c] = "submitted" THEN failedCount ELSE failedCount + 1
  BY SavedRest
<1>2. stop[c] \in Stop /\ usage[c] \in Nat
  BY DEF TypeOK
<1>3. okCount' = Cardinality(DoneAs({"submitted"})')
  BY <1>1, StoreCounts DEF TotalsInv
<1>4. failedCount' = Cardinality(DoneAs(Failures)')
  BY <1>1, <1>2, StoreCounts DEF TotalsInv, Failures
<1>5. \A S : Units(S)' = {u \in S' \X Nat : 1 <= u[2] /\ u[2] <= usage[u[1]]}
  BY <1>1 DEF Units
<1>6. Cardinality(Units(DoneAs(Answers))') = totalTokens'
  <2> DEFINE D == DoneAs(Answers)
             T == Strip(c, 0, usage[c])
  <2>1. CASE stop[c] = "error"
    <3>1. D' = D
      BY <2>1, SavedJoins DEF Answers
    <3>2. Units(D)' = Units(D)
      BY <1>1, <3>1 DEF Units
    <3> QED BY <1>1, <2>1, <3>2 DEF TotalsInv
  <2>2. CASE stop[c] # "error"
    <3>1. D' = D \cup {c} /\ c \notin D
      BY <1>2, <2>2, SavedJoins DEF Answers
    <3> HIDE DEF D
    <3>2. Units(D)' = Units(D) \cup T
      BY <1>1, <1>2, <3>1 DEF Units, Strip
    <3>3. Units(D) \cap T = {}
      BY <3>1 DEF Units, Strip
    <3>4. IsFiniteSet(Units(D))
      <4>1. Units(D) \subseteq Units(Clause)
        BY DEF Units, D, DoneAs
      <4> QED BY <4>1, FS_Subset DEF TotalsInv
    <3>5. Cardinality(Units(D) \cup T) = Cardinality(Units(D)) + usage[c]
      BY <1>2, <3>3, <3>4, UnitsGrow
    <3> QED BY <1>1, <2>2, <3>2, <3>5 DEF TotalsInv, D
  <2> QED BY <2>1, <2>2
<1>7. Units(Clause)' = Units(Clause)
  BY <1>1 DEF Units
<1> QED BY <1>1, <1>3, <1>4, <1>6, <1>7 DEF TotalsInv

\* Recording a call: its tokens are those of one clause, that is not done.
LEMMA TotalsRecorded ==
  ASSUME TypeOK, TotalsInv, Unsettled,
         NEW c \in Clause, phase[c] # "done", NEW n \in Nat,
         usage' = [usage EXCEPT ![c] = @ + n], usedTokens' = usedTokens + n
  PROVE  TotalsInv'
<1> DEFINE D == DoneAs(Answers)
           T == Strip(c, usage[c], n)
<1>1. \A S : DoneAs(S)' = DoneAs(S)
  BY UnsettledKeeps
<1>2. usage[c] \in Nat /\ usage'[c] = usage[c] + n /\ \A d \in Clause \ {c} : usage'[d] = usage[d]
  BY DEF TypeOK
<1>3. Units(D)' = Units(D)
  <2>1. D' = D /\ c \notin D /\ D \subseteq Clause
    BY <1>1 DEF DoneAs
  <2> HIDE DEF D
  <2> QED BY <1>2, <2>1 DEF Units
<1>4. Units(Clause)' = Units(Clause) \cup T
  BY <1>2 DEF Units, Strip
<1>5. Units(Clause) \cap T = {}
  BY <1>2 DEF Units, Strip
<1>6. IsFiniteSet(Units(Clause) \cup T) /\ Cardinality(Units(Clause) \cup T) = usedTokens + n
  BY <1>2, <1>5, UnitsGrow DEF TotalsInv
<1>7. UNCHANGED <<okCount, failedCount, totalTokens>>
  BY DEF Unsettled, totals
<1> QED BY <1>1, <1>3, <1>4, <1>6, <1>7 DEF TotalsInv

LEMMA TotalsStep == ASSUME TypeOK, TotalsInv, [Next]_vars PROVE TotalsInv'
<1>1. CASE UNCHANGED vars \/ Wait \/ Signal
  <2>1. UNCHANGED <<phase, stop, usage, usedTokens, totals>>
    BY <1>1, Zenon DEF vars, Wait, Signal, budget
  <2> QED BY <2>1, TotalsKept DEF Unsettled
<1>2. ASSUME NEW c \in Clause, Dispatch(c) PROVE TotalsInv'
  <2>1. Unsettled /\ UNCHANGED <<usage, usedTokens>>
    BY <1>2 DEF Dispatch, Enter, Unsettled, TypeOK, budget
  <2> QED BY <2>1, TotalsKept
<1>3. ASSUME NEW c \in Clause, BeginStep(c) \/ CheckBudget(c) \/ LLMFails(c) PROVE TotalsInv'
  <2>1. Unsettled
    BY <1>3, AgentMoves DEF Unsettled, TypeOK
  <2>2. UNCHANGED <<usage, usedTokens>>
    BY <1>3 DEF BeginStep, CheckBudget, LLMFails, budget
  <2> QED BY <2>1, <2>2, TotalsKept
<1>4. ASSUME NEW c \in Clause, LLMReturns(c) PROVE TotalsInv'
  <2>1. Unsettled /\ phase[c] # "done"
    BY <1>4, AgentMoves DEF Unsettled, TypeOK
  <2>2. PICK k \in Calls : Record(k) /\ usage' = [usage EXCEPT ![c] = @ + Tokens(k)]
    BY <1>4 DEF LLMReturns
  <2>3. Tokens(k) \in Nat /\ usedTokens' = usedTokens + Tokens(k)
    BY <2>2, CallBounds DEF Record
  <2> QED BY <2>1, <2>2, <2>3, TotalsRecorded
<1>5. ASSUME NEW c \in Clause, SaveAnalysis(c) PROVE TotalsInv'
  BY <1>5, TotalsStored
<1> QED BY <1>1, <1>2, <1>3, <1>4, <1>5 DEF Next, Agent

\* When the run is complete each clause is counted once, as what became of it,
\* and the tokens of the run are those the agents used, but for the agents that
\* ended with an error.
THEOREM TotalsAddUp == Spec => []TotalsComplete
<1>1. ASSUME TypeOK, OutcomeInv, TotalsInv, finished PROVE TotalsComplete
  <2>1. \A c \in Clause : phase[c] = "done" /\ stop[c] \in Stop
    BY <1>1 DEF OutcomeInv, TypeOK
  <2>2. DoneAs({"submitted"}) = {c \in Clause : stop[c] = "submitted"}
    BY <2>1 DEF DoneAs
  <2>3. okCount + failedCount = NumClauses
    <3> DEFINE Ok == DoneAs({"submitted"})
               Bad == DoneAs(Failures)
    <3>1. Ok \cup Bad = Clause /\ Ok \cap Bad = {}
      BY <2>1 DEF DoneAs, Failures
    <3>2. IsFiniteSet(Ok) /\ IsFiniteSet(Bad)
      BY FiniteClauses, FS_Subset DEF DoneAs
    <3>3. /\ Cardinality(Ok \cup Bad) = Cardinality(Ok) + Cardinality(Bad) - Cardinality(Ok \cap Bad)
          /\ Cardinality(Ok \cap Bad) = 0
      BY <3>1, <3>2, FS_Union, FS_EmptySet
    <3>4. Cardinality(Ok) \in Nat /\ Cardinality(Bad) \in Nat
      BY <3>2, FS_CardinalityType
    <3>5. Cardinality(Ok) + Cardinality(Bad) = NumClauses
      <4>1. Cardinality(Ok \cup Bad) = NumClauses
        BY <3>1, FiniteClauses
      <4> HIDE DEF Ok, Bad
      <4> QED BY <4>1, <3>3, <3>4
    <3> QED BY <1>1, <3>5 DEF TotalsInv
  <2>4. totalTokens <= usedTokens
    <3>1. Units(DoneAs(Answers)) \subseteq Units(Clause)
      BY DEF Units, DoneAs
    <3> QED BY <1>1, <3>1, FS_Subset DEF TotalsInv
  <2>5. ASSUME \A c \in Clause : stop[c] # "error" PROVE totalTokens = usedTokens
    <3>1. DoneAs(Answers) = Clause
      BY <2>1, <2>5 DEF DoneAs, Answers
    <3> QED BY <1>1, <3>1 DEF TotalsInv
  <2> QED BY <1>1, <2>2, <2>3, <2>4, <2>5 DEF TotalsComplete, TotalsInv
<1>2. ASSUME ~finished PROVE TotalsComplete
  BY <1>2 DEF TotalsComplete
<1>3. PoolInv => TypeOK
  BY DEF PoolInv
<1>4. TypeOK /\ OutcomeInv /\ [Next]_vars => OutcomeInv'
  BY OutcomeStep
<1>5. TypeOK /\ TotalsInv /\ [Next]_vars => TotalsInv'
  BY TotalsStep
<1> QED BY <1>1, <1>2, <1>3, <1>4, <1>5, InitOutcome, InitTotals, PoolBounded, PTL DEF Spec
=============================================================================
