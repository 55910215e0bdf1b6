--------------------------- MODULE AgentRunProofs ---------------------------
(***************************************************************************)
(* Proofs about AgentRun: for any number of processes, any step limit and   *)
(* whatever fails, the histories that are stored and resumed are complete;  *)
(* and as long as one process at a time works on a run, no call is made     *)
(* beyond the limit, nothing is asked twice and each cut passes over one    *)
(* submission at most.                                                      *)
(***************************************************************************)
EXTENDS AgentRun, FiniteSetTheorems, TLAPS

\* A history that is stored for step i can be resumed at step i + 1.
LEMMA NextStep == ASSUME NEW i \in StepIndex
                  PROVE  i \in Nat /\ i < AgentSteps /\ i + 1 \in 0..AgentSteps
  BY StepsAssumption DEF StepIndex

\* Nothing is stored or resumed at the start.
LEMMA InitAgent == Init => AgentInv
<1> SUFFICES ASSUME Init PROVE AgentInv
  OBVIOUS
<1>1. TypeOK
  <2>1. <<>> \in Seq(Turn) /\ 0 \in 0..AgentSteps
    BY StepsAssumption
  <2> QED BY <2>1, Zenon DEF Init, TypeOK, RunStatus, RunId, Labels, Output
<1>2. HistoryComplete
  BY DEF Init, HistoryComplete, MemoryComplete
<1> QED BY <1>1, <1>2 DEF Init, AgentInv, LabelsAgree

\* What a cut does: the process ends and stores nothing.
LEMMA CutFacts ==
  ASSUME NEW p \in Procs, Cut(p)
  PROVE  /\ \E o \in Output : Leave(p, o)
         /\ pc[p] # "idle" /\ cuts' = cuts + 1 /\ UNCHANGED <<rows, calls>>
<1>1. CASE Abort(p)
  <2>1. Leave(p, "error") /\ "error" \in Output
    BY <1>1, Zenon DEF Abort, Output
  <2> QED BY <1>1, <2>1 DEF Abort
<1>2. CASE Signal(p)
  <2>1. \E o \in Output : Leave(p, o)
    BY <1>2, Zenon DEF Signal, Output
  <2>2. pc[p] # "idle" /\ cuts' = cuts + 1 /\ UNCHANGED <<rows, calls>>
    BY <1>2, Zenon DEF Signal
  <2> QED BY <2>1, <2>2
<1> QED BY <1>1, <1>2 DEF Cut

\* A process that takes a step leaves the memory of the others alone.
LEMMA OthersKept ==
  ASSUME TypeOK, NEW p \in Procs, Start(p) \/ Step(p) \/ Cut(p),
         NEW q \in Procs, q # p
  PROVE  pc'[q] = pc[q] /\ runId'[q] = runId[q] /\ step'[q] = step[q] /\ msgs'[q] = msgs[q]
<1>1. CASE Start(p) \/ Step(p)
  BY <1>1 DEF TypeOK, Start, Step, LoadRun, LoadSteps, StartAgentRun, GetStoredFinding,
     Complete, AppendAgentStep, ExhaustSteps, FinishAgentRun, memory, Goto, Begin, Leave
<1>2. CASE Cut(p)
  BY <1>2, CutFacts DEF TypeOK, Leave, Goto, Begin
<1> QED BY <1>1, <1>2

\* A process that ends leaves memory behind that agrees with its label.
LEMMA LeaveStep ==
  ASSUME TypeOK, NEW p \in Procs, NEW o \in Output, Leave(p, o)
  PROVE  /\ pc' \in [Procs -> Labels] /\ out' \in [Procs -> Output]
         /\ runId' \in [Procs -> RunId] /\ step' \in [Procs -> 0..AgentSteps]
         /\ msgs' \in [Procs -> Seq(Turn)]
         /\ MemoryComplete(p)' /\ LabelsAgree(p)'
<1>1. "unsaved" \in RunId /\ 0 \in 0..AgentSteps /\ <<>> \in Seq(Turn) /\ Len(<<>>) = 0
  BY StepsAssumption DEF RunId
<1>2. pc' \in [Procs -> Labels] /\ pc'[p] = "idle"
  BY DEF TypeOK, Leave, Goto, Labels
<1>3. out' \in [Procs -> Output]
  BY DEF TypeOK, Leave, Show
<1>4. runId' \in [Procs -> RunId]
  BY <1>1 DEF TypeOK, Leave, Begin
<1>5. step' \in [Procs -> 0..AgentSteps] /\ step'[p] = 0
  BY <1>1 DEF TypeOK, Leave, Begin
<1>6. msgs' \in [Procs -> Seq(Turn)] /\ msgs'[p] = <<>>
  BY <1>1 DEF TypeOK, Leave, Begin
<1> QED BY <1>1, <1>2, <1>3, <1>4, <1>5, <1>6 DEF MemoryComplete, LabelsAgree

\* What a process keeps is complete after each of its steps, and so is what it
\* stores.
LEMMA AgentStep ==
  ASSUME AgentInv, NEW p \in Procs, Start(p) \/ Step(p) \/ Cut(p)
  PROVE  AgentInv'
<1> USE DEF TypeOK, rows, memory, counts, Goto, Begin, Show
<1>t. TypeOK /\ HistoryComplete /\ LabelsAgree(p) /\ MemoryComplete(p)
  BY DEF AgentInv, HistoryComplete
<1>0. /\ "unsaved" \in RunId /\ p \in RunId /\ "unsaved" # p
      /\ 0 \in 0..AgentSteps /\ <<>> \in Seq(Turn) /\ Len(<<>>) = 0
  BY StepsAssumption, ProcsAssumption DEF RunId
<1>o. ASSUME NEW q \in Procs, q # p PROVE MemoryComplete(q)' /\ LabelsAgree(q)'
  BY <1>o, <1>t, OthersKept DEF AgentInv, HistoryComplete, MemoryComplete, LabelsAgree
<1>s. ASSUME stored' = stored, MemoryComplete(p)', LabelsAgree(p)', TypeOK' PROVE AgentInv'
  BY <1>s, <1>o, <1>t DEF AgentInv, HistoryComplete
<1>1. CASE Start(p)
  <2>1. TypeOK'
    BY <1>0, <1>t, <1>1 DEF Start, Labels, Output
  <2>2. MemoryComplete(p)' /\ LabelsAgree(p)'
    BY <1>0, <1>t, <1>1 DEF Start, MemoryComplete, LabelsAgree
  <2>3. stored' = stored
    BY <1>1 DEF Start
  <2> QED BY <1>s, <2>1, <2>2, <2>3
<1>2. CASE Cut(p)
  <2>1. PICK o \in Output : Leave(p, o)
    BY <1>2, CutFacts
  <2>2. cuts' \in Nat /\ stored' = stored /\ UNCHANGED <<rows, calls>>
    BY <1>2, <1>t, CutFacts
  <2>3. TypeOK' /\ MemoryComplete(p)' /\ LabelsAgree(p)'
    BY <1>t, <2>1, <2>2, LeaveStep
  <2> QED BY <1>s, <2>2, <2>3
<1>3. CASE LoadRun(p)
  <2>1. pc' \in [Procs -> Labels]
    BY <1>t, <1>3 DEF LoadRun, Labels
  <2>2. CASE UNCHANGED memory /\ pc'[p] \in {"start", "finding", "head"}
    <3>1. MemoryComplete(p)' /\ LabelsAgree(p)'
      BY <1>t, <1>3, <2>2 DEF LoadRun, MemoryComplete, LabelsAgree
    <3>2. TypeOK' /\ stored' = stored
      BY <1>t, <1>3, <2>1, <2>2 DEF LoadRun
    <3> QED BY <1>s, <3>1, <3>2
  <2>3. CASE latest # "unsaved" /\ Begin(p, latest, 0, <<>>) /\ pc'[p] = "load_steps"
    <3>1. MemoryComplete(p)' /\ LabelsAgree(p)'
      BY <1>0, <1>t, <2>3 DEF MemoryComplete, LabelsAgree
    <3>2. TypeOK' /\ stored' = stored
      BY <1>0, <1>t, <1>3, <2>1, <2>3 DEF LoadRun
    <3> QED BY <1>s, <3>1, <3>2
  <2> QED BY <1>3, <1>t, <2>2, <2>3 DEF LoadRun
<1>4. CASE LoadSteps(p)
  <2>r. runId[p] \in Procs
    BY <1>4, <1>t DEF LoadSteps, LabelsAgree, RunId
  <2>1. CASE UNCHANGED memory
    <3>1. TypeOK' /\ stored' = stored
      BY <1>t, <1>4, <2>1 DEF LoadSteps, Labels
    <3>2. MemoryComplete(p)' /\ LabelsAgree(p)'
      BY <1>t, <1>4, <2>1 DEF LoadSteps, MemoryComplete, LabelsAgree
    <3> QED BY <1>s, <3>1, <3>2
  <2>2. ASSUME NEW last \in StepIndex, stored[runId[p]][last] # <<>>,
               Begin(p, runId[p], last + 1, stored[runId[p]][last])
        PROVE  AgentInv'
    <3>1. last + 1 \in 0..AgentSteps
      BY NextStep
    <3>2. stored[runId[p]][last] \in Seq(Turn) /\ Len(stored[runId[p]][last]) = last + 1
      BY <1>t, <2>r, <2>2 DEF HistoryComplete
    <3>3. TypeOK' /\ stored' = stored
      BY <1>t, <1>4, <2>2, <3>1, <3>2 DEF LoadSteps, Labels
    <3>4. MemoryComplete(p)' /\ LabelsAgree(p)'
      BY <1>t, <1>4, <2>r, <2>2, <3>1, <3>2 DEF LoadSteps, MemoryComplete, LabelsAgree
    <3> QED BY <1>s, <3>3, <3>4
  <2> QED BY <1>4, <2>1, <2>2 DEF LoadSteps, Stored
<1>5. CASE StartAgentRun(p)
  <2>1. TypeOK'
    BY <1>0, <1>t, <1>5 DEF StartAgentRun, Labels, RunStatus
  <2>2. MemoryComplete(p)' /\ LabelsAgree(p)'
    BY <1>0, <1>t, <1>5 DEF StartAgentRun, MemoryComplete, LabelsAgree
  <2>3. stored' = stored
    BY <1>5 DEF StartAgentRun
  <2> QED BY <1>s, <2>1, <2>2, <2>3
<1>6. CASE GetStoredFinding(p)
  <2>1. PICK o \in Output : Leave(p, o)
    BY <1>6, Zenon DEF GetStoredFinding, Output
  <2>2. UNCHANGED <<rows, counts>> /\ stored' = stored
    BY <1>6 DEF GetStoredFinding
  <2>3. TypeOK' /\ MemoryComplete(p)' /\ LabelsAgree(p)'
    BY <1>t, <2>1, <2>2, LeaveStep
  <2> QED BY <1>s, <2>2, <2>3
<1>7. CASE Complete(p)
  <2>1. PICK t \in Turn : msgs' = [msgs EXCEPT ![p] = Append(@, t)]
    BY <1>7 DEF Complete
  <2>2. /\ msgs[p] \in Seq(Turn) /\ Append(msgs[p], t) \in Seq(Turn)
        /\ Len(Append(msgs[p], t)) = Len(msgs[p]) + 1
    BY <1>t
  <2>3. msgs' \in [Procs -> Seq(Turn)] /\ msgs'[p] = Append(msgs[p], t)
    BY <1>t, <2>1, <2>2
  <2>4. pc' \in [Procs -> Labels] /\ pc'[p] = "append" /\ pc[p] = "head"
    BY <1>t, <1>7 DEF Complete, Labels
  <2>5. calls' \in [Procs -> Nat]
    BY <1>t, <1>7 DEF Complete
  <2>6. TypeOK' /\ stored' = stored
    BY <1>t, <1>7, <2>3, <2>4, <2>5 DEF Complete
  <2>7. MemoryComplete(p)' /\ LabelsAgree(p)'
    BY <1>t, <1>7, <2>2, <2>3, <2>4 DEF Complete, MemoryComplete, LabelsAgree
  <2> QED BY <1>s, <2>6, <2>7
<1>8. CASE AppendAgentStep(p)
  <2>1. step[p] \in StepIndex /\ Len(msgs[p]) = step[p] + 1
    <3>1. pc[p] = "append"
      BY <1>8 DEF AppendAgentStep
    <3>2. step[p] \in 0..AgentSteps /\ step[p] < AgentSteps
      BY <1>t, <3>1 DEF LabelsAgree
    <3> QED BY <1>t, <3>1, <3>2, StepsAssumption DEF MemoryComplete, StepIndex
  <2>2. \/ stored' = stored
        \/ runId[p] \in Procs /\ stored' = [stored EXCEPT ![runId[p]][step[p]] = msgs[p]]
    <3>1. \/ stored' = stored
          \/ runId[p] # "unsaved" /\ stored' = [stored EXCEPT ![runId[p]][step[p]] = msgs[p]]
      BY <1>8 DEF AppendAgentStep
    <3> QED BY <1>t, <3>1 DEF RunId
  <2>3. stored' \in [Procs -> [StepIndex -> Seq(Turn)]]
    <3>1. msgs[p] \in Seq(Turn)
      BY <1>t
    <3>2. ASSUME runId[p] \in Procs
          PROVE  [stored EXCEPT ![runId[p]][step[p]] = msgs[p]]
                    \in [Procs -> [StepIndex -> Seq(Turn)]]
      BY <1>t, <2>1, <3>1, <3>2
    <3> QED BY <1>t, <2>2, <3>2
  <2>4. \A r \in Procs, i \in StepIndex : stored'[r][i] # <<>> => Len(stored'[r][i]) = i + 1
    <3> SUFFICES ASSUME NEW r \in Procs, NEW i \in StepIndex, stored'[r][i] # <<>>
                 PROVE  Len(stored'[r][i]) = i + 1
      OBVIOUS
    <3>1. stored'[r][i] = stored[r][i] \/ (i = step[p] /\ stored'[r][i] = msgs[p])
      <4>1. CASE stored' = stored
        BY <4>1
      <4>2. CASE runId[p] \in Procs /\ stored' = [stored EXCEPT ![runId[p]][step[p]] = msgs[p]]
        <5>1. stored[r] \in [StepIndex -> Seq(Turn)]
          BY <1>t
        <5>2. CASE r # runId[p]
          BY <1>t, <4>2, <5>2
        <5>3. CASE r = runId[p]
          <6>1. stored'[r] = [stored[r] EXCEPT ![step[p]] = msgs[p]]
            BY <1>t, <4>2, <5>3
          <6> QED BY <5>1, <6>1
        <5> QED BY <5>2, <5>3
      <4> QED BY <2>2, <4>1, <4>2
    <3> QED BY <1>t, <2>1, <3>1 DEF HistoryComplete
  <2>5. pc' \in [Procs -> Labels] /\ pc'[p] \in {"submitted", "head"}
    <3>1. \/ pc' = [pc EXCEPT ![p] = "submitted"]
          \/ pc' = [pc EXCEPT ![p] = "head"]
      BY <1>8, Zenon DEF AppendAgentStep, Submits
    <3> QED BY <1>t, <3>1 DEF Labels
  <2>6. /\ step' \in [Procs -> 0..AgentSteps] /\ step'[p] = step[p] + 1
        /\ cuts' \in Nat
        /\ UNCHANGED <<runStatus, latest, analyses, runId, msgs, out, calls>>
    <3>1. step[p] + 1 \in 0..AgentSteps
      BY <2>1, NextStep
    <3>2. step' = [step EXCEPT ![p] = @ + 1] /\ (cuts' = cuts \/ cuts' = cuts + 1)
      BY <1>8 DEF AppendAgentStep
    <3>3. UNCHANGED <<runStatus, latest, analyses, runId, msgs, out, calls>>
      BY <1>8 DEF AppendAgentStep
    <3> QED BY <1>t, <3>1, <3>2, <3>3
  <2>7. TypeOK'
    BY <1>t, <2>3, <2>5, <2>6
  <2>8. MemoryComplete(p)' /\ LabelsAgree(p)'
    BY <1>t, <2>1, <2>5, <2>6 DEF MemoryComplete, LabelsAgree
  <2> QED BY <1>o, <2>4, <2>7, <2>8 DEF AgentInv, HistoryComplete
<1>9. CASE ExhaustSteps(p)
  <2>1. TypeOK'
    BY <1>0, <1>t, <1>9 DEF ExhaustSteps, Labels
  <2>2. MemoryComplete(p)' /\ LabelsAgree(p)'
    BY <1>0, <1>t, <1>9 DEF ExhaustSteps, MemoryComplete, LabelsAgree
  <2>3. stored' = stored
    BY <1>9 DEF ExhaustSteps
  <2> QED BY <1>s, <2>1, <2>2, <2>3
<1>10. CASE FinishAgentRun(p)
  <2>1. PICK o \in Output : Leave(p, o)
    BY <1>10, Zenon DEF FinishAgentRun, Output
  <2>2. runStatus' \in [Procs -> RunStatus]
    BY <1>10, <1>t DEF FinishAgentRun, RunStatus
  <2>3. UNCHANGED <<latest, stored, analyses, calls>> /\ cuts' \in Nat
    <3>1. UNCHANGED <<latest, stored, analyses, calls>>
      BY <1>10 DEF FinishAgentRun
    <3>2. cuts' = cuts \/ cuts' = cuts + 1
      BY <1>10, Zenon DEF FinishAgentRun
    <3> QED BY <1>t, <3>1, <3>2
  <2>4. TypeOK' /\ MemoryComplete(p)' /\ LabelsAgree(p)'
    BY <1>t, <2>1, <2>2, <2>3, LeaveStep
  <2> QED BY <1>s, <2>3, <2>4
<1> QED BY <1>1, <1>2, <1>3, <1>4, <1>5, <1>6, <1>7, <1>8, <1>9, <1>10 DEF Step

\* No step makes a history that lacks a turn.
LEMMA AgentInvStep == AgentInv /\ [Next]_vars => AgentInv'
<1> SUFFICES ASSUME AgentInv, [Next]_vars PROVE AgentInv'
  OBVIOUS
<1>1. CASE UNCHANGED vars
  BY <1>1 DEF vars, rows, memory, counts, AgentInv, TypeOK, HistoryComplete, MemoryComplete,
     LabelsAgree
<1>2. CASE SaveAnalysis
  BY <1>2 DEF SaveAnalysis, memory, counts, AgentInv, TypeOK, HistoryComplete,
     MemoryComplete, LabelsAgree
<1> QED BY <1>1, <1>2, AgentStep DEF Next

\* A stored step carries the whole history up to it and an agent goes on with
\* the whole history, however many processes run the same clause.
THEOREM HistoriesComplete == Spec => []AgentInv
  BY InitAgent, AgentInvStep, PTL DEF Spec

-----------------------------------------------------------------------------
(* Commands that run one at a time                                           *)

\* There is only one process to run analyze-clause.
OneProcess == \A p, q \in Procs : p = q

Working == {"head", "append", "submitted", "max_steps"}

NoStepFrom(r, n) == \A i \in StepIndex : i >= n => stored[r][i] = <<>>

\* The one row is that of the process, which works on it only while it has not
\* submitted and only behind its stored steps.
SoloInv == \A p \in Procs :
    /\ latest = "unsaved" => runStatus[p] = "none" /\ calls[p] = 0 /\ NoStepFrom(p, 0)
    /\ pc[p] = "start" => latest = "unsaved"
    /\ runId[p] = p => latest = p
    /\ pc[p] \in {"idle", "load", "finding", "start"} => runId[p] = "unsaved" /\ msgs[p] = <<>>
    /\ pc[p] = "load_steps" => runId[p] = p /\ runStatus[p] = "running" /\ msgs[p] = <<>>
    /\ pc[p] \in Working => runStatus[p] # "submitted"
    /\ pc[p] \in Working /\ runId[p] = p => NoStepFrom(p, step[p])

\* What is left of a process that ends.
LEMMA LeaveFacts ==
  ASSUME TypeOK, NEW p \in Procs, NEW o, Leave(p, o)
  PROVE  pc'[p] = "idle" /\ runId'[p] = "unsaved" /\ step'[p] = 0 /\ msgs'[p] = <<>>
  BY DEF TypeOK, Leave, Goto, Begin

\* What a step that is stored, or not, changes.
LEMMA AppendFacts ==
  ASSUME AgentInv, NEW p \in Procs, AppendAgentStep(p)
  PROVE  /\ pc[p] = "append" /\ step[p] \in StepIndex /\ Len(msgs[p]) = step[p] + 1
         /\ step'[p] = step[p] + 1
         /\ pc'[p] = IF msgs[p][Len(msgs[p])] = "submit" THEN "submitted" ELSE "head"
         /\ UNCHANGED <<runStatus, latest, runId, msgs, calls>>
         /\ \/ /\ runId[p] \in Procs /\ cuts' = cuts
               /\ stored' = [stored EXCEPT ![runId[p]][step[p]] = msgs[p]]
            \/ runId[p] = "unsaved" /\ cuts' = cuts /\ stored' = stored
            \/ cuts' = cuts + 1 /\ stored' = stored
<1>t. TypeOK /\ MemoryComplete(p) /\ LabelsAgree(p)
  BY DEF AgentInv, HistoryComplete
<1>1. pc[p] = "append"
  BY DEF AppendAgentStep
<1>2. step[p] \in StepIndex /\ Len(msgs[p]) = step[p] + 1
  BY <1>t, <1>1, StepsAssumption DEF TypeOK, MemoryComplete, LabelsAgree, StepIndex
<1>3. UNCHANGED <<runStatus, latest, runId, msgs, calls>> /\ step'[p] = step[p] + 1
  BY <1>t DEF AppendAgentStep, TypeOK
<1>4. pc' = [pc EXCEPT ![p] = IF msgs[p][Len(msgs[p])] = "submit" THEN "submitted" ELSE "head"]
  BY Zenon DEF AppendAgentStep, Submits, Goto
<1>5. \/ /\ runId[p] # "unsaved" /\ cuts' = cuts
         /\ stored' = [stored EXCEPT ![runId[p]][step[p]] = msgs[p]]
      \/ runId[p] = "unsaved" /\ cuts' = cuts /\ stored' = stored
      \/ cuts' = cuts + 1 /\ stored' = stored
  BY Zenon DEF AppendAgentStep
<1>6. runId[p] # "unsaved" => runId[p] \in Procs
  BY <1>t DEF TypeOK, RunId
<1>7. pc'[p] = IF msgs[p][Len(msgs[p])] = "submit" THEN "submitted" ELSE "head"
  BY <1>t, <1>4 DEF TypeOK
<1> QED BY <1>1, <1>2, <1>3, <1>5, <1>6, <1>7

\* What a run that ends changes.
LEMMA FinishFacts ==
  ASSUME TypeOK, NEW p \in Procs, FinishAgentRun(p)
  PROVE  /\ pc[p] \in {"submitted", "max_steps"}
         /\ pc'[p] = "idle" /\ runId'[p] = "unsaved" /\ step'[p] = 0 /\ msgs'[p] = <<>>
         /\ UNCHANGED <<latest, stored, calls>>
         /\ \/ /\ runId[p] # "unsaved" /\ cuts' = cuts
               /\ runStatus' = [runStatus EXCEPT ![runId[p]] = pc[p]]
            \/ runId[p] = "unsaved" /\ cuts' = cuts /\ UNCHANGED runStatus
            \/ cuts' = cuts + 1 /\ UNCHANGED runStatus
<1>1. \E o \in Output : Leave(p, o)
  BY Zenon DEF FinishAgentRun, Output
<1>2. pc[p] \in {"submitted", "max_steps"} /\ UNCHANGED <<latest, stored, calls>>
  BY DEF FinishAgentRun
<1>3. \/ /\ runId[p] # "unsaved" /\ cuts' = cuts
         /\ runStatus' = [runStatus EXCEPT ![runId[p]] = pc[p]]
      \/ runId[p] = "unsaved" /\ cuts' = cuts /\ UNCHANGED runStatus
      \/ cuts' = cuts + 1 /\ UNCHANGED runStatus
  BY Zenon DEF FinishAgentRun
<1> QED BY <1>1, <1>2, <1>3, LeaveFacts

\* What the loading of the steps changes.
LEMMA LoadFacts ==
  ASSUME AgentInv, NEW p \in Procs, runId[p] = p, msgs[p] = <<>>, LoadSteps(p)
  PROVE  /\ pc[p] = "load_steps" /\ pc'[p] = "head" /\ runId'[p] = p
         /\ UNCHANGED <<runStatus, latest, stored, calls, cuts>>
         /\ NoStepFrom(p, step'[p])
         /\ msgs'[p] = <<>> \/ \E i \in StepIndex : msgs'[p] = stored[p][i]
<1>t. TypeOK /\ MemoryComplete(p)
  BY DEF AgentInv, HistoryComplete
<1>1. /\ pc[p] = "load_steps" /\ pc'[p] = "head"
      /\ UNCHANGED <<runStatus, latest, stored, calls, cuts>>
  BY <1>t DEF LoadSteps, Goto, rows, counts, TypeOK
<1>2. CASE Stored(p) = {} /\ UNCHANGED memory
  BY <1>1, <1>2 DEF memory, Stored, NoStepFrom
<1>3. CASE \E last \in Stored(p) :
              /\ \A i \in Stored(p) : i <= last
              /\ Begin(p, p, last + 1, stored[p][last])
  <2>1. PICK last \in Stored(p) :
           /\ \A i \in Stored(p) : i <= last
           /\ Begin(p, p, last + 1, stored[p][last])
    BY <1>3
  <2>2. last \in StepIndex /\ last \in Int
    BY DEF Stored, StepIndex
  <2>3. runId'[p] = p /\ step'[p] = last + 1 /\ msgs'[p] = stored[p][last]
    BY <1>t, <2>1 DEF Begin, TypeOK
  <2>4. NoStepFrom(p, last + 1)
    BY <2>1, <2>2 DEF Stored, NoStepFrom, StepIndex
  <2> QED BY <1>1, <2>2, <2>3, <2>4
<1> QED BY <1>2, <1>3 DEF LoadSteps

\* What an analysis stored by analyze leaves alone.
LEMMA RowsAlone ==
  ASSUME UNCHANGED vars \/ SaveAnalysis
  PROVE  UNCHANGED <<runStatus, latest, stored, calls, cuts, pc, runId, step, msgs>>
  BY Zenon DEF vars, rows, memory, counts, SaveAnalysis

\* A stored step goes to its place in the row, and to no other.
LEMMA StoredStep ==
  ASSUME TypeOK, NEW p \in Procs, step[p] \in StepIndex,
         stored' = [stored EXCEPT ![p][step[p]] = msgs[p]]
  PROVE  /\ stored'[p][step[p]] = msgs[p]
         /\ \A i \in StepIndex : i # step[p] => stored'[p][i] = stored[p][i]
<1>1. stored[p] \in [StepIndex -> Seq(Turn)]
  BY DEF TypeOK
<1>2. stored'[p] = [stored[p] EXCEPT ![step[p]] = msgs[p]]
  BY DEF TypeOK
<1> QED BY <1>1, <1>2

\* The process works on its row alone.
LEMMA SoloStep ==
  ASSUME OneProcess, AgentInv, SoloInv, [Next]_vars PROVE SoloInv'
<1>t. TypeOK
  BY DEF AgentInv
<1>u. CASE UNCHANGED vars \/ SaveAnalysis
  BY <1>u, RowsAlone DEF SoloInv, NoStepFrom
<1>p. ASSUME NEW p \in Procs, Start(p) \/ Step(p) \/ Cut(p) PROVE SoloInv'
  <2> DEFINE Solo(q) ==
        /\ latest = "unsaved" => runStatus[q] = "none" /\ calls[q] = 0 /\ NoStepFrom(q, 0)
        /\ pc[q] = "start" => latest = "unsaved"
        /\ runId[q] = q => latest = q
        /\ pc[q] \in {"idle", "load", "finding", "start"} => runId[q] = "unsaved" /\ msgs[q] = <<>>
        /\ pc[q] = "load_steps" => runId[q] = q /\ runStatus[q] = "running" /\ msgs[q] = <<>>
        /\ pc[q] \in Working => runStatus[q] # "submitted"
        /\ pc[q] \in Working /\ runId[q] = q => NoStepFrom(q, step[q])
  <2>s. Solo(p)
    BY DEF SoloInv
  <2>g. Solo(p)' => SoloInv'
    BY DEF SoloInv, OneProcess
  <2>r. runId[p] \in {p, "unsaved"} /\ latest \in {p, "unsaved"} /\ p # "unsaved"
    BY <1>t, ProcsAssumption DEF TypeOK, RunId, OneProcess
  <2> USE DEF Working, NoStepFrom
  <2>1. CASE Start(p)
    BY <1>t, <2>s, <2>g, <2>r, <2>1 DEF Start, Goto, rows, memory, counts, TypeOK
  <2>2. CASE Cut(p)
    <3>1. /\ pc'[p] = "idle" /\ runId'[p] = "unsaved" /\ step'[p] = 0 /\ msgs'[p] = <<>>
          /\ UNCHANGED <<rows, calls>>
      BY <1>t, <2>2, LeaveFacts, CutFacts
    <3> QED BY <2>s, <2>g, <2>r, <3>1 DEF rows
  <2>3. CASE LoadRun(p)
    <3>1. pc[p] = "load" /\ UNCHANGED <<rows, calls>>
      BY <2>3 DEF LoadRun, counts
    <3>2. CASE /\ UNCHANGED memory
               /\ \/ latest = "unsaved" /\ pc'[p] = "start"
                  \/ pc'[p] = "finding"
                  \/ runStatus[p] = "max_steps" /\ pc'[p] = "head"
      BY <2>s, <2>g, <2>r, <3>1, <3>2 DEF rows, memory
    <3>3. CASE latest # "unsaved" /\ runStatus[p] = "running" /\ pc'[p] = "load_steps"
               /\ runId'[p] = p /\ msgs'[p] = <<>>
      BY <2>s, <2>g, <2>r, <3>1, <3>3 DEF rows
    <3> QED BY <1>t, <2>r, <2>3, <3>2, <3>3 DEF LoadRun, Goto, Begin, TypeOK
  <2>4. CASE LoadSteps(p)
    <3>1. runId[p] = p /\ msgs[p] = <<>> /\ runStatus[p] = "running" /\ latest = p
      BY <2>s, <2>4 DEF LoadSteps
    <3>2. /\ pc'[p] = "head" /\ runId'[p] = p
          /\ UNCHANGED <<runStatus, latest, stored, calls>>
          /\ NoStepFrom(p, step'[p])
      BY <2>4, <3>1, LoadFacts
    <3> QED BY <2>g, <2>r, <3>1, <3>2
  <2>5. CASE StartAgentRun(p)
    <3>1. pc[p] = "start" /\ pc'[p] = "head" /\ runId'[p] = p /\ step'[p] = 0 /\ latest' = p
          /\ runStatus'[p] = "running" /\ UNCHANGED <<stored, calls>>
      BY <1>t, <2>5 DEF StartAgentRun, Goto, Begin, TypeOK, counts
    <3> QED BY <2>s, <2>g, <2>r, <3>1
  <2>6. CASE GetStoredFinding(p)
    <3>1. \E o : Leave(p, o)
      BY <2>6, Zenon DEF GetStoredFinding
    <3>2. UNCHANGED <<rows, calls>>
      BY <2>6 DEF GetStoredFinding, counts
    <3>3. pc'[p] = "idle" /\ runId'[p] = "unsaved" /\ step'[p] = 0 /\ msgs'[p] = <<>>
      BY <1>t, <3>1, LeaveFacts
    <3> QED BY <2>s, <2>g, <2>r, <3>2, <3>3 DEF rows
  <2>7. CASE Complete(p)
    <3>1. /\ pc[p] = "head" /\ pc'[p] = "append" /\ UNCHANGED <<rows, runId, step>>
          /\ runId[p] # p => calls'[p] = calls[p]
      BY <1>t, <2>7 DEF Complete, Goto, TypeOK
    <3> QED BY <2>s, <2>g, <2>r, <3>1 DEF rows
  <2>8. CASE AppendAgentStep(p)
    <3>1. /\ pc[p] = "append" /\ step[p] \in StepIndex /\ step'[p] = step[p] + 1
          /\ pc'[p] \in {"submitted", "head"}
          /\ UNCHANGED <<runStatus, latest, runId, msgs, calls>>
          /\ \/ runId[p] \in Procs /\ stored' = [stored EXCEPT ![runId[p]][step[p]] = msgs[p]]
             \/ stored' = stored
      BY <2>8, AppendFacts
    <3>2. CASE stored' = stored
      BY <1>t, <2>s, <2>g, <2>r, <3>1, <3>2 DEF StepIndex
    <3>3. CASE runId[p] \in Procs /\ stored' = [stored EXCEPT ![runId[p]][step[p]] = msgs[p]]
      <4>1. runId[p] = p
        BY <3>3 DEF OneProcess
      <4>2. \A i \in StepIndex : i # step[p] => stored'[p][i] = stored[p][i]
        BY <1>t, <3>1, <3>3, <4>1, StoredStep
      <4> QED BY <2>s, <2>g, <2>r, <3>1, <4>1, <4>2 DEF StepIndex
    <3> QED BY <3>1, <3>2, <3>3
  <2>9. CASE ExhaustSteps(p)
    BY <1>t, <2>s, <2>g, <2>r, <2>9 DEF ExhaustSteps, Goto, rows, memory, counts, TypeOK
  <2>10. CASE FinishAgentRun(p)
    <3>1. /\ pc'[p] = "idle" /\ runId'[p] = "unsaved" /\ step'[p] = 0 /\ msgs'[p] = <<>>
          /\ UNCHANGED <<latest, stored, calls>>
          /\ runId[p] # "unsaved" \/ UNCHANGED runStatus
      BY <1>t, <2>10, FinishFacts
    <3> QED BY <2>s, <2>g, <2>r, <3>1
  <2> QED BY <1>p, <2>1, <2>2, <2>3, <2>4, <2>5, <2>6, <2>7, <2>8, <2>9, <2>10 DEF Step
<1> QED BY <1>u, <1>p DEF Next

\* Nothing is asked that is stored already, nor after a submission.
LEMMA SoloAsksOnce == OneProcess /\ AgentInv /\ SoloInv => NothingAskedTwice
<1> SUFFICES ASSUME OneProcess, AgentInv, SoloInv, NEW p \in Procs, pc[p] = "append"
             PROVE  /\ runId[p] # "unsaved" => stored[runId[p]][step[p]] = <<>>
                    /\ latest # "unsaved" => runStatus[latest] # "submitted"
  BY DEF NothingAskedTwice
<1>1. step[p] \in StepIndex /\ step[p] >= step[p]
  BY StepsAssumption DEF AgentInv, TypeOK, LabelsAgree, StepIndex
<1>2. runId[p] # "unsaved" => runId[p] \in Procs
  BY DEF AgentInv, TypeOK, RunId
<1>3. latest # "unsaved" => latest \in Procs
  BY DEF AgentInv, TypeOK, RunId
<1> QED BY <1>1, <1>2, <1>3 DEF SoloInv, Working, NoStepFrom, OneProcess

\* A run has paid for its stored steps, for what was cut short, and for the
\* step it is about to store.
ResumesAt(r, n) == (n > 0 => stored[r][n - 1] # <<>>) /\ NoStepFrom(r, n)

Asking(p) == IF pc[p] = "append" /\ runId[p] = p THEN 1 ELSE 0

PaidInv == \A p \in Procs : \E n \in 0..AgentSteps :
    ResumesAt(p, n) /\ calls[p] <= n + cuts + Asking(p)

\* A run is not ahead of the process that works on it.
LEMMA NotAhead ==
  ASSUME AgentInv, NEW p \in Procs, step[p] \in 0..AgentSteps, NoStepFrom(p, step[p]),
         NEW n \in 0..AgentSteps, ResumesAt(p, n)
  PROVE  n <= step[p]
<1> SUFFICES ASSUME n > step[p] PROVE FALSE
  BY StepsAssumption
<1>1. n - 1 \in StepIndex /\ n - 1 >= step[p]
  BY StepsAssumption DEF StepIndex
<1> QED BY <1>1 DEF ResumesAt, NoStepFrom

\* Each call is paid for.
LEMMA PaidStep ==
  ASSUME OneProcess, AgentInv, SoloInv, PaidInv, [Next]_vars PROVE PaidInv'
<1>t. TypeOK
  BY DEF AgentInv
<1>u. CASE UNCHANGED vars \/ SaveAnalysis
  BY <1>u, RowsAlone DEF PaidInv, ResumesAt, NoStepFrom, Asking
<1>p. ASSUME NEW p \in Procs, Start(p) \/ Step(p) \/ Cut(p) PROVE PaidInv'
  <2>1. PICK n \in 0..AgentSteps : ResumesAt(p, n) /\ calls[p] <= n + cuts + Asking(p)
    BY DEF PaidInv
  <2>g. ASSUME NEW m \in 0..AgentSteps,
               m > 0 => stored'[p][m - 1] # <<>>,
               \A i \in StepIndex : i >= m => stored'[p][i] = <<>>,
               calls'[p] <= m + cuts' + Asking(p)'
        PROVE  PaidInv'
    BY <2>g DEF PaidInv, OneProcess, ResumesAt, NoStepFrom
  <2>n. n \in Nat /\ cuts \in Nat /\ calls[p] \in Nat /\ Asking(p) \in {0, 1}
    BY <1>t, StepsAssumption DEF TypeOK, Asking
  <2>r. runId[p] \in {p, "unsaved"} /\ p # "unsaved"
    BY <1>t, ProcsAssumption DEF TypeOK, RunId, OneProcess
  \* A step that neither asks nor stores.
  <2>q. ASSUME UNCHANGED <<stored, calls>>, Asking(p)' \in {0, 1},
               (cuts' = cuts /\ Asking(p) = 0) \/ cuts' = cuts + 1
        PROVE  PaidInv'
    <3>1. calls'[p] <= n + cuts' + Asking(p)'
      BY <2>1, <2>n, <2>q
    <3> QED BY <2>1, <2>g, <2>q, <3>1 DEF ResumesAt, NoStepFrom
  <2>a. Asking(p)' \in {0, 1}
    BY DEF Asking
  <2>2. CASE Start(p) \/ LoadRun(p) \/ LoadSteps(p) \/ ExhaustSteps(p) \/ StartAgentRun(p)
    <3>1. /\ UNCHANGED <<stored, calls, cuts>>
          /\ pc[p] \in {"idle", "load", "load_steps", "head", "start"}
      BY <2>2 DEF Start, LoadRun, LoadSteps, ExhaustSteps, StartAgentRun, rows, counts
    <3> QED BY <2>q, <2>a, <3>1 DEF Asking
  <2>3. CASE Cut(p)
    BY <2>3, <2>q, <2>a, CutFacts DEF rows
  <2>4. CASE GetStoredFinding(p)
    <3>1. UNCHANGED <<stored, calls, cuts>> /\ pc[p] = "finding"
      BY <2>4 DEF GetStoredFinding, rows, counts
    <3> QED BY <2>q, <2>a, <3>1 DEF Asking
  <2>5. CASE FinishAgentRun(p)
    <3>1. /\ UNCHANGED <<stored, calls>> /\ pc[p] \in {"submitted", "max_steps"}
          /\ cuts' = cuts \/ cuts' = cuts + 1
      BY <1>t, <2>5, FinishFacts
    <3> QED BY <2>q, <2>a, <3>1 DEF Asking
  <2>6. CASE Complete(p)
    <3>1. /\ UNCHANGED <<stored, cuts, runId>> /\ pc[p] = "head" /\ pc'[p] = "append"
          /\ calls'[p] = IF runId[p] = p THEN calls[p] + 1 ELSE calls[p]
      BY <1>t, <2>6 DEF Complete, Goto, TypeOK, rows
    <3>2. calls'[p] <= n + cuts' + Asking(p)'
      BY <2>1, <2>n, <3>1 DEF Asking
    <3> QED BY <2>1, <2>g, <3>1, <3>2 DEF ResumesAt, NoStepFrom
  <2>7. CASE AppendAgentStep(p)
    <3>1. /\ pc[p] = "append" /\ step[p] \in StepIndex /\ Len(msgs[p]) = step[p] + 1
          /\ UNCHANGED <<runId, calls>>
          /\ \/ /\ runId[p] \in Procs /\ cuts' = cuts
                /\ stored' = [stored EXCEPT ![runId[p]][step[p]] = msgs[p]]
             \/ runId[p] = "unsaved" /\ cuts' = cuts /\ stored' = stored
             \/ cuts' = cuts + 1 /\ stored' = stored
      BY <2>7, AppendFacts
    <3>2. CASE cuts' = cuts + 1 /\ stored' = stored
      BY <2>q, <2>a, <3>1, <3>2
    <3>3. CASE runId[p] = "unsaved" /\ cuts' = cuts /\ stored' = stored
      BY <2>q, <2>a, <2>r, <3>1, <3>3 DEF Asking
    <3>4. CASE /\ runId[p] \in Procs /\ cuts' = cuts
               /\ stored' = [stored EXCEPT ![runId[p]][step[p]] = msgs[p]]
      <4>1. runId[p] = p
        BY <3>4 DEF OneProcess
      <4>2. /\ stored'[p][step[p]] = msgs[p]
            /\ \A i \in StepIndex : i # step[p] => stored'[p][i] = stored[p][i]
        BY <1>t, <3>1, <3>4, <4>1, StoredStep
      <4>3. NoStepFrom(p, step[p]) /\ step[p] \in 0..AgentSteps
        BY <1>t, <3>1, <4>1 DEF SoloInv, Working, TypeOK
      <4>4. n <= step[p]
        BY <2>1, <4>3, NotAhead
      <4>5. step[p] + 1 \in 0..AgentSteps /\ step[p] \in Nat
        BY <3>1, NextStep
      <4>6. msgs[p] # <<>>
        BY <3>1, <4>5
      <4>7. \A i \in StepIndex : i >= step[p] + 1 => stored'[p][i] = <<>>
        BY <4>2, <4>3, <4>5 DEF NoStepFrom, StepIndex
      <4>8. calls'[p] <= (step[p] + 1) + cuts' + Asking(p)'
        BY <2>1, <2>n, <2>a, <3>1, <3>4, <4>4, <4>5
      <4>9. stored'[p][(step[p] + 1) - 1] # <<>>
        BY <4>2, <4>5, <4>6
      <4> QED BY <2>g, <4>5, <4>7, <4>8, <4>9
    <3> QED BY <3>1, <3>2, <3>3, <3>4
  <2> QED BY <1>p, <2>2, <2>3, <2>4, <2>5, <2>6, <2>7 DEF Step
<1> QED BY <1>u, <1>p DEF Next

\* A run whose process is within the step limit has paid at most for it.
LEMMA PaidWithin ==
  ASSUME OneProcess, AgentInv, SoloInv, PaidInv, NEW r \in Procs
  PROVE  calls[r] <= AgentSteps + cuts
<1>t. TypeOK
  BY DEF AgentInv
<1>1. PICK n \in 0..AgentSteps : ResumesAt(r, n) /\ calls[r] <= n + cuts + Asking(r)
  BY DEF PaidInv
<1>2. n \in Nat /\ n <= AgentSteps /\ cuts \in Nat /\ calls[r] \in Nat /\ AgentSteps \in Nat
  BY <1>t, StepsAssumption DEF TypeOK
<1>3. CASE pc[r] = "append" /\ runId[r] = r
  <2>1. step[r] \in 0..AgentSteps /\ step[r] < AgentSteps /\ NoStepFrom(r, step[r])
    BY <1>t, <1>3 DEF TypeOK, AgentInv, LabelsAgree, SoloInv, Working
  <2>2. n <= step[r]
    BY <1>1, <2>1, NotAhead
  <2> QED BY <1>1, <1>2, <1>3, <2>1, <2>2 DEF Asking
<1>4. CASE ~(pc[r] = "append" /\ runId[r] = r)
  BY <1>1, <1>2, <1>4 DEF Asking
<1> QED BY <1>3, <1>4

\* Nothing is stored and nothing paid for at the start.
LEMMA SoloStarts == Init => SoloInv /\ PaidInv
<1> SUFFICES ASSUME Init PROVE SoloInv /\ PaidInv
  OBVIOUS
<1>1. SoloInv
  BY ProcsAssumption DEF Init, SoloInv, NoStepFrom, Working
<1>2. \A p \in Procs : ResumesAt(p, 0) /\ calls[p] <= 0 + cuts + Asking(p)
  BY DEF Init, ResumesAt, NoStepFrom, Asking
<1>3. 0 \in 0..AgentSteps
  BY StepsAssumption
<1> QED BY <1>1, <1>2, <1>3 DEF PaidInv

\* A run costs one call for each step and one for each that was cut short, as
\* long as commands run one at a time.
THEOREM CallsPaid == ASSUME OneProcess PROVE Spec => []CallsBounded
<1>1. AgentInv /\ SoloInv /\ PaidInv => CallsBounded
  BY PaidWithin DEF CallsBounded
<1>2. AgentInv /\ SoloInv /\ PaidInv /\ [Next]_vars => (AgentInv /\ SoloInv /\ PaidInv)'
  BY AgentInvStep, SoloStep, PaidStep
<1> QED BY <1>1, <1>2, InitAgent, SoloStarts, PTL DEF Spec

\* No step is asked of the LLM for a run that has its row, and none for a clause
\* whose run has submitted, as long as commands run one at a time.
THEOREM AskedOnce == ASSUME OneProcess PROVE Spec => []NothingAskedTwice
<1>1. AgentInv /\ SoloInv => NothingAskedTwice
  BY SoloAsksOnce
<1>2. AgentInv /\ SoloInv /\ [Next]_vars => (AgentInv /\ SoloInv)'
  BY AgentInvStep, SoloStep
<1> QED BY <1>1, <1>2, InitAgent, SoloStarts, PTL DEF Spec

-----------------------------------------------------------------------------
(* Submissions that are passed over                                          *)

\* The submissions in a history.
Submissions(m) == {i \in DOMAIN m : m[i] = "submit"}

\* A run that is still open has passed over one submission for each cut, and
\* has the one it is about to finish with.
PassedInv == \A p \in Procs :
    /\ runStatus[p] = "running" => \A i \in StepIndex :
          Cardinality(Submissions(stored[p][i]))
             <= cuts + (IF pc[p] = "submitted" /\ runId[p] = p THEN 1 ELSE 0)
    /\ pc[p] = "head" => Cardinality(Submissions(msgs[p])) <= cuts
    /\ pc[p] = "append" => Cardinality(Submissions(msgs[p]))
          <= cuts + (IF msgs[p][Len(msgs[p])] = "submit" THEN 1 ELSE 0)

\* The submissions can be counted.
LEMMA SubmissionsCount ==
  ASSUME NEW m \in Seq(Turn)
  PROVE  /\ IsFiniteSet(Submissions(m)) /\ Cardinality(Submissions(m)) \in Nat
         /\ Submissions(m) \subseteq 1..Len(m)
<1>1. Submissions(m) \subseteq 1..Len(m)
  BY DEF Submissions
<1>2. IsFiniteSet(1..Len(m))
  BY FS_Interval
<1> QED BY <1>1, <1>2, FS_Subset, FS_CardinalityType

\* There are none in an empty history.
LEMMA NoSubmission == Cardinality(Submissions(<<>>)) = 0
<1>1. Submissions(<<>>) = {}
  BY DEF Submissions
<1> QED BY <1>1, FS_EmptySet

\* A turn adds a submission if it is one.
LEMMA SubmissionAdded ==
  ASSUME NEW m \in Seq(Turn), NEW t \in Turn
  PROVE  Cardinality(Submissions(Append(m, t)))
            = Cardinality(Submissions(m)) + (IF t = "submit" THEN 1 ELSE 0)
<1>1. Len(m) \in Nat /\ Len(m) + 1 \notin Submissions(m)
  BY DEF Submissions
<1>2. Submissions(Append(m, t))
         = IF t = "submit" THEN Submissions(m) \cup {Len(m) + 1} ELSE Submissions(m)
  BY DEF Submissions
<1>3. /\ IsFiniteSet(Submissions(m)) /\ Cardinality(Submissions(m)) \in Nat
  BY SubmissionsCount
<1>4. Cardinality(Submissions(m) \cup {Len(m) + 1}) = Cardinality(Submissions(m)) + 1
  BY <1>1, <1>3, FS_AddElement
<1> QED BY <1>2, <1>3, <1>4

\* No step passes over a submission, other than a cut.
LEMMA PassedStep ==
  ASSUME OneProcess, AgentInv, SoloInv, PassedInv, [Next]_vars PROVE PassedInv'
<1>t. TypeOK
  BY DEF AgentInv
<1>u. CASE UNCHANGED vars \/ SaveAnalysis
  BY <1>u, RowsAlone DEF PassedInv
<1>p. ASSUME NEW p \in Procs, Start(p) \/ Step(p) \/ Cut(p) PROVE PassedInv'
  <2> DEFINE Extra == IF pc[p] = "submitted" /\ runId[p] = p THEN 1 ELSE 0
             Last == IF msgs[p][Len(msgs[p])] = "submit" THEN 1 ELSE 0
             Many(m) == Cardinality(Submissions(m))
  <2>s. /\ runStatus[p] = "running" => \A i \in StepIndex : Many(stored[p][i]) <= cuts + Extra
        /\ pc[p] = "head" => Many(msgs[p]) <= cuts
        /\ pc[p] = "append" => Many(msgs[p]) <= cuts + Last
    BY DEF PassedInv
  <2>g. ASSUME runStatus'[p] = "running" =>
                  \A i \in StepIndex : Many(stored'[p][i]) <= cuts' + Extra',
               pc'[p] = "head" => Many(msgs'[p]) <= cuts',
               pc'[p] = "append" => Many(msgs'[p]) <= cuts' + Last'
        PROVE  PassedInv'
    BY <2>g DEF PassedInv, OneProcess
  <2>n. /\ cuts \in Nat /\ Many(msgs[p]) \in Nat
        /\ \A i \in StepIndex : Many(stored[p][i]) \in Nat
    BY <1>t, SubmissionsCount DEF TypeOK
  <2>r. runId[p] \in {p, "unsaved"} /\ latest \in {p, "unsaved"} /\ p # "unsaved"
    BY <1>t, ProcsAssumption DEF TypeOK, RunId, OneProcess
  <2>e. Extra \in {0, 1} /\ Last \in {0, 1} /\ Extra' \in {0, 1} /\ Last' \in {0, 1}
    OBVIOUS
  <2>z. Many(<<>>) = 0
    BY NoSubmission
  <2> HIDE DEF Many
  <2>1. CASE Start(p)
    <3>1. /\ UNCHANGED <<runStatus, stored, cuts>> /\ pc[p] = "idle" /\ pc'[p] = "load"
      BY <1>t, <2>1 DEF Start, Goto, rows, counts, TypeOK
    <3> QED BY <2>s, <2>g, <2>n, <3>1
  <2>2. CASE Cut(p)
    <3>1. pc'[p] = "idle" /\ UNCHANGED <<runStatus, stored>> /\ cuts' = cuts + 1
      BY <1>t, <2>2, LeaveFacts, CutFacts DEF rows
    <3> QED BY <2>s, <2>g, <2>n, <2>e, <3>1
  <2>3. CASE LoadRun(p)
    <3>1. /\ UNCHANGED <<runStatus, stored, cuts>> /\ pc[p] = "load"
          /\ pc'[p] \in {"start", "finding", "load_steps", "head"}
          /\ pc'[p] = "head" => msgs' = msgs
      BY <1>t, <2>3 DEF LoadRun, Goto, rows, counts, memory, TypeOK
    <3>2. msgs[p] = <<>>
      BY <3>1 DEF SoloInv
    <3> QED BY <2>s, <2>g, <2>n, <2>e, <2>z, <3>1, <3>2
  <2>4. CASE LoadSteps(p)
    <3>1. runId[p] = p /\ msgs[p] = <<>> /\ runStatus[p] = "running"
      BY <2>4 DEF SoloInv, LoadSteps
    <3>2. /\ pc[p] = "load_steps" /\ pc'[p] = "head" /\ UNCHANGED <<runStatus, stored, cuts>>
          /\ msgs'[p] = <<>> \/ \E i \in StepIndex : msgs'[p] = stored[p][i]
      BY <2>4, <3>1, LoadFacts
    <3> QED BY <2>s, <2>g, <2>n, <2>e, <2>z, <3>1, <3>2
  <2>5. CASE StartAgentRun(p)
    <3>1. /\ pc'[p] = "head" /\ msgs'[p] = <<>> /\ UNCHANGED <<stored, cuts>>
          /\ pc[p] = "start"
      BY <1>t, <2>5 DEF StartAgentRun, Goto, Begin, TypeOK, counts
    <3>2. \A i \in StepIndex : stored[p][i] = <<>>
      BY <3>1, StepsAssumption DEF SoloInv, NoStepFrom, StepIndex
    <3> QED BY <2>s, <2>g, <2>n, <2>e, <2>z, <3>1, <3>2
  <2>6. CASE GetStoredFinding(p)
    <3>1. \E o : Leave(p, o)
      BY <2>6, Zenon DEF GetStoredFinding
    <3>2. UNCHANGED <<runStatus, stored, cuts>> /\ pc[p] = "finding"
      BY <2>6 DEF GetStoredFinding, rows, counts
    <3>3. pc'[p] = "idle"
      BY <1>t, <3>1, LeaveFacts
    <3> QED BY <2>s, <2>g, <2>n, <2>e, <3>2, <3>3
  <2>7. CASE Complete(p)
    <3>1. PICK t \in Turn : msgs' = [msgs EXCEPT ![p] = Append(@, t)]
      BY <2>7 DEF Complete
    <3>2. /\ UNCHANGED <<runStatus, stored, cuts>> /\ pc[p] = "head" /\ pc'[p] = "append"
      BY <1>t, <2>7 DEF Complete, Goto, rows, TypeOK
    <3>3. msgs'[p] = Append(msgs[p], t) /\ msgs[p] \in Seq(Turn)
      BY <1>t, <3>1 DEF TypeOK
    <3>4. Last' = IF t = "submit" THEN 1 ELSE 0
      BY <3>3
    <3>5. Many(msgs'[p]) = Many(msgs[p]) + (IF t = "submit" THEN 1 ELSE 0)
      BY <3>3, SubmissionAdded DEF Many
    <3> QED BY <2>s, <2>g, <2>n, <2>e, <3>2, <3>4, <3>5
  <2>8. CASE AppendAgentStep(p)
    <3>1. /\ pc[p] = "append" /\ step[p] \in StepIndex
          /\ pc'[p] = IF msgs[p][Len(msgs[p])] = "submit" THEN "submitted" ELSE "head"
          /\ UNCHANGED <<runStatus, runId, msgs>>
          /\ \/ /\ runId[p] \in Procs /\ cuts' = cuts
                /\ stored' = [stored EXCEPT ![runId[p]][step[p]] = msgs[p]]
             \/ runId[p] = "unsaved" /\ cuts' = cuts /\ stored' = stored
             \/ cuts' = cuts + 1 /\ stored' = stored
      BY <2>8, AppendFacts
    <3>2. pc'[p] = "head" => Last = 0
      BY <3>1
    <3>3. Extra = 0 /\ pc'[p] # "append"
      BY <3>1
    <3>4. CASE stored' = stored
      BY <2>s, <2>g, <2>n, <2>e, <3>1, <3>2, <3>3, <3>4
    <3>5. CASE /\ runId[p] \in Procs /\ cuts' = cuts
               /\ stored' = [stored EXCEPT ![runId[p]][step[p]] = msgs[p]]
      <4>1. runId[p] = p /\ runId'[p] = p
        BY <3>1, <3>5 DEF OneProcess
      <4>2. /\ stored'[p][step[p]] = msgs[p]
            /\ \A i \in StepIndex : i # step[p] => stored'[p][i] = stored[p][i]
        BY <1>t, <3>1, <3>5, <4>1, StoredStep
      <4>3. Last = Extra'
        BY <3>1, <4>1
      <4> QED BY <2>s, <2>g, <2>n, <2>e, <3>1, <3>2, <3>3, <3>5, <4>2, <4>3
    <3> QED BY <3>1, <3>4, <3>5
  <2>9. CASE ExhaustSteps(p)
    <3>1. UNCHANGED <<runStatus, stored, cuts>> /\ pc[p] = "head" /\ pc'[p] = "max_steps"
      BY <1>t, <2>9 DEF ExhaustSteps, Goto, rows, counts, TypeOK
    <3> QED BY <2>s, <2>g, <2>n, <2>e, <3>1
  <2>10. CASE FinishAgentRun(p)
    <3>1. /\ pc[p] \in {"submitted", "max_steps"} /\ pc'[p] = "idle"
          /\ UNCHANGED stored
          /\ \/ /\ runId[p] # "unsaved" /\ cuts' = cuts
                /\ runStatus' = [runStatus EXCEPT ![runId[p]] = pc[p]]
             \/ runId[p] = "unsaved" /\ cuts' = cuts /\ UNCHANGED runStatus
             \/ cuts' = cuts + 1 /\ UNCHANGED runStatus
      BY <1>t, <2>10, FinishFacts
    <3>2. CASE UNCHANGED runStatus /\ runId[p] = "unsaved" /\ cuts' = cuts
      BY <2>s, <2>g, <2>n, <2>r, <3>1, <3>2
    <3>3. CASE UNCHANGED runStatus /\ cuts' = cuts + 1
      BY <2>s, <2>g, <2>n, <2>e, <3>1, <3>3
    <3>4. CASE runId[p] # "unsaved" /\ runStatus' = [runStatus EXCEPT ![runId[p]] = pc[p]]
      <4>1. runStatus'[p] # "running"
        BY <1>t, <2>r, <3>1, <3>4 DEF TypeOK
      <4> QED BY <2>g, <3>1, <4>1
    <3> QED BY <3>1, <3>2, <3>3, <3>4
  <2> QED BY <1>p, <2>1, <2>2, <2>3, <2>4, <2>5, <2>6, <2>7, <2>8, <2>9, <2>10 DEF Step
<1> QED BY <1>u, <1>p DEF Next

\* A run is resumed behind at most one stored submission for each cut, be it a
\* crash, a signal, a lost step or a lost finish, as long as commands run one at
\* a time: without a cut the agent never goes on behind a submission.
THEOREM PassedOnlyAtCuts == ASSUME OneProcess PROVE Spec => []SubmissionsPassed
<1>1. Init => PassedInv
  BY DEF Init, PassedInv
<1>2. AgentInv /\ SoloInv /\ PassedInv /\ [Next]_vars => (AgentInv /\ SoloInv /\ PassedInv)'
  BY AgentInvStep, SoloStep, PassedStep
<1>3. PassedInv => SubmissionsPassed
  BY DEF PassedInv, SubmissionsPassed, Submissions
<1> QED BY <1>1, <1>2, <1>3, InitAgent, SoloStarts, PTL DEF Spec
=============================================================================
