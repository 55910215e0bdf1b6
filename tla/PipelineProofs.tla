--------------------------- MODULE PipelineProofs ---------------------------
(***************************************************************************)
(* Proofs about Pipeline, for any number of processes, clauses and aborts.  *)
(***************************************************************************)
EXTENDS Pipeline, TLAPS

-----------------------------------------------------------------------------
(* What the building blocks of the actions do to the types *)

\* A report without entries is a report.
LEMMA BlankEntry == Blank \in [Clause -> Entry] /\ NoEntry \in Entry
  BY DEF Blank, Entry, NoEntry

\* A step that only reads leaves the rows in their types.
LEMMA ReadType == ASSUME StoredOK, Read PROVE StoredOK'
  BY DEF StoredOK, Read, data

\* So does one that stores a status.
LEMMA StatusType == ASSUME StoredOK, NEW s \in Status, UpdateContractStatus(s) PROVE StoredOK'
  BY DEF StoredOK, UpdateContractStatus, data

\* Going to a label keeps a process's variables in their types.
LEMMA GotoType == ASSUME ProcessesOK, NEW p \in Procs, NEW l \in Labels, Goto(p, l)
                  PROVE ProcessesOK'
  BY DEF ProcessesOK, Goto, locals

\* So does the end of its command.
LEMMA LeaveType == ASSUME ProcessesOK, NEW p \in Procs, NEW l \in Labels, Leave(p, l)
                   PROVE ProcessesOK'
  BY BlankEntry DEF ProcessesOK, Leave

\* A command that returns leaves its process idle.
LEMMA ExitType == ASSUME ProcessesOK, NEW p \in Procs, Exit(p) PROVE ProcessesOK'
  BY LeaveType DEF Exit, Labels

\* A stage that ends goes on to the next one or returns.
LEMMA AfterType == ASSUME ProcessesOK, NEW p \in Procs, NEW l \in Labels, After(p, l)
                   PROVE ProcessesOK'
  BY GotoType, ExitType DEF After

\* The findings a process reads make a view.
LEMMA ReadFindingsType ==
  ASSUME TypeOK, NEW p \in Procs, NEW l \in Labels, ReadFindings(p, l) PROVE TypeOK'
<1>1. PICK f \in [clauses -> Finding] :
         view' = [view EXCEPT ![p] =
              [c \in Clause |-> IF c \in clauses
                                THEN [finding |-> f[c], decision |-> "none"]
                                ELSE NoEntry]]
  BY DEF ReadFindings
<1>2. \A c \in clauses : [finding |-> f[c], decision |-> "none"] \in Entry
  BY <1>1 DEF Entry
<1>3. view' \in [Procs -> [Clause -> Entry]]
  BY BlankEntry, <1>1, <1>2 DEF TypeOK, ProcessesOK
<1>4. StoredOK'
  BY ReadType DEF TypeOK, ReadFindings
<1> QED BY <1>3, <1>4 DEF TypeOK, ProcessesOK, ReadFindings

\* A command that is given a contract begins by looking at its status.
LEMMA FirstLabels ==
  ASSUME NEW c \in StageCommands
  PROVE  FirstLabel(c) \in {"split_check", "an_check", "rev_check", "res_check", "sum_check"}
  BY DEF StageCommands, FirstLabel

-----------------------------------------------------------------------------
(* Type correctness *)

\* Every step of every command keeps the variables in their types.
LEMMA TypeStep == ASSUME TypeOK, [Next]_vars PROVE TypeOK'
<1>s. StoredOK /\ ProcessesOK
  BY DEF TypeOK
<1>1. CASE UNCHANGED vars
  BY <1>1 DEF TypeOK, StoredOK, ProcessesOK, vars, data, locals
<1>2. ASSUME NEW p \in Procs, NEW c \in Commands, Start(p, c) PROVE TypeOK'
  <2>0. c \in AllCommands
    BY CommandsAssumption
  <2>1. CASE CreateContract(p, c)
    BY <2>0, <2>1 DEF CreateContract, TypeOK, StoredOK, ProcessesOK, Status, Labels
  <2>2. CASE Invoke(p, c)
    <3>1. FirstLabel(c) \in Labels
      BY <2>2, FirstLabels DEF Invoke, Labels
    <3>2. StoredOK'
      BY <2>2, <1>s, ReadType DEF Invoke, Read
    <3> QED BY <2>0, <2>2, <3>1, <3>2 DEF Invoke, TypeOK, ProcessesOK
  <2> QED BY <1>2, <2>1, <2>2 DEF Start
<1>3. ASSUME NEW p \in Procs, Abort(p) PROVE TypeOK'
  BY <1>3, <1>s, LeaveType, ReadType DEF Abort, TypeOK, Labels
<1>4. ASSUME NEW p \in Procs, Extract(p) PROVE TypeOK'
  <2>1. CASE ExtractMark(p)
    BY <2>1, <1>s, StatusType, GotoType DEF ExtractMark, TypeOK, Labels, Status
  <2>2. CASE UpdateContractText(p)
    <3>1. ProcessesOK'
      BY <2>2, <1>s, GotoType DEF UpdateContractText, Labels
    <3> QED BY <2>2, <1>s, <3>1 DEF UpdateContractText, TypeOK, StoredOK
  <2>3. CASE ExtractDone(p)
    BY <2>3, <1>s, StatusType, AfterType DEF ExtractDone, TypeOK, Labels, Status
  <2> QED BY <1>4, <2>1, <2>2, <2>3 DEF Extract
<1>5. ASSUME NEW p \in Procs, Split(p) PROVE TypeOK'
  <2>1. CASE SplitCheck(p)
    BY <2>1, <1>s, ReadType, GotoType, AfterType, ExitType DEF SplitCheck, TypeOK, Labels
  <2>2. CASE SplitMark(p)
    BY <2>2, <1>s, StatusType, GotoType DEF SplitMark, TypeOK, Labels, Status
  <2>3. CASE SaveClauses(p)
    <3>1. ProcessesOK'
      BY <2>3, <1>s, GotoType, ExitType DEF SaveClauses, Labels
    <3>2. CASE Read
      BY <3>1, <3>2, <1>s, ReadType DEF TypeOK
    <3>3. CASE \E n \in Clause : clauses' = 1..n
      <4>1. clauses' \in SUBSET Clause
        BY <3>3, MaxClausesAssumption DEF Clause
      <4> QED BY <2>3, <3>1, <4>1, <1>s DEF SaveClauses, TypeOK, StoredOK, Read, data
    <3> QED BY <2>3, <3>2, <3>3 DEF SaveClauses
  <2>4. CASE SplitDone(p)
    BY <2>4, <1>s, StatusType, AfterType DEF SplitDone, TypeOK, Labels, Status
  <2> QED BY <1>5, <2>1, <2>2, <2>3, <2>4 DEF Split
<1>6. ASSUME NEW p \in Procs, Analyze(p) PROVE TypeOK'
  <2>1. CASE AnalyzeCheck(p)
    BY <2>1, <1>s, ReadType, GotoType, AfterType, ExitType DEF AnalyzeCheck, TypeOK, Labels
  <2>2. CASE AnalyzeMark(p)
    BY <2>2, <1>s, StatusType, GotoType DEF AnalyzeMark, TypeOK, Labels, Status
  <2>3. CASE FilterClauses(p)
    <3>1. StoredOK'
      BY <2>3, <1>s, ReadType DEF FilterClauses
    <3> QED BY <2>3, <3>1, <1>s
            DEF FilterClauses, ClausesNeedingAnalysis, TypeOK, StoredOK, ProcessesOK, Labels
  <2>4. CASE AnalyzeClause(p)
    <3>1. PICK c \in todo[p], r \in Outcome :
             /\ todo' = [todo EXCEPT ![p] = @ \ {c}]
             /\ \/ analyses' = [analyses EXCEPT ![c] = @ \cup {r}]
                \/ UNCHANGED analyses
      BY <2>4 DEF AnalyzeClause
    <3>2. r \in Risks \cup {"failed"}
      BY <3>1 DEF Outcome
    <3>3. analyses' \in [Clause -> SUBSET (Risks \cup {"failed"})]
      BY <3>1, <3>2, <1>s DEF StoredOK
    <3>4. todo' \in [Procs -> SUBSET Clause]
      BY <3>1, <1>s DEF ProcessesOK
    <3> QED BY <2>4, <3>3, <3>4, <1>s DEF AnalyzeClause, TypeOK, StoredOK, ProcessesOK
  <2>5. CASE AnalyzeDone(p)
    BY <2>5, <1>s, StatusType, AfterType DEF AnalyzeDone, TypeOK, Labels, Status
  <2> QED BY <1>6, <2>1, <2>2, <2>3, <2>4, <2>5 DEF Analyze
<1>7. ASSUME NEW p \in Procs, PostAnalysis(p) PROVE TypeOK'
  <2>1. CASE PostCheck(p)
    BY <2>1, <1>s, ReadType, GotoType, ExitType DEF PostCheck, TypeOK, Labels
  <2>2. CASE PostSet(p)
    BY <2>2, <1>s, StatusType, GotoType, ExitType DEF PostSet, TypeOK, Labels, Status
  <2> QED BY <1>7, <2>1, <2>2 DEF PostAnalysis
<1>8. ASSUME NEW p \in Procs, ReviewClauses(p) PROVE TypeOK'
  <2>1. CASE ReviewCheck(p) \/ ReviewDone(p)
    BY <2>1, <1>s, ReadType, GotoType, ExitType DEF ReviewCheck, ReviewDone, TypeOK, Labels
  <2>2. CASE ReviewFindings(p)
    BY <2>2, ReadFindingsType DEF ReviewFindings, Labels
  <2>3. CASE ReviewReviews(p)
    <3>1. StoredOK'
      BY <2>3, <1>s, ReadType DEF ReviewReviews
    <3> QED BY <2>3, <3>1, <1>s
            DEF ReviewReviews, Unreviewed, TypeOK, StoredOK, ProcessesOK, Labels
  <2>4. CASE SaveReview(p)
    <3>1. PICK c \in todo[p], d \in Decision :
             /\ reviews' = [reviews EXCEPT ![c] =
                   @ \cup {[decision |-> d, finding |-> view[p][c].finding]}]
             /\ todo' = [todo EXCEPT ![p] = @ \ {c}]
      BY <2>4 DEF SaveReview
    <3>2. [decision |-> d, finding |-> view[p][c].finding] \in Review
      BY <1>s DEF ProcessesOK, Review, Entry
    <3> QED BY <2>4, <3>1, <3>2, <1>s DEF SaveReview, TypeOK, StoredOK, ProcessesOK
  <2> QED BY <1>8, <2>1, <2>2, <2>3, <2>4 DEF ReviewClauses
<1>9. ASSUME NEW p \in Procs, Resume(p) PROVE TypeOK'
  <2>1. CASE ResumeCheck(p) \/ ResumeReviews(p)
    BY <2>1, <1>s, ReadType, GotoType, ExitType DEF ResumeCheck, ResumeReviews, TypeOK, Labels
  <2>2. CASE ResumeSet(p)
    BY <2>2, <1>s, StatusType, GotoType DEF ResumeSet, TypeOK, Labels, Status
  <2> QED BY <1>9, <2>1, <2>2 DEF Resume
<1>10. ASSUME NEW p \in Procs, Summarize(p) PROVE TypeOK'
  <2>1. CASE SummarizeCheck(p)
    BY <2>1, <1>s, ReadType, GotoType, ExitType DEF SummarizeCheck, TypeOK, Labels
  <2>2. CASE SummarizeMark(p) \/ SummarizeDone(p)
    BY <2>2, <1>s, StatusType, GotoType, ExitType
       DEF SummarizeMark, SummarizeDone, TypeOK, Labels, Status
  <2>3. CASE SummarizeFindings(p)
    BY <2>3, ReadFindingsType DEF SummarizeFindings, Labels
  <2>4. CASE SummarizeDecisions(p)
    <3>1. PICK d \in [clauses -> Decision \cup {"none"}] :
             view' = [view EXCEPT ![p] =
                [c \in Clause |-> IF c \in clauses
                                  THEN [view[p][c] EXCEPT !.decision = d[c]]
                                  ELSE view[p][c]]]
      BY <2>4 DEF SummarizeDecisions
    <3>2. \A c \in clauses : [view[p][c] EXCEPT !.decision = d[c]] \in Entry
      <4>1. SUFFICES ASSUME NEW c \in clauses
                     PROVE  [view[p][c] EXCEPT !.decision = d[c]] \in Entry
        OBVIOUS
      <4>2. view[p][c] \in Entry /\ d[c] \in Decision \cup {"none"}
        BY <3>1, <1>s DEF StoredOK, ProcessesOK
      <4> QED BY <4>2 DEF Entry
    <3>3. view' \in [Procs -> [Clause -> Entry]]
      BY <3>1, <3>2, <1>s DEF ProcessesOK
    <3>4. StoredOK'
      BY <2>4, <1>s, ReadType DEF SummarizeDecisions
    <3> QED BY <2>4, <3>3, <3>4, <1>s DEF SummarizeDecisions, TypeOK, ProcessesOK, Labels
  <2>5. CASE SaveSummary(p) \/ WriteReport(p)
    <3>1. ProcessesOK'
      BY <2>5, <1>s, GotoType DEF SaveSummary, WriteReport, Labels
    <3> QED BY <2>5, <3>1, <1>s DEF SaveSummary, WriteReport, TypeOK, StoredOK, ProcessesOK
  <2> QED BY <1>10, <2>1, <2>2, <2>3, <2>4, <2>5 DEF Summarize
<1> QED BY <1>1, <1>2, <1>3, <1>4, <1>5, <1>6, <1>7, <1>8, <1>9, <1>10 DEF Next, Step

\* The initial values have their types.
LEMMA TypeInit == Init => TypeOK
<1> SUFFICES ASSUME Init PROVE TypeOK
  OBVIOUS
<1>1. StoredOK
  BY BlankEntry DEF Init, StoredOK, Status
<1>2. ProcessesOK
  BY BlankEntry DEF Init, ProcessesOK, Labels
<1> QED BY <1>1, <1>2 DEF TypeOK

\* The tables, the report and the processes' variables keep their types
\* whatever commands run.
THEOREM TypeCorrect == Spec => []TypeOK
  BY TypeInit, TypeStep, PTL DEF Spec

-----------------------------------------------------------------------------
(* The inductive invariant *)

\* The commands on a contract that exists are no process, nor is no command.
LEMMA NoProcess == "none" \notin ProcessCommands /\ StageCommands \cap ProcessCommands = {}
                   /\ "none" \notin StageCommands /\ "none" \notin ProcessCommands \cup {"extract"}
  BY DEF ProcessCommands, StageCommands

\* A command runs on a contract that exists, and a process on one whose review
\* gate is what its arguments were parsed to.
LEMMA ProcessStep == ASSUME TypeOK, ProcessInv, [Next]_vars PROVE ProcessInv'
<1>0. "none" \notin ProcessCommands /\ StageCommands \cap ProcessCommands = {}
      /\ "none" \notin StageCommands /\ "none" \notin ProcessCommands \cup {"extract"}
  BY NoProcess
<1> USE <1>0 DEF Processing, TypeOK, ProcessesOK, ProcessInv, Goto, After, Exit, Leave, At, Free, Read, ReadFindings, UpdateContractStatus, data, locals
<1>1. CASE UNCHANGED vars
  BY <1>1 DEF vars
<1>2. ASSUME NEW p \in Procs, NEW c \in Commands, Start(p, c) PROVE ProcessInv'
  <2>1. CASE CreateContract(p, c)
    <3>1. \A q \in Procs \ {p} : cmd'[q] = "none" /\ cmd[q] = "none" /\ pc'[q] = pc[q]
      BY <2>1 DEF CreateContract
    <3>2. /\ cmd'[p] = c /\ pc'[p] = "ext_mark" /\ status' = "uploaded" /\ c # "none"
          /\ requiresReview' = (c \in ProcessCommands /\ ReviewFlag(c))
      BY <2>1 DEF CreateContract
    <3> QED BY <3>1, <3>2
  <2>2. CASE Invoke(p, c)
    BY <2>2, FirstLabels DEF Invoke
  <2> QED BY <1>2, <2>1, <2>2 DEF Start
<1>3. ASSUME NEW p \in Procs, Abort(p) PROVE ProcessInv'
  BY <1>3 DEF Abort
<1>4. ASSUME NEW p \in Procs, Extract(p) PROVE ProcessInv'
  <2>1. CASE ExtractMark(p)
    BY <2>1 DEF ExtractMark
  <2>2. CASE UpdateContractText(p)
    BY <2>2 DEF UpdateContractText
  <2>3. CASE ExtractDone(p)
    BY <2>3 DEF ExtractDone
  <2> QED BY <1>4, <2>1, <2>2, <2>3 DEF Extract
<1>5. ASSUME NEW p \in Procs, Split(p) PROVE ProcessInv'
  <2>1. CASE SplitCheck(p)
    BY <2>1 DEF SplitCheck
  <2>2. CASE SplitMark(p)
    BY <2>2 DEF SplitMark
  <2>3. CASE SaveClauses(p)
    BY <2>3 DEF SaveClauses
  <2>4. CASE SplitDone(p)
    BY <2>4 DEF SplitDone
  <2> QED BY <1>5, <2>1, <2>2, <2>3, <2>4 DEF Split
<1>6. ASSUME NEW p \in Procs, Analyze(p) PROVE ProcessInv'
  <2>1. CASE AnalyzeCheck(p)
    BY <2>1 DEF AnalyzeCheck
  <2>2. CASE AnalyzeMark(p)
    BY <2>2 DEF AnalyzeMark
  <2>3. CASE FilterClauses(p)
    BY <2>3 DEF FilterClauses
  <2>4. CASE AnalyzeClause(p)
    BY <2>4 DEF AnalyzeClause
  <2>5. CASE AnalyzeDone(p)
    BY <2>5 DEF AnalyzeDone
  <2> QED BY <1>6, <2>1, <2>2, <2>3, <2>4, <2>5 DEF Analyze
<1>7. ASSUME NEW p \in Procs, PostAnalysis(p) PROVE ProcessInv'
  <2>1. CASE PostCheck(p)
    BY <2>1 DEF PostCheck
  <2>2. CASE PostSet(p)
    BY <2>2 DEF PostSet
  <2> QED BY <1>7, <2>1, <2>2 DEF PostAnalysis
<1>8. ASSUME NEW p \in Procs, ReviewClauses(p) PROVE ProcessInv'
  <2>1. CASE ReviewCheck(p)
    BY <2>1 DEF ReviewCheck
  <2>2. CASE ReviewFindings(p)
    BY <2>2 DEF ReviewFindings
  <2>3. CASE ReviewReviews(p)
    BY <2>3 DEF ReviewReviews
  <2>4. CASE SaveReview(p)
    BY <2>4 DEF SaveReview
  <2>5. CASE ReviewDone(p)
    BY <2>5 DEF ReviewDone
  <2> QED BY <1>8, <2>1, <2>2, <2>3, <2>4, <2>5 DEF ReviewClauses
<1>9. ASSUME NEW p \in Procs, Resume(p) PROVE ProcessInv'
  <2>1. CASE ResumeCheck(p)
    BY <2>1 DEF ResumeCheck
  <2>2. CASE ResumeReviews(p)
    BY <2>2 DEF ResumeReviews
  <2>3. CASE ResumeSet(p)
    BY <2>3 DEF ResumeSet
  <2> QED BY <1>9, <2>1, <2>2, <2>3 DEF Resume
<1>10. ASSUME NEW p \in Procs, Summarize(p) PROVE ProcessInv'
  <2>1. CASE SummarizeCheck(p)
    BY <2>1 DEF SummarizeCheck
  <2>2. CASE SummarizeMark(p)
    BY <2>2 DEF SummarizeMark
  <2>3. CASE SummarizeFindings(p)
    BY <2>3 DEF SummarizeFindings
  <2>4. CASE SummarizeDecisions(p)
    BY <2>4 DEF SummarizeDecisions
  <2>5. CASE SaveSummary(p)
    BY <2>5 DEF SaveSummary
  <2>6. CASE WriteReport(p)
    BY <2>6 DEF WriteReport
  <2>7. CASE SummarizeDone(p)
    BY <2>7 DEF SummarizeDone
  <2> QED BY <1>10, <2>1, <2>2, <2>3, <2>4, <2>5, <2>6, <2>7 DEF Summarize
<1> QED BY <1>1, <1>2, <1>3, <1>4, <1>5, <1>6, <1>7, <1>8, <1>9, <1>10 DEF Next, Step

\* Statuses and labels keep the data they stand for.
LEMMA StageStep == ASSUME TypeOK, ProcessInv, StageInv, [Next]_vars PROVE StageInv'
<1> USE DEF TypeOK, ProcessesOK, ProcessInv, StageInv, PastSplit, PastExtract, TextStored, ClausesStored, StatusUnread, Labels, Status, Goto, After, Exit, Leave, At, Free, Read, ReadFindings, UpdateContractStatus, data, locals
<1>1. CASE UNCHANGED vars
  BY <1>1 DEF vars
<1>2. ASSUME NEW p \in Procs, NEW c \in Commands, Start(p, c) PROVE StageInv'
  <2>1. CASE CreateContract(p, c)
    BY <2>1 DEF CreateContract
  <2>2. CASE Invoke(p, c)
    <3>1. FirstLabel(c) \in StatusUnread
      BY <2>2, FirstLabels DEF Invoke
    <3> QED BY <2>2, <3>1 DEF Invoke
  <2> QED BY <1>2, <2>1, <2>2 DEF Start
<1>3. ASSUME NEW p \in Procs, Abort(p) PROVE StageInv'
  BY <1>3 DEF Abort
<1>4. ASSUME NEW p \in Procs, Extract(p) PROVE StageInv'
  <2>1. CASE ExtractMark(p)
    BY <2>1 DEF ExtractMark
  <2>2. CASE UpdateContractText(p)
    BY <2>2 DEF UpdateContractText
  <2>3. CASE ExtractDone(p)
    <3>1. status' = "extracted" /\ text' = text /\ text
      BY <2>3 DEF ExtractDone
    <3>2. pc' = [pc EXCEPT ![p] = "split_check"] \/ pc' = [pc EXCEPT ![p] = "idle"]
      BY <2>3 DEF ExtractDone
    <3> QED BY <2>3, <3>1, <3>2 DEF ExtractDone
  <2> QED BY <1>4, <2>1, <2>2, <2>3 DEF Extract
<1>5. ASSUME NEW p \in Procs, Split(p) PROVE StageInv'
  <2>1. CASE SplitCheck(p)
    <3>1. /\ UNCHANGED <<status, text, clauses>> /\ pc[p] = "split_check"
          /\ pc' = [pc EXCEPT ![p] = pc'[p]]
          /\ \/ status = "clauses_extracted" /\ pc'[p] \in {"an_check", "idle"}
             \/ status = "extracted" /\ pc'[p] = "split_mark"
             \/ pc'[p] = "idle"
      BY <2>1 DEF SplitCheck
    <3> QED BY <3>1
  <2>2. CASE SplitMark(p)
    BY <2>2 DEF SplitMark
  <2>3. CASE SaveClauses(p)
    <3>1. CASE clauses = {}
      <4>1. clauses' # {}
        <5>1. PICK n \in Clause : clauses' = 1..n
          BY <2>3, <3>1 DEF SaveClauses
        <5>2. 1 \in 1..n
          BY MaxClausesAssumption DEF Clause
        <5> QED BY <5>1, <5>2
      <4> QED BY <2>3, <3>1, <4>1 DEF SaveClauses
    <3>2. CASE clauses # {}
      BY <2>3, <3>2 DEF SaveClauses
    <3> QED BY <3>1, <3>2
  <2>4. CASE SplitDone(p)
    BY <2>4 DEF SplitDone
  <2> QED BY <1>5, <2>1, <2>2, <2>3, <2>4 DEF Split
<1>6. ASSUME NEW p \in Procs, Analyze(p) PROVE StageInv'
  <2>1. CASE AnalyzeCheck(p)
    BY <2>1 DEF AnalyzeCheck
  <2>2. CASE AnalyzeMark(p)
    BY <2>2 DEF AnalyzeMark
  <2>3. CASE FilterClauses(p)
    BY <2>3 DEF FilterClauses
  <2>4. CASE AnalyzeClause(p)
    BY <2>4 DEF AnalyzeClause
  <2>5. CASE AnalyzeDone(p)
    BY <2>5 DEF AnalyzeDone
  <2> QED BY <1>6, <2>1, <2>2, <2>3, <2>4, <2>5 DEF Analyze
<1>7. ASSUME NEW p \in Procs, PostAnalysis(p) PROVE StageInv'
  <2>1. CASE PostCheck(p)
    BY <2>1 DEF PostCheck
  <2>2. CASE PostSet(p)
    BY <2>2 DEF PostSet
  <2> QED BY <1>7, <2>1, <2>2 DEF PostAnalysis
<1>8. ASSUME NEW p \in Procs, ReviewClauses(p) PROVE StageInv'
  <2>1. CASE ReviewCheck(p)
    BY <2>1 DEF ReviewCheck
  <2>2. CASE ReviewFindings(p)
    BY <2>2 DEF ReviewFindings
  <2>3. CASE ReviewReviews(p)
    BY <2>3 DEF ReviewReviews
  <2>4. CASE SaveReview(p)
    BY <2>4 DEF SaveReview
  <2>5. CASE ReviewDone(p)
    BY <2>5 DEF ReviewDone
  <2> QED BY <1>8, <2>1, <2>2, <2>3, <2>4, <2>5 DEF ReviewClauses
<1>9. ASSUME NEW p \in Procs, Resume(p) PROVE StageInv'
  <2>1. CASE ResumeCheck(p)
    BY <2>1 DEF ResumeCheck
  <2>2. CASE ResumeReviews(p)
    BY <2>2 DEF ResumeReviews
  <2>3. CASE ResumeSet(p)
    BY <2>3 DEF ResumeSet
  <2> QED BY <1>9, <2>1, <2>2, <2>3 DEF Resume
<1>10. ASSUME NEW p \in Procs, Summarize(p) PROVE StageInv'
  <2>1. CASE SummarizeCheck(p)
    BY <2>1 DEF SummarizeCheck
  <2>2. CASE SummarizeMark(p)
    BY <2>2 DEF SummarizeMark
  <2>3. CASE SummarizeFindings(p)
    BY <2>3 DEF SummarizeFindings
  <2>4. CASE SummarizeDecisions(p)
    BY <2>4 DEF SummarizeDecisions
  <2>5. CASE SaveSummary(p)
    BY <2>5 DEF SaveSummary
  <2>6. CASE WriteReport(p)
    BY <2>6 DEF WriteReport
  <2>7. CASE SummarizeDone(p)
    BY <2>7 DEF SummarizeDone
  <2> QED BY <1>10, <2>1, <2>2, <2>3, <2>4, <2>5, <2>6, <2>7 DEF Summarize
<1> QED BY <1>1, <1>2, <1>3, <1>4, <1>5, <1>6, <1>7, <1>8, <1>9, <1>10 DEF Next, Step

\* The clauses are stored once, and reviews are only ever added.
Grows == (clauses # {} => clauses' = clauses) /\ (\A c \in Clause : reviews[c] \subseteq reviews'[c])

LEMMA GrowStep == ASSUME TypeOK, [Next]_vars
                  PROVE  Grows
<1> USE DEF Grows, TypeOK, StoredOK, ProcessesOK,
           Goto, After, Exit, Leave, At, Free, Read, ReadFindings, UpdateContractStatus,
           data, locals
<1>1. CASE UNCHANGED vars
  BY <1>1 DEF vars
<1>2. ASSUME NEW p \in Procs, NEW c \in Commands, Start(p, c) PROVE Grows
  <2>1. CASE CreateContract(p, c)
    BY <2>1 DEF CreateContract
  <2>2. CASE Invoke(p, c)
    <3>1. FirstLabel(c) \in StatusUnread
      BY <2>2, FirstLabels DEF Invoke, StatusUnread
    <3> QED BY <2>2, <3>1 DEF Invoke, StatusUnread
  <2> QED BY <1>2, <2>1, <2>2 DEF Start
<1>3. ASSUME NEW p \in Procs, Abort(p) PROVE Grows
  BY <1>3 DEF Abort
<1>4. ASSUME NEW p \in Procs, Extract(p) PROVE Grows
  <2>1. CASE ExtractMark(p)
    BY <2>1 DEF ExtractMark
  <2>2. CASE UpdateContractText(p)
    BY <2>2 DEF UpdateContractText
  <2>3. CASE ExtractDone(p)
    BY <2>3 DEF ExtractDone
  <2> QED BY <1>4, <2>1, <2>2, <2>3 DEF Extract
<1>5. ASSUME NEW p \in Procs, Split(p) PROVE Grows
  <2>1. CASE SplitCheck(p)
    BY <2>1 DEF SplitCheck
  <2>2. CASE SplitMark(p)
    BY <2>2 DEF SplitMark
  <2>3. CASE SaveClauses(p)
    BY <2>3 DEF SaveClauses
  <2>4. CASE SplitDone(p)
    BY <2>4 DEF SplitDone
  <2> QED BY <1>5, <2>1, <2>2, <2>3, <2>4 DEF Split
<1>6. ASSUME NEW p \in Procs, Analyze(p) PROVE Grows
  <2>1. CASE AnalyzeCheck(p)
    BY <2>1 DEF AnalyzeCheck
  <2>2. CASE AnalyzeMark(p)
    BY <2>2 DEF AnalyzeMark
  <2>3. CASE FilterClauses(p)
    BY <2>3 DEF FilterClauses
  <2>4. CASE AnalyzeClause(p)
    BY <2>4 DEF AnalyzeClause
  <2>5. CASE AnalyzeDone(p)
    BY <2>5 DEF AnalyzeDone
  <2> QED BY <1>6, <2>1, <2>2, <2>3, <2>4, <2>5 DEF Analyze
<1>7. ASSUME NEW p \in Procs, PostAnalysis(p) PROVE Grows
  <2>1. CASE PostCheck(p)
    BY <2>1 DEF PostCheck
  <2>2. CASE PostSet(p)
    BY <2>2 DEF PostSet
  <2> QED BY <1>7, <2>1, <2>2 DEF PostAnalysis
<1>8. ASSUME NEW p \in Procs, ReviewClauses(p) PROVE Grows
  <2>1. CASE ReviewCheck(p)
    BY <2>1 DEF ReviewCheck
  <2>2. CASE ReviewFindings(p)
    BY <2>2 DEF ReviewFindings
  <2>3. CASE ReviewReviews(p)
    BY <2>3 DEF ReviewReviews
  <2>4. CASE SaveReview(p)
    BY <2>4 DEF SaveReview
  <2>5. CASE ReviewDone(p)
    BY <2>5 DEF ReviewDone
  <2> QED BY <1>8, <2>1, <2>2, <2>3, <2>4, <2>5 DEF ReviewClauses
<1>9. ASSUME NEW p \in Procs, Resume(p) PROVE Grows
  <2>1. CASE ResumeCheck(p)
    BY <2>1 DEF ResumeCheck
  <2>2. CASE ResumeReviews(p)
    BY <2>2 DEF ResumeReviews
  <2>3. CASE ResumeSet(p)
    BY <2>3 DEF ResumeSet
  <2> QED BY <1>9, <2>1, <2>2, <2>3 DEF Resume
<1>10. ASSUME NEW p \in Procs, Summarize(p) PROVE Grows
  <2>1. CASE SummarizeCheck(p)
    BY <2>1 DEF SummarizeCheck
  <2>2. CASE SummarizeMark(p)
    BY <2>2 DEF SummarizeMark
  <2>3. CASE SummarizeFindings(p)
    BY <2>3 DEF SummarizeFindings
  <2>4. CASE SummarizeDecisions(p)
    BY <2>4 DEF SummarizeDecisions
  <2>5. CASE SaveSummary(p)
    BY <2>5 DEF SaveSummary
  <2>6. CASE WriteReport(p)
    BY <2>6 DEF WriteReport
  <2>7. CASE SummarizeDone(p)
    BY <2>7 DEF SummarizeDone
  <2> QED BY <1>10, <2>1, <2>2, <2>3, <2>4, <2>5, <2>6, <2>7 DEF Summarize
<1> QED BY <1>1, <1>2, <1>3, <1>4, <1>5, <1>6, <1>7, <1>8, <1>9, <1>10 DEF Next, Step

\* So a contract of which every clause is reviewed stays so.
LEMMA CoveredKept == ASSUME TypeOK, [Next]_vars PROVE clauses # {} /\ Covered => Covered'
  BY GrowStep DEF Grows, TypeOK, StoredOK, Covered

\* Nothing behind the review gate without every clause reviewed.
LEMMA GateStep == ASSUME TypeOK, ProcessInv, StageInv, GateInv, [Next]_vars
                  PROVE  GateInv'
<1>k. clauses # {} /\ Covered => Covered'
  BY CoveredKept
<1> USE DEF TypeOK, ProcessesOK, ProcessInv, StageInv, GateInv, ReviewGate, Reviewed, AfterGate,
           PastSplit, PastExtract, TextStored, ClausesStored, StatusUnread, Labels, Status,
           Goto, After, Exit, Leave, At, Free, Read, ReadFindings, UpdateContractStatus,
           data, locals
<1>1. CASE UNCHANGED vars
  BY <1>1, <1>k DEF vars
<1>2. ASSUME NEW p \in Procs, NEW c \in Commands, Start(p, c) PROVE GateInv'
  <2>1. CASE CreateContract(p, c)
    BY <2>1, <1>k DEF CreateContract
  <2>2. CASE Invoke(p, c)
    <3>1. FirstLabel(c) \in StatusUnread
      BY <2>2, FirstLabels DEF Invoke, StatusUnread
    <3> QED BY <2>2, <3>1, <1>k DEF Invoke, StatusUnread
  <2> QED BY <1>2, <2>1, <2>2 DEF Start
<1>3. ASSUME NEW p \in Procs, Abort(p) PROVE GateInv'
  BY <1>3, <1>k DEF Abort
<1>4. ASSUME NEW p \in Procs, Extract(p) PROVE GateInv'
  <2>1. CASE ExtractMark(p)
    BY <2>1, <1>k DEF ExtractMark
  <2>2. CASE UpdateContractText(p)
    BY <2>2, <1>k DEF UpdateContractText
  <2>3. CASE ExtractDone(p)
    BY <2>3, <1>k DEF ExtractDone
  <2> QED BY <1>4, <2>1, <2>2, <2>3 DEF Extract
<1>5. ASSUME NEW p \in Procs, Split(p) PROVE GateInv'
  <2>1. CASE SplitCheck(p)
    <3>0. pc' = [pc EXCEPT ![p] = pc'[p]] /\ pc'[p] \in {"an_check", "split_mark", "idle"}
      BY <2>1 DEF SplitCheck
    <3> QED BY <2>1, <1>k, <3>0 DEF SplitCheck
  <2>2. CASE SplitMark(p)
    BY <2>2, <1>k DEF SplitMark
  <2>3. CASE SaveClauses(p)
    <3>1. /\ UNCHANGED <<status, requiresReview>> /\ pc[p] = "split_save"
          /\ pc' = [pc EXCEPT ![p] = pc'[p]] /\ pc'[p] \in {"split_done", "idle"}
      BY <2>3 DEF SaveClauses
    <3> QED BY <3>1, <1>k
  <2>4. CASE SplitDone(p)
    BY <2>4, <1>k DEF SplitDone
  <2> QED BY <1>5, <2>1, <2>2, <2>3, <2>4 DEF Split
<1>6. ASSUME NEW p \in Procs, Analyze(p) PROVE GateInv'
  <2>1. CASE AnalyzeCheck(p)
    BY <2>1, <1>k DEF AnalyzeCheck
  <2>2. CASE AnalyzeMark(p)
    BY <2>2, <1>k DEF AnalyzeMark
  <2>3. CASE FilterClauses(p)
    BY <2>3, <1>k DEF FilterClauses
  <2>4. CASE AnalyzeClause(p)
    BY <2>4, <1>k DEF AnalyzeClause
  <2>5. CASE AnalyzeDone(p)
    BY <2>5, <1>k DEF AnalyzeDone
  <2> QED BY <1>6, <2>1, <2>2, <2>3, <2>4, <2>5 DEF Analyze
<1>7. ASSUME NEW p \in Procs, PostAnalysis(p) PROVE GateInv'
  <2>1. CASE PostCheck(p)
    BY <2>1, <1>k DEF PostCheck
  <2>2. CASE PostSet(p)
    <3>1. CASE ReviewFlag(cmd[p])
      <4>1. UpdateContractStatus("review_pending") /\ Exit(p)
        BY <2>2, <3>1 DEF PostSet
      <4> QED BY <4>1, <1>k
    <3>2. CASE ~ReviewFlag(cmd[p])
      BY <2>2, <3>2, <1>k DEF PostSet
    <3> QED BY <2>2, <3>1, <3>2 DEF PostSet
  <2> QED BY <1>7, <2>1, <2>2 DEF PostAnalysis
<1>8. ASSUME NEW p \in Procs, ReviewClauses(p) PROVE GateInv'
  <2>1. CASE ReviewCheck(p)
    <3>1. CASE Goto(p, "rev_findings")
      BY <2>1, <3>1, <1>k DEF ReviewCheck
    <3>2. CASE Exit(p)
      BY <2>1, <3>2, <1>k DEF ReviewCheck
    <3> QED BY <2>1, <3>1, <3>2 DEF ReviewCheck
  <2>2. CASE ReviewFindings(p)
    BY <2>2, <1>k DEF ReviewFindings
  <2>3. CASE ReviewReviews(p)
    BY <2>3, <1>k DEF ReviewReviews
  <2>4. CASE SaveReview(p)
    BY <2>4, <1>k DEF SaveReview
  <2>5. CASE ReviewDone(p)
    BY <2>5, <1>k DEF ReviewDone
  <2> QED BY <1>8, <2>1, <2>2, <2>3, <2>4, <2>5 DEF ReviewClauses
<1>9. ASSUME NEW p \in Procs, Resume(p) PROVE GateInv'
  <2>1. CASE ResumeCheck(p)
    <3>1. CASE Goto(p, "res_reviews")
      BY <2>1, <3>1, <1>k DEF ResumeCheck
    <3>2. CASE Exit(p)
      BY <2>1, <3>2, <1>k DEF ResumeCheck
    <3> QED BY <2>1, <3>1, <3>2 DEF ResumeCheck
  <2>2. CASE ResumeReviews(p)
    <3>0. Unreviewed = {} => Covered
      BY DEF Unreviewed, Covered
    <3>1. CASE Goto(p, "res_set")
      BY <2>2, <3>1, <1>k, <3>0 DEF ResumeReviews
    <3>2. CASE Exit(p)
      BY <2>2, <3>2, <1>k, <3>0 DEF ResumeReviews
    <3> QED BY <2>2, <3>1, <3>2 DEF ResumeReviews
  <2>3. CASE ResumeSet(p)
    BY <2>3, <1>k DEF ResumeSet
  <2> QED BY <1>9, <2>1, <2>2, <2>3 DEF Resume
<1>10. ASSUME NEW p \in Procs, Summarize(p) PROVE GateInv'
  <2>1. CASE SummarizeCheck(p)
    <3>1. CASE Goto(p, "sum_mark")
      BY <2>1, <3>1, <1>k DEF SummarizeCheck
    <3>2. CASE Exit(p)
      BY <2>1, <3>2, <1>k DEF SummarizeCheck
    <3> QED BY <2>1, <3>1, <3>2 DEF SummarizeCheck
  <2>2. CASE SummarizeMark(p)
    BY <2>2, <1>k DEF SummarizeMark
  <2>3. CASE SummarizeFindings(p)
    BY <2>3, <1>k DEF SummarizeFindings
  <2>4. CASE SummarizeDecisions(p)
    BY <2>4, <1>k DEF SummarizeDecisions
  <2>5. CASE SaveSummary(p)
    BY <2>5, <1>k DEF SaveSummary
  <2>6. CASE WriteReport(p)
    BY <2>6, <1>k DEF WriteReport
  <2>7. CASE SummarizeDone(p)
    BY <2>7, <1>k DEF SummarizeDone
  <2> QED BY <1>10, <2>1, <2>2, <2>3, <2>4, <2>5, <2>6, <2>7 DEF Summarize
<1> QED BY <1>1, <1>2, <1>3, <1>4, <1>5, <1>6, <1>7, <1>8, <1>9, <1>10 DEF Next, Step

\* A summary in the making lists every clause, and so does a finished one.
LEMMA ReportStep == ASSUME TypeOK, ProcessInv, StageInv, ReportInv, [Next]_vars
                    PROVE  ReportInv'
<1>k. clauses # {} => clauses' = clauses
  BY GrowStep DEF Grows
<1> USE DEF TypeOK, StoredOK, ProcessesOK, StageInv, ReportInv, Complete, ListsClauses,
           PastSplit, PastExtract, TextStored, ClausesStored, StatusUnread, Labels, Status,
           Goto, After, Exit, Leave, At, Free, Read, ReadFindings, UpdateContractStatus,
           data, locals
<1>1. CASE UNCHANGED vars
  BY <1>1, <1>k DEF vars
<1>2. ASSUME NEW p \in Procs, NEW c \in Commands, Start(p, c) PROVE ReportInv'
  <2>1. CASE CreateContract(p, c)
    BY <2>1, <1>k DEF CreateContract
  <2>2. CASE Invoke(p, c)
    <3>1. FirstLabel(c) \in StatusUnread
      BY <2>2, FirstLabels DEF Invoke, StatusUnread
    <3> QED BY <2>2, <3>1, <1>k DEF Invoke, StatusUnread
  <2> QED BY <1>2, <2>1, <2>2 DEF Start
<1>3. ASSUME NEW p \in Procs, Abort(p) PROVE ReportInv'
  BY <1>3, <1>k DEF Abort
<1>4. ASSUME NEW p \in Procs, Extract(p) PROVE ReportInv'
  <2>1. CASE ExtractMark(p)
    BY <2>1, <1>k DEF ExtractMark
  <2>2. CASE UpdateContractText(p)
    BY <2>2, <1>k DEF UpdateContractText
  <2>3. CASE ExtractDone(p)
    BY <2>3, <1>k DEF ExtractDone
  <2> QED BY <1>4, <2>1, <2>2, <2>3 DEF Extract
<1>5. ASSUME NEW p \in Procs, Split(p) PROVE ReportInv'
  <2>1. CASE SplitCheck(p)
    BY <2>1, <1>k DEF SplitCheck
  <2>2. CASE SplitMark(p)
    BY <2>2, <1>k DEF SplitMark
  <2>3. CASE SaveClauses(p)
    <3>1. CASE clauses = {}
      <4>1. status \notin PastSplit /\ \A q \in Procs : pc[q] \notin ClausesStored
        BY <3>1
      <4> QED BY <2>3, <3>1, <4>1 DEF SaveClauses
    <3>2. CASE clauses # {}
      BY <2>3, <3>2, <1>k DEF SaveClauses
    <3> QED BY <3>1, <3>2
  <2>4. CASE SplitDone(p)
    BY <2>4, <1>k DEF SplitDone
  <2> QED BY <1>5, <2>1, <2>2, <2>3, <2>4 DEF Split
<1>6. ASSUME NEW p \in Procs, Analyze(p) PROVE ReportInv'
  <2>1. CASE AnalyzeCheck(p)
    BY <2>1, <1>k DEF AnalyzeCheck
  <2>2. CASE AnalyzeMark(p)
    BY <2>2, <1>k DEF AnalyzeMark
  <2>3. CASE FilterClauses(p)
    BY <2>3, <1>k DEF FilterClauses
  <2>4. CASE AnalyzeClause(p)
    BY <2>4, <1>k DEF AnalyzeClause
  <2>5. CASE AnalyzeDone(p)
    BY <2>5, <1>k DEF AnalyzeDone
  <2> QED BY <1>6, <2>1, <2>2, <2>3, <2>4, <2>5 DEF Analyze
<1>7. ASSUME NEW p \in Procs, PostAnalysis(p) PROVE ReportInv'
  <2>1. CASE PostCheck(p)
    BY <2>1, <1>k DEF PostCheck
  <2>2. CASE PostSet(p)
    <3>1. CASE ReviewFlag(cmd[p])
      <4>1. UpdateContractStatus("review_pending") /\ Exit(p)
        BY <2>2, <3>1 DEF PostSet
      <4> QED BY <4>1, <1>k
    <3>2. CASE ~ReviewFlag(cmd[p])
      BY <2>2, <3>2, <1>k DEF PostSet
    <3> QED BY <2>2, <3>1, <3>2 DEF PostSet
  <2> QED BY <1>7, <2>1, <2>2 DEF PostAnalysis
<1>8. ASSUME NEW p \in Procs, ReviewClauses(p) PROVE ReportInv'
  <2>1. CASE ReviewCheck(p)
    BY <2>1, <1>k DEF ReviewCheck
  <2>2. CASE ReviewFindings(p)
    BY <2>2, <1>k DEF ReviewFindings
  <2>3. CASE ReviewReviews(p)
    BY <2>3, <1>k DEF ReviewReviews
  <2>4. CASE SaveReview(p)
    BY <2>4, <1>k DEF SaveReview
  <2>5. CASE ReviewDone(p)
    BY <2>5, <1>k DEF ReviewDone
  <2> QED BY <1>8, <2>1, <2>2, <2>3, <2>4, <2>5 DEF ReviewClauses
<1>9. ASSUME NEW p \in Procs, Resume(p) PROVE ReportInv'
  <2>1. CASE ResumeCheck(p)
    BY <2>1, <1>k DEF ResumeCheck
  <2>2. CASE ResumeReviews(p)
    BY <2>2, <1>k DEF ResumeReviews
  <2>3. CASE ResumeSet(p)
    BY <2>3, <1>k DEF ResumeSet
  <2> QED BY <1>9, <2>1, <2>2, <2>3 DEF Resume
<1>10. ASSUME NEW p \in Procs, Summarize(p) PROVE ReportInv'
  <2>1. CASE SummarizeCheck(p)
    BY <2>1, <1>k DEF SummarizeCheck
  <2>2. CASE SummarizeMark(p)
    BY <2>2, <1>k DEF SummarizeMark
  <2>3. CASE SummarizeFindings(p)
    <3>1. PICK f \in [clauses -> Finding] :
             view' = [view EXCEPT ![p] =
                  [c \in Clause |-> IF c \in clauses
                                    THEN [finding |-> f[c], decision |-> "none"]
                                    ELSE NoEntry]]
      BY <2>3 DEF SummarizeFindings
    <3>2. \A c \in clauses : f[c] # "none"
      BY <3>1, RisksAssumption DEF Finding, RiskLevel
    <3>3. clauses' = clauses
      BY <2>3 DEF SummarizeFindings
    <3>4. ListsClauses(view[p])'
      BY <3>1, <3>2, <3>3 DEF NoEntry
    <3>5. \A q \in Procs \ {p} : view'[q] = view[q] /\ pc'[q] = pc[q]
      BY <2>3, <3>1 DEF SummarizeFindings
    <3> QED BY <2>3, <3>3, <3>4, <3>5 DEF SummarizeFindings
  <2>4. CASE SummarizeDecisions(p)
    BY <2>4, <1>k DEF SummarizeDecisions
  <2>5. CASE SaveSummary(p)
    BY <2>5, <1>k DEF SaveSummary
  <2>6. CASE WriteReport(p)
    BY <2>6, <1>k DEF WriteReport
  <2>7. CASE SummarizeDone(p)
    BY <2>7, <1>k DEF SummarizeDone
  <2> QED BY <1>10, <2>1, <2>2, <2>3, <2>4, <2>5, <2>6, <2>7 DEF Summarize
<1> QED BY <1>1, <1>2, <1>3, <1>4, <1>5, <1>6, <1>7, <1>8, <1>9, <1>10 DEF Next, Step

\* A summary behind the gate has a decision for every clause it lists.
LEMMA DecisionStep == ASSUME TypeOK, ProcessInv, StageInv, GateInv, ReportInv, DecisionInv, [Next]_vars
                      PROVE  DecisionInv'
<1> USE DEF TypeOK, StoredOK, ProcessesOK, ProcessInv, DecisionInv, Decided,
           Goto, After, Exit, Leave, At, Free, Read, ReadFindings, UpdateContractStatus,
           data, locals
<1>1. CASE UNCHANGED vars
  BY <1>1 DEF vars
<1>2. ASSUME NEW p \in Procs, NEW c \in Commands, Start(p, c) PROVE DecisionInv'
  <2>1. CASE CreateContract(p, c)
    BY <2>1 DEF CreateContract
  <2>2. CASE Invoke(p, c)
    <3>1. FirstLabel(c) \in StatusUnread
      BY <2>2, FirstLabels DEF Invoke, StatusUnread
    <3> QED BY <2>2, <3>1 DEF Invoke, StatusUnread
  <2> QED BY <1>2, <2>1, <2>2 DEF Start
<1>3. ASSUME NEW p \in Procs, Abort(p) PROVE DecisionInv'
  BY <1>3 DEF Abort
<1>4. ASSUME NEW p \in Procs, Extract(p) PROVE DecisionInv'
  <2>1. CASE ExtractMark(p)
    BY <2>1 DEF ExtractMark
  <2>2. CASE UpdateContractText(p)
    BY <2>2 DEF UpdateContractText
  <2>3. CASE ExtractDone(p)
    BY <2>3 DEF ExtractDone
  <2> QED BY <1>4, <2>1, <2>2, <2>3 DEF Extract
<1>5. ASSUME NEW p \in Procs, Split(p) PROVE DecisionInv'
  <2>1. CASE SplitCheck(p)
    BY <2>1 DEF SplitCheck
  <2>2. CASE SplitMark(p)
    BY <2>2 DEF SplitMark
  <2>3. CASE SaveClauses(p)
    BY <2>3 DEF SaveClauses
  <2>4. CASE SplitDone(p)
    BY <2>4 DEF SplitDone
  <2> QED BY <1>5, <2>1, <2>2, <2>3, <2>4 DEF Split
<1>6. ASSUME NEW p \in Procs, Analyze(p) PROVE DecisionInv'
  <2>1. CASE AnalyzeCheck(p)
    BY <2>1 DEF AnalyzeCheck
  <2>2. CASE AnalyzeMark(p)
    BY <2>2 DEF AnalyzeMark
  <2>3. CASE FilterClauses(p)
    BY <2>3 DEF FilterClauses
  <2>4. CASE AnalyzeClause(p)
    BY <2>4 DEF AnalyzeClause
  <2>5. CASE AnalyzeDone(p)
    BY <2>5 DEF AnalyzeDone
  <2> QED BY <1>6, <2>1, <2>2, <2>3, <2>4, <2>5 DEF Analyze
<1>7. ASSUME NEW p \in Procs, PostAnalysis(p) PROVE DecisionInv'
  <2>1. CASE PostCheck(p)
    <3>1. CASE Goto(p, "post_set")
      BY <2>1, <3>1 DEF PostCheck
    <3>2. CASE Exit(p)
      BY <2>1, <3>2 DEF PostCheck
    <3> QED BY <2>1, <3>1, <3>2 DEF PostCheck
  <2>2. CASE PostSet(p)
    <3>1. CASE ReviewFlag(cmd[p])
      <4>1. UpdateContractStatus("review_pending") /\ Exit(p)
        BY <2>2, <3>1 DEF PostSet
      <4> QED BY <4>1
    <3>2. CASE ~ReviewFlag(cmd[p])
      BY <2>2, <3>2 DEF PostSet
    <3> QED BY <2>2, <3>1, <3>2 DEF PostSet
  <2> QED BY <1>7, <2>1, <2>2 DEF PostAnalysis
<1>8. ASSUME NEW p \in Procs, ReviewClauses(p) PROVE DecisionInv'
  <2>1. CASE ReviewCheck(p)
    BY <2>1 DEF ReviewCheck
  <2>2. CASE ReviewFindings(p)
    BY <2>2 DEF ReviewFindings
  <2>3. CASE ReviewReviews(p)
    BY <2>3 DEF ReviewReviews
  <2>4. CASE SaveReview(p)
    BY <2>4 DEF SaveReview
  <2>5. CASE ReviewDone(p)
    BY <2>5 DEF ReviewDone
  <2> QED BY <1>8, <2>1, <2>2, <2>3, <2>4, <2>5 DEF ReviewClauses
<1>9. ASSUME NEW p \in Procs, Resume(p) PROVE DecisionInv'
  <2>1. CASE ResumeCheck(p)
    BY <2>1 DEF ResumeCheck
  <2>2. CASE ResumeReviews(p)
    BY <2>2 DEF ResumeReviews
  <2>3. CASE ResumeSet(p)
    BY <2>3 DEF ResumeSet
  <2> QED BY <1>9, <2>1, <2>2, <2>3 DEF Resume
<1>10. ASSUME NEW p \in Procs, Summarize(p) PROVE DecisionInv'
  <2>1. CASE SummarizeCheck(p)
    BY <2>1 DEF SummarizeCheck
  <2>2. CASE SummarizeMark(p)
    BY <2>2 DEF SummarizeMark
  <2>3. CASE SummarizeFindings(p)
    BY <2>3 DEF SummarizeFindings
  <2>4. CASE SummarizeDecisions(p)
    <3>1. PICK d \in [clauses -> Decision \cup {"none"}] :
             /\ \A c \in clauses : IF reviews[c] = {} THEN d[c] = "none"
                                   ELSE \E r \in reviews[c] : d[c] = r.decision
             /\ view' = [view EXCEPT ![p] =
                  [c \in Clause |-> IF c \in clauses
                                    THEN [view[p][c] EXCEPT !.decision = d[c]]
                                    ELSE view[p][c]]]
      BY <2>4 DEF SummarizeDecisions
    <3>2. ASSUME requiresReview PROVE Decided(view[p])'
      <4>1. \A c \in clauses : d[c] \in Decision
        BY <2>4, <3>1, <3>2 DEF SummarizeDecisions, GateInv, AfterGate, Covered, Review
      <4>2. ListsClauses(view[p])
        BY <2>4 DEF SummarizeDecisions, ReportInv
      <4>3. ASSUME NEW c \in clauses PROVE view'[p][c].decision # "none"
        <5>1. view[p][c] \in Entry
          OBVIOUS
        <5>2. view'[p][c].decision = d[c]
          BY <3>1, <5>1 DEF Entry
        <5> QED BY <4>1, <5>2 DEF Decision
      <4>4. ASSUME NEW c \in Clause \ clauses PROVE view'[p][c].finding = "none"
        BY <3>1, <4>2, <4>4 DEF ListsClauses
      <4> QED BY <4>3, <4>4
    <3>3. \A q \in Procs \ {p} : view'[q] = view[q] /\ pc'[q] = pc[q]
      BY <2>4, <3>1 DEF SummarizeDecisions
    <3> QED BY <2>4, <3>2, <3>3 DEF SummarizeDecisions
  <2>5. CASE SaveSummary(p)
    BY <2>5 DEF SaveSummary
  <2>6. CASE WriteReport(p)
    BY <2>6 DEF WriteReport
  <2>7. CASE SummarizeDone(p)
    BY <2>7 DEF SummarizeDone
  <2> QED BY <1>10, <2>1, <2>2, <2>3, <2>4, <2>5, <2>6, <2>7 DEF Summarize
<1> QED BY <1>1, <1>2, <1>3, <1>4, <1>5, <1>6, <1>7, <1>8, <1>9, <1>10 DEF Next, Step

\* The invariant holds at the start.
LEMMA InvInit == Init => IInv
<1> SUFFICES ASSUME Init PROVE IInv
  OBVIOUS
<1>1. TypeOK
  BY TypeInit
<1>0. ProcessInv
  BY NoProcess DEF Init, ProcessInv, Free, Processing
<1>2. StageInv /\ GateInv /\ ReportInv
  BY DEF Init, Free, StageInv, GateInv, ReviewGate, Reviewed, ReportInv, AfterGate,
         PastSplit, PastExtract, TextStored, ClausesStored, StatusUnread
<1>3. DecisionInv
  BY DEF Init, DecisionInv, Decided, Blank, NoEntry
<1> QED BY <1>0, <1>1, <1>2, <1>3 DEF IInv

\* Every step keeps it.
LEMMA InvStep == IInv /\ [Next]_vars => IInv'
  BY TypeStep, ProcessStep, StageStep, GateStep, ReportStep, DecisionStep DEF IInv

\* The invariant holds whatever commands run and wherever they are cut short.
THEOREM Invariance == Spec => []IInv
  BY InvInit, InvStep, PTL DEF Spec

-----------------------------------------------------------------------------
(* The properties *)

\* The text, the clauses and the report are stored by the time the status
\* says so.
THEOREM DataFollowsStatus == Spec => []DataBehindStatus
<1>1. IInv => DataBehindStatus
  BY DEF IInv, StageInv, ReportInv, DataBehindStatus
<1> QED BY <1>1, Invariance, PTL

\* No contract whose row has requires_review gets past the gate with an undecided
\* clause.
THEOREM GateHolds == Spec => []ReviewGate
<1>1. IInv => ReviewGate
  BY DEF IInv, GateInv
<1> QED BY <1>1, Invariance, PTL

\* The report of such a contract carries a decision for every clause it lists.
THEOREM ReportsDecisions == Spec => []DecisionsReported
<1>1. IInv => DecisionsReported
  BY DEF IInv, DecisionInv, DecisionsReported
<1> QED BY <1>1, Invariance, PTL
=============================================================================
