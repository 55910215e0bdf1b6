---------------------------- MODULE SerialProofs ----------------------------
(***************************************************************************)
(* What Pipeline promises as long as commands run one at a time, for any    *)
(* number of clauses and of commands cut short: the status only moves       *)
(* forward, and the report says what the reviewer saw and decided.          *)
(***************************************************************************)
EXTENDS WorkflowProofs

\* Commands run one at a time: there is only one process to run them.
OneProcess == \A p, q \in Procs : p = q

-----------------------------------------------------------------------------
(* With one process the status stays what the command found or stored *)

AtLabel == [l \in Labels |->
    CASE l = "ext_mark" -> {"uploaded"}
      [] l \in {"ext_text", "ext_done"} -> {"extracting"}
      [] l = "split_mark" -> {"extracted"}
      [] l \in {"split_save", "split_done"} -> {"analyzing_clauses"}
      [] l = "an_mark" -> {"clauses_extracted", "analyzing"}
      [] l \in {"an_filter", "an_agents"} -> {"analyzing"}
      [] l \in {"post_check", "post_set"} -> {"analyzed"}
      [] l \in {"rev_findings", "rev_reviews", "rev_loop", "res_reviews", "res_set"}
            -> {"review_pending"}
      [] l = "sum_mark" -> {"review_complete"}
      [] l \in {"sum_findings", "sum_decisions", "sum_save", "sum_file", "sum_done"}
            -> {"summarizing"}
      [] OTHER -> Status]

\* The status at each label; a contract that process takes to its analysis
\* has not been analyzed before.
LabelInv == \A p \in Procs :
    /\ status \in AtLabel[pc[p]]
    /\ Processing(p) /\ pc[p] \in {"an_check", "an_mark"} => status = "clauses_extracted"

Forward == StatusOrder[status'] >= StatusOrder[status]

\* Every step of the one process finds the status it left, and moves forward.
LEMMA LabelStep ==
  ASSUME OneProcess, TypeOK, ProcessInv, LabelInv, [Next]_vars PROVE LabelInv' /\ Forward
<1>t. status \in Status /\ TypeOK'
  BY TypeStep DEF TypeOK, StoredOK
<1>f. status' = status => Forward
  BY <1>t DEF Forward, StatusOrder, Status
<1>u. CASE UNCHANGED vars
  BY <1>u, <1>f DEF vars, locals, LabelInv, Processing
<1>c. ASSUME NEW p \in Procs, NEW c \in Commands, CreateContract(p, c) PROVE LabelInv' /\ Forward
  <2>1. status = "none" /\ status' = "uploaded" /\ pc'[p] = "ext_mark"
    BY <1>c DEF CreateContract, TypeOK, ProcessesOK
  <2> QED BY <2>1, <1>t DEF OneProcess, LabelInv, Forward, AtLabel, StatusOrder, Status, Labels
<1>i. ASSUME NEW p \in Procs, NEW c \in Commands, Invoke(p, c) PROVE LabelInv' /\ Forward
  <2>1. /\ pc'[p] \in {"split_check", "an_check", "rev_check", "res_check", "sum_check"}
        /\ cmd'[p] = c /\ c \notin ProcessCommands
        /\ status' = status
    BY <1>i, FirstLabels, NoProcess DEF Invoke, TypeOK, ProcessesOK
  <2>2. ~Processing(p)'
    BY <2>1 DEF Processing
  <2>3. status' \in AtLabel[pc'[p]]
    BY <2>1, <1>t DEF AtLabel, Labels, TypeOK, StoredOK
  <2> QED BY <2>1, <2>2, <2>3, <1>f DEF OneProcess, LabelInv
<1>s. ASSUME NEW p \in Procs, Step(p) \/ Abort(p) PROVE LabelInv' /\ Forward
  <2> DEFINE Good == /\ status' \in AtLabel[pc'[p]]
                     /\ Processing(p)' /\ pc'[p] \in {"an_check", "an_mark"}
                           => status' = "clauses_extracted"
                     /\ Forward
  <2> SUFFICES Good
    BY DEF OneProcess, LabelInv
  <2>l. status \in AtLabel[pc[p]] /\ pc[p] \in Labels /\ pc'[p] \in Labels /\ status' \in Status
    BY <1>t DEF LabelInv, TypeOK, StoredOK, ProcessesOK
  <2>1. CASE Abort(p)
    BY <2>1, <2>l, <1>f DEF Abort, Leave, Read, TypeOK, ProcessesOK, AtLabel
  <2> USE DEF TypeOK, ProcessesOK, At, Goto, After, Exit, Leave, ReadFindings, Read, Processing,
              UpdateContractStatus, locals, AtLabel
  <2> HIDE DEF Forward
  <2>2. CASE Extract(p)
    <3>1. CASE ExtractMark(p)
      BY <3>1, <2>l DEF ExtractMark, Forward, StatusOrder, Status
    <3>2. CASE UpdateContractText(p)
      BY <3>2, <2>l, <1>f DEF UpdateContractText
    <3>3. CASE ExtractDone(p)
      <4>1. /\ status = "extracting" /\ status' = "extracted"
            /\ pc'[p] \in {"split_check", "idle"}
        BY <3>3, <2>l DEF ExtractDone
      <4>2. Forward
        BY <4>1, <2>l DEF Forward, StatusOrder, Status
      <4> QED BY <4>1, <4>2, <2>l
    <3> QED BY <2>2, <3>1, <3>2, <3>3 DEF Extract
  <2>3. CASE Split(p)
    <3>1. CASE SplitCheck(p)
      BY <3>1, <2>l, <1>f DEF SplitCheck
    <3>2. CASE SplitMark(p)
      BY <3>2, <2>l DEF SplitMark, Forward, StatusOrder, Status
    <3>3. CASE SaveClauses(p)
      BY <3>3, <2>l, <1>f DEF SaveClauses
    <3>4. CASE SplitDone(p)
      <4>1. /\ status = "analyzing_clauses" /\ status' = "clauses_extracted"
            /\ pc'[p] \in {"an_check", "idle"}
        BY <3>4, <2>l DEF SplitDone
      <4>2. Forward
        BY <4>1, <2>l DEF Forward, StatusOrder, Status
      <4> QED BY <4>1, <4>2, <2>l
    <3> QED BY <2>3, <3>1, <3>2, <3>3, <3>4 DEF Split
  <2>4. CASE Analyze(p)
    <3>1. CASE AnalyzeCheck(p)
      <4>1. CASE status = "analyzed" /\ After(p, "post_check")
        BY <3>1, <4>1, <2>l, <1>f DEF AnalyzeCheck
      <4>2. CASE status \in {"clauses_extracted", "analyzing"} /\ Goto(p, "an_mark")
        <5>1. Processing(p)' = Processing(p) /\ pc[p] = "an_check" /\ pc'[p] = "an_mark"
          BY <3>1, <4>2 DEF AnalyzeCheck
        <5>2. Processing(p) => status = "clauses_extracted"
          BY <5>1 DEF LabelInv
        <5>3. UNCHANGED status
          BY <3>1 DEF AnalyzeCheck
        <5> HIDE DEF Processing
        <5> QED BY <4>2, <5>1, <5>2, <5>3, <2>l, <1>f
      <4>3. CASE Exit(p)
        BY <3>1, <4>3, <2>l, <1>f DEF AnalyzeCheck
      <4> QED BY <3>1, <4>1, <4>2, <4>3 DEF AnalyzeCheck
    <3>2. CASE AnalyzeMark(p)
      BY <3>2, <2>l DEF AnalyzeMark, Forward, StatusOrder, Status
    <3>3. CASE FilterClauses(p)
      BY <3>3, <2>l, <1>f DEF FilterClauses
    <3>4. CASE AnalyzeClause(p)
      BY <3>4, <2>l, <1>f DEF AnalyzeClause
    <3>5. CASE AnalyzeDone(p)
      <4>1. /\ status = "analyzing" /\ status' = "analyzed"
            /\ pc'[p] \in {"post_check", "idle"}
        BY <3>5, <2>l DEF AnalyzeDone
      <4>2. Forward
        BY <4>1, <2>l DEF Forward, StatusOrder, Status
      <4> QED BY <4>1, <4>2, <2>l
    <3> QED BY <2>4, <3>1, <3>2, <3>3, <3>4, <3>5 DEF Analyze
  <2>5. CASE PostAnalysis(p)
    <3>1. CASE PostCheck(p)
      BY <3>1, <2>l, <1>f DEF PostCheck
    <3>2. CASE PostSet(p)
      <4>1. /\ status = "analyzed" /\ status' \in {"review_pending", "review_complete"}
            /\ pc'[p] \in {"sum_check", "idle"}
        BY <3>2, <2>l DEF PostSet
      <4>2. Forward
        BY <4>1, <2>l DEF Forward, StatusOrder, Status
      <4> QED BY <4>1, <4>2, <2>l
    <3> QED BY <2>5, <3>1, <3>2 DEF PostAnalysis
  <2>6. CASE ReviewClauses(p)
    <3>1. CASE ReviewCheck(p)
      <4>1. /\ status' = status
            /\ (pc'[p] = "rev_findings" /\ status = "review_pending") \/ pc'[p] = "idle"
        BY <3>1, <2>l DEF ReviewCheck
      <4> QED BY <4>1, <2>l, <1>f
    <3>2. CASE ReviewFindings(p)
      BY <3>2, <2>l, <1>f DEF ReviewFindings
    <3>3. CASE ReviewReviews(p)
      BY <3>3, <2>l, <1>f DEF ReviewReviews
    <3>4. CASE SaveReview(p)
      BY <3>4, <2>l, <1>f DEF SaveReview
    <3>5. CASE ReviewDone(p)
      BY <3>5, <2>l, <1>f DEF ReviewDone
    <3> QED BY <2>6, <3>1, <3>2, <3>3, <3>4, <3>5 DEF ReviewClauses
  <2>7. CASE Resume(p)
    <3>1. CASE ResumeCheck(p) \/ ResumeReviews(p)
      <4>1. /\ status' = status
            /\ \/ pc'[p] \in {"res_reviews", "res_set"} /\ status = "review_pending"
               \/ pc'[p] = "idle"
        BY <3>1, <2>l DEF ResumeCheck, ResumeReviews
      <4> QED BY <4>1, <2>l, <1>f
    <3>2. CASE ResumeSet(p)
      BY <3>2, <2>l DEF ResumeSet, Forward, StatusOrder, Status
    <3> QED BY <2>7, <3>1, <3>2 DEF Resume
  <2>8. CASE Summarize(p)
    <3>1. CASE SummarizeCheck(p)
      <4>1. /\ status' = status
            /\ (pc'[p] = "sum_mark" /\ status = "review_complete") \/ pc'[p] = "idle"
        BY <3>1, <2>l DEF SummarizeCheck
      <4> QED BY <4>1, <2>l, <1>f
    <3>2. CASE SummarizeMark(p)
      BY <3>2, <2>l DEF SummarizeMark, Forward, StatusOrder, Status
    <3>3. CASE SummarizeFindings(p)
      BY <3>3, <2>l, <1>f DEF SummarizeFindings
    <3>4. CASE SummarizeDecisions(p)
      BY <3>4, <2>l, <1>f DEF SummarizeDecisions
    <3>5. CASE SaveSummary(p) \/ WriteReport(p)
      BY <3>5, <2>l, <1>f DEF SaveSummary, WriteReport
    <3>6. CASE SummarizeDone(p)
      BY <3>6, <2>l DEF SummarizeDone, Forward, StatusOrder, Status
    <3> QED BY <2>8, <3>1, <3>2, <3>3, <3>4, <3>5, <3>6 DEF Summarize
  <2> QED BY <1>s, <2>1, <2>2, <2>3, <2>4, <2>5, <2>6, <2>7, <2>8 DEF Step
<1> QED BY <1>u, <1>c, <1>i, <1>s DEF Next, Start

\* No command, first or repeated, completed or cut short, takes the contract
\* back to an earlier stage as long as commands run one at a time.
THEOREM StatusOnlyForward == ASSUME OneProcess PROVE Spec => StatusForward
<1>1. Init => LabelInv
  BY DEF Init, LabelInv, AtLabel, Labels, Status, Processing
<1>2. IInv /\ LabelInv /\ [Next]_vars => LabelInv' /\ StatusOrder[status'] >= StatusOrder[status]
  BY LabelStep DEF IInv, Forward
<1> QED BY <1>1, <1>2, InvInit, InvStep, PTL DEF Spec, StatusForward

-----------------------------------------------------------------------------
(* One analysis of a contract that is to be reviewed *)

AtMostOne(S) == \A x, y \in S : x = y

Unanalyzed == \A c \in Clause : analyses[c] = {}

AnalyzedOnce == \A c \in Clause : AtMostOne(analyses[c])

\* The statuses of a contract that may have reviews.
Gated == {"review_pending"} \cup Reviewed

\* process analyzes a contract without rows and stores at most one for each
\* clause; the analysis of a contract under review is not repeated.
OnceInv ==
    /\ status \notin {"analyzing"} \cup PastAnalysis => Unanalyzed
    /\ requiresReview /\ status \in Gated => AnalyzedOnce
    /\ \A p \in Procs : Processing(p) =>
          /\ pc[p] = "an_filter" => Unanalyzed
          /\ pc[p] = "an_agents" => /\ AnalyzedOnce
                                    /\ \A c \in todo[p] : analyses[c] = {}
          /\ pc[p] \in {"post_check", "post_set"} => AnalyzedOnce

\* Where a command begins.
LEMMA StartLabel ==
  ASSUME TypeOK, NEW p \in Procs, NEW c \in Commands, Start(p, c)
  PROVE  pc'[p] \in {"ext_mark", "split_check", "an_check", "rev_check", "res_check", "sum_check"}
<1>1. CASE CreateContract(p, c)
  BY <1>1 DEF CreateContract, TypeOK, ProcessesOK
<1>2. CASE Invoke(p, c)
  BY <1>2, FirstLabels DEF Invoke, TypeOK, ProcessesOK
<1> QED BY <1>1, <1>2 DEF Start

\* How a contract comes to the review or past it.
LEMMA EntersGate ==
  ASSUME NEW p \in Procs, Step(p) \/ Abort(p) \/ \E c \in Commands : Start(p, c),
         status' \in Gated
  PROVE  status' = status \/ PostSet(p) \/ ResumeSet(p) \/ SummarizeMark(p) \/ SummarizeDone(p)
<1> USE DEF Read, UpdateContractStatus, Gated, Reviewed
<1>1. CASE Abort(p) \/ \E c \in Commands : Start(p, c)
  BY <1>1 DEF Abort, Start, CreateContract, Invoke
<1>2. CASE Extract(p) \/ Split(p)
  BY <1>2 DEF Extract, ExtractMark, UpdateContractText, ExtractDone,
     Split, SplitCheck, SplitMark, SaveClauses, SplitDone
<1>3. CASE Analyze(p) \/ PostAnalysis(p)
  BY <1>3 DEF Analyze, AnalyzeCheck, AnalyzeMark, FilterClauses, AnalyzeClause,
     AnalyzeDone, PostAnalysis, PostCheck
<1>4. CASE ReviewClauses(p) \/ Resume(p)
  BY <1>4 DEF ReviewClauses, ReviewCheck, ReviewFindings, ReadFindings, ReviewReviews, SaveReview,
     ReviewDone, Resume, ResumeCheck, ResumeReviews
<1>5. CASE Summarize(p)
  BY <1>5 DEF Summarize, SummarizeCheck, SummarizeFindings, ReadFindings,
     SummarizeDecisions, SaveSummary, WriteReport
<1> QED BY <1>1, <1>2, <1>3, <1>4, <1>5 DEF Step

\* How a process comes to a label.
LEMMA ComesFrom ==
  ASSUME TypeOK, NEW p \in Procs,
         Step(p) \/ Abort(p) \/ \E c \in Commands : Start(p, c)
  PROVE  /\ pc'[p] = "an_filter" => AnalyzeMark(p)
         /\ pc'[p] = "post_check" => AnalyzeCheck(p) \/ AnalyzeDone(p)
         /\ pc'[p] = "post_set" => PostCheck(p)
         /\ pc'[p] = "rev_reviews" => ReviewFindings(p)
         /\ pc'[p] = "sum_decisions" => SummarizeFindings(p)
         /\ pc'[p] = "sum_file" => SaveSummary(p)
         /\ pc'[p] = "sum_done" => WriteReport(p)
<1> DEFINE Wanted == {"an_filter", "post_check", "post_set", "rev_reviews", "sum_decisions",
                      "sum_file", "sum_done"}
<1> USE DEF TypeOK, ProcessesOK, At, Goto, After, Exit, Leave, ReadFindings, locals
<1>1. Abort(p) => pc'[p] \notin Wanted
  BY DEF Abort
<1>2. ASSUME NEW c \in Commands, Start(p, c) PROVE pc'[p] \notin Wanted
  BY <1>2, StartLabel
<1>3. Extract(p) \/ Split(p) => pc'[p] \notin Wanted
  BY DEF Extract, ExtractMark, UpdateContractText, ExtractDone,
     Split, SplitCheck, SplitMark, SaveClauses, SplitDone
<1>4. CASE Analyze(p)
  <2>1. FilterClauses(p) \/ AnalyzeClause(p) => pc'[p] \notin Wanted
    BY DEF FilterClauses, AnalyzeClause
  <2>2. AnalyzeMark(p) => pc'[p] = "an_filter"
    BY DEF AnalyzeMark
  <2>3. AnalyzeCheck(p) => pc'[p] \in {"post_check", "an_mark", "idle"}
    BY DEF AnalyzeCheck
  <2>4. AnalyzeDone(p) => pc'[p] \in {"post_check", "idle"}
    BY DEF AnalyzeDone
  <2> QED BY <1>4, <2>1, <2>2, <2>3, <2>4 DEF Analyze
<1>5. CASE PostAnalysis(p)
  <2>1. PostCheck(p) => pc'[p] \in {"post_set", "idle"}
    BY DEF PostCheck
  <2>2. PostSet(p) => pc'[p] \notin Wanted
    BY DEF PostSet
  <2> QED BY <1>5, <2>1, <2>2 DEF PostAnalysis
<1>6. CASE ReviewClauses(p) \/ Resume(p)
  <2>1. ReviewFindings(p) => pc'[p] = "rev_reviews"
    BY DEF ReviewFindings
  <2>2. (ReviewClauses(p) /\ ~ReviewFindings(p)) \/ Resume(p) => pc'[p] \notin Wanted
    BY DEF ReviewClauses, ReviewCheck, ReviewReviews, SaveReview, ReviewDone,
       Resume, ResumeCheck, ResumeReviews, ResumeSet
  <2> QED BY <1>6, <2>1, <2>2
<1>7. CASE Summarize(p)
  <2>1. SummarizeFindings(p) => pc'[p] = "sum_decisions"
    BY DEF SummarizeFindings
  <2>2. SaveSummary(p) => pc'[p] = "sum_file"
    BY DEF SaveSummary
  <2>3. WriteReport(p) => pc'[p] = "sum_done"
    BY DEF WriteReport
  <2>4. SummarizeCheck(p) \/ SummarizeMark(p) \/ SummarizeDone(p) => pc'[p] \notin Wanted
    BY DEF SummarizeCheck, SummarizeMark, SummarizeDone
  <2>5. SummarizeDecisions(p) => pc'[p] \notin Wanted
    BY DEF SummarizeDecisions
  <2> QED BY <1>7, <2>1, <2>2, <2>3, <2>4, <2>5 DEF Summarize
<1> QED BY <1>1, <1>2, <1>3, <1>4, <1>5, <1>6, <1>7 DEF Step

\* Only an agent that ends adds a row, to a clause it was started for.
LEMMA AnalysesChange ==
  ASSUME TypeOK, ProcessInv, [Next]_vars
  PROVE  \/ UNCHANGED analyses
         \/ \E p \in Procs : /\ AnalyzeClause(p)
                             /\ \E c \in todo[p] : \E r \in Outcome :
                                   /\ todo' = [todo EXCEPT ![p] = @ \ {c}]
                                   /\ analyses' = [analyses EXCEPT ![c] = @ \cup {r}]
<1>1. ASSUME NEW p \in Procs, AnalyzeClause(p)
      PROVE  \/ UNCHANGED analyses
             \/ \E c \in todo[p] : \E r \in Outcome :
                   /\ todo' = [todo EXCEPT ![p] = @ \ {c}]
                   /\ analyses' = [analyses EXCEPT ![c] = @ \cup {r}]
  BY <1>1, Zenon DEF AnalyzeClause
<1>2. ASSUME NEW p \in Procs, Stores(p), ~AnalyzeClause(p) PROVE UNCHANGED analyses
  BY <1>2 DEF Stores, UpdateContractText, SaveClauses, SaveReview, SaveSummary, WriteReport,
     Read, data
<1>3. ASSUME NEW p \in Procs, NEW c \in Commands, CreateContract(p, c) PROVE UNCHANGED analyses
  BY <1>3 DEF CreateContract
<1> QED BY <1>1, <1>2, <1>3, StepStores DEF StatusOnly, data

\* The one analysis of process stores one row for each clause.
LEMMA OnceStep ==
  ASSUME OneProcess, IInv, WorkflowInv, LabelInv, OnceInv, [Next]_vars PROVE OnceInv'
<1>t. TypeOK /\ TypeOK' /\ ProcessInv
  BY TypeStep DEF IInv
<1>s. LabelInv' /\ Forward /\ status \in Status /\ status' \in Status
  BY <1>t, LabelStep DEF TypeOK, StoredOK
<1>u. CASE UNCHANGED vars
  BY <1>u DEF vars, data, locals, OnceInv, Unanalyzed, AnalyzedOnce, Processing
<1>p. ASSUME NEW p \in Procs, Step(p) \/ Abort(p) \/ \E c \in Commands : Start(p, c)
      PROVE  OnceInv'
  <2>a. ASSUME ~UNCHANGED analyses
        PROVE  /\ status = "analyzing" /\ status' = "analyzing"
               /\ pc[p] = "an_agents" /\ pc'[p] = "an_agents"
               /\ \E c \in todo[p] : \E r \in Outcome :
                     /\ todo' = [todo EXCEPT ![p] = @ \ {c}]
                     /\ analyses' = [analyses EXCEPT ![c] = @ \cup {r}]
    <3>1. PICK q \in Procs :
             /\ AnalyzeClause(q)
             /\ \E c \in todo[q] : \E r \in Outcome :
                   /\ todo' = [todo EXCEPT ![q] = @ \ {c}]
                   /\ analyses' = [analyses EXCEPT ![c] = @ \cup {r}]
      BY <1>t, <2>a, AnalysesChange
    <3>2. p = q
      BY DEF OneProcess
    <3>3. pc[p] = "an_agents" /\ pc' = pc /\ status' = status
      BY <3>1, <3>2 DEF AnalyzeClause, At
    <3>4. status \in AtLabel["an_agents"]
      BY <3>3 DEF LabelInv
    <3> QED BY <3>1, <3>2, <3>3, <3>4 DEF AtLabel, Labels
  <2>1. status' \notin {"analyzing"} \cup PastAnalysis => Unanalyzed'
    <3>1. ASSUME status \in {"analyzing"} \cup PastAnalysis
          PROVE  status' \in {"analyzing"} \cup PastAnalysis
      BY <1>s, <3>1 DEF Forward, StatusOrder, PastAnalysis, PastSplit, PastExtract, Status
    <3> QED BY <2>a, <3>1 DEF OnceInv, Unanalyzed
  <2>2. requiresReview' /\ status' \in Gated => AnalyzedOnce'
    <3>1. SUFFICES ASSUME requiresReview', status' \in Gated PROVE AnalyzedOnce'
      OBVIOUS
    <3>2. UNCHANGED analyses
      BY <2>a, <3>1 DEF Gated, Reviewed
    <3>3. status' = status => requiresReview
      <4>1. ASSUME NEW c \in Commands, Start(p, c), status' = status PROVE UNCHANGED requiresReview
        BY <4>1 DEF Start, CreateContract, Invoke, data
      <4> QED BY <1>p, <3>1, <4>1, FlagKept
    <3>4. CASE status' = status
      BY <3>1, <3>2, <3>3, <3>4 DEF OnceInv, AnalyzedOnce
    <3>5. CASE PostSet(p)
      <4>1. Processing(p) /\ pc[p] = "post_set"
        BY <3>5 DEF PostSet, Processing, At
      <4> QED BY <3>2, <4>1 DEF OnceInv, AnalyzedOnce
    <3>6. CASE ResumeSet(p) \/ SummarizeMark(p) \/ SummarizeDone(p)
      <4>1. UNCHANGED requiresReview
        BY <3>6 DEF ResumeSet, SummarizeMark, SummarizeDone, UpdateContractStatus, data
      <4>2. pc[p] \in {"res_set", "sum_mark", "sum_done"}
        BY <3>6 DEF ResumeSet, SummarizeMark, SummarizeDone, At
      <4>3. status \in Gated
        BY <4>2 DEF LabelInv, AtLabel, Labels, Gated, Reviewed
      <4> QED BY <3>1, <3>2, <4>1, <4>3 DEF OnceInv, AnalyzedOnce
    <3> QED BY <1>p, <3>1, <3>4, <3>5, <3>6, EntersGate
  <2>c. ASSUME Processing(p)', pc'[p] \in {"an_filter", "an_agents", "post_check", "post_set"}
        PROVE  Processing(p)
    <3>1. ~(\E c \in Commands : Start(p, c))
      BY <1>t, <2>c, StartLabel
    <3>2. cmd'[p] = cmd[p] \/ cmd'[p] = "none"
      BY <1>p, <1>t, <3>1, CommandKept
    <3> QED BY <2>c, <3>2, NoProcess DEF Processing
  <2>3. ASSUME Processing(p)', pc'[p] = "an_filter" PROVE Unanalyzed'
    <3>1. AnalyzeMark(p) /\ Processing(p)
      BY <1>p, <1>t, <2>3, <2>c, ComesFrom
    <3>2. UNCHANGED analyses /\ pc[p] = "an_mark"
      BY <3>1 DEF AnalyzeMark, At, UpdateContractStatus, data
    <3>3. status = "clauses_extracted"
      BY <3>1, <3>2 DEF LabelInv
    <3> QED BY <3>2, <3>3 DEF OnceInv, Unanalyzed, PastAnalysis, PastSplit, PastExtract
  <2>4. ASSUME Processing(p)', pc'[p] = "an_agents"
        PROVE  AnalyzedOnce' /\ \A c \in todo'[p] : analyses'[c] = {}
    <3>1. Processing(p) /\ (FilterClauses(p) \/ AnalyzeClause(p))
      BY <1>p, <1>t, <2>4, <2>c, PassesAnalysis
    <3>2. CASE FilterClauses(p)
      <4>1. UNCHANGED analyses /\ pc[p] = "an_filter" /\ todo'[p] \subseteq Clause
        BY <1>t, <3>2 DEF FilterClauses, At, Read, data, TypeOK, ProcessesOK
      <4> QED BY <3>1, <4>1 DEF OnceInv, Unanalyzed, AnalyzedOnce, AtMostOne
    <3>3. CASE AnalyzeClause(p)
      <4>1. pc[p] = "an_agents" /\ todo'[p] \subseteq todo[p]
        BY <1>t, <3>3 DEF AnalyzeClause, At, TypeOK, ProcessesOK
      <4>2. CASE UNCHANGED analyses
        BY <3>1, <4>1, <4>2 DEF OnceInv, AnalyzedOnce
      <4>3. CASE ~UNCHANGED analyses
        <5>1. PICK c \in todo[p], r \in Outcome :
                 /\ todo' = [todo EXCEPT ![p] = @ \ {c}]
                 /\ analyses' = [analyses EXCEPT ![c] = @ \cup {r}]
          BY <2>a, <4>3
        <5>2. analyses[c] = {} /\ c \in Clause
          BY <1>t, <3>1, <4>1 DEF OnceInv, TypeOK, ProcessesOK
        <5>3. analyses'[c] = {r} /\ \A e \in Clause \ {c} : analyses'[e] = analyses[e]
          BY <1>t, <5>1, <5>2 DEF TypeOK, StoredOK
        <5>4. todo'[p] = todo[p] \ {c} /\ todo[p] \subseteq Clause
          BY <1>t, <5>1 DEF TypeOK, ProcessesOK
        <5> QED BY <3>1, <4>1, <5>2, <5>3, <5>4 DEF OnceInv, AnalyzedOnce, AtMostOne
      <4> QED BY <4>2, <4>3
    <3> QED BY <3>1, <3>2, <3>3
  <2>5. ASSUME Processing(p)', pc'[p] \in {"post_check", "post_set"} PROVE AnalyzedOnce'
    <3>1. CASE AnalyzeDone(p)
      <4>1. UNCHANGED analyses /\ pc[p] = "an_agents"
        BY <3>1 DEF AnalyzeDone, At, UpdateContractStatus, data
      <4> QED BY <2>5, <2>c, <4>1 DEF OnceInv, AnalyzedOnce
    <3>2. CASE AnalyzeCheck(p) /\ pc'[p] = "post_check"
      <4>1. status = "analyzed" /\ pc[p] = "an_check"
        BY <1>t, <3>2 DEF AnalyzeCheck, At, After, Goto, Exit, Leave, TypeOK, ProcessesOK
      <4> QED BY <2>5, <2>c, <4>1 DEF LabelInv
    <3>3. CASE PostCheck(p)
      <4>1. UNCHANGED analyses /\ pc[p] = "post_check"
        BY <3>3 DEF PostCheck, At, Read, data
      <4> QED BY <2>5, <2>c, <4>1 DEF OnceInv, AnalyzedOnce
    <3> QED BY <1>p, <1>t, <2>5, <3>1, <3>2, <3>3, ComesFrom
  <2> QED BY <2>1, <2>2, <2>3, <2>4, <2>5 DEF OnceInv, OneProcess
<1> QED BY <1>u, <1>p DEF Next

-----------------------------------------------------------------------------
(* What was shown to the reviewer is what the analysis found *)

\* The findings a process has read are those of the rows.
Seen(entries) == \A c \in clauses : entries[c].finding \in Shown(c)

SeenInv ==
    /\ \A c \in Clause : reviews[c] # {} => status \in Gated
    /\ \A c \in Clause : \A r \in reviews[c] : r.finding \in Shown(c)
    /\ \A p \in Procs : pc[p] \in {"rev_reviews", "rev_loop", "sum_decisions"} => Seen(view[p])

\* A read takes one of the findings of each clause.
LEMMA ReadsShown ==
  ASSUME TypeOK, NEW p \in Procs, NEW l \in Labels, ReadFindings(p, l)
  PROVE  Seen(view[p])' /\ UNCHANGED <<status, clauses, analyses, reviews>>
<1>1. PICK f \in [clauses -> Finding] :
         /\ \A c \in clauses : f[c] \in Shown(c)
         /\ view' = [view EXCEPT ![p] =
              [c \in Clause |-> IF c \in clauses
                                THEN [finding |-> f[c], decision |-> "none"]
                                ELSE NoEntry]]
  BY DEF ReadFindings
<1>2. UNCHANGED <<status, clauses, analyses, reviews>>
  BY DEF ReadFindings, Read, data
<1>3. \A c \in clauses : view'[p][c].finding = f[c]
  BY <1>1 DEF TypeOK, StoredOK, ProcessesOK
<1> QED BY <1>1, <1>2, <1>3 DEF Seen, Shown

\* Only a reviewer who decides on a clause adds a review.
LEMMA ReviewsChange ==
  ASSUME TypeOK, ProcessInv, [Next]_vars
  PROVE  UNCHANGED reviews \/ \E p \in Procs : SaveReview(p)
<1>1. ASSUME NEW p \in Procs, Stores(p), ~SaveReview(p) PROVE UNCHANGED reviews
  BY <1>1 DEF Stores, UpdateContractText, SaveClauses, AnalyzeClause, SaveSummary, WriteReport,
     Read, data
<1>2. ASSUME NEW p \in Procs, NEW c \in Commands, CreateContract(p, c) PROVE UNCHANGED reviews
  BY <1>2 DEF CreateContract
<1> QED BY <1>1, <1>2, StepStores DEF StatusOnly, data

\* A contract under review stays what the reviewer was shown.
LEMMA SeenStep ==
  ASSUME OneProcess, IInv, WorkflowInv, LabelInv, SeenInv, [Next]_vars PROVE SeenInv'
<1>t. TypeOK /\ TypeOK' /\ ProcessInv
  BY TypeStep DEF IInv
<1>s. LabelInv' /\ Forward /\ status \in Status /\ status' \in Status
  BY <1>t, LabelStep DEF TypeOK, StoredOK
<1>f. status \in Gated => status' \in Gated
  BY <1>s DEF Forward, StatusOrder, Gated, Reviewed, Status
<1>u. CASE UNCHANGED vars
  BY <1>u DEF vars, data, locals, SeenInv, Seen, Shown
<1>p. ASSUME NEW p \in Procs, Step(p) \/ Abort(p) \/ \E c \in Commands : Start(p, c)
      PROVE  SeenInv'
  <2>a. status # "analyzing" => UNCHANGED analyses
    <3>1. ASSUME NEW q \in Procs, AnalyzeClause(q) PROVE status = "analyzing"
      <4>1. pc[q] = "an_agents"
        BY <3>1 DEF AnalyzeClause, At
      <4> QED BY <4>1 DEF LabelInv, AtLabel, Labels
    <3> QED BY <1>t, <3>1, AnalysesChange
  <2>g. status \in Gated => status # "analyzing"
    BY DEF Gated, Reviewed
  <2>1. CASE SaveReview(p)
    <3>1. PICK c \in todo[p], d \in Decision :
             reviews' = [reviews EXCEPT ![c] =
                @ \cup {[decision |-> d, finding |-> view[p][c].finding]}]
      BY <2>1 DEF SaveReview
    <3>2. /\ UNCHANGED <<status, clauses, analyses, view>> /\ pc[p] = "rev_loop"
          /\ pc' = pc
      BY <2>1 DEF SaveReview, At
    <3>3. status \in Gated
      BY <3>2 DEF LabelInv, AtLabel, Labels, Gated
    <3>4. c \in clauses /\ c \in Clause /\ view[p][c].finding \in Shown(c)
      BY <1>t, <3>2 DEF WorkflowInv, HeldInv, SeenInv, Seen, TypeOK, StoredOK
    <3>5. ASSUME NEW e \in Clause, NEW r \in reviews'[e] PROVE r.finding \in Shown(e)'
      <4>1. CASE r \in reviews[e]
        BY <3>2, <4>1 DEF SeenInv, Shown
      <4>2. CASE r \notin reviews[e]
        <5>1. e = c /\ r = [decision |-> d, finding |-> view[p][c].finding]
          BY <1>t, <3>1, <3>4, <4>2 DEF TypeOK, StoredOK
        <5> QED BY <3>2, <3>4, <5>1 DEF Shown
      <4> QED BY <4>1, <4>2
    <3>6. Seen(view[p])'
      BY <3>2 DEF SeenInv, Seen, Shown
    <3> QED BY <3>2, <3>3, <3>5, <3>6 DEF SeenInv, OneProcess
  <2>2. CASE ~SaveReview(p)
    <3>1. UNCHANGED reviews
      BY <1>t, <2>2, ReviewsChange DEF OneProcess
    <3>2. \A c \in Clause : reviews'[c] # {} => status' \in Gated
      BY <1>f, <3>1 DEF SeenInv
    <3>3. ASSUME NEW c \in Clause, NEW r \in reviews'[c] PROVE r.finding \in Shown(c)'
      <4>1. UNCHANGED analyses
        BY <2>a, <2>g, <3>1 DEF SeenInv
      <4> QED BY <3>1, <4>1 DEF SeenInv, Shown
    <3>4. CASE ReviewFindings(p) \/ SummarizeFindings(p)
      <4>1. \E l \in Labels : ReadFindings(p, l)
        BY <3>4 DEF ReviewFindings, SummarizeFindings, Labels
      <4>2. Seen(view[p])'
        BY <1>t, <4>1, ReadsShown
      <4> QED BY <3>2, <3>3, <4>2 DEF SeenInv, OneProcess
    <3>5. CASE ReviewReviews(p)
      <4>1. UNCHANGED <<analyses, clauses, view>> /\ pc[p] = "rev_reviews"
        BY <3>5 DEF ReviewReviews, At, Read, data
      <4>2. Seen(view[p])'
        BY <4>1 DEF SeenInv, Seen, Shown
      <4> QED BY <3>2, <3>3, <4>2 DEF SeenInv, OneProcess
    <3>6. CASE ~(ReviewFindings(p) \/ SummarizeFindings(p) \/ ReviewReviews(p))
      <4>1. pc'[p] \notin {"rev_reviews", "rev_loop", "sum_decisions"}
        BY <1>p, <1>t, <2>2, <3>6, ComesFrom, Arrives
      <4> QED BY <3>2, <3>3, <4>1 DEF SeenInv, OneProcess
    <3> QED BY <3>4, <3>5, <3>6
  <2> QED BY <2>1, <2>2
<1> QED BY <1>u, <1>p DEF Next

-----------------------------------------------------------------------------
(* The report says what the reviewer saw and decided *)

\* A report says of a clause what one of its reviews says.
Matches(entries) == \A c \in clauses :
    entries[c].decision # "none"
       => [decision |-> entries[c].decision, finding |-> entries[c].finding] \in reviews[c]

\* The stored report, the one in the making, and the file.
MatchInv ==
    /\ clauses = {} => \A c \in Clause : summary[c] = NoEntry
    /\ Matches(summary)
    /\ status = "done" => report = summary
    /\ \A p \in Procs :
          /\ pc[p] \in {"sum_save", "sum_file", "sum_done"} => Matches(view[p])
          /\ pc[p] \in {"sum_file", "sum_done"} => summary = view[p]
          /\ pc[p] = "sum_done" => report = view[p]

SerialInv == IInv /\ WorkflowInv /\ LabelInv /\ OnceInv /\ SeenInv /\ MatchInv

\* Rows with one result show one finding.
LEMMA OneShown ==
  ASSUME NEW c \in Clause, AtMostOne(analyses[c]) PROVE AtMostOne(Shown(c))
  BY DEF AtMostOne, Shown

\* The decisions read match the findings read before them.
LEMMA DecisionsMatch ==
  ASSUME SerialInv, NEW p \in Procs, SummarizeDecisions(p) PROVE Matches(view[p])'
<1>t. TypeOK
  BY DEF SerialInv, IInv
<1>1. PICK d \in [clauses -> Decision \cup {"none"}] :
         /\ \A c \in clauses : IF reviews[c] = {} THEN d[c] = "none"
                               ELSE \E r \in reviews[c] : d[c] = r.decision
         /\ view' = [view EXCEPT ![p] =
              [c \in Clause |-> IF c \in clauses
                                THEN [view[p][c] EXCEPT !.decision = d[c]]
                                ELSE view[p][c]]]
  BY DEF SummarizeDecisions
<1>2. UNCHANGED <<clauses, reviews>> /\ pc[p] = "sum_decisions"
  BY DEF SummarizeDecisions, At, Read, data
<1>3. status \in Gated
  BY <1>2 DEF SerialInv, LabelInv, AtLabel, Labels, Gated, Reviewed
<1>4. ASSUME NEW c \in clauses, view'[p][c].decision # "none"
      PROVE  [decision |-> view'[p][c].decision, finding |-> view'[p][c].finding] \in reviews[c]
  <2>1. c \in Clause /\ view[p][c] \in Entry
    BY <1>t DEF TypeOK, StoredOK, ProcessesOK
  <2>2. view'[p][c].decision = d[c] /\ view'[p][c].finding = view[p][c].finding
    BY <1>t, <1>1, <2>1 DEF TypeOK, ProcessesOK, Entry
  <2>3. PICK r \in reviews[c] : d[c] = r.decision
    BY <1>1, <1>4, <2>2
  <2>4. r \in Review
    BY <1>t, <2>1 DEF TypeOK, StoredOK
  <2>5. requiresReview
    BY <2>1, <2>3 DEF SerialInv, WorkflowInv, Ungated
  <2>6. AtMostOne(Shown(c))
    BY <1>3, <2>1, <2>5, OneShown DEF SerialInv, OnceInv, AnalyzedOnce
  <2>7. r.finding \in Shown(c) /\ view[p][c].finding \in Shown(c)
    BY <1>2, <2>1 DEF SerialInv, SeenInv, Seen
  <2>8. r.finding = view[p][c].finding
    BY <2>6, <2>7 DEF AtMostOne
  <2> QED BY <2>2, <2>3, <2>4, <2>8 DEF Review
<1> QED BY <1>2, <1>4 DEF Matches

\* What matches goes on matching.
LEMMA MatchKept ==
  ASSUME IInv, [Next]_vars, NEW v, Matches(v), clauses # {}
  PROVE  \A c \in clauses' :
            v[c].decision # "none"
               => [decision |-> v[c].decision, finding |-> v[c].finding] \in reviews'[c]
<1>1. clauses' = clauses /\ \A c \in Clause : reviews[c] \subseteq reviews'[c]
  BY GrowStep DEF Grows, IInv
<1>2. clauses \subseteq Clause
  BY DEF IInv, TypeOK, StoredOK
<1> QED BY <1>1, <1>2 DEF Matches

\* The stored report is replaced by a finished one only, and so is the file.
LEMMA MatchStep ==
  ASSUME OneProcess, SerialInv, [Next]_vars PROVE MatchInv'
<1>t. TypeOK /\ TypeOK' /\ ProcessInv
  BY TypeStep DEF SerialInv, IInv
<1>g. (clauses # {} => clauses' = clauses) /\ clauses \subseteq Clause
  BY <1>t, GrowStep DEF Grows, TypeOK, StoredOK
<1>l. \A q \in Procs : pc[q] \in {"sum_save", "sum_file", "sum_done"} => clauses # {}
  BY DEF SerialInv, IInv, StageInv, ClausesStored, TextStored, StatusUnread, Labels
<1>k. ASSUME NEW v, Matches(v), clauses # {}
      PROVE  \A c \in clauses' :
                v[c].decision # "none"
                   => [decision |-> v[c].decision, finding |-> v[c].finding] \in reviews'[c]
  BY <1>k, MatchKept DEF SerialInv
<1>u. CASE UNCHANGED vars
  BY <1>u DEF vars, data, locals, SerialInv, MatchInv, Matches
<1>p. ASSUME NEW p \in Procs, Step(p) \/ Abort(p) \/ \E c \in Commands : Start(p, c)
      PROVE  MatchInv'
  <2>a. SaveSummary(p) \/ UNCHANGED summary
    <3>1. ASSUME NEW q \in Procs, Stores(q), ~SaveSummary(q) PROVE UNCHANGED summary
      BY <3>1 DEF Stores, UpdateContractText, SaveClauses, AnalyzeClause, SaveReview, WriteReport,
         Read, data
    <3>2. ASSUME NEW q \in Procs, NEW c \in Commands, CreateContract(q, c) PROVE UNCHANGED summary
      BY <3>2 DEF CreateContract
    <3> QED BY <1>t, <3>1, <3>2, StepStores DEF StatusOnly, data, OneProcess
  <2>b. WriteReport(p) \/ UNCHANGED report
    <3>1. ASSUME NEW q \in Procs, Stores(q), ~WriteReport(q) PROVE UNCHANGED report
      BY <3>1 DEF Stores, UpdateContractText, SaveClauses, AnalyzeClause, SaveReview, SaveSummary,
         Read, data
    <3>2. ASSUME NEW q \in Procs, NEW c \in Commands, CreateContract(q, c) PROVE UNCHANGED report
      BY <3>2 DEF CreateContract
    <3> QED BY <1>t, <3>1, <3>2, StepStores DEF StatusOnly, data, OneProcess
  <2>s. ASSUME SaveSummary(p)
        PROVE  /\ pc[p] = "sum_save" /\ pc'[p] = "sum_file" /\ status' = "summarizing"
               /\ summary' = view[p] /\ view' = view /\ UNCHANGED <<clauses, reviews>>
    <3>1. pc[p] = "sum_save" /\ status' = status
      BY <2>s DEF SaveSummary, At
    <3>2. status = "summarizing"
      BY <3>1 DEF SerialInv, LabelInv, AtLabel, Labels
    <3> QED BY <1>t, <2>s, <3>1, <3>2 DEF SaveSummary, Goto, locals, TypeOK, ProcessesOK
  <2>w. ASSUME WriteReport(p)
        PROVE  /\ pc[p] = "sum_file" /\ pc'[p] = "sum_done" /\ status' = "summarizing"
               /\ report' = view[p] /\ view' = view /\ UNCHANGED <<clauses, reviews, summary>>
    <3>1. pc[p] = "sum_file" /\ status' = status
      BY <2>w DEF WriteReport, At
    <3>2. status = "summarizing"
      BY <3>1 DEF SerialInv, LabelInv, AtLabel, Labels
    <3> QED BY <1>t, <2>w, <3>1, <3>2 DEF WriteReport, Goto, locals, TypeOK, ProcessesOK
  <2>1. clauses' = {} => \A c \in Clause : summary'[c] = NoEntry
    BY <1>g, <1>l, <2>a, <2>s DEF SerialInv, MatchInv
  <2>2. Matches(summary)'
    <3>1. CASE SaveSummary(p)
      BY <2>s, <3>1 DEF SerialInv, MatchInv, Matches
    <3>2. CASE UNCHANGED summary /\ clauses # {}
      BY <1>k, <3>2 DEF SerialInv, MatchInv, Matches
    <3>3. CASE UNCHANGED summary /\ clauses = {}
      <4>1. \A c \in clauses' : summary'[c].decision = "none"
        BY <1>t, <3>3 DEF SerialInv, MatchInv, NoEntry, TypeOK, StoredOK
      <4> QED BY <4>1 DEF Matches
    <3> QED BY <2>a, <3>1, <3>2, <3>3
  <2>3. status' = "done" => report' = summary'
    <3>1. SUFFICES ASSUME status' = "done" PROVE report' = summary'
      OBVIOUS
    <3>2. UNCHANGED <<summary, report>>
      BY <2>a, <2>b, <2>s, <2>w, <3>1
    <3>3. CASE status = "done"
      BY <3>2, <3>3 DEF SerialInv, MatchInv
    <3>4. CASE SummarizeDone(p)
      BY <3>2, <3>4 DEF SerialInv, MatchInv, SummarizeDone, At
    <3>5. ASSUME PostSet(p) \/ ResumeSet(p) \/ SummarizeMark(p) PROVE FALSE
      BY <3>1, <3>5 DEF PostSet, ResumeSet, SummarizeMark, UpdateContractStatus
    <3> QED BY <1>p, <3>1, <3>3, <3>4, <3>5, EntersGate DEF Gated, Reviewed
  <2>4. pc'[p] = "sum_save" => Matches(view[p])'
    BY <1>p, <1>t, Arrives, DecisionsMatch DEF SerialInv
  <2>5. pc'[p] = "sum_file" => Matches(view[p])' /\ summary' = view'[p]
    BY <1>p, <1>t, <2>s, ComesFrom DEF SerialInv, MatchInv, Matches
  <2>6. pc'[p] = "sum_done" => Matches(view[p])' /\ summary' = view'[p] /\ report' = view'[p]
    BY <1>p, <1>t, <2>w, ComesFrom DEF SerialInv, MatchInv, Matches
  <2> QED BY <2>1, <2>2, <2>3, <2>4, <2>5, <2>6 DEF MatchInv, OneProcess
<1> QED BY <1>u, <1>p DEF Next

\* All of it holds at the start and across every step of the one process.
LEMMA SerialInduction ==
  ASSUME OneProcess
  PROVE  /\ Init => SerialInv
         /\ SerialInv /\ [Next]_vars => SerialInv'
<1>1. Init => LabelInv /\ OnceInv /\ SeenInv /\ MatchInv
  <2>1. SUFFICES ASSUME Init PROVE LabelInv /\ OnceInv /\ SeenInv /\ MatchInv
    OBVIOUS
  <2>2. status = "none" /\ \A p \in Procs : pc[p] = "idle" /\ cmd[p] = "none"
    BY <2>1 DEF Init
  <2>3. LabelInv
    BY <2>2 DEF LabelInv, AtLabel, Labels, Status, Processing
  <2>4. OnceInv
    BY <2>1, <2>2 DEF Init, OnceInv, Unanalyzed, Gated, Reviewed, Processing
  <2>5. SeenInv
    BY <2>1, <2>2 DEF Init, SeenInv
  <2>6. MatchInv
    BY <2>1, <2>2 DEF Init, MatchInv, Matches, Blank
  <2> QED BY <2>3, <2>4, <2>5, <2>6
<1>2. Init => IInv /\ WorkflowInv
  BY WorkflowInduction
<1>3. SerialInv /\ [Next]_vars => SerialInv'
  <2>1. SUFFICES ASSUME SerialInv, [Next]_vars PROVE SerialInv'
    OBVIOUS
  <2>2. (IInv /\ WorkflowInv)'
    BY <2>1, WorkflowInduction DEF SerialInv
  <2>3. LabelInv' /\ OnceInv' /\ SeenInv' /\ MatchInv'
    BY <2>1, LabelStep, OnceStep, SeenStep, MatchStep DEF SerialInv, IInv
  <2> QED BY <2>2, <2>3 DEF SerialInv
<1> QED BY <1>1, <1>2, <1>3 DEF SerialInv

\* As long as commands run one at a time, the report says of a clause what the
\* reviewer saw and decided, and the file of a finished contract is the stored
\* report, however often commands are cut short.
THEOREM ReportTellsReview == ASSUME OneProcess PROVE Spec => []ReportMatchesReview
<1>1. Init => SerialInv
  BY SerialInduction
<1>2. SerialInv /\ [Next]_vars => SerialInv'
  BY SerialInduction
<1>3. SerialInv => ReportMatchesReview
  BY DEF SerialInv, MatchInv, Matches, ReportMatchesReview
<1> QED BY <1>1, <1>2, <1>3, PTL DEF Spec
=============================================================================
