--------------------------- MODULE WorkflowProofs ---------------------------
(***************************************************************************)
(* Pipeline implements ReviewWorkflow, and a contract that counts as        *)
(* analyzed has a row for every clause: for any number of processes.        *)
(***************************************************************************)
EXTENDS PipelineProofs

-----------------------------------------------------------------------------
(* The steps that change what the tables and the report file hold *)

\* A step that changes the status at most, and not that of a contract that
\* does not exist.
StatusOnly == UNCHANGED data /\ (status = "none" <=> status' = "none")

\* The steps of a process that store something besides the status.
Stores(p) == \/ UpdateContractText(p) \/ SaveClauses(p) \/ AnalyzeClause(p)
             \/ SaveReview(p) \/ SaveSummary(p) \/ WriteReport(p)

\* Every other step but the creation of the contract moves the status at most.
LEMMA StepStores ==
  ASSUME TypeOK, ProcessInv, [Next]_vars
  PROVE  \/ StatusOnly
         \/ \E p \in Procs : Stores(p) \/ \E c \in Commands : CreateContract(p, c)
<1> USE DEF StatusOnly, Read, UpdateContractStatus, At
<1>1. CASE UNCHANGED vars
  BY <1>1 DEF vars
<1>2. ASSUME NEW p \in Procs, NEW c \in Commands, Start(p, c), ~CreateContract(p, c)
      PROVE  StatusOnly
  BY <1>2 DEF Start, Invoke
<1>3. ASSUME NEW p \in Procs, Abort(p) PROVE StatusOnly
  BY <1>3 DEF Abort
<1>4. ASSUME NEW p \in Procs, Step(p), ~Stores(p) PROVE StatusOnly
  <2>1. ~Free(p) => status # "none"
    BY DEF ProcessInv
  <2>2. CASE Extract(p) \/ Split(p)
    BY <1>4, <2>1, <2>2 DEF Stores, Free, Extract, ExtractMark, ExtractDone,
       Split, SplitCheck, SplitMark, SplitDone
  <2>3. CASE Analyze(p) \/ PostAnalysis(p)
    BY <1>4, <2>1, <2>3 DEF Stores, Free, Analyze, AnalyzeCheck, AnalyzeMark, FilterClauses,
       AnalyzeDone, PostAnalysis, PostCheck, PostSet
  <2>4. CASE ReviewClauses(p) \/ Resume(p)
    BY <1>4, <2>1, <2>4 DEF Stores, Free, ReviewClauses, ReviewCheck, ReviewFindings,
       ReadFindings, ReviewReviews, ReviewDone, Resume, ResumeCheck, ResumeReviews, ResumeSet
  <2>5. CASE Summarize(p)
    BY <1>4, <2>1, <2>5 DEF Stores, Free, Summarize, SummarizeCheck, SummarizeMark,
       SummarizeFindings, ReadFindings, SummarizeDecisions, SummarizeDone
  <2> QED BY <1>4, <2>2, <2>3, <2>4, <2>5 DEF Step
<1> QED BY <1>1, <1>2, <1>3, <1>4 DEF Next

-----------------------------------------------------------------------------
(* What the refinement rests on, beyond IInv *)

\* A contract that does not exist has no rows.
Untouched ==
    status = "none" =>
        /\ ~requiresReview
        /\ clauses = {}
        /\ \A c \in Clause : reviews[c] = {} /\ summary[c] = NoEntry

\* A contract without a review gate is never under review.
Ungated ==
    ~requiresReview =>
        /\ status # "review_pending"
        /\ \A c \in Clause : reviews[c] = {}
        /\ \A p \in Procs : pc[p] \notin {"rev_findings", "rev_reviews", "rev_loop"}

\* A decision that a report may show for a clause.
Source(c, d) == IF requiresReview THEN \E r \in reviews[c] : d = r.decision ELSE d = "none"

\* What a process holds: clauses of the contract to decide on, and decisions
\* that were taken on them.
HeldInv == \A p \in Procs :
    /\ pc[p] = "rev_loop" => todo[p] \subseteq clauses
    /\ pc[p] = "sum_save" => \A c \in clauses : Source(c, view[p][c].decision)

WorkflowInv == Untouched /\ Ungated /\ HeldInv

\* A process keeps its command until it ends.
LEMMA CommandKept ==
  ASSUME TypeOK, NEW p \in Procs, Step(p) \/ Abort(p)
  PROVE  \A q \in Procs : cmd'[q] = cmd[q] \/ cmd'[q] = "none"
<1> USE DEF TypeOK, ProcessesOK, Goto, After, Exit, Leave, ReadFindings, locals
<1>1. CASE Abort(p)
  BY <1>1 DEF Abort
<1>2. CASE Extract(p) \/ Split(p)
  BY <1>2 DEF Extract, ExtractMark, UpdateContractText, ExtractDone,
     Split, SplitCheck, SplitMark, SaveClauses, SplitDone
<1>3. CASE Analyze(p) \/ PostAnalysis(p)
  BY <1>3 DEF Analyze, AnalyzeCheck, AnalyzeMark, FilterClauses, AnalyzeClause,
     AnalyzeDone, PostAnalysis, PostCheck, PostSet
<1>4. CASE ReviewClauses(p) \/ Resume(p)
  BY <1>4 DEF ReviewClauses, ReviewCheck, ReviewFindings, ReviewReviews, SaveReview,
     ReviewDone, Resume, ResumeCheck, ResumeReviews, ResumeSet
<1>5. CASE Summarize(p)
  BY <1>5 DEF Summarize, SummarizeCheck, SummarizeMark, SummarizeFindings,
     SummarizeDecisions, SaveSummary, WriteReport, SummarizeDone
<1> QED BY <1>1, <1>2, <1>3, <1>4, <1>5 DEF Step

\* No step of a command that runs changes the flag.
LEMMA FlagKept ==
  ASSUME NEW p \in Procs, Step(p) \/ Abort(p) PROVE requiresReview' = requiresReview
<1> USE DEF Read, UpdateContractStatus, data
<1>1. CASE Abort(p)
  BY <1>1 DEF Abort
<1>2. CASE Extract(p) \/ Split(p)
  BY <1>2 DEF Extract, ExtractMark, UpdateContractText, ExtractDone,
     Split, SplitCheck, SplitMark, SaveClauses, SplitDone
<1>3. CASE Analyze(p) \/ PostAnalysis(p)
  BY <1>3 DEF Analyze, AnalyzeCheck, AnalyzeMark, FilterClauses, AnalyzeClause,
     AnalyzeDone, PostAnalysis, PostCheck, PostSet
<1>4. CASE ReviewClauses(p) \/ Resume(p)
  BY <1>4 DEF ReviewClauses, ReviewCheck, ReviewFindings, ReadFindings, ReviewReviews, SaveReview,
     ReviewDone, Resume, ResumeCheck, ResumeReviews, ResumeSet
<1>5. CASE Summarize(p)
  BY <1>5 DEF Summarize, SummarizeCheck, SummarizeMark, SummarizeFindings, ReadFindings,
     SummarizeDecisions, SaveSummary, WriteReport, SummarizeDone
<1> QED BY <1>1, <1>2, <1>3, <1>4, <1>5 DEF Step

\* The first store is that of the contract's row.
LEMMA UntouchedStep == ASSUME TypeOK, ProcessInv, Untouched, [Next]_vars PROVE Untouched'
<1> USE DEF Untouched
<1>1. CASE StatusOnly
  BY <1>1 DEF StatusOnly, data
<1>2. ASSUME NEW p \in Procs, Stores(p) PROVE status' # "none"
  BY <1>2 DEF ProcessInv, Free, At, Read, Stores, UpdateContractText, SaveClauses, AnalyzeClause,
     SaveReview, SaveSummary, WriteReport
<1>3. ASSUME NEW p \in Procs, NEW c \in Commands, CreateContract(p, c) PROVE status' # "none"
  BY <1>3 DEF CreateContract
<1> QED BY <1>1, <1>2, <1>3, StepStores

\* Only a process that parsed the flag opens the review, and only then is one
\* stored.
LEMMA UngatedStep ==
  ASSUME TypeOK, ProcessInv, Untouched, Ungated, [Next]_vars PROVE Ungated'
<1> USE DEF Ungated
<1>u. CASE UNCHANGED vars
  BY <1>u DEF vars, data
<1>c. ASSUME NEW p \in Procs, NEW c \in Commands, CreateContract(p, c) PROVE Ungated'
  BY <1>c DEF CreateContract, Untouched, TypeOK, ProcessesOK, ProcessInv, Free
<1>i. ASSUME NEW p \in Procs, NEW c \in Commands, Invoke(p, c) PROVE Ungated'
  <2>1. FirstLabel(c) \notin {"rev_findings", "rev_reviews", "rev_loop"}
    BY <1>i, FirstLabels DEF Invoke
  <2> QED BY <1>i, <2>1 DEF Invoke, TypeOK, ProcessesOK, data
<1>s. ASSUME NEW p \in Procs, Step(p) \/ Abort(p), ~requiresReview PROVE Ungated'
  <2>1. ~requiresReview'
    BY <1>s, FlagKept
  <2> USE DEF TypeOK, StoredOK, ProcessesOK, Goto, After, Exit, Leave, At, Free, Read,
              UpdateContractStatus, data
  <2>2. CASE Abort(p)
    BY <2>2, <1>s DEF Abort
  <2>3. CASE Extract(p) \/ Split(p)
    BY <2>3, <1>s DEF Extract, ExtractMark, UpdateContractText, ExtractDone,
       Split, SplitCheck, SplitMark, SaveClauses, SplitDone
  <2>4. CASE Analyze(p) \/ PostCheck(p)
    BY <2>4, <1>s DEF Analyze, AnalyzeCheck, AnalyzeMark, FilterClauses, AnalyzeClause,
       AnalyzeDone, PostCheck
  <2>5. CASE PostSet(p)
    <3>1. ~ReviewFlag(cmd[p])
      BY <2>5, <1>s DEF PostSet, ProcessInv
    <3> QED BY <2>5, <1>s, <3>1 DEF PostSet
  <2>6. CASE ReviewClauses(p) \/ Resume(p)
    BY <2>6, <1>s DEF ReviewClauses, ReviewCheck, ReviewFindings, ReadFindings, ReviewReviews,
       SaveReview, ReviewDone, Resume, ResumeCheck, ResumeReviews, ResumeSet
  <2>7. CASE Summarize(p)
    BY <2>7, <1>s DEF Summarize, SummarizeCheck, SummarizeMark, SummarizeFindings, ReadFindings,
       SummarizeDecisions, SaveSummary, WriteReport, SummarizeDone
  <2> QED BY <1>s, <2>2, <2>3, <2>4, <2>5, <2>6, <2>7 DEF Step, PostAnalysis
<1>f. ASSUME NEW p \in Procs, Step(p) \/ Abort(p), requiresReview PROVE Ungated'
  BY <1>f, FlagKept
<1> QED BY <1>u, <1>c, <1>i, <1>s, <1>f DEF Next, Start

\* A process changes the program counter and the memory of no other.
LEMMA OthersAlone ==
  ASSUME TypeOK, NEW p \in Procs,
         Step(p) \/ Abort(p) \/ \E c \in Commands : Start(p, c)
  PROVE  \A q \in Procs \ {p} : UNCHANGED <<pc[q], todo[q], view[q]>>
<1> USE DEF TypeOK, ProcessesOK, Goto, After, Exit, Leave, ReadFindings, locals
<1>1. CASE Abort(p) \/ \E c \in Commands : Start(p, c)
  BY <1>1 DEF Abort, Start, CreateContract, Invoke
<1>2. CASE Extract(p) \/ Split(p)
  BY <1>2 DEF Extract, ExtractMark, UpdateContractText, ExtractDone,
     Split, SplitCheck, SplitMark, SaveClauses, SplitDone
<1>3. CASE Analyze(p) \/ PostAnalysis(p)
  BY <1>3 DEF Analyze, AnalyzeCheck, AnalyzeMark, FilterClauses, AnalyzeClause,
     AnalyzeDone, PostAnalysis, PostCheck, PostSet
<1>4. CASE ReviewClauses(p) \/ Resume(p)
  BY <1>4 DEF ReviewClauses, ReviewCheck, ReviewFindings, ReviewReviews, SaveReview,
     ReviewDone, Resume, ResumeCheck, ResumeReviews, ResumeSet
<1>5. CASE Summarize(p)
  BY <1>5 DEF Summarize, SummarizeCheck, SummarizeMark, SummarizeFindings,
     SummarizeDecisions, SaveSummary, WriteReport, SummarizeDone
<1> QED BY <1>1, <1>2, <1>3, <1>4, <1>5 DEF Step

\* How a process comes to the loop of the review and to the report it stores.
LEMMA Arrives ==
  ASSUME TypeOK, NEW p \in Procs,
         Step(p) \/ Abort(p) \/ \E c \in Commands : Start(p, c)
  PROVE  /\ pc'[p] = "rev_loop" => ReviewReviews(p) \/ SaveReview(p)
         /\ pc'[p] = "sum_save" => SummarizeDecisions(p)
<1> USE DEF TypeOK, ProcessesOK, At, Goto, After, Exit, Leave, ReadFindings, locals
<1>1. CASE Abort(p) \/ \E c \in Commands : CreateContract(p, c)
  BY <1>1 DEF Abort, CreateContract
<1>2. ASSUME NEW c \in Commands, Invoke(p, c) PROVE pc'[p] \notin {"rev_loop", "sum_save"}
  BY <1>2, FirstLabels DEF Invoke
<1>3. CASE Extract(p) \/ Split(p)
  BY <1>3 DEF Extract, ExtractMark, UpdateContractText, ExtractDone,
     Split, SplitCheck, SplitMark, SaveClauses, SplitDone
<1>4. CASE Analyze(p) \/ PostAnalysis(p)
  BY <1>4 DEF Analyze, AnalyzeCheck, AnalyzeMark, FilterClauses, AnalyzeClause,
     AnalyzeDone, PostAnalysis, PostCheck, PostSet
<1>5. CASE ReviewClauses(p) \/ Resume(p)
  BY <1>5 DEF ReviewClauses, ReviewCheck, ReviewFindings, ReviewReviews, SaveReview,
     ReviewDone, Resume, ResumeCheck, ResumeReviews, ResumeSet
<1>6. CASE Summarize(p)
  <2>1. CASE SummarizeFindings(p) \/ SaveSummary(p) \/ WriteReport(p)
    BY <2>1 DEF SummarizeFindings, SaveSummary, WriteReport
  <2>2. CASE SummarizeCheck(p)
    BY <2>2 DEF SummarizeCheck
  <2>3. CASE SummarizeMark(p) \/ SummarizeDone(p)
    BY <2>3 DEF SummarizeMark, SummarizeDone
  <2>4. ASSUME SummarizeDecisions(p) PROVE pc'[p] = "sum_save"
    BY <2>4 DEF SummarizeDecisions
  <2> QED BY <1>6, <2>1, <2>2, <2>3, <2>4 DEF Summarize
<1> QED BY <1>1, <1>2, <1>3, <1>4, <1>5, <1>6 DEF Step, Start

\* A decision that was taken on a clause stays one.
LEMMA SourceKept ==
  ASSUME IInv, [Next]_vars, UNCHANGED requiresReview,
         NEW q \in Procs, UNCHANGED <<pc[q], view[q]>>, pc[q] = "sum_save",
         \A c \in clauses : Source(c, view[q][c].decision)
  PROVE  \A c \in clauses' : Source(c, view[q][c].decision)'
<1>1. (clauses # {} => clauses' = clauses) /\ (\A c \in Clause : reviews[c] \subseteq reviews'[c])
  BY GrowStep DEF Grows, IInv
<1>2. clauses' = clauses /\ clauses \subseteq Clause
  BY <1>1 DEF IInv, TypeOK, StoredOK, StageInv, ClausesStored, TextStored, StatusUnread, Labels
<1>3. ASSUME NEW c \in clauses PROVE Source(c, view[q][c].decision)'
  <2>1. c \in Clause /\ view'[q][c] = view[q][c]
    BY <1>2
  <2>2. CASE requiresReview
    <3>1. PICK r \in reviews[c] : view[q][c].decision = r.decision
      BY <2>2 DEF Source
    <3>2. r \in reviews'[c]
      BY <1>1, <2>1, <3>1
    <3> QED BY <2>1, <2>2, <3>1, <3>2 DEF Source
  <2>3. CASE ~requiresReview
    BY <2>1, <2>3 DEF Source
  <2> QED BY <2>2, <2>3
<1> QED BY <1>2, <1>3

\* What a process holds stays what the contract has.
LEMMA HeldStep ==
  ASSUME IInv, Ungated, HeldInv, [Next]_vars PROVE HeldInv'
<1>t. TypeOK /\ TypeOK'
  BY TypeStep DEF IInv
<1>k. clauses # {} => clauses' = clauses
  BY <1>t, GrowStep DEF Grows
<1>l. \A q \in Procs : pc[q] \in {"rev_loop", "sum_save"} => clauses # {}
  BY DEF IInv, StageInv, ClausesStored, TextStored, StatusUnread, Labels
<1>h. ASSUME NEW q \in Procs, UNCHANGED <<pc[q], todo[q], view[q]>>, UNCHANGED requiresReview
      PROVE  /\ pc'[q] = "rev_loop" => todo'[q] \subseteq clauses'
             /\ pc'[q] = "sum_save" => \A c \in clauses' : Source(c, view[q][c].decision)'
  BY <1>h, <1>k, <1>l, SourceKept DEF HeldInv
<1>u. CASE UNCHANGED vars
  BY <1>u, <1>h DEF vars, data, locals, HeldInv
<1>c. ASSUME NEW p \in Procs, NEW c \in Commands, CreateContract(p, c) PROVE HeldInv'
  <2>1. \A q \in Procs : pc'[q] \notin {"rev_loop", "sum_save"}
    BY <1>c DEF CreateContract, IInv, ProcessInv, Free, TypeOK, ProcessesOK
  <2> QED BY <2>1 DEF HeldInv
<1>s. ASSUME NEW p \in Procs, Step(p) \/ Abort(p) \/ \E c \in Commands : Invoke(p, c)
      PROVE  HeldInv'
  <2>1. UNCHANGED requiresReview
    BY <1>s, FlagKept DEF Invoke, data
  <2>2. \A q \in Procs \ {p} : UNCHANGED <<pc[q], todo[q], view[q]>>
    BY <1>s, <1>t, OthersAlone DEF Start
  <2>3. pc'[p] = "rev_loop" => todo'[p] \subseteq clauses'
    <3>1. SUFFICES ASSUME ReviewReviews(p) \/ SaveReview(p) PROVE todo'[p] \subseteq clauses'
      BY <1>s, <1>t, Arrives DEF Start
    <3>2. CASE ReviewReviews(p)
      BY <1>t, <3>2 DEF ReviewReviews, Unreviewed, Read, data, TypeOK, ProcessesOK
    <3>3. CASE SaveReview(p)
      BY <1>t, <3>3 DEF SaveReview, At, HeldInv, TypeOK, ProcessesOK
    <3> QED BY <3>1, <3>2, <3>3
  <2>4. pc'[p] = "sum_save" => \A c \in clauses' : Source(c, view[p][c].decision)'
    <3>1. SUFFICES ASSUME SummarizeDecisions(p)
                   PROVE  \A c \in clauses' : Source(c, view[p][c].decision)'
      BY <1>s, <1>t, Arrives DEF Start
    <3>2. PICK d \in [clauses -> Decision \cup {"none"}] :
             /\ \A c \in clauses : IF reviews[c] = {} THEN d[c] = "none"
                                   ELSE \E r \in reviews[c] : d[c] = r.decision
             /\ view' = [view EXCEPT ![p] =
                  [c \in Clause |-> IF c \in clauses
                                    THEN [view[p][c] EXCEPT !.decision = d[c]]
                                    ELSE view[p][c]]]
      BY <3>1 DEF SummarizeDecisions
    <3>3. UNCHANGED <<clauses, reviews, requiresReview>>
      BY <3>1 DEF SummarizeDecisions, Read, data
    <3>4. ASSUME NEW c \in clauses PROVE view'[p][c].decision = d[c]
      <4>1. view[p][c] \in Entry /\ c \in Clause
        BY <1>t DEF TypeOK, StoredOK, ProcessesOK
      <4> QED BY <1>t, <3>2, <4>1 DEF Entry, TypeOK, ProcessesOK
    <3>5. ASSUME NEW c \in clauses PROVE Source(c, d[c])
      <4>1. CASE requiresReview
        BY <4>1, <3>1, <3>2 DEF Source, IInv, GateInv, AfterGate, Covered, SummarizeDecisions, At
      <4>2. CASE ~requiresReview
        BY <1>t, <4>2, <3>2 DEF Source, Ungated, TypeOK, StoredOK
      <4> QED BY <4>1, <4>2
    <3> QED BY <3>3, <3>4, <3>5 DEF Source
  <2>5. \A q \in Procs : /\ pc'[q] = "rev_loop" => todo'[q] \subseteq clauses'
                         /\ pc'[q] = "sum_save"
                               => \A c \in clauses' : Source(c, view[q][c].decision)'
    BY <1>h, <2>1, <2>2, <2>3, <2>4
  <2> QED BY <2>5 DEF HeldInv
<1> QED BY <1>u, <1>c, <1>s DEF Next, Start

\* The invariant holds at the start and across every step.
LEMMA WorkflowInduction == /\ Init => IInv /\ WorkflowInv
                           /\ IInv /\ WorkflowInv /\ [Next]_vars => (IInv /\ WorkflowInv)'
<1>1. Init => WorkflowInv
  BY DEF Init, WorkflowInv, Untouched, Ungated, HeldInv, Blank
<1>2. IInv /\ WorkflowInv /\ [Next]_vars => WorkflowInv'
  BY UntouchedStep, UngatedStep, HeldStep DEF WorkflowInv, IInv
<1> QED BY <1>1, <1>2, InvInit, InvStep

\* So it holds whatever commands run.
LEMMA WorkflowInvariance == Spec => [](IInv /\ WorkflowInv)
  BY WorkflowInduction, PTL DEF Spec

-----------------------------------------------------------------------------
(* The refinement *)

\* The contract's creation opens it.
LEMMA OpenMaps ==
  ASSUME TypeOK, NEW p \in Procs, NEW c \in Commands, CreateContract(p, c) PROVE Workflow!Open
<1>1. TypeOK' => requiresReview' \in BOOLEAN
  BY DEF TypeOK, StoredOK
<1> QED BY <1>1 DEF CreateContract, Workflow!Open

\* Storing the clauses splits it, unless there are clauses already.
LEMMA SplitMaps ==
  ASSUME TypeOK, ProcessInv, NEW p \in Procs, SaveClauses(p)
  PROVE  Workflow!Split \/ UNCHANGED Workflow!vars
<1>1. status # "none"
  BY DEF SaveClauses, At, ProcessInv, Free
<1>2. CASE Read
  BY <1>2 DEF Read, data, Workflow!vars
<1>3. CASE clauses = {} /\ ~Read
  BY <1>1, <1>3 DEF SaveClauses, Workflow!Split, Workflow!Clause, Clause, TypeOK, StoredOK
<1> QED BY <1>2, <1>3 DEF SaveClauses

\* A stored review is a decision on a clause of a gated contract.
LEMMA DecideMaps ==
  ASSUME TypeOK, ProcessInv, WorkflowInv, NEW p \in Procs, SaveReview(p)
  PROVE  Workflow!Decide
<1>1. requiresReview /\ status # "none"
  BY DEF SaveReview, At, ProcessInv, Free, WorkflowInv, Ungated
<1>2. PICK c \in todo[p], d \in Decision :
         reviews' = [reviews EXCEPT ![c] =
            @ \cup {[decision |-> d, finding |-> view[p][c].finding]}]
  BY DEF SaveReview
<1>3. c \in clauses /\ c \in Clause
  BY DEF WorkflowInv, HeldInv, SaveReview, At, TypeOK, StoredOK
<1>4. [e \in Clause |-> {r.decision : r \in reviews'[e]}]
         = [[e \in Clause |-> {r.decision : r \in reviews[e]}] EXCEPT ![c] = @ \cup {d}]
  <2>1. ASSUME NEW e \in Clause
        PROVE  {r.decision : r \in reviews'[e]}
                  = IF e = c THEN {r.decision : r \in reviews[e]} \cup {d}
                             ELSE {r.decision : r \in reviews[e]}
    <3>1. CASE e = c
      <4> DEFINE x == [decision |-> d, finding |-> view[p][c].finding]
      <4>1. reviews'[c] = reviews[c] \cup {x} /\ x.decision = d
        BY <1>2, <1>3 DEF TypeOK, StoredOK
      <4> HIDE DEF x
      <4> QED BY <3>1, <4>1
    <3>2. CASE e # c
      BY <1>2, <3>2 DEF TypeOK, StoredOK
    <3> QED BY <3>1, <3>2
  <2> QED BY <1>3, <2>1
<1> QED BY <1>1, <1>3, <1>4 DEF SaveReview, Workflow!Decide, Workflow!Clause, Clause

\* A stored report lists every clause, with the decisions taken.
LEMMA PublishMaps ==
  ASSUME IInv, WorkflowInv, NEW p \in Procs, SaveSummary(p)
  PROVE  Workflow!Publish
<1>1. status # "none" /\ clauses # {} /\ clauses \subseteq Clause
  BY DEF SaveSummary, At, IInv, TypeOK, StoredOK, ProcessInv, Free, StageInv, ClausesStored,
         TextStored, StatusUnread, Labels
<1>2. \A c \in clauses : Source(c, view[p][c].decision)
  BY DEF WorkflowInv, HeldInv, SaveSummary, At
<1>3. ListsClauses(view[p]) /\ view[p] \in [Clause -> Entry]
  BY DEF IInv, ReportInv, SaveSummary, At, TypeOK, ProcessesOK
<1> DEFINE d == [c \in clauses |-> view[p][c].decision]
<1>4. d \in [clauses -> Decision \cup {"none"}]
  BY <1>1, <1>3 DEF Entry
<1>5. \A c \in clauses : IF requiresReview THEN d[c] \in {r.decision : r \in reviews[c]}
                                          ELSE d[c] = "none"
  BY <1>2 DEF Source
<1>6. [c \in Clause |-> IF summary'[c].finding = "none" THEN "unlisted" ELSE summary'[c].decision]
         = [c \in Clause |-> IF c \in clauses THEN d[c] ELSE "unlisted"]
  BY <1>3 DEF SaveSummary, ListsClauses
<1> QED BY <1>1, <1>4, <1>5, <1>6 DEF SaveSummary, Workflow!Publish, Workflow!Clause, Clause

\* Every step of the commands is a step of the workflow, or none.
LEMMA StepImplements ==
  ASSUME IInv, WorkflowInv, [Next]_vars PROVE [Workflow!Next]_(Workflow!vars)
<1>1. CASE StatusOnly
  BY <1>1 DEF StatusOnly, data, Workflow!vars
<1>2. ASSUME NEW p \in Procs, NEW c \in Commands, CreateContract(p, c) PROVE Workflow!Next
  BY <1>2, OpenMaps DEF IInv, Workflow!Next
<1>3. ASSUME NEW p \in Procs, Stores(p) PROVE [Workflow!Next]_(Workflow!vars)
  <2>1. CASE UpdateContractText(p) \/ AnalyzeClause(p) \/ WriteReport(p)
    <3>1. UNCHANGED <<status, requiresReview, clauses, reviews, summary>>
      BY <2>1 DEF UpdateContractText, AnalyzeClause, WriteReport
    <3> QED BY <3>1 DEF Workflow!vars
  <2>2. CASE SaveClauses(p)
    BY <2>2, SplitMaps DEF IInv, Workflow!Next
  <2>3. CASE SaveReview(p)
    BY <2>3, DecideMaps DEF IInv, Workflow!Next
  <2>4. CASE SaveSummary(p)
    BY <2>4, PublishMaps DEF Workflow!Next
  <2> QED BY <1>3, <2>1, <2>2, <2>3, <2>4 DEF Stores
<1> QED BY <1>1, <1>2, <1>3, StepStores DEF IInv

\* A contract that does not exist is one that is not opened.
LEMMA InitImplements == Init => Workflow!Init
  BY DEF Init, Blank, NoEntry, Workflow!Init, Workflow!Clause, Clause

\* The commands, however interleaved and cut short, implement the workflow.
THEOREM WorkflowImplemented == Spec => ImplementsWorkflow
  BY InitImplements, StepImplements, WorkflowInvariance, PTL
     DEF Spec, ImplementsWorkflow, Workflow!Spec

-----------------------------------------------------------------------------
(* Behind the status of an analyzed contract every clause has a row, as long  *)
(* as every row is stored.                                                   *)

\* SaveAnalysis does not fail.
StoreWorks == "lost row" \notin Faults

HasRows(S) == \A c \in S : analyses[c] # {}

\* Where a process is past an analysis that was finished.
RowsStored == ClausesStored \ {"split_done", "an_mark", "an_filter", "an_agents"}

\* A process that runs agents has rows for the clauses it is through with.
RowInv ==
    /\ status \in PastAnalysis => HasRows(clauses)
    /\ \A p \in Procs : /\ pc[p] = "an_agents" => HasRows(clauses \ todo[p])
                        /\ pc[p] \in RowsStored => HasRows(clauses)

\* An agent that ended has its row.
LEMMA RowAdded ==
  ASSUME StoreWorks, TypeOK, NEW p \in Procs, AnalyzeClause(p)
  PROVE  \E c \in todo[p] : \E r \in Outcome :
            /\ todo' = [todo EXCEPT ![p] = @ \ {c}]
            /\ analyses' = [analyses EXCEPT ![c] = @ \cup {r}]
  BY Zenon DEF AnalyzeClause, StoreWorks

\* No row is ever removed.
LEMMA RowsKept ==
  ASSUME TypeOK, ProcessInv, [Next]_vars PROVE \A c \in Clause : analyses[c] \subseteq analyses'[c]
<1>1. CASE UNCHANGED analyses
  BY <1>1
<1>2. ASSUME NEW p \in Procs, AnalyzeClause(p)
      PROVE  \A c \in Clause : analyses[c] \subseteq analyses'[c]
  <2>1. PICK c \in todo[p], r \in Outcome :
           analyses' = [analyses EXCEPT ![c] = @ \cup {r}] \/ UNCHANGED analyses
    BY <1>2, Zenon DEF AnalyzeClause
  <2> QED BY <2>1 DEF TypeOK, StoredOK
<1>3. ASSUME NEW p \in Procs, Stores(p), ~AnalyzeClause(p) PROVE UNCHANGED analyses
  BY <1>3 DEF Stores, UpdateContractText, SaveClauses, SaveReview, SaveSummary, WriteReport,
     Read, data
<1>4. ASSUME NEW p \in Procs, NEW c \in Commands, CreateContract(p, c) PROVE UNCHANGED analyses
  BY <1>4 DEF CreateContract
<1> QED BY <1>1, <1>2, <1>3, <1>4, StepStores DEF StatusOnly, data

\* How a process and the contract come past the analysis.
LEMMA PassesAnalysis ==
  ASSUME TypeOK, NEW p \in Procs,
         Step(p) \/ Abort(p) \/ \E c \in Commands : Start(p, c)
  PROVE  /\ status' \in PastAnalysis =>
               status' = status \/ pc[p] \in RowsStored \/ AnalyzeDone(p)
         /\ pc'[p] \in RowsStored =>
               status \in PastAnalysis \/ pc[p] \in RowsStored \/ AnalyzeDone(p)
         /\ pc'[p] = "an_agents" => FilterClauses(p) \/ AnalyzeClause(p)
<1> USE DEF TypeOK, ProcessesOK, At, Goto, After, Exit, Leave, ReadFindings, Read,
            UpdateContractStatus, locals, PastAnalysis, PastSplit, PastExtract, Status,
            RowsStored, ClausesStored, TextStored, StatusUnread, Labels
<1>1. CASE Abort(p) \/ \E c \in Commands : CreateContract(p, c)
  BY <1>1 DEF Abort, CreateContract
<1>2. ASSUME NEW c \in Commands, Invoke(p, c)
      PROVE  pc'[p] \notin RowsStored \cup {"an_agents"} /\ status' = status
  BY <1>2, FirstLabels DEF Invoke
<1>3. CASE Extract(p) \/ Split(p)
  BY <1>3 DEF Extract, ExtractMark, UpdateContractText, ExtractDone,
     Split, SplitCheck, SplitMark, SaveClauses, SplitDone
<1>4. CASE Analyze(p)
  <2>1. CASE AnalyzeCheck(p) \/ AnalyzeMark(p)
    BY <2>1 DEF AnalyzeCheck, AnalyzeMark
  <2>2. ASSUME FilterClauses(p) PROVE pc'[p] = "an_agents" /\ status' = status
    BY <2>2 DEF FilterClauses
  <2>3. ASSUME AnalyzeClause(p) PROVE pc'[p] = "an_agents" /\ status' = status
    BY <2>3 DEF AnalyzeClause
  <2>4. ASSUME AnalyzeDone(p) PROVE pc'[p] # "an_agents"
    BY <2>4 DEF AnalyzeDone
  <2> QED BY <1>4, <2>1, <2>2, <2>3, <2>4 DEF Analyze
<1>5. CASE PostAnalysis(p)
  BY <1>5 DEF PostAnalysis, PostCheck, PostSet
<1>6. CASE ReviewClauses(p) \/ Resume(p)
  BY <1>6 DEF ReviewClauses, ReviewCheck, ReviewFindings, ReviewReviews, SaveReview,
     ReviewDone, Resume, ResumeCheck, ResumeReviews, ResumeSet
<1>7. CASE Summarize(p)
  <2>1. CASE SummarizeCheck(p)
    BY <2>1 DEF SummarizeCheck
  <2>2. CASE ~SummarizeCheck(p)
    BY <1>7, <2>2 DEF Summarize, SummarizeMark, SummarizeFindings,
       SummarizeDecisions, SaveSummary, WriteReport, SummarizeDone
  <2> QED BY <2>1, <2>2
<1> QED BY <1>1, <1>2, <1>3, <1>4, <1>5, <1>6, <1>7 DEF Step, Start

\* Every step keeps the rows behind the statuses and the labels.
LEMMA RowStep ==
  ASSUME StoreWorks, IInv, RowInv, [Next]_vars PROVE RowInv'
<1>t. TypeOK /\ ProcessInv /\ TypeOK'
  BY TypeStep DEF IInv
<1>k. \A c \in Clause : analyses[c] \subseteq analyses'[c]
  BY <1>t, RowsKept
<1>c. clauses # {} => clauses' = clauses
  BY <1>t, GrowStep DEF Grows
<1>s. /\ status \in PastAnalysis => clauses # {}
      /\ \A q \in Procs : pc[q] \in RowsStored \cup {"an_agents"} => clauses # {}
  BY DEF IInv, StageInv, PastAnalysis, RowsStored, ClausesStored, TextStored, StatusUnread, Labels
<1>r. ASSUME NEW S \in SUBSET Clause, HasRows(S) PROVE \A c \in S : analyses'[c] # {}
  BY <1>k, <1>r DEF HasRows
<1>u. CASE UNCHANGED vars
  BY <1>u DEF vars, data, locals, RowInv, HasRows
<1>p. ASSUME NEW p \in Procs, Step(p) \/ Abort(p) \/ \E c \in Commands : Start(p, c)
      PROVE  RowInv'
  <2>d. AnalyzeDone(p) => HasRows(clauses) /\ clauses # {}
    <3>1. AnalyzeDone(p) => pc[p] = "an_agents" /\ todo[p] = {}
      BY DEF AnalyzeDone, At
    <3> QED BY <3>1, <1>s DEF RowInv, HasRows
  <2>1. \A q \in Procs \ {p} : UNCHANGED <<pc[q], todo[q]>>
    BY <1>p, <1>t, OthersAlone
  <2>2. status' \in PastAnalysis \/ pc'[p] \in RowsStored => HasRows(clauses)'
    <3>1. SUFFICES ASSUME status' \in PastAnalysis \/ pc'[p] \in RowsStored
                   PROVE  HasRows(clauses)'
      OBVIOUS
    <3>2. HasRows(clauses) /\ clauses # {}
      BY <1>p, <1>t, <1>s, <2>d, <3>1, PassesAnalysis DEF RowInv
    <3>3. clauses \in SUBSET Clause
      BY <1>t DEF TypeOK, StoredOK
    <3> QED BY <1>c, <1>r, <3>2, <3>3 DEF HasRows
  <2>3. pc'[p] = "an_agents" => HasRows(clauses \ todo[p])'
    <3>1. SUFFICES ASSUME FilterClauses(p) \/ AnalyzeClause(p)
                   PROVE  HasRows(clauses \ todo[p])'
      BY <1>p, <1>t, PassesAnalysis
    <3>2. CASE FilterClauses(p)
      <4>1. UNCHANGED <<clauses, analyses>> /\ todo'[p] = ClausesNeedingAnalysis
        BY <1>t, <3>2 DEF FilterClauses, Read, data, TypeOK, ProcessesOK
      <4> QED BY <4>1 DEF HasRows, ClausesNeedingAnalysis, Analyzed
    <3>3. CASE AnalyzeClause(p)
      <4>1. PICK c \in todo[p], r \in Outcome :
               /\ todo' = [todo EXCEPT ![p] = @ \ {c}]
               /\ analyses' = [analyses EXCEPT ![c] = @ \cup {r}]
        BY <1>t, <3>3, RowAdded
      <4>2. clauses' = clauses /\ pc[p] = "an_agents"
        BY <3>3 DEF AnalyzeClause, At
      <4>3. c \in Clause /\ clauses \subseteq Clause
        BY <1>t DEF TypeOK, StoredOK, ProcessesOK
      <4>4. \A e \in clauses \ todo[p] : analyses'[e] # {}
        BY <1>r, <4>2, <4>3 DEF RowInv
      <4>5. r \in analyses'[c] /\ todo'[p] = todo[p] \ {c}
        BY <1>t, <4>1, <4>3 DEF TypeOK, StoredOK, ProcessesOK
      <4> QED BY <4>2, <4>4, <4>5 DEF HasRows
    <3> QED BY <3>1, <3>2, <3>3
  <2>4. ASSUME NEW q \in Procs \ {p}
        PROVE  /\ pc'[q] = "an_agents" => HasRows(clauses \ todo[q])'
               /\ pc'[q] \in RowsStored => HasRows(clauses)'
    <3>1. clauses \in SUBSET Clause
      BY <1>t DEF TypeOK, StoredOK
    <3>2. CASE pc[q] = "an_agents"
      <4>1. HasRows(clauses \ todo[q]) /\ clauses' = clauses
        BY <1>c, <1>s, <3>2 DEF RowInv
      <4> QED BY <1>r, <2>1, <3>1, <3>2, <4>1
              DEF HasRows, RowsStored, ClausesStored, TextStored, StatusUnread, Labels
    <3>3. CASE pc[q] \in RowsStored
      <4>1. HasRows(clauses) /\ clauses' = clauses
        BY <1>c, <1>s, <3>3 DEF RowInv
      <4> QED BY <1>r, <2>1, <3>1, <3>3, <4>1
              DEF HasRows, RowsStored, ClausesStored, TextStored, StatusUnread, Labels
    <3> QED BY <2>1, <3>2, <3>3
  <2> QED BY <2>2, <2>3, <2>4 DEF RowInv
<1> QED BY <1>u, <1>p DEF Next

\* Once a contract counts as analyzed every clause has a row, whatever commands
\* run and wherever they stop, as long as no row is lost.
THEOREM RowsBehindStatus == ASSUME StoreWorks PROVE Spec => []AnalysisBehindStatus
<1>1. Init => RowInv
  BY DEF Init, RowInv, PastAnalysis, PastSplit, PastExtract, RowsStored, ClausesStored,
         TextStored, StatusUnread
<1>2. IInv /\ RowInv /\ [Next]_vars => RowInv'
  BY RowStep
<1>3. RowInv => AnalysisBehindStatus
  BY DEF RowInv, HasRows, AnalysisBehindStatus
<1> QED BY <1>1, <1>2, <1>3, InvInit, InvStep, PTL DEF Spec
=============================================================================
