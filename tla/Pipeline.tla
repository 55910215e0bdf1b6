------------------------------ MODULE Pipeline ------------------------------
(***************************************************************************)
(* The contract pipeline: the CLI commands of main.go that move ONE         *)
(* contract through its stages, the rows they read and write in PostgreSQL  *)
(* and the report file.  Each command is an operating-system process that   *)
(* reads the contract's status, does one store access per step and keeps    *)
(* what it read in local variables; several may run at once and any of them *)
(* may die between two steps.                                               *)
(***************************************************************************)
EXTENDS Integers, FiniteSets

CONSTANTS
    Procs,      \* the processes that may run a command at the same time
    Commands,   \* the commands that are issued
    MaxClauses, \* bound: how many clauses a contract may be split into
    Risks,      \* the risk levels that the agents find
    Faults      \* what may go wrong, a subset of AllFaults

\* Three ways to call process: without a flag, with it before the path, and as
\* the usage text and the README write it.
ProcessCommands == {"process pdf", "process --review pdf", "process pdf --review"}

\* The commands that are given the id of a contract.
StageCommands == {"extract-clauses", "analyze", "review", "resume", "summarize"}

AllCommands == ProcessCommands \cup StageCommands \cup {"extract"}

\* What stands behind the word process, in its order.
Arguments(c) == CASE c = "process pdf" -> <<"pdf">>
                  [] c = "process --review pdf" -> <<"--review", "pdf">>
                  [] c = "process pdf --review" -> <<"pdf", "--review">>

\* What fs.Parse makes of them: package flag stops at the first argument that
\* is no flag, so that only a --review before the path is seen.
ReviewFlag(c) ==
    \E i \in DOMAIN Arguments(c) :
        /\ Arguments(c)[i] = "--review"
        /\ \A j \in 1..(i - 1) : Arguments(c)[j] = "--review"

\* The three constants of domain.RiskLevel.
RiskLevel == {"high", "medium", "low"}

\* "abort": a command stops at any step (a crash, a signal, a failed store or
\* LLM call: every error path returns without another write).
\* "no finding": an agent run fails or stops without submitting.
\* "lost row": SaveAnalysis fails, which is only logged.
AllFaults == {"abort", "no finding", "lost row"}

ASSUME ProcsAssumption == Procs # {}
ASSUME CommandsAssumption == Commands \subseteq AllCommands
ASSUME MaxClausesAssumption == MaxClauses \in Nat \ {0}
ASSUME RisksAssumption == Risks # {} /\ Risks \subseteq RiskLevel
ASSUME FaultsAssumption == Faults \subseteq AllFaults

\* Clauses are named by their sequence number.
Clause == 1..MaxClauses

\* domain.ContractStatus, and "none" before the contract's row exists.
Status == {"none", "uploaded", "extracting", "extracted", "analyzing_clauses",
           "clauses_extracted", "analyzing", "analyzed", "review_pending",
           "review_complete", "summarizing", "done"}

Decision == {"approved", "rejected"}

\* What a reader makes of a row of clause_analyses: its risk level, or
\* "unknown" when the row is a failed one, or when there is no row.
Finding == Risks \cup {"unknown"}

\* A review records the decision; finding is what the reviewer was shown.
Review == [decision : Decision, finding : Finding \cup {"none"}]

\* A line of the report; NoEntry stands for a clause that is not listed.
NoEntry == [finding |-> "none", decision |-> "none"]
Entry == [finding : Finding \cup {"none"}, decision : Decision \cup {"none"}]
Blank == [c \in Clause |-> NoEntry]

VARIABLES
    status,         \* contracts.status
    requiresReview, \* contracts.requires_review
    text,           \* whether contracts.raw_text has been stored
    clauses,        \* rows of clauses
    analyses,       \* rows of clause_analyses, a set of results per clause
    reviews,        \* rows of reviews, a set of reviews per clause
    summary,        \* summaries.content, one entry per clause
    report,         \* the file summary_<id>.md
    pc,             \* where each process is
    cmd,            \* the command each process runs
    todo,           \* the clauses a process still has to handle
    view            \* the findings and decisions a process has read

data == <<requiresReview, text, clauses, analyses, reviews, summary, report>>
locals == <<cmd, todo, view>>
vars == <<status, data, pc, locals>>

Labels == {"idle", "aborted", "ext_mark", "ext_text", "ext_done",
           "split_check", "split_mark", "split_save", "split_done",
           "an_check", "an_mark", "an_filter", "an_agents",
           "post_check", "post_set",
           "rev_check", "rev_findings", "rev_reviews", "rev_loop",
           "res_check", "res_reviews", "res_set",
           "sum_check", "sum_mark", "sum_findings", "sum_decisions",
           "sum_save", "sum_file", "sum_done"}

\* The rows and the report file.
StoredOK ==
    /\ status \in Status
    /\ requiresReview \in BOOLEAN
    /\ text \in BOOLEAN
    /\ clauses \in SUBSET Clause
    /\ analyses \in [Clause -> SUBSET (Risks \cup {"failed"})]
    /\ reviews \in [Clause -> SUBSET Review]
    /\ summary \in [Clause -> Entry]
    /\ report \in [Clause -> Entry]

\* The memory of the processes.
ProcessesOK ==
    /\ pc \in [Procs -> Labels]
    /\ cmd \in [Procs -> AllCommands \cup {"none"}]
    /\ todo \in [Procs -> SUBSET Clause]
    /\ view \in [Procs -> [Clause -> Entry]]

\* Every variable has its type; reviews hold one of the two decisions the
\* check constraint of the table allows.
TypeOK == StoredOK /\ ProcessesOK

Init ==
    /\ status = "none"
    /\ requiresReview = FALSE
    /\ text = FALSE
    /\ clauses = {}
    /\ analyses = [c \in Clause |-> {}]
    /\ reviews = [c \in Clause |-> {}]
    /\ summary = Blank
    /\ report = Blank
    /\ pc = [p \in Procs |-> "idle"]
    /\ cmd = [p \in Procs |-> "none"]
    /\ todo = [p \in Procs |-> {}]
    /\ view = [p \in Procs |-> Blank]

-----------------------------------------------------------------------------
(* Control flow of a command *)

Goto(p, l) == pc' = [pc EXCEPT ![p] = l] /\ UNCHANGED locals

\* The process ends, and with it everything it kept in memory.
Leave(p, l) ==
    /\ pc' = [pc EXCEPT ![p] = l]
    /\ cmd' = [cmd EXCEPT ![p] = "none"]
    /\ todo' = [todo EXCEPT ![p] = {}]
    /\ view' = [view EXCEPT ![p] = Blank]

\* The command returns, having done its work or refused to.
Exit(p) == Leave(p, "idle")

\* No command runs in p; the last one may have been cut short.
Free(p) == pc[p] \in {"idle", "aborted"}

Processing(p) == cmd[p] \in ProcessCommands

\* A stage returned without error: process goes on to the stage at label l,
\* a command of one stage is over.
After(p, l) == \/ Processing(p) /\ Goto(p, l)
               \/ ~Processing(p) /\ Exit(p)

At(p, l) == pc[p] = l

\* Reading only, the status decides where the command goes.
Read == UNCHANGED <<status, data>>

UpdateContractStatus(s) == status' = s /\ UNCHANGED data

FirstLabel(c) ==
    CASE c = "extract-clauses" -> "split_check"
      [] c = "analyze" -> "an_check"
      [] c = "review" -> "rev_check"
      [] c = "resume" -> "res_check"
      [] c = "summarize" -> "sum_check"

\* process and extract create the contract they work on; only process has the
\* flag, and the row gets what was parsed of it.
CreateContract(p, c) ==
    /\ Free(p)
    /\ c \in ProcessCommands \cup {"extract"}
    /\ status = "none"
    /\ status' = "uploaded"
    /\ requiresReview' = (c \in ProcessCommands /\ ReviewFlag(c))
    /\ pc' = [pc EXCEPT ![p] = "ext_mark"]
    /\ cmd' = [cmd EXCEPT ![p] = c]
    /\ UNCHANGED <<text, clauses, analyses, reviews, summary, report, todo, view>>

\* The other commands are given the id of a contract that exists.
Invoke(p, c) ==
    /\ Free(p)
    /\ c \in StageCommands
    /\ status # "none"
    /\ pc' = [pc EXCEPT ![p] = FirstLabel(c)]
    /\ cmd' = [cmd EXCEPT ![p] = c]
    /\ UNCHANGED <<status, data, todo, view>>

Abort(p) == "abort" \in Faults /\ ~Free(p) /\ Leave(p, "aborted") /\ Read

-----------------------------------------------------------------------------
(* RunExtract *)

ExtractMark(p) ==
    At(p, "ext_mark") /\ UpdateContractStatus("extracting") /\ Goto(p, "ext_text")

UpdateContractText(p) ==
    /\ At(p, "ext_text")
    /\ text' = TRUE
    /\ Goto(p, "ext_done")
    /\ UNCHANGED <<status, requiresReview, clauses, analyses, reviews, summary, report>>

ExtractDone(p) ==
    /\ At(p, "ext_done")
    /\ UpdateContractStatus("extracted")
    /\ After(p, "split_check")

Extract(p) == ExtractMark(p) \/ UpdateContractText(p) \/ ExtractDone(p)

-----------------------------------------------------------------------------
(* ExtractClauses *)

\* Mutant: a stage that refuses nothing but its own completion.
SplitCheckOpen(p) ==
    /\ At(p, "split_check")
    /\ Read
    /\ \/ status = "clauses_extracted" /\ After(p, "an_check")
       \/ status # "clauses_extracted" /\ Goto(p, "split_mark")

SplitCheck(p) ==
    /\ At(p, "split_check")
    /\ Read
    /\ \/ status = "clauses_extracted" /\ After(p, "an_check")
       \/ status = "extracted" /\ Goto(p, "split_mark")
       \/ status \notin {"clauses_extracted", "extracted"} /\ Exit(p)

SplitMark(p) ==
    /\ At(p, "split_mark")
    /\ UpdateContractStatus("analyzing_clauses")
    /\ Goto(p, "split_save")

\* One transaction; UNIQUE (contract_id, sequence_number) refuses a second
\* list.  The model never returns an empty one: parseClauses rejects it.
SaveClauses(p) ==
    /\ At(p, "split_save")
    /\ \/ /\ clauses = {}
          /\ \E n \in Clause : clauses' = 1..n
          /\ Goto(p, "split_done")
          /\ UNCHANGED <<status, requiresReview, text, analyses, reviews, summary, report>>
       \/ clauses # {} /\ Exit(p) /\ Read

SplitDone(p) ==
    /\ At(p, "split_done")
    /\ UpdateContractStatus("clauses_extracted")
    /\ After(p, "an_check")

Split(p) == SplitCheck(p) \/ SplitMark(p) \/ SaveClauses(p) \/ SplitDone(p)

-----------------------------------------------------------------------------
(* AnalyzeClauses: the pool of agents is the module AnalysisPool *)

\* Mutant: analyze is not refused in the later statuses.
AnalyzeCheckOpen(p) ==
    /\ At(p, "an_check")
    /\ Read
    /\ \/ status = "analyzed" /\ After(p, "post_check")
       \/ status # "analyzed" /\ Goto(p, "an_mark")

\* Mutant: an analysis that was interrupted is refused.
AnalyzeCheckFresh(p) ==
    /\ At(p, "an_check")
    /\ Read
    /\ \/ status = "analyzed" /\ After(p, "post_check")
       \/ status = "clauses_extracted" /\ Goto(p, "an_mark")
       \/ status \notin {"analyzed", "clauses_extracted"} /\ Exit(p)

AnalyzeCheck(p) ==
    /\ At(p, "an_check")
    /\ Read
    /\ \/ status = "analyzed" /\ After(p, "post_check")
       \/ status \in {"clauses_extracted", "analyzing"} /\ Goto(p, "an_mark")
       \/ status \notin {"analyzed", "clauses_extracted", "analyzing"} /\ Exit(p)

AnalyzeMark(p) ==
    /\ At(p, "an_mark")
    /\ UpdateContractStatus("analyzing")
    /\ Goto(p, "an_filter")

Analyzed(c) == analyses[c] \cap Risks # {}

ClausesNeedingAnalysis == {c \in clauses : ~Analyzed(c)}

FilterClauses(p) ==
    /\ At(p, "an_filter")
    /\ todo' = [todo EXCEPT ![p] = ClausesNeedingAnalysis]
    /\ pc' = [pc EXCEPT ![p] = "an_agents"]
    /\ Read
    /\ UNCHANGED <<cmd, view>>

\* An agent run ends and its goroutine stores the outcome, or fails to.
Outcome == Risks \cup {f \in {"failed"} : "no finding" \in Faults}

AnalyzeClause(p) ==
    /\ At(p, "an_agents")
    /\ \E c \in todo[p], r \in Outcome :
          /\ todo' = [todo EXCEPT ![p] = @ \ {c}]
          /\ \/ analyses' = [analyses EXCEPT ![c] = @ \cup {r}]
             \/ "lost row" \in Faults /\ UNCHANGED analyses
    /\ UNCHANGED <<status, requiresReview, text, clauses, reviews, summary, report,
                   pc, cmd, view>>

\* Mutant: the status is set without waiting for the agents.
AnalyzeDoneEarly(p) ==
    /\ At(p, "an_agents")
    /\ UpdateContractStatus("analyzed")
    /\ After(p, "post_check")

AnalyzeDone(p) ==
    /\ At(p, "an_agents")
    /\ todo[p] = {}
    /\ UpdateContractStatus("analyzed")
    /\ After(p, "post_check")

Analyze(p) == \/ AnalyzeCheck(p) \/ AnalyzeMark(p) \/ FilterClauses(p)
              \/ AnalyzeClause(p) \/ AnalyzeDone(p)

-----------------------------------------------------------------------------
(* runPostAnalysis, after the analysis stage of process *)

PostCheck(p) ==
    /\ At(p, "post_check")
    /\ Read
    /\ IF status \in {"review_pending", "review_complete", "done"}
       THEN Exit(p) ELSE Goto(p, "post_set")

\* Mutant: the flag of the command is ignored.
PostSetUnreviewed(p) ==
    /\ At(p, "post_set")
    /\ UpdateContractStatus("review_complete")
    /\ Goto(p, "sum_check")

\* The argument of the process decides, and not the row it has stored.
PostSet(p) ==
    /\ At(p, "post_set") /\ Processing(p)
    /\ \/ /\ ReviewFlag(cmd[p])
          /\ UpdateContractStatus("review_pending")
          /\ Exit(p)
       \/ /\ ~ReviewFlag(cmd[p])
          /\ UpdateContractStatus("review_complete")
          /\ Goto(p, "sum_check")

PostAnalysis(p) == PostCheck(p) \/ PostSet(p)

-----------------------------------------------------------------------------
(* RunReview *)

\* Mutant: rows are matched to clauses by position, and not by clause_id.
ShownByPosition(c) ==
    UNION {{IF r = "failed" THEN "unknown" ELSE r : r \in analyses[d]} : d \in clauses}
    \cup {u \in {"unknown"} : \E d \in clauses : analyses[d] = {}}

\* The map built from GetAnalyses keeps the last row of each clause, and the
\* query has no ORDER BY: any row may be the last.
Shown(c) == {r \in analyses[c] : r # "failed"}
            \cup {u \in {"unknown"} : analyses[c] = {} \/ "failed" \in analyses[c]}

\* The findings of one read, kept in view; clauses is the list read with it.
\* SaveClauses stores the list at most once, so reading it is no step of its own.
ReadFindings(p, l) ==
    /\ \E f \in [clauses -> Finding] :
          /\ \A c \in clauses : f[c] \in Shown(c)
          /\ view' = [view EXCEPT ![p] =
                [c \in Clause |-> IF c \in clauses
                                  THEN [finding |-> f[c], decision |-> "none"]
                                  ELSE NoEntry]]
    /\ pc' = [pc EXCEPT ![p] = l]
    /\ Read
    /\ UNCHANGED <<cmd, todo>>

ReviewCheck(p) ==
    /\ At(p, "rev_check")
    /\ Read
    /\ IF status = "review_pending" THEN Goto(p, "rev_findings") ELSE Exit(p)

ReviewFindings(p) == At(p, "rev_findings") /\ ReadFindings(p, "rev_reviews")

Unreviewed == {c \in clauses : reviews[c] = {}}

ReviewReviews(p) ==
    /\ At(p, "rev_reviews")
    /\ todo' = [todo EXCEPT ![p] = Unreviewed]
    /\ pc' = [pc EXCEPT ![p] = "rev_loop"]
    /\ Read
    /\ UNCHANGED <<cmd, view>>

\* The reviewer decides on the next clause of the list and the row is stored.
SaveReview(p) ==
    /\ At(p, "rev_loop")
    /\ \E c \in todo[p], d \in Decision :
          /\ \A e \in todo[p] : c <= e
          /\ reviews' = [reviews EXCEPT ![c] =
                @ \cup {[decision |-> d, finding |-> view[p][c].finding]}]
          /\ todo' = [todo EXCEPT ![p] = @ \ {c}]
    /\ UNCHANGED <<status, requiresReview, text, clauses, analyses, summary, report,
                   pc, cmd, view>>

ReviewDone(p) == At(p, "rev_loop") /\ todo[p] = {} /\ Read /\ Exit(p)

ReviewClauses(p) == \/ ReviewCheck(p) \/ ReviewFindings(p) \/ ReviewReviews(p)
                    \/ SaveReview(p) \/ ReviewDone(p)

-----------------------------------------------------------------------------
(* RunResume *)

ResumeCheck(p) ==
    /\ At(p, "res_check")
    /\ Read
    /\ IF status = "review_pending" THEN Goto(p, "res_reviews") ELSE Exit(p)

\* Mutant: resume does not look for clauses without a decision.
ResumeReviewsUnchecked(p) == At(p, "res_reviews") /\ Read /\ Goto(p, "res_set")

ResumeReviews(p) ==
    /\ At(p, "res_reviews")
    /\ Read
    /\ IF Unreviewed = {} THEN Goto(p, "res_set") ELSE Exit(p)

ResumeSet(p) ==
    /\ At(p, "res_set")
    /\ UpdateContractStatus("review_complete")
    /\ Goto(p, "sum_check")

Resume(p) == ResumeCheck(p) \/ ResumeReviews(p) \/ ResumeSet(p)

-----------------------------------------------------------------------------
(* RunSummarize *)

\* Mutant: a contract that waits for its review is summarized.
SummarizeCheckEager(p) ==
    /\ At(p, "sum_check")
    /\ Read
    /\ IF status \in {"review_pending", "review_complete"} THEN Goto(p, "sum_mark") ELSE Exit(p)

\* A contract that is done has its stored report printed, any other that is
\* not review_complete is refused.
SummarizeCheck(p) ==
    /\ At(p, "sum_check")
    /\ Read
    /\ IF status = "review_complete" THEN Goto(p, "sum_mark") ELSE Exit(p)

SummarizeMark(p) ==
    /\ At(p, "sum_mark")
    /\ UpdateContractStatus("summarizing")
    /\ Goto(p, "sum_findings")

SummarizeFindings(p) == At(p, "sum_findings") /\ ReadFindings(p, "sum_decisions")

\* Again any row of a clause may be the last; a clause without one has the
\* zero Review, whose decision is empty.
SummarizeDecisions(p) ==
    /\ At(p, "sum_decisions")
    /\ \E d \in [clauses -> Decision \cup {"none"}] :
          /\ \A c \in clauses : IF reviews[c] = {} THEN d[c] = "none"
                                ELSE \E r \in reviews[c] : d[c] = r.decision
          /\ view' = [view EXCEPT ![p] =
                [c \in Clause |-> IF c \in clauses
                                  THEN [view[p][c] EXCEPT !.decision = d[c]]
                                  ELSE view[p][c]]]
    /\ pc' = [pc EXCEPT ![p] = "sum_save"]
    /\ Read
    /\ UNCHANGED <<cmd, todo>>

\* Mutant: a stored summary is taken for a written file.
SaveSummaryOnly(p) ==
    /\ At(p, "sum_save")
    /\ summary' = view[p]
    /\ Goto(p, "sum_done")
    /\ UNCHANGED <<status, requiresReview, text, clauses, analyses, reviews, report>>

\* The LLM renders what was read; SaveSummary is an upsert.
SaveSummary(p) ==
    /\ At(p, "sum_save")
    /\ summary' = view[p]
    /\ Goto(p, "sum_file")
    /\ UNCHANGED <<status, requiresReview, text, clauses, analyses, reviews, report>>

WriteReport(p) ==
    /\ At(p, "sum_file")
    /\ report' = view[p]
    /\ Goto(p, "sum_done")
    /\ UNCHANGED <<status, requiresReview, text, clauses, analyses, reviews, summary>>

SummarizeDone(p) ==
    At(p, "sum_done") /\ UpdateContractStatus("done") /\ Exit(p)

Summarize(p) == \/ SummarizeCheck(p) \/ SummarizeMark(p) \/ SummarizeFindings(p)
                \/ SummarizeDecisions(p) \/ SaveSummary(p) \/ WriteReport(p)
                \/ SummarizeDone(p)

-----------------------------------------------------------------------------
Start(p, c) == CreateContract(p, c) \/ Invoke(p, c)

\* A step of a running command that is not cut short.
Step(p) == \/ Extract(p) \/ Split(p) \/ Analyze(p) \/ PostAnalysis(p)
           \/ ReviewClauses(p) \/ Resume(p) \/ Summarize(p)

Next == \E p \in Procs : \/ \E c \in Commands : Start(p, c)
                         \/ Step(p)
                         \/ Abort(p)

Spec == Init /\ [][Next]_vars
-----------------------------------------------------------------------------
(* What the stages promise, whatever commands run side by side *)

PastExtract == Status \ {"none", "uploaded", "extracting"}
PastSplit == PastExtract \ {"extracted", "analyzing_clauses"}
PastAnalysis == PastSplit \ {"clauses_extracted", "analyzing"}
Reviewed == {"review_complete", "summarizing", "done"}

Complete(entries) == \A c \in clauses : entries[c].finding # "none"

\* A status is the only record of how far a contract got, and every stage
\* trusts it: the text is stored once the status says extracted, the clauses
\* once it says clauses_extracted, and a contract that is done has a stored
\* report and a report file that list every clause.
DataBehindStatus ==
    /\ status \in PastExtract => text
    /\ status \in PastSplit => clauses # {}
    /\ status = "done" => Complete(summary) /\ Complete(report)

\* Once a contract counts as analyzed, every clause has a row, an ok one or a
\* failed one: g.Wait comes before the status (README: "All clauses done").
AnalysisBehindStatus ==
    status \in PastAnalysis => \A c \in clauses : analyses[c] # {}

Covered == \A c \in clauses : reviews[c] # {}

\* What requires_review in a contract's row stands for: such a contract is not
\* summarized before a reviewer has decided on every one of its clauses.  Which
\* rows have it set is another question: see RequestedReviewHappens.
ReviewGate == requiresReview /\ status \in Reviewed => Covered

Decided(entries) == \A c \in Clause : entries[c].finding # "none" => entries[c].decision # "none"

\* The report of such a contract carries a decision for every clause it lists,
\* although RunSummarize reads the reviews again, after the check of RunResume.
DecisionsReported == requiresReview => Decided(summary) /\ Decided(report)

\* All of this at once, and no step that does otherwise: the commands, however
\* interleaved and cut short, implement the review workflow.  The report is
\* the stored one; the file has the same content once the contract is done.
Workflow == INSTANCE ReviewWorkflow WITH
    gate <- IF status = "none" THEN "unknown" ELSE IF requiresReview THEN "yes" ELSE "no",
    decided <- [c \in Clause |-> {r.decision : r \in reviews[c]}],
    published <- [c \in Clause |-> IF summary[c].finding = "none"
                                   THEN "unlisted" ELSE summary[c].decision]

ImplementsWorkflow == Workflow!Spec

(***************************************************************************)
(* The inductive invariant behind the four properties above: what a process *)
(* may rely on at each label, because it read the status before, and because*)
(* rows are added and never removed.                                        *)
(***************************************************************************)
StatusUnread == {"idle", "aborted", "ext_mark", "ext_text", "split_check", "an_check",
                 "rev_check", "res_check", "sum_check"}
TextStored == Labels \ StatusUnread
ClausesStored == TextStored \ {"ext_done", "split_mark", "split_save"}
AfterGate == {"sum_mark", "sum_findings", "sum_decisions", "sum_save", "sum_file", "sum_done"}

ProcessInv == \A p \in Procs :
    /\ Free(p) <=> cmd[p] = "none"
    /\ ~Free(p) => status # "none"
    /\ Processing(p) => (requiresReview <=> ReviewFlag(cmd[p]))

StageInv == /\ status \in PastExtract => text
            /\ status \in PastSplit => clauses # {}
            /\ \A p \in Procs : /\ pc[p] \in TextStored => text
                                /\ pc[p] \in ClausesStored => clauses # {}

GateInv == /\ ReviewGate
           /\ \A p \in Procs :
                 /\ pc[p] = "res_set" => Covered
                 /\ requiresReview /\ pc[p] \in AfterGate => Covered

ListsClauses(entries) == \A c \in Clause : entries[c].finding # "none" <=> c \in clauses

ReportInv ==
    /\ status = "done" => Complete(summary) /\ Complete(report)
    /\ \A p \in Procs :
          /\ pc[p] \in {"sum_decisions", "sum_save", "sum_file", "sum_done"}
                => ListsClauses(view[p])
          /\ pc[p] \in {"sum_file", "sum_done"} => Complete(summary)
          /\ pc[p] = "sum_done" => Complete(report)

DecisionInv ==
    requiresReview \/ status = "none" =>
        /\ Decided(summary)
        /\ Decided(report)
        /\ \A p \in Procs :
              pc[p] \in {"sum_save", "sum_file", "sum_done"} => Decided(view[p])

IInv == TypeOK /\ ProcessInv /\ StageInv /\ GateInv /\ ReportInv /\ DecisionInv

(* What holds as long as commands run one at a time *)

\* What the report says of a clause is what the reviewer saw and decided,
\* although the findings are read again; and the file is the stored report.
ReportMatchesReview ==
    /\ \A c \in clauses :
          summary[c].decision # "none"
             => [decision |-> summary[c].decision, finding |-> summary[c].finding]
                   \in reviews[c]
    /\ status = "done" => report = summary

StatusOrder == [s \in Status |->
    CASE s = "none" -> 0 [] s = "uploaded" -> 1 [] s = "extracting" -> 2
      [] s = "extracted" -> 3 [] s = "analyzing_clauses" -> 4
      [] s = "clauses_extracted" -> 5 [] s = "analyzing" -> 6
      [] s = "analyzed" -> 7 [] s = "review_pending" -> 8
      [] s = "review_complete" -> 9 [] s = "summarizing" -> 10 [] s = "done" -> 11]

\* README's status flow has no arrow backwards: no command, first or repeated,
\* completed or cut short, takes the contract back to an earlier stage.
StatusForward == [][StatusOrder[status'] >= StatusOrder[status]]_vars

(* What the documentation promises and the code does not keep *)

\* README: "Priority Issues: every high-risk clause".  A clause with a stored
\* high-risk finding is listed with that finding.
HighRiskReported ==
    status = "done" => \A c \in clauses :
        "high" \in analyses[c] => summary[c].finding = "high"

AskingForReview == {c \in ProcessCommands :
    \E i \in DOMAIN Arguments(c) : Arguments(c)[i] = "--review"}

\* README.md:151, "process path/to/contract.pdf --review" and "pipeline pauses
\* after analysis": while a process that was called with --review runs, its
\* contract is not past the review with a clause that is not decided.
RequestedReviewHappens ==
    \A p \in Procs : cmd[p] \in AskingForReview /\ status \in Reviewed => Covered

-----------------------------------------------------------------------------
(* Progress.  A command that runs takes its next step, the reviewer answers,  *)
(* and a user who is not served runs each command again and again.            *)

FairSpec ==
    /\ Spec
    /\ \A p \in Procs : WF_vars(Step(p))
    /\ \A p \in Procs, c \in StageCommands : SF_vars(Start(p, c))

NoMoreAborts == <>[][\A p \in Procs : ~Abort(p)]_vars

\* From these statuses a contract moves on once commands stop dying: the
\* stages that can be run again after a failure.
Resumable == {"extracted", "clauses_extracted", "analyzing", "review_pending",
              "review_complete"}

ResumableStagesAdvance ==
    NoMoreAborts => \A s \in Resumable : status = s ~> status # s

\* README: "Crashes do not lose work", "a restarted run picks up from the last
\* completed step": once commands stop dying every contract gets its report.
EveryContractCompletes == NoMoreAborts => (status # "none" ~> status = "done")
=============================================================================
