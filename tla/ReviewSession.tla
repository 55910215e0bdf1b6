--------------------------- MODULE ReviewSession ---------------------------
(***************************************************************************)
(* RunReview with its input: a reviewer is asked about one clause after the *)
(* other and types lines, some of which are decisions, some notes and some  *)
(* neither.  The session ends when every clause has a decision; a signal or *)
(* a kill may end it before, and the next one goes on with the rest.        *)
(***************************************************************************)
EXTENDS Integers, Sequences, FiniteSets

CONSTANTS
    NumClauses,  \* the clauses of the contract, in status review_pending
    MaxLines,    \* bound: how many lines are typed before the input ends
    MaxSessions  \* bound: how often review is run

ASSUME SizesAssumption == NumClauses \in Nat /\ MaxLines \in Nat /\ MaxSessions \in Nat

Clause == 1..NumClauses

\* A line that ParseDecision, which trims it and ignores its case, takes for an
\* approval, a rejection or the wish to add a note; and any other.
Line == {"a", "r", "n", "other"}

\* The lines of a terminal or a pipe, up to the end of the input.
Input == UNION {[1..n -> Line] : n \in 0..MaxLines}

Decision == {"approved", "rejected"}
Decided == [a |-> "approved", r |-> "rejected"]

\* Review.Annotation: none, or the line that was typed for it.
Note == Line \cup {"none", "empty"}
Row == [clause : Clause, decision : Decision, note : Note]

VARIABLES
    rows,      \* the rows of reviews, in the order they were stored
    pc,        \* where RunReview is
    todo,      \* the clauses without a decision
    rest,      \* the lines that were not read yet
    decision,  \* the local variables of one turn of its loop
    note,
    cancelled, \* whether the context is done
    typed,     \* history: the input of this session
    before,    \* history: how many rows there were when it began
    sessions   \* history: how many sessions there were

local == <<todo, rest, decision, note>>
history == <<typed, before, sessions>>
vars == <<rows, pc, local, cancelled, history>>

Loading == {"check", "findings", "reviews"}
Asking == {"prompt", "note", "final", "save"}
Runs == pc \in Loading \cup Asking

TypeOK ==
    /\ rows \in Seq(Row)
    /\ pc \in {"idle", "aborted"} \cup Loading \cup Asking
    /\ todo \in SUBSET Clause
    /\ rest \in Seq(Line) /\ typed \in Seq(Line)
    /\ decision \in Decision \cup {"none"}
    /\ note \in Note
    /\ cancelled \in BOOLEAN
    /\ before \in 0..Len(rows)
    /\ sessions \in 0..MaxSessions

Init ==
    /\ rows = <<>>
    /\ pc = "idle"
    /\ todo = {}
    /\ rest = <<>> /\ typed = <<>>
    /\ decision = "none" /\ note = "none"
    /\ cancelled = FALSE
    /\ before = 0 /\ sessions = 0

-----------------------------------------------------------------------------
\* The process ends, with an error or without.
Leave(l) ==
    /\ pc' = l
    /\ todo' = {} /\ rest' = <<>> /\ decision' = "none" /\ note' = "none"
    /\ UNCHANGED <<rows, cancelled, history>>

Start ==
    /\ ~Runs /\ sessions < MaxSessions
    /\ pc' = "check"
    /\ typed' \in Input
    /\ rest' = typed'
    /\ before' = Len(rows)
    /\ sessions' = sessions + 1
    /\ cancelled' = FALSE
    /\ UNCHANGED <<rows, todo, decision, note>>

\* GetContract, GetClauses and GetAnalyses.
Load ==
    /\ ~cancelled
    /\ \/ pc = "check" /\ pc' = "findings"
       \/ pc = "findings" /\ pc' = "reviews"
    /\ UNCHANGED <<rows, local, cancelled, history>>

\* Mutant: the stored reviews are not looked at.
UnreviewedAll == Clause

Unreviewed == {c \in Clause : \A i \in DOMAIN rows : rows[i].clause # c}

LoadReviews ==
    /\ pc = "reviews" /\ ~cancelled
    /\ todo' = Unreviewed
    /\ pc' = "prompt"
    /\ UNCHANGED <<rows, rest, decision, note, cancelled, history>>

\* ReadString at the end of the input returns an error, which is dropped, and
\* no line.
Read(l) == rest # <<>> /\ l = Head(rest) /\ rest' = Tail(rest)

\* Anything but a, r and n is asked for again; so is, for ever, the nothing
\* that is read at the end of the input.
ReadDecision ==
    /\ pc = "prompt" /\ todo # {}
    /\ \E l \in Line :
          /\ Read(l)
          /\ \/ l \in {"a", "r"} /\ decision' = Decided[l] /\ pc' = "save"
             \/ l = "n" /\ pc' = "note" /\ UNCHANGED decision
             \/ l = "other" /\ UNCHANGED <<pc, decision>>
    /\ UNCHANGED <<rows, todo, note, cancelled, history>>

\* A note may be any line, one that looks like a decision included.
ReadNote ==
    /\ pc = "note"
    /\ \/ \E l \in Line : Read(l) /\ note' = l
       \/ rest = <<>> /\ note' = "empty" /\ UNCHANGED rest
    /\ pc' = "final"
    /\ UNCHANGED <<rows, todo, decision, cancelled, history>>

\* After a note there is no way back: only a and r are taken.
ReadFinal ==
    /\ pc = "final"
    /\ \E l \in Line :
          /\ Read(l)
          /\ \/ l \in {"a", "r"} /\ decision' = Decided[l] /\ pc' = "save"
             \/ l \notin {"a", "r"} /\ UNCHANGED <<pc, decision>>
    /\ UNCHANGED <<rows, todo, note, cancelled, history>>

\* Mutant: the note of a clause is kept for the next.
SaveKeepingNote ==
    /\ pc = "save" /\ ~cancelled
    /\ \E c \in todo :
          /\ \A d \in todo : c <= d
          /\ rows' = Append(rows, [clause |-> c, decision |-> decision, note |-> note])
          /\ todo' = todo \ {c}
    /\ pc' = "prompt"
    /\ decision' = "none"
    /\ UNCHANGED <<rest, note, cancelled, history>>

\* The row of the first clause without one; the next turn of the loop declares
\* its variables anew.
SaveReview ==
    /\ pc = "save" /\ ~cancelled
    /\ \E c \in todo :
          /\ \A d \in todo : c <= d
          /\ rows' = Append(rows, [clause |-> c, decision |-> decision, note |-> note])
          /\ todo' = todo \ {c}
    /\ pc' = "prompt"
    /\ decision' = "none" /\ note' = "none"
    /\ UNCHANGED <<rest, cancelled, history>>

Done == pc = "prompt" /\ todo = {} /\ Leave("idle")

\* Mutant: after an error of the store the clause is asked for again.
RefuseAgain ==
    /\ cancelled
    /\ \/ pc \in Loading /\ Leave("aborted")
       \/ /\ pc = "save" /\ pc' = "prompt"
          /\ decision' = "none" /\ note' = "none"
          /\ UNCHANGED <<rows, todo, rest, cancelled, history>>

\* With a context that is done the store refuses, and the decision is lost.
Refuse == cancelled /\ pc \in Loading \cup {"save"} /\ Leave("aborted")

\* A signal cancels the context and nothing else: no read looks at it.
Signal ==
    /\ Runs /\ ~cancelled
    /\ cancelled' = TRUE
    /\ UNCHANGED <<rows, pc, local, history>>

Kill == Runs /\ Leave("aborted")

Step == \/ Load \/ LoadReviews \/ ReadDecision \/ ReadNote \/ ReadFinal
        \/ SaveReview \/ Done \/ Refuse

Next == Start \/ Step \/ Signal \/ Kill

Spec == Init /\ [][Next]_vars

\* The process runs and the reviewer types the lines.
FairSpec == Spec /\ WF_vars(Step)
-----------------------------------------------------------------------------
(* What the reviewer may rely on *)

\* The lines of t, from line i on, that end a note with a decision.
Finals(t, i) == {j \in DOMAIN t : j >= i /\ t[j] \in {"a", "r"}}
First(S) == CHOOSE j \in S : \A k \in S : j <= k

\* What lines mean, from line i on: a decision, or a note with the first
\* decision after the line of the note.  Of a note without one nothing comes.
MeaningAt(t, from, i) ==
    IF i > Len(t) THEN <<>>
    ELSE IF t[i] \in {"a", "r"}
         THEN <<[decision |-> Decided[t[i]], note |-> "none"]>> \o from[i + 1]
    ELSE IF t[i] = "other" THEN from[i + 1]
    ELSE IF Finals(t, i + 2) = {} THEN <<>>
    ELSE LET j == First(Finals(t, i + 2))
         IN  <<[decision |-> Decided[t[j]], note |-> t[i + 1]]>> \o from[j + 1]

Meanings(t) == LET from[i \in 1..(Len(t) + 1)] == MeaningAt(t, from, i) IN from
Meaning(t) == Meanings(t)[1]

\* The decisions that this session has stored.
Stored == [i \in 1..(Len(rows) - before) |->
              [decision |-> rows[before + i].decision, note |-> rows[before + i].note]]

Consumed == SubSeq(typed, 1, Len(typed) - Len(rest))

\* Between two clauses the rows of the session are exactly what the lines so far
\* mean, each decision with its own note; a note that reads like a decision is
\* none, and no line is read twice or skipped.  A decision that is about to be
\* stored is the one the lines end with.
DecisionsAsTyped ==
    /\ pc = "prompt" => Stored = Meaning(Consumed)
    /\ pc = "save" => Append(Stored, [decision |-> decision, note |-> note]) = Meaning(Consumed)

\* README's diagram: clauses ||--o| reviews.  Over all sessions the decisions
\* are those of the first clauses, in order: none twice and none left out.
InOrderOnce == \A i \in DOMAIN rows : rows[i].clause = i

\* Nothing but the end of the input keeps a session waiting, also after a
\* signal: with decisions enough for its clauses it comes to an end.
SessionEnds ==
    (pc = "prompt" /\ Len(Meaning(rest)) >= Cardinality(todo)) ~> ~Runs

\* The review stage of the module Pipeline, for one process: reading lines is
\* no step of it, a decision that is stored is one of SaveReview.
Blank == [c \in Clause |-> [finding |-> "none", decision |-> "none"]]
AllHigh == [c \in Clause |-> [finding |-> "high", decision |-> "none"]]

Stage == [check |-> "rev_check", findings |-> "rev_findings", reviews |-> "rev_reviews",
          prompt |-> "rev_loop", note |-> "rev_loop", final |-> "rev_loop",
          save |-> "rev_loop"]

Label == IF Runs THEN Stage[pc] ELSE pc
Command == IF Runs THEN "review" ELSE "none"
Held == IF pc \in {"reviews"} \cup Asking THEN AllHigh ELSE Blank
RowsOf(c) == {i \in DOMAIN rows : rows[i].clause = c}
Reviews == [c \in Clause |->
    {[decision |-> rows[i].decision, finding |-> "high"] : i \in RowsOf(c)}]

Pipe == INSTANCE Pipeline WITH
    Procs <- {"review"},
    Commands <- {"review"},
    MaxClauses <- NumClauses,
    Risks <- {"high"},
    Faults <- {"abort"},
    status <- "review_pending",
    requiresReview <- TRUE,
    text <- TRUE,
    clauses <- Clause,
    analyses <- [c \in Clause |-> {"high"}],
    reviews <- Reviews,
    summary <- Blank,
    report <- Blank,
    pc <- [p \in {"review"} |-> Label],
    cmd <- [p \in {"review"} |-> Command],
    todo <- [p \in {"review"} |-> todo],
    view <- [p \in {"review"} |-> Held]

ImplementsReview == [][Pipe!Next]_(Pipe!vars)
=============================================================================
