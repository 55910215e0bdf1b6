------------------------ MODULE ReviewSessionProofs ------------------------
(***************************************************************************)
(* Proofs about ReviewSession: however often the review is interrupted and  *)
(* run again, and whatever is typed, clauses are decided in their order,    *)
(* none twice and none left out; a session is the review command of the     *)
(* module Pipeline; and what it stores is what was typed.                   *)
(***************************************************************************)
EXTENDS ReviewSession, SequenceTheorems, WellFoundedInduction, TLAPS

\* At "save" there is a decision to be stored.
Prepared == pc = "save" => decision \in Decision

\* The rows are those of the first clauses, and a session that has read them
\* asks for the others: it was the only one since.
Ahead ==
    /\ Len(rows) <= NumClauses
    /\ pc \in Asking => todo = (Len(rows) + 1)..NumClauses

SessionInv == TypeOK /\ Prepared /\ InOrderOnce /\ Ahead

-----------------------------------------------------------------------------
\* The end of a process, by Done, Refuse or Kill, leaves the rows alone.
LEMMA LeavePreserves ==
    ASSUME NEW l \in {"idle", "aborted"}, SessionInv, Leave(l)
    PROVE  SessionInv'
<1>1. /\ UNCHANGED <<rows, cancelled, typed, before, sessions>>
      /\ pc' = l /\ todo' = {} /\ rest' = <<>> /\ decision' = "none" /\ note' = "none"
      /\ pc' \notin Asking /\ pc' # "save"
  BY DEF Leave, history, Asking
<1>2. TypeOK'
  <2>1. rest' \in Seq(Line) /\ note' \in Note /\ decision' \in Decision \cup {"none"}
    BY <1>1 DEF Note
  <2> QED
    BY <1>1, <2>1 DEF SessionInv, TypeOK
<1> QED
  BY <1>1, <1>2 DEF SessionInv, Prepared, InOrderOnce, Ahead

\* The lines of an input are a sequence, and stay one when the first is read.
LEMMA InputLines ==
    ASSUME NEW t \in Input
    PROVE  t \in Seq(Line)
  BY SizesAssumption DEF Input

LEMMA StartPreserves ==
    ASSUME SessionInv, Start
    PROVE  SessionInv'
<1>1. typed' \in Seq(Line) /\ rest' = typed'
  BY InputLines DEF Start
<1>2. TypeOK'
  <2>1. pc' = "check" /\ UNCHANGED <<rows, todo, decision, note>> /\ cancelled' = FALSE
    BY DEF Start
  <2>2. sessions' \in 0..MaxSessions
    BY SizesAssumption DEF SessionInv, TypeOK, Start
  <2>3. before' \in 0..Len(rows')
    <3>1. Len(rows) \in Nat
      BY DEF SessionInv, TypeOK
    <3> QED
      BY <2>1, <3>1 DEF Start
  <2> QED
    BY <1>1, <2>1, <2>2, <2>3 DEF SessionInv, TypeOK, Loading
<1>3. (Prepared /\ InOrderOnce /\ Ahead)'
  BY DEF SessionInv, Prepared, InOrderOnce, Ahead, Start, Loading, Asking
<1> QED
  BY <1>2, <1>3 DEF SessionInv

LEMMA LoadPreserves ==
    ASSUME SessionInv, Load
    PROVE  SessionInv'
  BY DEF SessionInv, TypeOK, Prepared, InOrderOnce, Ahead, Load, local, history, Loading, Asking

\* What is left to ask for are the clauses behind the rows.
LEMMA LoadReviewsPreserves ==
    ASSUME SessionInv, LoadReviews
    PROVE  SessionInv'
<1>1. Unreviewed = (Len(rows) + 1)..NumClauses
  <2>1. /\ rows \in Seq(Row)
        /\ DOMAIN rows = 1..Len(rows)
        /\ Len(rows) \in Nat
        /\ \A i \in DOMAIN rows : rows[i].clause = i
    BY DEF SessionInv, TypeOK, InOrderOnce
  <2> QED
    BY <2>1, SizesAssumption DEF Unreviewed, Clause
<1>2. TypeOK'
  BY <1>1, SizesAssumption DEF SessionInv, TypeOK, LoadReviews, history, Loading, Asking, Clause
<1>3. (Prepared /\ InOrderOnce /\ Ahead)'
  BY <1>1 DEF SessionInv, Prepared, InOrderOnce, Ahead, LoadReviews, Asking
<1> QED
  BY <1>2, <1>3 DEF SessionInv

\* A line is read: nothing but the place in the loop and its variables changes.
LEMMA ReadPreserves ==
    ASSUME SessionInv, ReadDecision \/ ReadNote \/ ReadFinal
    PROVE  SessionInv'
<1>1. rest' \in Seq(Line)
  <2>1. rest \in Seq(Line)
    BY DEF SessionInv, TypeOK
  <2>2. (rest # <<>> /\ rest' = Tail(rest)) \/ rest' = rest
    BY DEF ReadDecision, ReadNote, ReadFinal, Read
  <2> QED
    BY <2>1, <2>2
<1>2. /\ UNCHANGED <<rows, todo, cancelled, typed, before, sessions>>
      /\ pc \in Asking /\ pc' \in Asking
  BY DEF ReadDecision, ReadNote, ReadFinal, Read, history, Asking
<1>3. /\ decision' \in Decision \cup {"none"}
      /\ note' \in Note
      /\ pc' = "save" => decision' \in Decision
  <2>1. CASE ReadDecision
    BY <2>1 DEF SessionInv, TypeOK, Prepared, ReadDecision, Decided, Decision, Note
  <2>2. CASE ReadNote
    BY <2>2 DEF SessionInv, TypeOK, ReadNote, Note
  <2>3. CASE ReadFinal
    BY <2>3 DEF SessionInv, TypeOK, Prepared, ReadFinal, Decided, Decision, Note
  <2> QED
    BY <2>1, <2>2, <2>3
<1>4. TypeOK'
  BY <1>1, <1>2, <1>3 DEF SessionInv, TypeOK
<1> QED
  BY <1>2, <1>3, <1>4 DEF SessionInv, Prepared, InOrderOnce, Ahead

\* The row that is stored is that of the first clause without one, which is the
\* one behind the last row.
LEMMA SavePreserves ==
    ASSUME SessionInv, SaveReview
    PROVE  SessionInv'
<1>1. PICK c \in todo :
        /\ \A d \in todo : c <= d
        /\ rows' = Append(rows, [clause |-> c, decision |-> decision, note |-> note])
        /\ todo' = todo \ {c}
  BY DEF SaveReview
<1>2. todo = (Len(rows) + 1)..NumClauses /\ Len(rows) \in Nat
  BY DEF SessionInv, TypeOK, Ahead, SaveReview, Asking
<1>3. c = Len(rows) + 1 /\ c \in Clause
  BY <1>1, <1>2, SizesAssumption DEF Clause
<1> DEFINE r == [clause |-> c, decision |-> decision, note |-> note]
<1>4. r \in Row
  BY <1>3 DEF SessionInv, TypeOK, Prepared, SaveReview, Row
<1>5. /\ rows' \in Seq(Row)
      /\ Len(rows') = Len(rows) + 1
      /\ \A i \in 1..Len(rows) : rows'[i] = rows[i]
      /\ rows'[Len(rows) + 1] = r
  BY <1>1, <1>4 DEF SessionInv, TypeOK
<1>6. InOrderOnce'
  <2> SUFFICES ASSUME NEW i \in 1..(Len(rows) + 1)
               PROVE  rows'[i].clause = i
    BY <1>5 DEF InOrderOnce
  <2>1. CASE i = Len(rows) + 1
    BY <2>1, <1>3, <1>5
  <2>2. CASE i # Len(rows) + 1
    <3>1. i \in 1..Len(rows)
      BY <2>2, <1>2
    <3> QED
      BY <3>1, <1>5 DEF SessionInv, TypeOK, InOrderOnce
  <2> QED
    BY <2>1, <2>2
<1>7. todo' = (Len(rows') + 1)..NumClauses /\ Len(rows') <= NumClauses
  BY <1>1, <1>2, <1>3, <1>5, SizesAssumption DEF Clause
<1>8. TypeOK'
  <2>1. todo' \in SUBSET Clause
    BY <1>1 DEF SessionInv, TypeOK
  <2>2. before' \in 0..Len(rows')
    BY <1>2, <1>5 DEF SessionInv, TypeOK, SaveReview, history
  <2>3. pc' \in Asking /\ UNCHANGED <<rest, typed, cancelled, sessions>>
    BY DEF SaveReview, Asking, history
  <2>4. decision' \in Decision \cup {"none"} /\ note' \in Note
    BY DEF SaveReview, Note
  <2> QED
    BY <1>5, <2>1, <2>2, <2>3, <2>4 DEF SessionInv, TypeOK
<1>9. Prepared'
  BY DEF Prepared, SaveReview
<1> QED
  BY <1>6, <1>7, <1>8, <1>9 DEF SessionInv, Ahead

-----------------------------------------------------------------------------
LEMMA InitHolds == Init => SessionInv
<1> SUFFICES ASSUME Init
             PROVE  SessionInv
  OBVIOUS
<1>1. TypeOK
  <2>1. rows \in Seq(Row) /\ rest \in Seq(Line) /\ typed \in Seq(Line) /\ Len(rows) = 0
    BY DEF Init
  <2>2. note \in Note
    BY DEF Init, Note
  <2>3. before \in 0..Len(rows) /\ sessions \in 0..MaxSessions
    BY <2>1, SizesAssumption DEF Init
  <2>4. /\ pc = "idle" /\ todo \in SUBSET Clause
        /\ decision = "none" /\ cancelled \in BOOLEAN
    BY DEF Init
  <2> QED
    BY <2>1, <2>2, <2>3, <2>4 DEF TypeOK
<1>2. Prepared /\ InOrderOnce /\ Ahead
  BY SizesAssumption DEF Init, Prepared, InOrderOnce, Ahead, Asking
<1> QED
  BY <1>1, <1>2 DEF SessionInv

LEMMA StepHolds == SessionInv /\ [Next]_vars => SessionInv'
<1> SUFFICES ASSUME SessionInv, [Next]_vars
             PROVE  SessionInv'
  OBVIOUS
<1>1. CASE Start
  BY <1>1, StartPreserves
<1>2. CASE Load
  BY <1>2, LoadPreserves
<1>3. CASE LoadReviews
  BY <1>3, LoadReviewsPreserves
<1>4. CASE ReadDecision \/ ReadNote \/ ReadFinal
  BY <1>4, ReadPreserves
<1>5. CASE SaveReview
  BY <1>5, SavePreserves
<1>6. CASE Done \/ Refuse \/ Kill
  BY <1>6, LeavePreserves DEF Done, Refuse, Kill
<1>7. CASE Signal
  BY <1>7 DEF SessionInv, TypeOK, Prepared, InOrderOnce, Ahead, Signal, local, history
<1>8. CASE UNCHANGED vars
  BY <1>8 DEF SessionInv, TypeOK, Prepared, InOrderOnce, Ahead, vars, local, history
<1> QED
  BY <1>1, <1>2, <1>3, <1>4, <1>5, <1>6, <1>7, <1>8 DEF Next, Step

\* Lines, rows and the labels of the loop keep their types, for any number of
\* clauses, lines and sessions.
THEOREM TypeCorrect == Spec => []TypeOK
<1>1. SessionInv => TypeOK
  BY DEF SessionInv
<1> QED
  BY <1>1, InitHolds, StepHolds, PTL DEF Spec

\* RunReview decides the clauses in order, none twice and none left out, however
\* many sessions are signalled or killed and whatever is typed.
THEOREM DecidedInOrder == Spec => []InOrderOnce
<1>1. SessionInv => InOrderOnce
  BY DEF SessionInv
<1> QED
  BY <1>1, InitHolds, StepHolds, PTL DEF Spec
-----------------------------------------------------------------------------
(* A session is a review stage of the pipeline: reading lines stutters *)

\* A step of the process whose command is the review, seen in the pipeline.
LEMMA PipeStep ==
    ASSUME Pipe!Invoke("review", "review") \/ Pipe!ReviewClauses("review") \/ Pipe!Abort("review")
    PROVE  Pipe!Next
<1>1. CASE Pipe!Invoke("review", "review")
  BY <1>1 DEF Pipe!Next, Pipe!Start
<1>2. CASE Pipe!ReviewClauses("review")
  BY <1>2 DEF Pipe!Next, Pipe!Step
<1>3. CASE Pipe!Abort("review")
  BY <1>3 DEF Pipe!Next
<1> QED
  BY <1>1, <1>2, <1>3

\* What the pipeline sees of a process at each label.
LEMMA SeenIdle ==
    ASSUME SessionInv, ~Runs
    PROVE  Label \in {"idle", "aborted"} /\ Command = "none" /\ Held = Blank
<1>1. pc \in {"idle", "aborted"}
  BY DEF SessionInv, TypeOK, Runs
<1> QED
  BY <1>1 DEF Runs, Label, Command, Held, Asking

LEMMA SeenLoading ==
    ASSUME pc \in Loading
    PROVE  /\ Runs
           /\ Label = Stage[pc]
           /\ Command = "review"
           /\ pc \in {"check", "findings"} => Held = Blank
           /\ pc = "reviews" => Held = AllHigh
  BY DEF Runs, Loading, Label, Command, Held, Asking

LEMMA SeenAsking ==
    ASSUME pc \in Asking
    PROVE  Runs /\ Label = "rev_loop" /\ Command = "review" /\ Held = AllHigh
<1>1. Stage[pc] = "rev_loop"
  BY DEF Asking, Stage
<1> QED
  BY <1>1 DEF Runs, Label, Command, Held

\* The pipeline's variables are functions of the one process.
LEMMA OneProcess ==
    ASSUME NEW a, NEW b
    PROVE  [[p \in {"review"} |-> a] EXCEPT !["review"] = b] = [p \in {"review"} |-> b]
  OBVIOUS

LEMMA StartImplements ==
    ASSUME SessionInv, Start
    PROVE  Pipe!Invoke("review", "review")
<1>1. ~Runs /\ pc' = "check" /\ UNCHANGED <<rows, todo>>
  BY DEF Start
<1>2. Label \in {"idle", "aborted"} /\ Command = "none" /\ Held = Blank
  BY <1>1, SeenIdle
<1>3. Label' = "rev_check" /\ Command' = "review" /\ Held' = Blank
  BY <1>1 DEF Label, Command, Held, Runs, Loading, Asking, Stage, Blank, Clause
<1>4. Pipe!FirstLabel("review") = "rev_check"
  BY DEF Pipe!FirstLabel
<1>5. Reviews' = Reviews /\ Blank' = Blank
  BY <1>1 DEF Reviews, RowsOf, Blank
<1>6. UNCHANGED Pipe!data
  BY <1>5 DEF Pipe!data
<1> QED
  BY <1>1, <1>2, <1>3, <1>4, <1>6, OneProcess DEF Pipe!Invoke, Pipe!StageCommands, Pipe!Free

\* The process ends with an error or a kill, and what it kept is gone.
LEMMA LeaveImplements ==
    ASSUME SessionInv, Runs, NEW l \in {"idle", "aborted"}, Leave(l)
    PROVE  Pipe!Leave("review", l) /\ Pipe!Read
<1>1. pc' = l /\ todo' = {} /\ UNCHANGED rows
  BY DEF Leave
<1>2. Label' = l /\ Command' = "none" /\ Held' = Blank
  BY <1>1 DEF Label, Command, Held, Runs, Loading, Asking
<1>3. Reviews' = Reviews
  BY <1>1 DEF Reviews, RowsOf
<1>4. Pipe!Read
  BY <1>3 DEF Pipe!Read, Pipe!data
<1> QED
  BY <1>1, <1>2, <1>4, OneProcess DEF Pipe!Leave, Pipe!Blank, Blank, Pipe!Clause, Clause, Pipe!NoEntry

LEMMA AbortImplements ==
    ASSUME SessionInv, Runs, Leave("aborted")
    PROVE  Pipe!Abort("review")
<1>1. Label \notin {"idle", "aborted"}
  BY SeenLoading, SeenAsking DEF Runs, Loading, Stage
<1> QED
  BY <1>1, LeaveImplements DEF Pipe!Abort, Pipe!Free

LEMMA DoneImplements ==
    ASSUME SessionInv, Done
    PROVE  Pipe!ReviewDone("review")
<1>1. pc \in Asking /\ todo = {} /\ Leave("idle")
  BY DEF Done, Asking
<1>2. Label = "rev_loop" /\ Runs
  BY <1>1, SeenAsking
<1>3. Pipe!Leave("review", "idle") /\ Pipe!Read
  BY <1>1, <1>2, LeaveImplements
<1> QED
  BY <1>1, <1>2, <1>3 DEF Pipe!ReviewDone, Pipe!At, Pipe!Exit

\* GetContract sees a contract that waits for its review; GetAnalyses sees the
\* findings, which are all the same.
LEMMA LoadImplements ==
    ASSUME SessionInv, Load
    PROVE  Pipe!ReviewCheck("review") \/ Pipe!ReviewFindings("review")
<1>1. UNCHANGED <<rows, todo>>
  BY DEF Load, local
<1>2. Pipe!Read
  <2>1. Reviews' = Reviews
    BY <1>1 DEF Reviews, RowsOf
  <2> QED
    BY <2>1 DEF Pipe!Read, Pipe!data
<1>3. CASE pc = "check" /\ pc' = "findings"
  <2>1. Label = "rev_check" /\ Label' = "rev_findings"
    BY <1>3 DEF Label, Runs, Loading, Stage
  <2>2. UNCHANGED <<Command, Held, todo>>
    BY <1>1, <1>3 DEF Command, Held, Runs, Loading, Asking
  <2>3. Pipe!Goto("review", "rev_findings")
    BY <2>1, <2>2, OneProcess DEF Pipe!Goto, Pipe!locals
  <2> QED
    BY <1>2, <2>1, <2>3 DEF Pipe!ReviewCheck, Pipe!At
<1>4. CASE pc = "findings" /\ pc' = "reviews"
  <2>1. Label = "rev_findings" /\ Label' = "rev_reviews"
    BY <1>4 DEF Label, Runs, Loading, Stage
  <2>2. Held' = AllHigh /\ UNCHANGED <<Command, todo>>
    BY <1>1, <1>4 DEF Command, Held, Runs, Loading
  <2> DEFINE f == [c \in Clause |-> "high"]
  <2>3. f \in [Clause -> Pipe!Finding] /\ \A c \in Clause : f[c] \in Pipe!Shown(c)
    BY DEF Pipe!Finding, Pipe!Shown
  <2>4. AllHigh = [c \in Pipe!Clause |-> IF c \in Clause
                      THEN [finding |-> f[c], decision |-> "none"] ELSE Pipe!NoEntry]
    BY DEF AllHigh, Pipe!Clause, Clause
  <2>5. Pipe!ReadFindings("review", "rev_reviews")
    BY <1>2, <2>1, <2>2, <2>3, <2>4, OneProcess DEF Pipe!ReadFindings
  <2> QED
    BY <2>1, <2>5 DEF Pipe!ReviewFindings, Pipe!At
<1> QED
  BY <1>3, <1>4 DEF Load

\* GetReviews: a clause is asked for if it has no row.
LEMMA LoadReviewsImplements ==
    ASSUME SessionInv, LoadReviews
    PROVE  Pipe!ReviewReviews("review")
<1>1. pc = "reviews" /\ pc' = "prompt" /\ todo' = Unreviewed /\ UNCHANGED rows
  BY DEF LoadReviews
<1>2. Label = "rev_reviews" /\ Label' = "rev_loop"
  BY <1>1 DEF Label, Runs, Loading, Asking, Stage
<1>3. UNCHANGED <<Command, Held>>
  BY <1>1 DEF Command, Held, Runs, Loading, Asking
<1>4. Reviews' = Reviews
  BY <1>1 DEF Reviews, RowsOf
<1>5. Unreviewed = Pipe!Unreviewed
  <2>1. ASSUME NEW c \in Clause
        PROVE  Reviews[c] = {} <=> \A i \in DOMAIN rows : rows[i].clause # c
    <3>1. Reviews[c] = {[decision |-> rows[i].decision, finding |-> "high"] : i \in RowsOf(c)}
      BY DEF Reviews
    <3>2. Reviews[c] = {} <=> RowsOf(c) = {}
      BY <3>1
    <3> QED
      BY <3>2 DEF RowsOf
  <2> QED
    BY <2>1 DEF Unreviewed, Pipe!Unreviewed
<1> QED
  BY <1>1, <1>2, <1>3, <1>4, <1>5, OneProcess
     DEF Pipe!ReviewReviews, Pipe!At, Pipe!Read, Pipe!data

\* The row that is appended is the review that the pipeline adds to its clause.
LEMMA SaveImplements ==
    ASSUME SessionInv, SaveReview
    PROVE  Pipe!SaveReview("review")
<1>1. PICK c \in todo :
        /\ \A d \in todo : c <= d
        /\ rows' = Append(rows, [clause |-> c, decision |-> decision, note |-> note])
        /\ todo' = todo \ {c}
  BY DEF SaveReview
<1> DEFINE r == [clause |-> c, decision |-> decision, note |-> note]
           new == [decision |-> decision, finding |-> "high"]
<1>2. c \in Clause /\ decision \in Decision /\ rows \in Seq(Row) /\ r \in Row
  BY <1>1 DEF SessionInv, TypeOK, Prepared, SaveReview, Row
<1>3. pc \in Asking /\ pc' \in Asking
  BY DEF SaveReview, Asking
<1>4. Label = "rev_loop" /\ UNCHANGED <<Label, Command, Held>> /\ Held = AllHigh
  <2>1. Label = "rev_loop" /\ Command = "review" /\ Held = AllHigh
    BY <1>3, SeenAsking
  <2>2. Label' = "rev_loop" /\ Command' = "review" /\ Held' = AllHigh'
    BY <1>3 DEF Label, Command, Held, Runs, Asking, Stage
  <2> QED
    BY <2>1, <2>2 DEF AllHigh
<1>5. /\ DOMAIN rows = 1..Len(rows) /\ Len(rows) \in Nat
      /\ DOMAIN rows' = 1..(Len(rows) + 1)
      /\ \A i \in DOMAIN rows : rows'[i] = rows[i]
      /\ rows'[Len(rows) + 1] = r
  BY <1>1, <1>2
<1>6. ASSUME NEW d \in Clause
      PROVE  Reviews'[d] = IF d = c THEN Reviews[d] \cup {new} ELSE Reviews[d]
  <2>1. CASE d = c
    <3>1. RowsOf(d)' = RowsOf(d) \cup {Len(rows) + 1}
      BY <1>5, <2>1 DEF RowsOf
    <3>2. \A i \in RowsOf(d) : rows'[i] = rows[i]
      BY <1>5 DEF RowsOf
    <3> QED
      BY <1>5, <2>1, <3>1, <3>2 DEF Reviews
  <2>2. CASE d # c
    <3>1. RowsOf(d)' = RowsOf(d)
      BY <1>5, <2>2 DEF RowsOf
    <3>2. \A i \in RowsOf(d) : rows'[i] = rows[i]
      BY <1>5 DEF RowsOf
    <3> QED
      BY <2>2, <3>1, <3>2 DEF Reviews
  <2> QED
    BY <2>1, <2>2
<1>7. Reviews' = [Reviews EXCEPT ![c] = @ \cup {new}]
  <2>1. DOMAIN Reviews = Clause /\ DOMAIN Reviews' = Clause
        /\ Reviews' = [d \in Clause |-> Reviews'[d]]
    BY DEF Reviews, Clause
  <2> QED
    BY <1>6, <2>1
<1>8. AllHigh[c].finding = "high"
  BY <1>2 DEF AllHigh
<1>9. decision \in Pipe!Decision
  BY <1>2 DEF Decision, Pipe!Decision
<1> QED
  BY <1>1, <1>4, <1>7, <1>8, <1>9, OneProcess DEF Pipe!SaveReview, Pipe!At

\* Reading a line and being signalled is no step of the pipeline.
LEMMA ReadStutters ==
    ASSUME SessionInv, ReadDecision \/ ReadNote \/ ReadFinal \/ Signal \/ UNCHANGED vars
    PROVE  UNCHANGED Pipe!vars
<1>1. UNCHANGED <<rows, todo>>
  BY DEF ReadDecision, ReadNote, ReadFinal, Signal, vars, local
<1>2. (pc \in Asking /\ pc' \in Asking) \/ UNCHANGED pc
  BY DEF ReadDecision, ReadNote, ReadFinal, Signal, vars, Asking
<1>3. UNCHANGED <<Label, Command, Held>>
  BY <1>2 DEF Label, Command, Held, Runs, Asking, Stage, AllHigh, Blank
<1>4. Reviews' = Reviews
  BY <1>1 DEF Reviews, RowsOf
<1> QED
  BY <1>1, <1>3, <1>4 DEF Pipe!vars, Pipe!data, Pipe!locals

LEMMA NextImplements == SessionInv /\ [Next]_vars => [Pipe!Next]_(Pipe!vars)
<1> SUFFICES ASSUME SessionInv, [Next]_vars
             PROVE  [Pipe!Next]_(Pipe!vars)
  OBVIOUS
<1>1. CASE Start
  <2>1. Pipe!Invoke("review", "review")
    BY <1>1, StartImplements
  <2> QED
    BY <2>1, PipeStep
<1>2. CASE Load
  BY <1>2, LoadImplements, PipeStep DEF Pipe!ReviewClauses
<1>3. CASE LoadReviews
  BY <1>3, LoadReviewsImplements, PipeStep DEF Pipe!ReviewClauses
<1>4. CASE SaveReview
  BY <1>4, SaveImplements, PipeStep DEF Pipe!ReviewClauses
<1>5. CASE Done
  BY <1>5, DoneImplements, PipeStep DEF Pipe!ReviewClauses
<1>6. CASE Refuse \/ Kill
  <2>1. Runs /\ Leave("aborted")
    BY <1>6 DEF Refuse, Kill, Runs, Loading, Asking
  <2> QED
    BY <2>1, AbortImplements, PipeStep
<1>7. CASE ReadDecision \/ ReadNote \/ ReadFinal \/ Signal \/ UNCHANGED vars
  BY <1>7, ReadStutters
<1> QED
  BY <1>1, <1>2, <1>3, <1>4, <1>5, <1>6, <1>7 DEF Next, Step

\* A session of the reviewer is the review command of the pipeline: whatever is
\* typed, signalled or killed, each of its steps is one of that command, or
\* reads a line and changes nothing the pipeline knows.
THEOREM SessionIsReview == Spec => ImplementsReview
  BY InitHolds, StepHolds, NextImplements, PTL DEF Spec, ImplementsReview

-----------------------------------------------------------------------------
(* What lines mean *)

Verdict == [decision : Decision, note : Note]

Less == {ss \in Nat \X Nat : ss[1] < ss[2]}

\* Induction: of natural numbers that are not as claimed there is a least one.
LEMMA Least ==
    ASSUME NEW S, S \subseteq Nat, S # {}
    PROVE  \E x \in S : \A y \in S : x <= y
<1>1. IsWellFoundedOn(Less, Nat)
  BY NatLessThanWellFounded DEF OpToRel, Less
<1>2. PICK x \in S : \A y \in S : ~(<<y, x>> \in Less)
  BY <1>1, WFMin
<1>3. ASSUME NEW y \in S PROVE x <= y
  <2>1. x \in Nat /\ y \in Nat
    OBVIOUS
  <2>2. ~(<<y, x>> \in Less)
    BY <1>2
  <2>3. ~(y < x)
    BY <2>1, <2>2 DEF Less
  <2> QED
    BY <2>1, <2>3
<1> QED
  BY <1>3

\* The least element of a set of indices is in it.
LEMMA FirstIsLeast ==
    ASSUME NEW S, S \subseteq Nat, S # {}
    PROVE  First(S) \in S /\ \A k \in S : First(S) <= k
  BY Least DEF First

\* The lines that end a note are behind it and within the input.
LEMMA FinalsBehind ==
    ASSUME NEW t \in Seq(Line), NEW i \in Nat, Finals(t, i) # {}
    PROVE  /\ First(Finals(t, i)) \in i..Len(t)
           /\ t[First(Finals(t, i))] \in {"a", "r"}
           /\ \A k \in Finals(t, i) : First(Finals(t, i)) <= k
<1>1. Finals(t, i) \subseteq Nat /\ \A j \in Finals(t, i) : j \in i..Len(t) /\ t[j] \in {"a", "r"}
  BY DEF Finals
<1> QED
  BY <1>1, FirstIsLeast

\* What a line means depends on what the lines behind it do.
LEMMA MeaningAtLocal ==
    ASSUME NEW t \in Seq(Line), NEW i \in 1..(Len(t) + 1), NEW f, NEW g,
           \A j \in (i + 1)..(Len(t) + 1) : f[j] = g[j]
    PROVE  MeaningAt(t, f, i) = MeaningAt(t, g, i)
<1>1. CASE i > Len(t)
  BY <1>1 DEF MeaningAt
<1>2. CASE ~(i > Len(t))
  <2>1. i + 1 \in (i + 1)..(Len(t) + 1) /\ i + 2 \in Nat
    BY <1>2
  <2>2. f[i + 1] = g[i + 1]
    BY <2>1
  <2>3. Finals(t, i + 2) # {} => First(Finals(t, i + 2)) + 1 \in (i + 1)..(Len(t) + 1)
    BY <2>1, FinalsBehind
  <2>4. Finals(t, i + 2) # {} => f[First(Finals(t, i + 2)) + 1] = g[First(Finals(t, i + 2)) + 1]
    BY <2>3
  <2> QED
    BY <1>2, <2>2, <2>4 DEF MeaningAt
<1> QED
  BY <1>1, <1>2

\* The recursion of Meanings, carried out for the last k of its indices.
Partial(t, g, k) ==
    g = [i \in 1..(Len(t) + 1) |-> IF i > Len(t) + 1 - k THEN MeaningAt(t, g, i) ELSE <<>>]

LEMMA PartialNext ==
    ASSUME NEW t \in Seq(Line), NEW k \in 0..Len(t), NEW g, Partial(t, g, k)
    PROVE  \E h : Partial(t, h, k + 1)
<1> DEFINE n == Len(t) + 1
           h == [g EXCEPT ![n - k] = MeaningAt(t, g, n - k)]
<1>1. n \in Nat /\ n - k \in 1..n
  OBVIOUS
<1>2. DOMAIN g = 1..n /\ g = [i \in 1..n |-> g[i]]
  BY DEF Partial
<1>3. DOMAIN h = 1..n /\ h = [i \in 1..n |-> h[i]]
  BY <1>2
<1>4. h[n - k] = MeaningAt(t, g, n - k) /\ \A j \in 1..n : j # n - k => h[j] = g[j]
  BY <1>1, <1>2
<1> HIDE DEF h
<1>5. ASSUME NEW i \in 1..n, i >= n - k PROVE MeaningAt(t, h, i) = MeaningAt(t, g, i)
  <2>1. \A j \in (i + 1)..n : h[j] = g[j]
    BY <1>1, <1>4, <1>5
  <2> QED
    BY <2>1, MeaningAtLocal
<1>6. ASSUME NEW i \in 1..n
      PROVE  h[i] = IF i > n - (k + 1) THEN MeaningAt(t, h, i) ELSE <<>>
  <2>1. g[i] = IF i > n - k THEN MeaningAt(t, g, i) ELSE <<>>
    BY DEF Partial
  <2>2. CASE i = n - k
    BY <1>1, <1>4, <1>5, <2>2
  <2>3. CASE i > n - k
    BY <1>1, <1>4, <1>5, <2>1, <2>3
  <2>4. CASE i < n - k
    BY <1>1, <1>4, <2>1, <2>4
  <2> QED
    BY <1>1, <2>2, <2>3, <2>4
<1>7. h = [i \in 1..n |-> IF i > n - (k + 1) THEN MeaningAt(t, h, i) ELSE <<>>]
  BY <1>3, <1>6
<1>8. Partial(t, h, k + 1)
  BY <1>7 DEF Partial
<1> QED
  BY <1>8

LEMMA PartialExists ==
    ASSUME NEW t \in Seq(Line), NEW k \in 0..(Len(t) + 1)
    PROVE  \E g : Partial(t, g, k)
<1> DEFINE Bad == {l \in 0..(Len(t) + 1) : ~ \E g : Partial(t, g, l)}
<1>1. 0 \notin Bad
  <2> DEFINE g == [i \in 1..(Len(t) + 1) |-> <<>>]
  <2>1. Partial(t, g, 0)
    BY DEF Partial
  <2> QED
    BY <2>1
<1>2. ASSUME Bad # {} PROVE FALSE
  <2>0. Bad \subseteq 0..(Len(t) + 1) /\ Bad \subseteq Nat
    OBVIOUS
  <2>b. \A l \in 0..(Len(t) + 1) : l \in Bad <=> ~ \E g : Partial(t, g, l)
    OBVIOUS
  <2> HIDE DEF Bad
  <2>1. PICK l \in Bad : \A m \in Bad : l <= m
    BY <1>2, <2>0, Least
  <2>2. l # 0 /\ l \in 0..(Len(t) + 1)
    BY <1>1, <2>0
  <2>3. l - 1 \in 0..Len(t) /\ ~(l <= l - 1)
    BY <2>2
  <2>4. \E g : Partial(t, g, l - 1)
    BY <2>1, <2>3, <2>b
  <2>5. \E h : Partial(t, h, (l - 1) + 1)
    BY <2>3, <2>4, PartialNext
  <2>6. (l - 1) + 1 = l
    BY <2>2
  <2> QED
    BY <2>0, <2>1, <2>5, <2>6, <2>b
<1> QED
  BY <1>2

\* Meanings is what its recursive definition says.
LEMMA MeaningsDef ==
    ASSUME NEW t \in Seq(Line)
    PROVE  Meanings(t) = [i \in 1..(Len(t) + 1) |-> MeaningAt(t, Meanings(t), i)]
<1>1. PICK g : Partial(t, g, Len(t) + 1)
  BY PartialExists
<1>2. \A i \in 1..(Len(t) + 1) : i > Len(t) + 1 - (Len(t) + 1)
  OBVIOUS
<1>3. g = [i \in 1..(Len(t) + 1) |-> MeaningAt(t, g, i)]
  BY <1>1, <1>2 DEF Partial
<1> QED
  BY <1>3, Zenon DEF Meanings

\* What one line means are decisions, if that is what the lines behind it mean.
LEMMA MeaningAtType ==
    ASSUME NEW t \in Seq(Line), NEW i \in 1..(Len(t) + 1), NEW f,
           \A j \in (i + 1)..(Len(t) + 1) : f[j] \in Seq(Verdict)
    PROVE  MeaningAt(t, f, i) \in Seq(Verdict)
<1>1. CASE i > Len(t)
  <2>1. MeaningAt(t, f, i) = <<>>
    BY <1>1 DEF MeaningAt
  <2> QED
    BY <2>1
<1>2. CASE ~(i > Len(t))
  <2>1. i + 1 \in (i + 1)..(Len(t) + 1) /\ i + 2 \in Nat /\ t[i] \in Line
    BY <1>2
  <2>2. f[i + 1] \in Seq(Verdict)
    BY <2>1
  <2>3. ASSUME t[i] \in {"a", "r"}
        PROVE  <<[decision |-> Decided[t[i]], note |-> "none"]>> \in Seq(Verdict)
    BY <2>3 DEF Verdict, Decided, Decision, Note
  <2>4. ASSUME Finals(t, i + 2) # {}
        PROVE  LET j == First(Finals(t, i + 2))
               IN  /\ <<[decision |-> Decided[t[j]], note |-> t[i + 1]]>> \in Seq(Verdict)
                   /\ f[j + 1] \in Seq(Verdict)
    <3> DEFINE j == First(Finals(t, i + 2))
    <3>1. j \in (i + 2)..Len(t) /\ t[j] \in {"a", "r"}
      BY <2>1, <2>4, FinalsBehind
    <3> HIDE DEF j
    <3>2. j + 1 \in (i + 1)..(Len(t) + 1) /\ i + 1 \in 1..Len(t)
      BY <3>1
    <3>3. t[i + 1] \in Line /\ f[j + 1] \in Seq(Verdict)
      BY <3>2
    <3>4. [decision |-> Decided[t[j]], note |-> t[i + 1]] \in Verdict
      BY <3>1, <3>3 DEF Verdict, Decided, Decision, Note
    <3> QED
      BY <3>3, <3>4 DEF j
  <2>5. \A u, v \in Seq(Verdict) : u \o v \in Seq(Verdict)
    OBVIOUS
  <2> QED
    BY <1>2, <2>2, <2>3, <2>4, <2>5 DEF MeaningAt
<1> QED
  BY <1>1, <1>2

LEMMA MeaningsType ==
    ASSUME NEW t \in Seq(Line), NEW i \in 1..(Len(t) + 1)
    PROVE  Meanings(t)[i] \in Seq(Verdict)
<1> DEFINE n == Len(t) + 1
           Bad == {l \in Nat : \E j \in 1..n : l = n - j /\ Meanings(t)[j] \notin Seq(Verdict)}
<1>1. \A j \in 1..n : Meanings(t)[j] = MeaningAt(t, Meanings(t), j)
  BY MeaningsDef
<1>2. Bad \subseteq Nat /\ n \in Nat
  OBVIOUS
<1>3. ASSUME NEW j \in 1..n PROVE n - j \in Nat /\ (n - j \in Bad <=> Meanings(t)[j] \notin Seq(Verdict))
  OBVIOUS
<1>4. \A l \in Bad : \E j \in 1..n : l = n - j
  OBVIOUS
<1> HIDE DEF Bad
<1>5. ASSUME Bad # {} PROVE FALSE
  <2>1. PICK l \in Bad : \A m \in Bad : l <= m
    BY <1>2, <1>5, Least
  <2>2. PICK j \in 1..n : l = n - j
    BY <1>4, <2>1
  <2>3. ASSUME NEW k \in (j + 1)..n PROVE Meanings(t)[k] \in Seq(Verdict)
    <3>1. k \in 1..n /\ ~(l <= n - k)
      BY <2>2
    <3>2. n - k \notin Bad
      BY <2>1, <3>1
    <3> QED
      BY <1>3, <3>1, <3>2
  <2>4. Meanings(t)[j] \in Seq(Verdict)
    BY <1>1, <2>3, MeaningAtType
  <2> QED
    BY <1>3, <2>1, <2>2, <2>4
<1> QED
  BY <1>3, <1>5

\* The cases of the recursion.
LEMMA MeansNothing ==
    ASSUME NEW t \in Seq(Line)
    PROVE  Meanings(t)[Len(t) + 1] = <<>>
<1>1. Len(t) + 1 \in 1..(Len(t) + 1) /\ Len(t) + 1 > Len(t)
  OBVIOUS
<1> QED
  BY <1>1, MeaningsDef DEF MeaningAt

LEMMA MeansDecision ==
    ASSUME NEW t \in Seq(Line), NEW i \in 1..Len(t), t[i] \in {"a", "r"}
    PROVE  Meanings(t)[i] =
               <<[decision |-> Decided[t[i]], note |-> "none"]>> \o Meanings(t)[i + 1]
<1>1. i \in 1..(Len(t) + 1) /\ ~(i > Len(t))
  OBVIOUS
<1> QED
  BY <1>1, MeaningsDef DEF MeaningAt

LEMMA MeansNext ==
    ASSUME NEW t \in Seq(Line), NEW i \in 1..Len(t), t[i] = "other"
    PROVE  Meanings(t)[i] = Meanings(t)[i + 1]
<1>1. i \in 1..(Len(t) + 1) /\ ~(i > Len(t))
  OBVIOUS
<1> QED
  BY <1>1, MeaningsDef DEF MeaningAt

LEMMA MeansNote ==
    ASSUME NEW t \in Seq(Line), NEW i \in 1..Len(t), t[i] = "n",
           NEW j \in (i + 2)..Len(t), t[j] \in {"a", "r"},
           \A k \in (i + 2)..(j - 1) : t[k] \notin {"a", "r"}
    PROVE  Meanings(t)[i] =
               <<[decision |-> Decided[t[j]], note |-> t[i + 1]]>> \o Meanings(t)[j + 1]
<1>1. i \in 1..(Len(t) + 1) /\ ~(i > Len(t)) /\ i + 2 \in Nat
  OBVIOUS
<1>2. j \in Finals(t, i + 2)
  BY DEF Finals
<1> DEFINE f == First(Finals(t, i + 2))
<1>3. f \in (i + 2)..Len(t) /\ t[f] \in {"a", "r"} /\ f <= j
  BY <1>1, <1>2, FinalsBehind
<1> HIDE DEF f
<1>4. f = j
  <2>1. f \notin (i + 2)..(j - 1)
    BY <1>3
  <2> QED
    BY <1>3, <2>1
<1>5. Meanings(t)[i] = MeaningAt(t, Meanings(t), i)
  BY <1>1, MeaningsDef
<1> QED
  BY <1>1, <1>2, <1>4, <1>5 DEF MeaningAt, f

\* However many of the lines behind the p-th are typed, all of them mean s,
\* followed by what they mean from line i on.
Follows(t, p, s, i) ==
    \A m \in p..Len(t) : Meaning(SubSeq(t, 1, m)) = s \o Meanings(SubSeq(t, 1, m))[i]

LEMMA Prefixes ==
    ASSUME NEW t \in Seq(Line), NEW m \in 0..Len(t)
    PROVE  /\ SubSeq(t, 1, m) \in Seq(Line) /\ Len(SubSeq(t, 1, m)) = m
           /\ \A k \in 1..m : SubSeq(t, 1, m)[k] = t[k]
  OBVIOUS

\* At first nothing was read, and what was read and nothing else means s.
LEMMA FollowsFirst ==
    ASSUME NEW t \in Seq(Line)
    PROVE  Follows(t, 0, <<>>, 1)
<1> SUFFICES ASSUME NEW m \in 0..Len(t)
             PROVE  Meaning(SubSeq(t, 1, m)) = <<>> \o Meanings(SubSeq(t, 1, m))[1]
  BY DEF Follows
<1> DEFINE u == SubSeq(t, 1, m)
<1>1. u \in Seq(Line) /\ Len(u) = m /\ 1 \in 1..(Len(u) + 1)
  BY Prefixes
<1> HIDE DEF u
<1>2. Meanings(u)[1] \in Seq(Verdict)
  BY <1>1, MeaningsType
<1>3. Meanings(u)[1] = <<>> \o Meanings(u)[1]
  BY <1>2, ConcatEmptySeq
<1> QED
  BY <1>3 DEF Meaning, u

LEMMA FollowsLast ==
    ASSUME NEW t \in Seq(Line), NEW p \in 0..Len(t), NEW s \in Seq(Verdict),
           Follows(t, p, s, p + 1)
    PROVE  Meaning(SubSeq(t, 1, p)) = s
<1>1. Meanings(SubSeq(t, 1, p))[p + 1] = <<>>
  BY Prefixes, MeansNothing
<1>2. p \in p..Len(t)
  OBVIOUS
<1>3. Meaning(SubSeq(t, 1, p)) = s \o Meanings(SubSeq(t, 1, p))[p + 1]
  BY <1>2 DEF Follows
<1>4. s \o <<>> = s
  BY ConcatEmptySeq
<1> QED
  BY <1>1, <1>3, <1>4

\* One more line is read: of a line that decides the decision follows.
LEMMA FollowsMore ==
    ASSUME NEW t \in Seq(Line), NEW p \in 0..(Len(t) - 1), NEW s, NEW i, Follows(t, p, s, i)
    PROVE  Follows(t, p + 1, s, i)
  BY DEF Follows

LEMMA FollowsVerdict ==
    ASSUME NEW t \in Seq(Line), NEW p \in 0..Len(t), NEW s \in Seq(Verdict),
           NEW v \in Verdict, NEW i, NEW j \in 1..(p + 1), Follows(t, p, s, i),
           \A m \in p..Len(t) :
               Meanings(SubSeq(t, 1, m))[i] = <<v>> \o Meanings(SubSeq(t, 1, m))[j]
    PROVE  Follows(t, p, s \o <<v>>, j)
<1> SUFFICES ASSUME NEW m \in p..Len(t)
             PROVE  Meaning(SubSeq(t, 1, m)) = (s \o <<v>>) \o Meanings(SubSeq(t, 1, m))[j]
  BY DEF Follows
<1>1. Meaning(SubSeq(t, 1, m)) = s \o (<<v>> \o Meanings(SubSeq(t, 1, m))[j])
  BY DEF Follows
<1>2. j \in 1..(m + 1) /\ m \in 0..Len(t)
  OBVIOUS
<1>3. Meanings(SubSeq(t, 1, m))[j] \in Seq(Verdict)
  BY <1>2, Prefixes, MeaningsType
<1>4. <<v>> \in Seq(Verdict)
  OBVIOUS
<1> DEFINE w == Meanings(SubSeq(t, 1, m))[j]
           one == <<v>>
           all == Meaning(SubSeq(t, 1, m))
<1>5. all = s \o (one \o w) /\ w \in Seq(Verdict) /\ one \in Seq(Verdict)
  BY <1>1, <1>3, <1>4
<1> HIDE DEF w, one, all
<1>6. \A a, b, c \in Seq(Verdict) : (a \o b) \o c = a \o (b \o c)
  OBVIOUS
<1>7. (s \o one) \o w = s \o (one \o w)
  BY <1>5, <1>6
<1>8. all = (s \o one) \o w
  BY <1>5, <1>7, Zenon
<1> QED
  BY <1>8 DEF w, one, all

LEMMA FollowsDecision ==
    ASSUME NEW t \in Seq(Line), NEW p \in 0..(Len(t) - 1), NEW s \in Seq(Verdict),
           t[p + 1] \in {"a", "r"}, Follows(t, p, s, p + 1)
    PROVE  Follows(t, p + 1, s \o <<[decision |-> Decided[t[p + 1]], note |-> "none"]>>, p + 2)
<1> DEFINE v == [decision |-> Decided[t[p + 1]], note |-> "none"]
<1>1. v \in Verdict
  BY DEF Verdict, Decided, Decision, Note
<1>2. ASSUME NEW m \in (p + 1)..Len(t)
      PROVE  Meanings(SubSeq(t, 1, m))[p + 1] = <<v>> \o Meanings(SubSeq(t, 1, m))[p + 2]
  <2>1. /\ SubSeq(t, 1, m) \in Seq(Line) /\ p + 1 \in 1..Len(SubSeq(t, 1, m))
        /\ SubSeq(t, 1, m)[p + 1] = t[p + 1]
    BY Prefixes
  <2>2. (p + 1) + 1 = p + 2
    OBVIOUS
  <2> QED
    BY <2>1, <2>2, MeansDecision
<1> HIDE DEF v
<1>3. Follows(t, p + 1, s, p + 1)
  BY FollowsMore
<1>4. p + 1 \in 0..Len(t) /\ p + 2 \in 1..((p + 1) + 1)
  OBVIOUS
<1>5. Follows(t, p + 1, s \o <<v>>, p + 2)
  BY <1>1, <1>2, <1>3, <1>4, FollowsVerdict
<1> QED
  BY <1>5 DEF v

LEMMA FollowsOther ==
    ASSUME NEW t \in Seq(Line), NEW p \in 0..(Len(t) - 1), NEW s,
           t[p + 1] = "other", Follows(t, p, s, p + 1)
    PROVE  Follows(t, p + 1, s, p + 2)
<1>1. ASSUME NEW m \in (p + 1)..Len(t)
      PROVE  Meanings(SubSeq(t, 1, m))[p + 1] = Meanings(SubSeq(t, 1, m))[p + 2]
  <2>1. /\ SubSeq(t, 1, m) \in Seq(Line) /\ p + 1 \in 1..Len(SubSeq(t, 1, m))
        /\ SubSeq(t, 1, m)[p + 1] = t[p + 1]
    BY Prefixes
  <2>2. (p + 1) + 1 = p + 2
    OBVIOUS
  <2> QED
    BY <2>1, <2>2, MeansNext
<1>2. ASSUME NEW m \in (p + 1)..Len(t)
      PROVE  Meaning(SubSeq(t, 1, m)) = s \o Meanings(SubSeq(t, 1, m))[p + 2]
  <2>1. m \in p..Len(t)
    OBVIOUS
  <2>2. Meaning(SubSeq(t, 1, m)) = s \o Meanings(SubSeq(t, 1, m))[p + 1]
    BY <2>1 DEF Follows
  <2> QED
    BY <1>1, <2>2
<1> QED
  BY <1>2 DEF Follows

LEMMA FollowsNote ==
    ASSUME NEW t \in Seq(Line), NEW p \in 0..(Len(t) - 1), NEW s \in Seq(Verdict),
           NEW i \in 1..(p - 1), t[i] = "n", \A k \in (i + 2)..p : t[k] \notin {"a", "r"},
           t[p + 1] \in {"a", "r"}, Follows(t, p, s, i)
    PROVE  Follows(t, p + 1, s \o <<[decision |-> Decided[t[p + 1]], note |-> t[i + 1]]>>, p + 2)
<1> DEFINE v == [decision |-> Decided[t[p + 1]], note |-> t[i + 1]]
<1>1. v \in Verdict
  <2>1. t[i + 1] \in Line
    OBVIOUS
  <2> QED
    BY <2>1 DEF Verdict, Decided, Decision, Note
<1>2. ASSUME NEW m \in (p + 1)..Len(t)
      PROVE  Meanings(SubSeq(t, 1, m))[i] = <<v>> \o Meanings(SubSeq(t, 1, m))[p + 2]
  <2> DEFINE u == SubSeq(t, 1, m)
  <2>1. u \in Seq(Line) /\ Len(u) = m /\ \A k \in 1..m : u[k] = t[k]
    BY Prefixes
  <2> HIDE DEF u
  <2>2. i \in 1..Len(u) /\ p + 1 \in (i + 2)..Len(u) /\ i + 1 \in 1..m /\ p + 1 \in 1..m
    BY <2>1
  <2>3. u[i] = "n" /\ u[i + 1] = t[i + 1] /\ u[p + 1] = t[p + 1]
    BY <2>1, <2>2
  <2>4. \A k \in (i + 2)..((p + 1) - 1) : u[k] \notin {"a", "r"}
    BY <2>1
  <2>5. Meanings(u)[i] =
            <<[decision |-> Decided[u[p + 1]], note |-> u[i + 1]]>> \o Meanings(u)[(p + 1) + 1]
    BY <2>1, <2>2, <2>3, <2>4, MeansNote
  <2>6. (p + 1) + 1 = p + 2
    OBVIOUS
  <2> QED
    BY <2>3, <2>5, <2>6 DEF u
<1> HIDE DEF v
<1>3. Follows(t, p + 1, s, i)
  BY FollowsMore
<1>4. p + 1 \in 0..Len(t) /\ p + 2 \in 1..((p + 1) + 1)
  OBVIOUS
<1>5. Follows(t, p + 1, s \o <<v>>, p + 2)
  BY <1>1, <1>2, <1>3, <1>4, FollowsVerdict
<1> QED
  BY <1>5 DEF v

-----------------------------------------------------------------------------
(* The rows are what was typed *)

\* How many lines were read, and what is about to be stored.
Place == Len(typed) - Len(rest)
ToStore == [decision |-> decision, note |-> note]

\* What is left to be read is the rest of what was typed.
RestIsTyped ==
    /\ Len(rest) <= Len(typed)
    /\ \A i \in 1..Len(rest) : rest[i] = typed[Place + i]

\* The last note was begun with line i, and no decision was typed since.
Noted(i) ==
    /\ typed[i] = "n" /\ note = typed[i + 1]
    /\ \A k \in (i + 2)..Place : typed[k] \notin {"a", "r"}
    /\ Follows(typed, Place, Stored, i)

\* At each label: what was read means the rows of the session and what the
\* variables of the loop hold.
AtStart == pc \in Loading => Place = 0 /\ before = Len(rows)
AtPrompt == pc \in Loading \cup {"prompt"} => Follows(typed, Place, Stored, Place + 1)
AtNote == pc = "note" => Place >= 1 /\ typed[Place] = "n" /\ Follows(typed, Place, Stored, Place)
AtFinal == pc = "final" => rest = <<>> \/ \E i \in 1..(Place - 1) : Noted(i)
AtSave == pc = "save" => Follows(typed, Place, Stored \o <<ToStore>>, Place + 1)
NoNote == pc \notin {"final", "save"} => note = "none"

ReadInv == AtStart /\ AtPrompt /\ AtNote /\ AtFinal /\ AtSave /\ NoNote

TypedInv == SessionInv /\ RestIsTyped /\ ReadInv

LEMMA Places ==
    ASSUME SessionInv, RestIsTyped
    PROVE  /\ typed \in Seq(Line) /\ rest \in Seq(Line)
           /\ Place \in 0..Len(typed)
           /\ rest = <<>> <=> Place = Len(typed)
           /\ rest # <<>> => Place \in 0..(Len(typed) - 1) /\ Head(rest) = typed[Place + 1]
<1>1. typed \in Seq(Line) /\ rest \in Seq(Line)
  BY DEF SessionInv, TypeOK
<1>2. rest = <<>> <=> Len(rest) = 0
  BY <1>1
<1>3. Place \in 0..Len(typed) /\ (rest = <<>> <=> Place = Len(typed))
  BY <1>1, <1>2 DEF RestIsTyped, Place
<1>4. ASSUME rest # <<>> PROVE Place \in 0..(Len(typed) - 1) /\ Head(rest) = typed[Place + 1]
  <2>1. 1 \in 1..Len(rest) /\ Head(rest) = rest[1]
    BY <1>1, <1>2, <1>4
  <2> QED
    BY <1>1, <1>3, <1>4, <2>1 DEF RestIsTyped
<1> QED
  BY <1>1, <1>3, <1>4

\* A line that is read is the next of those that were typed.
LEMMA ReadsNext ==
    ASSUME SessionInv, RestIsTyped, rest # <<>>, rest' = Tail(rest), typed' = typed
    PROVE  RestIsTyped' /\ Place' = Place + 1
<1>1. typed \in Seq(Line) /\ rest \in Seq(Line) /\ Len(rest) # 0
  BY DEF SessionInv, TypeOK
<1>2. /\ Len(rest') = Len(rest) - 1
      /\ \A i \in 1..Len(rest') : rest'[i] = rest[i + 1]
  BY <1>1
<1>3. Place' = Place + 1
  BY <1>1, <1>2 DEF Place
<1>4. \A i \in 1..Len(rest') : rest'[i] = typed[Place' + i]
  <2> SUFFICES ASSUME NEW i \in 1..Len(rest')
               PROVE  rest'[i] = typed[Place' + i]
    OBVIOUS
  <2>1. i + 1 \in 1..Len(rest) /\ rest'[i] = rest[i + 1]
    BY <1>1, <1>2
  <2>2. rest[i + 1] = typed[Place + (i + 1)]
    BY <2>1 DEF RestIsTyped
  <2>3. Place + (i + 1) = Place' + i
    BY <1>1, <1>3, Places
  <2> QED
    BY <2>1, <2>2, <2>3
<1> QED
  BY <1>1, <1>2, <1>3, <1>4 DEF RestIsTyped

LEMMA Listed ==
    ASSUME NEW n \in Nat, NEW S, NEW s, s = [i \in 1..n |-> s[i]], \A i \in 1..n : s[i] \in S
    PROVE  s \in Seq(S) /\ Len(s) = n
  OBVIOUS

\* The decisions that a session has stored are those of its rows.
LEMMA StoredType ==
    ASSUME SessionInv
    PROVE  Stored \in Seq(Verdict) /\ Len(Stored) = Len(rows) - before
<1>1. rows \in Seq(Row) /\ before \in 0..Len(rows) /\ Len(rows) \in Nat
  BY DEF SessionInv, TypeOK
<1>2. ASSUME NEW i \in 1..(Len(rows) - before)
      PROVE  [decision |-> rows[before + i].decision, note |-> rows[before + i].note] \in Verdict
  <2>1. before + i \in 1..Len(rows)
    BY <1>1
  <2>2. rows[before + i] \in Row
    BY <1>1, <2>1
  <2> QED
    BY <2>2 DEF Row, Verdict
<1> QED
  BY <1>1, <1>2 DEF Stored

LEMMA StoredSame ==
    ASSUME UNCHANGED <<rows, before>>
    PROVE  Stored' = Stored
  BY DEF Stored

\* Nothing is stored yet when a session begins.
LEMMA StoredNothing ==
    ASSUME SessionInv, before = Len(rows)
    PROVE  Stored = <<>>
<1>1. Stored \in Seq(Verdict) /\ Len(Stored) = 0
  BY StoredType DEF SessionInv, TypeOK
<1> QED
  BY <1>1

LEMMA StoredMore ==
    ASSUME SessionInv, SessionInv', UNCHANGED before,
           NEW c, rows' = Append(rows, [clause |-> c, decision |-> decision, note |-> note])
    PROVE  Stored' = Stored \o <<ToStore>>
<1> DEFINE r == [clause |-> c, decision |-> decision, note |-> note]
           k == Len(rows) - before
<1>1. rows \in Seq(Row) /\ before \in 0..Len(rows) /\ Len(rows) \in Nat
  BY DEF SessionInv, TypeOK
<1>2. r.decision = decision /\ r.note = note /\ rows' = Append(rows, r)
  OBVIOUS
<1> HIDE DEF r
<1>3. /\ Len(rows') = Len(rows) + 1
      /\ \A i \in 1..Len(rows) : rows'[i] = rows[i]
      /\ rows'[Len(rows) + 1] = r
  BY <1>1, <1>2
<1>4. k \in Nat /\ Len(rows') - before = k + 1 /\ before + (k + 1) = Len(rows) + 1
  BY <1>1, <1>3
<1>5. /\ Stored \in Seq(Verdict) /\ Len(Stored) = k
      /\ Stored' = [i \in 1..(k + 1) |->
                       [decision |-> rows'[before + i].decision, note |-> rows'[before + i].note]]
  BY <1>4, StoredType DEF Stored
<1>6. ASSUME NEW i \in 1..k PROVE Stored'[i] = Stored[i]
  <2>1. before + i \in 1..Len(rows)
    BY <1>1
  <2> QED
    BY <1>3, <1>4, <1>5, <2>1 DEF Stored
<1>7. Stored'[k + 1] = ToStore
  BY <1>2, <1>3, <1>4, <1>5 DEF ToStore
<1>8. Stored' \in Seq(Verdict) /\ Len(Stored') = k + 1
  <2>1. Stored' \in Seq(Verdict) /\ Len(Stored') = Len(rows') - before'
    <3>1. rows' \in Seq(Row) /\ before' \in 0..Len(rows') /\ Len(rows') \in Nat
      BY DEF SessionInv, TypeOK
    <3>2. ASSUME NEW i \in 1..(k + 1)
          PROVE  [decision |-> rows'[before + i].decision, note |-> rows'[before + i].note] \in Verdict
      <4>1. before + i \in 1..Len(rows')
        BY <1>1, <1>3
      <4>2. rows'[before + i] \in Row
        BY <3>1, <4>1
      <4> QED
        BY <4>2 DEF Row, Verdict
    <3> DEFINE u == Stored'
    <3>3. /\ u = [i \in 1..(k + 1) |->
                     [decision |-> rows'[before + i].decision, note |-> rows'[before + i].note]]
          /\ k + 1 \in Nat /\ Len(rows') - before' = k + 1
      BY <1>4, <1>5
    <3> HIDE DEF k, u
    <3>4. u = [i \in 1..(k + 1) |-> u[i]] /\ \A i \in 1..(k + 1) : u[i] \in Verdict
      BY <3>2, <3>3
    <3>5. k + 1 \in Nat
      BY <3>3
    <3>6. u \in Seq(Verdict) /\ Len(u) = k + 1
      BY <3>4, <3>5, Listed, Zenon
    <3> QED
      BY <3>3, <3>6 DEF u
  <2> QED
    BY <1>4, <2>1
<1> HIDE DEF k
<1>9. ToStore \in Verdict
  <2>1. k + 1 \in 1..Len(Stored')
    BY <1>4, <1>8
  <2> QED
    BY <1>7, <1>8, <2>1
<1>10. /\ Stored \o <<ToStore>> \in Seq(Verdict)
       /\ Len(Stored \o <<ToStore>>) = k + 1
       /\ \A i \in 1..k : (Stored \o <<ToStore>>)[i] = Stored[i]
       /\ (Stored \o <<ToStore>>)[k + 1] = ToStore
  <2> DEFINE u == Stored
             v == ToStore
  <2>1. u \in Seq(Verdict) /\ Len(u) = k /\ v \in Verdict /\ k \in Nat
    BY <1>4, <1>5, <1>9
  <2> HIDE DEF u, v
  <2>2. /\ u \o <<v>> \in Seq(Verdict) /\ Len(u \o <<v>>) = k + 1
        /\ \A i \in 1..k : (u \o <<v>>)[i] = u[i]
        /\ (u \o <<v>>)[k + 1] = v
    BY <2>1
  <2> QED
    BY <2>2 DEF u, v
<1>11. \A i \in 1..(k + 1) : Stored'[i] = (Stored \o <<ToStore>>)[i]
  <2> SUFFICES ASSUME NEW i \in 1..(k + 1)
               PROVE  Stored'[i] = (Stored \o <<ToStore>>)[i]
    OBVIOUS
  <2>1. CASE i = k + 1
    BY <1>7, <1>10, <2>1
  <2>2. CASE i # k + 1
    BY <1>4, <1>6, <1>10, <2>2
  <2> QED
    BY <2>1, <2>2
<1> DEFINE u == Stored'
           w == Stored \o <<ToStore>>
<1>12. /\ u \in Seq(Verdict) /\ w \in Seq(Verdict) /\ Len(u) = Len(w)
       /\ \A i \in 1..Len(u) : u[i] = w[i]
  BY <1>8, <1>10, <1>11
<1> HIDE DEF u, w
<1>13. u = w
  BY <1>12
<1> QED
  BY <1>13 DEF u, w

-----------------------------------------------------------------------------
LEMMA InitTyped == Init => TypedInv
<1> SUFFICES ASSUME Init
             PROVE  TypedInv
  OBVIOUS
<1>1. RestIsTyped
  BY DEF Init, RestIsTyped
<1>2. ReadInv
  BY DEF Init, ReadInv, AtStart, AtPrompt, AtNote, AtFinal, AtSave, NoNote, Loading
<1> QED
  BY <1>1, <1>2, InitHolds DEF TypedInv

\* A process that has ended reads no more.
LEMMA LeaveTyped ==
    ASSUME NEW l \in {"idle", "aborted"}, TypedInv, Leave(l)
    PROVE  (RestIsTyped /\ ReadInv)'
<1>1. pc' \notin Loading \cup Asking /\ note' = "none"
  BY DEF Leave, Loading, Asking
<1>2. typed' \in Seq(Line) /\ rest' = <<>>
  BY DEF TypedInv, SessionInv, TypeOK, Leave, history
<1>3. Len(rest') = 0 /\ Len(typed') \in Nat
  BY <1>2
<1>4. RestIsTyped'
  BY <1>3 DEF RestIsTyped
<1>5. ReadInv'
  BY <1>1 DEF ReadInv, AtStart, AtPrompt, AtNote, AtFinal, AtSave, NoNote, Loading, Asking
<1> QED
  BY <1>4, <1>5

\* A session begins with nothing read and nothing stored.
LEMMA StartTyped ==
    ASSUME TypedInv, SessionInv', Start
    PROVE  (RestIsTyped /\ ReadInv)'
<1>1. typed' \in Seq(Line) /\ rest' = typed' /\ before' = Len(rows') /\ pc' = "check"
  BY InputLines DEF Start
<1>2. note' = "none"
  BY DEF TypedInv, ReadInv, NoNote, Start, Runs, Loading, Asking
<1>3. Place' = 0
  BY <1>1 DEF Place
<1>4. RestIsTyped'
  BY <1>1, <1>3 DEF RestIsTyped
<1>5. Stored' = <<>>
  <2>1. Len(rows') \in Nat
    BY DEF SessionInv, TypeOK
  <2>2. Stored' = [i \in 1..0 |-> [decision |-> rows'[before' + i].decision,
                                   note |-> rows'[before' + i].note]]
    BY <1>1, <2>1 DEF Stored
  <2> QED
    BY <2>2
<1>6. AtPrompt'
  <2>1. Follows(typed', 0, <<>>, 0 + 1)
    BY <1>1, FollowsFirst
  <2>2. Follows(typed', Place', Stored', Place' + 1)
    BY <1>3, <1>5, <2>1
  <2> QED
    BY <2>2 DEF AtPrompt
<1>7. (AtStart /\ AtNote /\ AtFinal /\ AtSave /\ NoNote)'
  BY <1>1, <1>2, <1>3 DEF AtStart, AtNote, AtFinal, AtSave, NoNote
<1> QED
  BY <1>4, <1>6, <1>7 DEF ReadInv

\* No line is read while the tables are loaded.
LEMMA LoadTyped ==
    ASSUME TypedInv, Load \/ LoadReviews
    PROVE  (RestIsTyped /\ ReadInv)'
<1>1. /\ UNCHANGED <<rows, rest, note, typed, before>>
      /\ pc \in Loading /\ pc' \in {"findings", "reviews", "prompt"}
  BY DEF Load, LoadReviews, local, history, Loading
<1>2. Place' = Place /\ Stored' = Stored
  BY <1>1, StoredSame DEF Place
<1>3. RestIsTyped'
  BY <1>1, <1>2 DEF TypedInv, RestIsTyped
<1>4. AtPrompt'
  <2>1. Follows(typed', Place', Stored', Place' + 1)
    BY <1>1, <1>2 DEF TypedInv, ReadInv, AtPrompt
  <2> QED
    BY <2>1 DEF AtPrompt
<1>5. (AtStart /\ AtNote /\ AtFinal /\ AtSave /\ NoNote)'
  BY <1>1, <1>2
  DEF TypedInv, ReadInv, AtStart, AtNote, AtFinal, AtSave, NoNote, Loading
<1> QED
  BY <1>3, <1>4, <1>5 DEF ReadInv

\* What a step that reads line l has in common with the others.
LEMMA ReadTyped ==
    ASSUME TypedInv, NEW l, Read(l), UNCHANGED <<rows, before, typed>>
    PROVE  /\ RestIsTyped' /\ Place' = Place + 1 /\ Stored' = Stored
           /\ Place \in 0..(Len(typed) - 1) /\ l = typed[Place + 1]
           /\ typed \in Seq(Line) /\ Stored \in Seq(Verdict)
  BY Places, ReadsNext, StoredSame, StoredType DEF TypedInv, Read

LEMMA DecisionTyped ==
    ASSUME TypedInv, ReadDecision
    PROVE  (RestIsTyped /\ ReadInv)'
<1>1. PICK l \in Line :
        /\ Read(l)
        /\ \/ l \in {"a", "r"} /\ decision' = Decided[l] /\ pc' = "save"
           \/ l = "n" /\ pc' = "note" /\ UNCHANGED decision
           \/ l = "other" /\ UNCHANGED <<pc, decision>>
  BY DEF ReadDecision
<1>2. UNCHANGED <<rows, before, typed, note>> /\ pc = "prompt"
  BY DEF ReadDecision, history
<1>3. /\ RestIsTyped' /\ Place' = Place + 1 /\ Stored' = Stored
      /\ Place \in 0..(Len(typed) - 1) /\ l = typed[Place + 1]
      /\ typed \in Seq(Line) /\ Stored \in Seq(Verdict)
  BY <1>1, <1>2, ReadTyped
<1>4. Follows(typed, Place, Stored, Place + 1) /\ note' = "none"
  BY <1>2 DEF TypedInv, ReadInv, AtPrompt, NoNote
<1>5. (AtStart /\ AtFinal /\ NoNote)'
  BY <1>1, <1>2, <1>4 DEF AtStart, AtFinal, NoNote, Loading
<1>6. CASE l \in {"a", "r"}
  <2>1. decision' = Decided[l] /\ pc' = "save"
    BY <1>1, <1>6
  <2>2. Follows(typed, Place + 1,
                Stored \o <<[decision |-> Decided[typed[Place + 1]], note |-> "none"]>>, Place + 2)
    BY <1>3, <1>4, <1>6, FollowsDecision
  <2>3. ToStore' = [decision |-> Decided[typed[Place + 1]], note |-> "none"]
    BY <1>3, <1>4, <2>1 DEF ToStore
  <2>4. Place + 2 = (Place + 1) + 1
    BY <1>3
  <2>5. Follows(typed', Place', Stored' \o <<ToStore'>>, Place' + 1)
    BY <1>2, <1>3, <2>2, <2>3, <2>4
  <2>6. AtSave'
    BY <2>5 DEF AtSave
  <2>7. (AtPrompt /\ AtNote)'
    BY <2>1 DEF AtPrompt, AtNote, Loading
  <2> QED
    BY <1>3, <1>5, <2>6, <2>7 DEF ReadInv
<1>7. CASE l = "n"
  <2>1. pc' = "note"
    BY <1>1, <1>7
  <2>2. Follows(typed', Place', Stored', Place')
    BY <1>2, <1>3, <1>4, FollowsMore
  <2>3. Place' >= 1 /\ typed'[Place'] = "n"
    BY <1>2, <1>3, <1>7
  <2>4. AtNote'
    BY <2>2, <2>3 DEF AtNote
  <2>5. (AtPrompt /\ AtSave)'
    BY <2>1 DEF AtPrompt, AtSave, Loading
  <2> QED
    BY <1>3, <1>5, <2>4, <2>5 DEF ReadInv
<1>8. CASE l = "other"
  <2>1. pc' = "prompt"
    BY <1>1, <1>2, <1>8
  <2>2. Follows(typed, Place + 1, Stored, Place + 2)
    BY <1>3, <1>4, <1>8, FollowsOther
  <2>3. Place + 2 = (Place + 1) + 1
    BY <1>3
  <2>4. Follows(typed', Place', Stored', Place' + 1)
    BY <1>2, <1>3, <2>2, <2>3
  <2>5. AtPrompt'
    BY <2>4 DEF AtPrompt
  <2>6. (AtNote /\ AtSave)'
    BY <2>1 DEF AtNote, AtSave
  <2> QED
    BY <1>3, <1>5, <2>5, <2>6 DEF ReadInv
<1> QED
  BY <1>1, <1>6, <1>7, <1>8

LEMMA NoteTyped ==
    ASSUME TypedInv, ReadNote
    PROVE  (RestIsTyped /\ ReadInv)'
<1>1. /\ pc = "note" /\ pc' = "final"
      /\ UNCHANGED <<rows, before, typed>>
      /\ Place >= 1 /\ typed[Place] = "n" /\ Follows(typed, Place, Stored, Place)
  BY DEF ReadNote, history, TypedInv, ReadInv, AtNote
<1>2. (AtStart /\ AtPrompt /\ AtNote /\ AtSave /\ NoNote)'
  BY <1>1 DEF AtStart, AtPrompt, AtNote, AtSave, NoNote, Loading
<1>3. ASSUME NEW l \in Line, Read(l), note' = l
      PROVE  RestIsTyped' /\ AtFinal'
  <2>1. /\ RestIsTyped' /\ Place' = Place + 1 /\ Stored' = Stored
        /\ Place \in 0..(Len(typed) - 1) /\ l = typed[Place + 1]
        /\ typed \in Seq(Line) /\ Stored \in Seq(Verdict)
    BY <1>1, <1>3, ReadTyped
  <2>2. Follows(typed', Place', Stored', Place)
    BY <1>1, <2>1, FollowsMore
  <2>3. /\ typed'[Place] = "n" /\ note' = typed'[Place + 1]
        /\ \A k \in (Place + 2)..Place' : typed'[k] \notin {"a", "r"}
    BY <1>1, <1>3, <2>1
  <2>4. Place \in 1..(Place' - 1)
    BY <1>1, <2>1
  <2>5. \E i \in 1..(Place' - 1) :
           /\ typed'[i] = "n" /\ note' = typed'[i + 1]
           /\ \A k \in (i + 2)..Place' : typed'[k] \notin {"a", "r"}
           /\ Follows(typed', Place', Stored', i)
    BY <2>2, <2>3, <2>4
  <2> QED
    BY <2>1, <2>5 DEF AtFinal, Noted
<1>4. ASSUME rest = <<>>, UNCHANGED rest
      PROVE  RestIsTyped' /\ AtFinal'
  <2>1. AtFinal'
    BY <1>4 DEF AtFinal
  <2>2. RestIsTyped'
    BY <1>1, <1>4 DEF RestIsTyped, TypedInv, Place
  <2> QED
    BY <2>1, <2>2
<1> QED
  BY <1>2, <1>3, <1>4 DEF ReadNote, ReadInv

LEMMA FinalTyped ==
    ASSUME TypedInv, ReadFinal
    PROVE  (RestIsTyped /\ ReadInv)'
<1>1. PICK l \in Line :
        /\ Read(l)
        /\ \/ l \in {"a", "r"} /\ decision' = Decided[l] /\ pc' = "save"
           \/ l \notin {"a", "r"} /\ UNCHANGED <<pc, decision>>
  BY DEF ReadFinal
<1>2. UNCHANGED <<rows, before, typed, note>> /\ pc = "final"
  BY DEF ReadFinal, history
<1>3. /\ RestIsTyped' /\ Place' = Place + 1 /\ Stored' = Stored
      /\ Place \in 0..(Len(typed) - 1) /\ l = typed[Place + 1]
      /\ typed \in Seq(Line) /\ Stored \in Seq(Verdict)
  BY <1>1, <1>2, ReadTyped
<1>4. PICK i \in 1..(Place - 1) : Noted(i)
  BY <1>1, <1>2 DEF TypedInv, ReadInv, AtFinal, Read
<1>5. /\ typed[i] = "n" /\ note = typed[i + 1]
      /\ \A k \in (i + 2)..Place : typed[k] \notin {"a", "r"}
      /\ Follows(typed, Place, Stored, i)
  BY <1>4 DEF Noted
<1>6. CASE l \in {"a", "r"}
  <2>1. decision' = Decided[l] /\ pc' = "save"
    BY <1>1, <1>6
  <2>2. Follows(typed, Place + 1,
                Stored \o <<[decision |-> Decided[typed[Place + 1]], note |-> typed[i + 1]]>>,
                Place + 2)
    BY <1>3, <1>5, <1>6, FollowsNote
  <2>3. ToStore' = [decision |-> Decided[typed[Place + 1]], note |-> typed[i + 1]]
    BY <1>2, <1>3, <1>5, <2>1 DEF ToStore
  <2>4. Place + 2 = (Place + 1) + 1
    BY <1>3
  <2>5. Follows(typed', Place', Stored' \o <<ToStore'>>, Place' + 1)
    BY <1>2, <1>3, <2>2, <2>3, <2>4
  <2>6. AtSave'
    BY <2>5 DEF AtSave
  <2>7. (AtStart /\ AtPrompt /\ AtNote /\ AtFinal /\ NoNote)'
    BY <2>1 DEF AtStart, AtPrompt, AtNote, AtFinal, NoNote, Loading
  <2> QED
    BY <1>3, <2>6, <2>7 DEF ReadInv
<1>7. CASE l \notin {"a", "r"}
  <2>1. pc' = "final"
    BY <1>1, <1>2, <1>7
  <2>2. Follows(typed', Place', Stored', i)
    BY <1>2, <1>3, <1>5, FollowsMore
  <2>3. \A k \in (i + 2)..Place' : typed'[k] \notin {"a", "r"}
    <3> SUFFICES ASSUME NEW k \in (i + 2)..Place'
                 PROVE  typed'[k] \notin {"a", "r"}
      OBVIOUS
    <3>1. k = Place + 1 \/ k \in (i + 2)..Place
      BY <1>3
    <3> QED
      BY <1>2, <1>3, <1>5, <1>7, <3>1
  <2>4. i \in 1..(Place' - 1) /\ typed'[i] = "n" /\ note' = typed'[i + 1]
    BY <1>2, <1>3, <1>5
  <2>5. \E j \in 1..(Place' - 1) :
           /\ typed'[j] = "n" /\ note' = typed'[j + 1]
           /\ \A k \in (j + 2)..Place' : typed'[k] \notin {"a", "r"}
           /\ Follows(typed', Place', Stored', j)
    BY <2>2, <2>3, <2>4
  <2>6. AtFinal'
    BY <2>5 DEF AtFinal, Noted
  <2>7. (AtStart /\ AtPrompt /\ AtNote /\ AtSave /\ NoNote)'
    BY <2>1 DEF AtStart, AtPrompt, AtNote, AtSave, NoNote, Loading
  <2> QED
    BY <1>3, <2>6, <2>7 DEF ReadInv
<1> QED
  BY <1>6, <1>7

\* What was about to be stored is stored.
LEMMA SaveTyped ==
    ASSUME TypedInv, SessionInv', SaveReview
    PROVE  (RestIsTyped /\ ReadInv)'
<1>1. PICK c \in todo :
        rows' = Append(rows, [clause |-> c, decision |-> decision, note |-> note])
  BY DEF SaveReview
<1>2. /\ UNCHANGED <<rest, typed, before>>
      /\ pc = "save" /\ pc' = "prompt" /\ note' = "none"
  BY DEF SaveReview, history
<1>3. Place' = Place /\ Stored' = Stored \o <<ToStore>>
  BY <1>1, <1>2, StoredMore DEF Place, TypedInv
<1>4. RestIsTyped'
  BY <1>2, <1>3 DEF TypedInv, RestIsTyped
<1>5. Follows(typed', Place', Stored', Place' + 1)
  BY <1>2, <1>3 DEF TypedInv, ReadInv, AtSave
<1>6. AtPrompt'
  BY <1>5 DEF AtPrompt
<1>7. (AtStart /\ AtNote /\ AtFinal /\ AtSave /\ NoNote)'
  BY <1>2 DEF AtStart, AtNote, AtFinal, AtSave, NoNote, Loading
<1> QED
  BY <1>4, <1>6, <1>7 DEF ReadInv

LEMMA StillTyped ==
    ASSUME TypedInv, UNCHANGED <<rows, pc, rest, decision, note, typed, before>>
    PROVE  (RestIsTyped /\ ReadInv)'
<1>1. Place' = Place /\ Stored' = Stored /\ ToStore' = ToStore
  BY StoredSame DEF Place, ToStore
<1>2. RestIsTyped'
  BY <1>1 DEF TypedInv, RestIsTyped
<1>3. AtPrompt'
  BY <1>1 DEF TypedInv, ReadInv, AtPrompt
<1>4. AtSave'
  BY <1>1 DEF TypedInv, ReadInv, AtSave
<1>5. AtNote'
  BY <1>1 DEF TypedInv, ReadInv, AtNote
<1>6. AtFinal'
  BY <1>1 DEF TypedInv, ReadInv, AtFinal, Noted
<1>7. (AtStart /\ NoNote)'
  BY <1>1 DEF TypedInv, ReadInv, AtStart, NoNote
<1> QED
  BY <1>2, <1>3, <1>4, <1>5, <1>6, <1>7 DEF ReadInv

LEMMA NextTyped == TypedInv /\ [Next]_vars => TypedInv'
<1> SUFFICES ASSUME TypedInv, [Next]_vars
             PROVE  TypedInv'
  OBVIOUS
<1>1. SessionInv'
  BY StepHolds DEF TypedInv
<1>2. CASE Start
  BY <1>1, <1>2, StartTyped DEF TypedInv
<1>3. CASE Load \/ LoadReviews
  BY <1>1, <1>3, LoadTyped DEF TypedInv
<1>4. CASE ReadDecision
  BY <1>1, <1>4, DecisionTyped DEF TypedInv
<1>5. CASE ReadNote
  BY <1>1, <1>5, NoteTyped DEF TypedInv
<1>6. CASE ReadFinal
  BY <1>1, <1>6, FinalTyped DEF TypedInv
<1>7. CASE SaveReview
  BY <1>1, <1>7, SaveTyped DEF TypedInv
<1>8. CASE Done \/ Refuse \/ Kill
  BY <1>1, <1>8, LeaveTyped DEF Done, Refuse, Kill, TypedInv
<1>9. CASE Signal \/ UNCHANGED vars
  <2>1. UNCHANGED <<rows, pc, rest, decision, note, typed, before>>
    BY <1>9 DEF Signal, vars, local, history
  <2> QED
    BY <1>1, <2>1, StillTyped DEF TypedInv
<1> QED
  BY <1>2, <1>3, <1>4, <1>5, <1>6, <1>7, <1>8, <1>9 DEF Next, Step

LEMMA TypedEnough == TypedInv => DecisionsAsTyped
<1> SUFFICES ASSUME TypedInv
             PROVE  DecisionsAsTyped
  OBVIOUS
<1>1. /\ typed \in Seq(Line) /\ Place \in 0..Len(typed) /\ Stored \in Seq(Verdict)
      /\ Consumed = SubSeq(typed, 1, Place)
  BY Places, StoredType DEF TypedInv, Consumed, Place
<1>2. ASSUME pc = "prompt"
      PROVE  Stored = Meaning(Consumed)
  <2>1. Follows(typed, Place, Stored, Place + 1)
    BY <1>2 DEF TypedInv, ReadInv, AtPrompt
  <2> QED
    BY <1>1, <2>1, FollowsLast
<1>3. ASSUME pc = "save"
      PROVE  Append(Stored, ToStore) = Meaning(Consumed)
  <2>1. Follows(typed, Place, Stored \o <<ToStore>>, Place + 1)
    BY <1>3 DEF TypedInv, ReadInv, AtSave
  <2>2. ToStore \in Verdict
    BY <1>3 DEF TypedInv, SessionInv, TypeOK, Prepared, ToStore, Verdict
  <2>3. Append(Stored, ToStore) = Stored \o <<ToStore>> /\ Stored \o <<ToStore>> \in Seq(Verdict)
    BY <1>1, <2>2
  <2> QED
    BY <1>1, <2>1, <2>3, FollowsLast
<1> QED
  BY <1>2, <1>3 DEF DecisionsAsTyped, ToStore

\* What ReviewSession stores is what was typed, for any input: each decision
\* with its own note, no line read twice or skipped.
THEOREM DecisionsTyped == Spec => []DecisionsAsTyped
  BY InitTyped, NextTyped, TypedEnough, PTL DEF Spec
=============================================================================
