--------------------------- MODULE ReviewWorkflow ---------------------------
(***************************************************************************)
(* What the pipeline promises about one contract, without statuses,         *)
(* processes or stages: the contract is opened with or without a review     *)
(* gate, its text is split into clauses once and for all, decisions are      *)
(* taken on clauses of a gated contract, and a report lists every clause -   *)
(* behind the gate only with a decision that was taken on it.               *)
(***************************************************************************)
EXTENDS Integers

CONSTANTS MaxClauses, \* bound: how many clauses a contract may have
          Decision    \* what a reviewer may decide on a clause

Clause == 1..MaxClauses

VARIABLES gate,      \* "unknown" until the contract is opened, then "yes" or "no"
          clauses,   \* the clauses of the contract
          decided,   \* the decisions taken on each clause
          published  \* the report: per clause its decision, "none" or "unlisted"

vars == <<gate, clauses, decided, published>>

Init ==
    /\ gate = "unknown"
    /\ clauses = {}
    /\ decided = [c \in Clause |-> {}]
    /\ published = [c \in Clause |-> "unlisted"]

Open == gate = "unknown" /\ gate' \in {"yes", "no"} /\ UNCHANGED <<clauses, decided, published>>

Split ==
    /\ gate # "unknown"
    /\ clauses = {}
    /\ \E n \in Clause : clauses' = 1..n
    /\ UNCHANGED <<gate, decided, published>>

Decide ==
    /\ gate = "yes"
    /\ \E c \in clauses, d \in Decision :
          decided' = [decided EXCEPT ![c] = @ \cup {d}]
    /\ UNCHANGED <<gate, clauses, published>>

\* A later report replaces an earlier one.
Publish ==
    /\ clauses # {}
    /\ \E d \in [clauses -> Decision \cup {"none"}] :
          /\ \A c \in clauses : IF gate = "yes" THEN d[c] \in decided[c] ELSE d[c] = "none"
          /\ published' = [c \in Clause |-> IF c \in clauses THEN d[c] ELSE "unlisted"]
    /\ UNCHANGED <<gate, clauses, decided>>

Next == Open \/ Split \/ Decide \/ Publish

Spec == Init /\ [][Next]_vars
=============================================================================
