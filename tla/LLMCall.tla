------------------------------ MODULE LLMCall ------------------------------
(***************************************************************************)
(* What a caller of llm.LLM relies on: a call is answered, or it fails for  *)
(* one of three reasons - the provider refused it for good, all the         *)
(* requests that it may cost were sent, or the context is done.             *)
(***************************************************************************)
EXTENDS Integers

CONSTANT MaxRequests  \* the requests that one call may send

VARIABLES promise,   \* where the call is
          requests,  \* how many requests it has sent
          done       \* whether the context is done

vars == <<promise, requests, done>>

Outcome == {"answered", "refused", "exhausted", "cancelled"}

Init == promise = "none" /\ requests = 0 /\ done = FALSE

Ask == promise # "open" /\ promise' = "open" /\ requests' = 0 /\ UNCHANGED done

Send ==
    /\ promise = "open" /\ requests < MaxRequests
    /\ requests' = requests + 1
    /\ UNCHANGED <<promise, done>>

\* Only a request that was sent is answered or refused, and only when no
\* request is left is that a reason to fail.
Settle ==
    /\ promise = "open"
    /\ promise' \in Outcome
    /\ promise' \in {"answered", "refused"} => requests > 0
    /\ promise' = "exhausted" => requests = MaxRequests
    /\ promise' = "cancelled" => done
    /\ UNCHANGED <<requests, done>>

Cancel == ~done /\ done' = TRUE /\ UNCHANGED <<promise, requests>>

Next == Ask \/ Send \/ Settle \/ Cancel

Spec == Init /\ [][Next]_vars

\* Nobody waits for ever.
Returns == promise = "open" ~> promise # "open"
=============================================================================
