---------------------------- MODULE RetryingLLM ----------------------------
(***************************************************************************)
(* RetryingLLM.Complete, one call at a time.  Each attempt is a request to  *)
(* the provider under a time limit of its own; between two attempts the     *)
(* call sleeps, longer each time, unless its context is done first.         *)
(***************************************************************************)
EXTENDS Integers

CONSTANTS
    MaxRetries,  \* LLM_MAX_RETRIES, which factory.New takes for 3 unless positive
    BaseDelay,   \* LLM_RETRY_BASE_MS, 500 unless positive
    MaxDuration, \* the largest time.Duration, 2^63 - 1 nanoseconds
    Errors       \* what the inner LLM returns: the adapters wrap every error of
                 \* theirs, a time-out too ("wrapped"), so that a *PermanentError
                 \* ("permanent") comes from an inner LLM that has them bare

ASSUME RetriesAssumption == MaxRetries \in Nat \ {0}
ASSUME DelayAssumption == MaxDuration \in Nat /\ BaseDelay \in 1..MaxDuration
ASSUME ErrorsAssumption == Errors \subseteq {"wrapped", "permanent"}

VARIABLES
    call,      \* where the call is, or what it returned
    attempt,   \* the attempt of its loop
    delay,     \* how long it slept last
    sent,      \* how many requests it has sent, any of which may be billed
    cancelled  \* whether the context is done

callVars == <<call, attempt, delay, sent>>

Running == {"head", "request", "sleep"}
Returned == {"answered", "refused", "exhausted", "cancelled"}

CallOK ==
    /\ call \in {"none"} \cup Running \cup Returned
    /\ attempt \in 0..MaxRetries
    /\ delay \in (-MaxDuration - 1)..MaxDuration
    /\ sent \in 0..(MaxRetries + 1)
    /\ cancelled \in BOOLEAN

CallInit == call = "none" /\ attempt = 0 /\ delay = 0 /\ sent = 0 /\ cancelled = FALSE

\* Complete is called.
Begin == call' = "head" /\ attempt' = 0 /\ delay' = 0 /\ sent' = 0

Return(r) == call' = r /\ UNCHANGED <<attempt, delay, sent>>

\* The context is looked at before each attempt.
Attempt ==
    /\ call = "head"
    /\ \/ cancelled /\ Return("cancelled")
       \/ /\ ~cancelled
          /\ call' = "request"
          /\ sent' = sent + 1
          /\ UNCHANGED <<attempt, delay>>
    /\ UNCHANGED cancelled

Answer == call = "request" /\ Return("answered") /\ UNCHANGED cancelled

\* baseDelay * (1 << n)
Backoff[n \in 0..MaxRetries] == IF n = 0 THEN BaseDelay ELSE 2 * Backoff[n - 1]

\* A time.Duration wraps around.
Duration(n) ==
    IF n <= MaxDuration THEN n
    ELSE ((n + MaxDuration + 1) % (2 * (MaxDuration + 1))) - (MaxDuration + 1)

\* Mutant: a jitter as large as the base delay.
JitterInclusive == 0..BaseDelay

Jitter == 0..(BaseDelay - 1)

\* Mutant: the last attempt is followed by one more.
FailLate ==
    /\ call = "request"
    /\ \E e \in Errors :
          IF e = "permanent" THEN Return("refused")
          ELSE IF attempt > MaxRetries THEN Return("exhausted")
          ELSE /\ call' = "sleep"
               /\ \E j \in Jitter : delay' = Duration(Backoff[attempt] + j)
               /\ UNCHANGED <<attempt, sent>>
    /\ UNCHANGED cancelled

\* An attempt fails, by an error, the end of its time or the end of the context.
Fail ==
    /\ call = "request"
    /\ \E e \in Errors :
          IF e = "permanent" THEN Return("refused")
          ELSE IF attempt = MaxRetries THEN Return("exhausted")
          ELSE /\ call' = "sleep"
               /\ \E j \in Jitter : delay' = Duration(Backoff[attempt] + j)
               /\ UNCHANGED <<attempt, sent>>
    /\ UNCHANGED cancelled

\* time.After, or the context if that is done: select takes either.
Wake ==
    /\ call = "sleep"
    /\ \/ call' = "head" /\ attempt' = attempt + 1 /\ UNCHANGED <<delay, sent>>
       \/ cancelled /\ Return("cancelled")
    /\ UNCHANGED cancelled

Signal == ~cancelled /\ cancelled' = TRUE /\ UNCHANGED callVars

CallStep == Attempt \/ Answer \/ Fail \/ Wake

-----------------------------------------------------------------------------
\* Whatever the provider does and whenever the context ends, the call keeps
\* what callers rely on; MaxRetries + 1 requests are what an answer may cost.
Contract == INSTANCE LLMCall WITH
    MaxRequests <- MaxRetries + 1,
    promise <- IF call \in Running THEN "open" ELSE call,
    requests <- sent,
    done <- cancelled

CallKept == Contract!Spec

\* Each sleep of a call is longer than the one before, whatever the jitter: a
\* provider that asks for less is never asked for more.
BackoffGrows == [][call # "sleep" /\ call' = "sleep" => delay' > delay]_<<callVars, cancelled>>
=============================================================================
