----------------------------- MODULE ModelCircuit -----------------------------
(***************************************************************************)
(* The model circuit of the Core: GroundedRuntimeBudgetMiddleware wraps    *)
(* every model call of every run with the budget of the run, a bounded     *)
(* retry loop and one circuit breaker that all runs of the process share   *)
(* (runs execute in a thread pool over a single GroundedDeepAgentRuntime). *)
(*                                                                         *)
(* The three circuit fields are read and written in lock regions; a call   *)
(* holds no lock between them, so the regions of different calls           *)
(* interleave.  A slot of Calls is a thread that makes one logical call    *)
(* after another.                                                          *)
(*                                                                         *)
(* Abstractions: the wall clock is the flag cooling / elapsed of           *)
(* openUntil; a budget may deny any reservation (its counters are those of *)
(* the run and the circuit never reads them).                              *)
(***************************************************************************)
EXTENDS Naturals, FiniteSets

CONSTANTS
    Calls,      \* threads that make model calls
    Threshold,  \* llm_circuit_threshold
    Attempts    \* grounded_core_model_retry_attempts

ASSUME ModelCircuitConstants ==
    /\ IsFiniteSet(Calls)
    /\ Threshold \in Nat \ {0}
    /\ Attempts \in Nat \ {0}

VARIABLES
    failures,   \* _model_failure_count
    openUntil,  \* _model_circuit_open_until: "none" (0.0), "cooling", "elapsed"
    probe,      \* _model_half_open_probe_in_flight
    call        \* where every thread stands in wrap_model_call

vars == <<failures, openUntil, probe, call>>

CallStates ==
    [pc      : {"idle", "reserving", "calling", "backoff"},
     attempt : 0..Attempts,
     probing : BOOLEAN]   \* admitted as the half-open probe

NoCall == [pc |-> "idle", attempt |-> 0, probing |-> FALSE]

InFlight == {c \in Calls : call[c].pc # "idle"}

Init ==
    /\ failures = 0
    /\ openUntil = "none"
    /\ probe = FALSE
    /\ call = [c \in Calls |-> NoCall]

-------------------------------------------------------------------------------
(* The circuit *)

\* mutant: the probe flag is not consulted
CircuitIsOpen_IgnoresProbe == openUntil = "cooling"

\* mutant: only the probe flag is consulted
CircuitIsOpen_ProbeOnly == probe

\* _circuit_is_open, its two refusals
CircuitIsOpen == probe \/ openUntil = "cooling"

\* _circuit_is_open after the cooldown
GrantProbe ==
    /\ failures' = 0
    /\ openUntil' = "none"
    /\ probe' = TRUE

\* _record_model_success
RecordSuccess ==
    /\ failures' = 0
    /\ openUntil' = "none"
    /\ probe' = FALSE

\* mutant: the circuit opens one failure late
RecordFailure_Late ==
    /\ probe' = FALSE
    /\ failures' = failures + 1
    /\ openUntil' = IF failures' > Threshold THEN "cooling" ELSE openUntil

\* _record_model_failure
RecordFailure ==
    /\ probe' = FALSE
    /\ failures' = failures + 1
    /\ openUntil' = IF failures' >= Threshold THEN "cooling" ELSE openUntil

UnchangedCircuit == UNCHANGED <<failures, openUntil, probe>>

-------------------------------------------------------------------------------
(* wrap_model_call *)

Move(c, pc) == call' = [call EXCEPT ![c].pc = pc]

\* the call returns or raises
Leave(c) == call' = [call EXCEPT ![c] = NoCall]

Admit(c) ==
    /\ call[c].pc = "idle"
    /\ ~CircuitIsOpen
    /\ IF openUntil = "elapsed" THEN GrantProbe ELSE UnchangedCircuit
    /\ call' = [call EXCEPT ![c] = [pc |-> "reserving", attempt |-> 1,
                                    probing |-> openUntil = "elapsed"]]

\* "grounded Core model circuit is open"
FailFast(c) ==
    /\ call[c].pc = "idle"
    /\ CircuitIsOpen
    /\ UNCHANGED vars

\* tokens, one LLM call and the remaining wall time are reserved
Reserve(c) ==
    /\ call[c].pc = "reserving"
    /\ Move(c, "calling")
    /\ UnchangedCircuit

\* GroundedRuntimeBudgetExceeded before the provider is called
Denied(c) ==
    /\ call[c].pc = "reserving"
    /\ Leave(c)
    /\ UnchangedCircuit

Answered(c) ==
    /\ call[c].pc = "calling"
    /\ RecordSuccess
    /\ Leave(c)

\* an error _provider_retry_reason does not know, or an answer after the
\* deadline of the run (the stage raises on exit): nothing is recorded
Unrecorded(c) ==
    /\ call[c].pc = "calling"
    /\ Leave(c)
    /\ UnchangedCircuit

\* mutant: one retry too many
Retry_OneMore(c) ==
    /\ call[c].pc = "calling"
    /\ call[c].attempt <= Attempts
    /\ Move(c, "backoff")
    /\ UnchangedCircuit

\* a retryable provider error with attempts left
Retry(c) ==
    /\ call[c].pc = "calling"
    /\ call[c].attempt < Attempts
    /\ Move(c, "backoff")
    /\ UnchangedCircuit

\* a retryable provider error on the last attempt
GiveUp(c) ==
    /\ call[c].pc = "calling"
    /\ call[c].attempt >= Attempts
    /\ RecordFailure
    /\ Leave(c)

\* mutant: a retry after a rate limit is not counted as an attempt
BackoffOver_SomeUncounted(c) ==
    /\ call[c].pc = "backoff"
    /\ \E n \in 0..1 :
          call' = [call EXCEPT ![c].pc = "reserving", ![c].attempt = @ + n]
    /\ UnchangedCircuit

\* _wait_before_retry, then the next round of the loop
BackoffOver(c) ==
    /\ call[c].pc = "backoff"
    /\ call' = [call EXCEPT ![c].pc = "reserving", ![c].attempt = @ + 1]
    /\ UnchangedCircuit

\* the run has no wall time left for the delay, or none after it
BackoffDenied(c) ==
    /\ call[c].pc = "backoff"
    /\ Leave(c)
    /\ UnchangedCircuit

Proceed(c) ==
    \/ Reserve(c) \/ Denied(c)
    \/ Answered(c) \/ Unrecorded(c) \/ Retry(c) \/ GiveUp(c)
    \/ BackoffOver(c) \/ BackoffDenied(c)

\* the wall clock passes _model_circuit_open_until
CooldownElapses ==
    /\ openUntil = "cooling"
    /\ openUntil' = "elapsed"
    /\ UNCHANGED <<failures, probe, call>>

Next ==
    \/ \E c \in Calls : Admit(c) \/ FailFast(c) \/ Proceed(c)
    \/ CooldownElapses

Spec == Init /\ [][Next]_vars

\* Provider calls carry a timeout and back-off sleeps are bounded, so a call
\* in flight goes on.  Nothing makes a thread start a new call.
FairSpec ==
    /\ Spec
    /\ \A c \in Calls : WF_vars(Proceed(c))
    /\ WF_vars(CooldownElapses)

-------------------------------------------------------------------------------
(* Properties *)

\* Every field keeps its range; in particular the retry loop of
\* wrap_model_call never counts past grounded_core_model_retry_attempts.
TypeOK ==
    /\ failures \in Nat
    /\ openUntil \in {"none", "cooling", "elapsed"}
    /\ probe \in BOOLEAN
    /\ call \in [Calls -> CallStates]

\* A closed circuit has seen fewer than llm_circuit_threshold failures since
\* the last success, and a half-open one none: the fields that
\* _circuit_is_open, _record_model_success and _record_model_failure write in
\* separate lock regions never contradict one another.
CircuitCoherent ==
    /\ openUntil = "none" => failures < Threshold
    /\ probe => failures = 0 /\ openUntil = "none"

\* While the circuit is open only the calls admitted before it opened can
\* still fail: the count never passes the threshold by more than the number
\* of calls that were under way (_record_model_failure keeps counting).
FailuresBounded ==
    openUntil # "none" =>
        failures + Cardinality(InFlight) < Threshold + Cardinality(Calls)

\* A probe that no call in flight will decide.
ProbeLost == probe /\ \A c \in InFlight : ~call[c].probing

\* When wrap_model_call leaves without recording an outcome for the probe
\* and no older call is in flight, the circuit refuses every later call of
\* every run: the flag is cleared only by an outcome, and none can come.
LostProbeIsForever ==
    [][probe /\ InFlight = {} => probe' /\ InFlight' = {}]_vars

\* The retry loop of the probing call ends: the probe is decided, or it is
\* lost because the call ended without an outcome.
ProbeSettles == probe ~> (~probe \/ ProbeLost)

-------------------------------------------------------------------------------
(* What _circuit_is_open says of the probe: "let its outcome close or reopen *)
(* the circuit".                                                             *)

\* The probe granted by _circuit_is_open is decided at some time.
ProbeDecided == probe ~> ~probe
===============================================================================
