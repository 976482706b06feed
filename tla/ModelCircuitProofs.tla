--------------------------- MODULE ModelCircuitProofs ---------------------------
(***************************************************************************)
(* What holds of the model circuit for any number of threads, any          *)
(* threshold and any number of attempts.                                   *)
(*                                                                         *)
(* The bound on the failure count is inductive together with the           *)
(* coherence of the three fields: the count can only pass the threshold    *)
(* while the circuit is open, an open circuit admits nobody, and every     *)
(* failure then recorded takes one call out of flight.                     *)
(***************************************************************************)
EXTENDS ModelCircuit, FiniteSetTheorems, TLAPS

USE ModelCircuitConstants

\* A call that leaves wrap_model_call is no longer in flight.
LEMMA Leaving ==
    ASSUME TypeOK, NEW c \in Calls, call[c].pc # "idle", Leave(c)
    PROVE  /\ call' \in [Calls -> CallStates]
           /\ InFlight' = InFlight \ {c}
           /\ c \in InFlight
  <1>1. NoCall \in CallStates /\ NoCall.pc = "idle"
    BY DEF NoCall, CallStates
  <1>2. call' \in [Calls -> CallStates]
    BY <1>1 DEF Leave, TypeOK
  <1>3. InFlight' = InFlight \ {c}
    BY <1>1 DEF Leave, TypeOK, InFlight
  <1> QED
    BY <1>2, <1>3 DEF InFlight

\* A call that moves inside wrap_model_call stays in flight.
LEMMA Moving ==
    ASSUME TypeOK, NEW c \in Calls, call[c].pc # "idle",
           NEW pc \in {"reserving", "calling", "backoff"}, Move(c, pc)
    PROVE  /\ call' \in [Calls -> CallStates]
           /\ InFlight' = InFlight
  <1>1. call[c] \in CallStates
    BY DEF TypeOK
  <1>2. [call[c] EXCEPT !.pc = pc] \in CallStates
    BY <1>1 DEF CallStates
  <1>3. call' = [call EXCEPT ![c] = [call[c] EXCEPT !.pc = pc]]
    BY DEF Move, TypeOK
  <1>4. \A d \in Calls : (call'[d].pc # "idle") <=> (call[d].pc # "idle")
    BY <1>1, <1>3 DEF TypeOK, CallStates
  <1> QED
    BY <1>2, <1>3, <1>4 DEF TypeOK, InFlight

\* The next round of the retry loop: the attempt of a call in back-off is
\* counted, and stays within the range of the loop.
LEMMA NextRound ==
    ASSUME TypeOK, NEW c \in Calls, BackoffOver(c), call[c].attempt < Attempts
    PROVE  /\ call' \in [Calls -> CallStates]
           /\ InFlight' = InFlight
  <1> DEFINE n == call[c].attempt + 1
  <1>1. call[c] \in CallStates
    BY DEF TypeOK
  <1>2. n \in 0..Attempts
    BY <1>1 DEF CallStates
  <1>3. call' = [call EXCEPT ![c] = [call[c] EXCEPT !.pc = "reserving", !.attempt = n]]
    BY DEF BackoffOver, TypeOK
  <1> HIDE DEF n
  <1>4. [call[c] EXCEPT !.pc = "reserving", !.attempt = n] \in CallStates
    BY <1>1, <1>2 DEF CallStates
  <1>5. call' \in [Calls -> CallStates]
    BY <1>3, <1>4 DEF TypeOK
  <1>6. \A d \in Calls : (call'[d].pc # "idle") <=> (call[d].pc # "idle")
    BY <1>1, <1>3 DEF TypeOK, CallStates, BackoffOver
  <1> QED
    BY <1>5, <1>6 DEF InFlight

\* A call that backs off has attempts left: the guard of Retry in the loop of
\* wrap_model_call, which keeps the next round within its range.
CanRetry == \A c \in Calls : call[c].pc = "backoff" => call[c].attempt < Attempts

\* An admitted call is in flight with its first attempt.
LEMMA Admitting ==
    ASSUME TypeOK, NEW c \in Calls, Admit(c)
    PROVE  /\ call' \in [Calls -> CallStates]
           /\ InFlight' = InFlight \cup {c}
           /\ c \notin InFlight
  <1> DEFINE new == [pc |-> "reserving", attempt |-> 1, probing |-> openUntil = "elapsed"]
  <1>1. new \in CallStates /\ new.pc = "reserving"
    BY DEF CallStates
  <1>2. call' = [call EXCEPT ![c] = new] /\ call[c].pc = "idle"
    BY DEF Admit
  <1> HIDE DEF new
  <1> QED
    BY <1>1, <1>2 DEF TypeOK, InFlight

-------------------------------------------------------------------------------
\* The initial state has no call in flight and a closed circuit.
LEMMA InitType ==
    ASSUME Init
    PROVE  TypeOK /\ CanRetry
  <1>1. NoCall \in CallStates /\ NoCall.pc = "idle"
    BY DEF NoCall, CallStates
  <1> QED
    BY <1>1 DEF Init, TypeOK, CanRetry

\* The lock regions of the circuit keep the range of its fields.
LEMMA CircuitType ==
    ASSUME TypeOK, GrantProbe \/ RecordSuccess \/ RecordFailure \/ UnchangedCircuit
    PROVE  /\ failures' \in Nat
           /\ openUntil' \in {"none", "cooling", "elapsed"}
           /\ probe' \in BOOLEAN
  <1>1. failures' \in Nat
    BY DEF TypeOK, GrantProbe, RecordSuccess, RecordFailure, UnchangedCircuit
  <1>2. openUntil' \in {"none", "cooling", "elapsed"}
    BY DEF TypeOK, GrantProbe, RecordSuccess, RecordFailure, UnchangedCircuit
  <1>3. probe' \in BOOLEAN
    BY Zenon DEF TypeOK, GrantProbe, RecordSuccess, RecordFailure, UnchangedCircuit
  <1> QED
    BY <1>1, <1>2, <1>3

\* Every step keeps the types and the attempts left.
LEMMA NextType ==
    ASSUME TypeOK, CanRetry, [Next]_vars
    PROVE  TypeOK' /\ CanRetry'
  <1>1. ASSUME NEW c \in Calls, Admit(c)
        PROVE  TypeOK' /\ CanRetry'
    <2>1. call' \in [Calls -> CallStates]
      BY <1>1, Admitting
    <2>2. TypeOK'
      <3>1. GrantProbe \/ UnchangedCircuit
        BY <1>1 DEF Admit
      <3> QED
        BY <2>1, <3>1, CircuitType DEF TypeOK
    <2>3. CanRetry'
      BY <1>1 DEF Admit, CanRetry, TypeOK
    <2> QED
      BY <2>2, <2>3
  <1>2. ASSUME NEW c \in Calls, Leave(c), call[c].pc # "idle",
               RecordSuccess \/ RecordFailure \/ UnchangedCircuit
        PROVE  TypeOK' /\ CanRetry'
    <2>1. call' \in [Calls -> CallStates]
      BY <1>2, Leaving
    <2>2. TypeOK'
      BY <1>2, <2>1, CircuitType DEF TypeOK
    <2>3. CanRetry'
      BY <1>2 DEF Leave, NoCall, CanRetry, TypeOK
    <2> QED
      BY <2>2, <2>3
  <1>3. ASSUME NEW c \in Calls, Reserve(c) \/ Retry(c)
        PROVE  TypeOK' /\ CanRetry'
    <2>1. call' \in [Calls -> CallStates]
      BY <1>3, Moving DEF Reserve, Retry
    <2>2. TypeOK'
      BY <1>3, <2>1 DEF Reserve, Retry, UnchangedCircuit, TypeOK
    <2>3. call[c] \in CallStates
      BY DEF TypeOK
    <2>4. CanRetry'
      BY <1>3, <2>3 DEF Reserve, Retry, Move, CanRetry, TypeOK, CallStates
    <2> QED
      BY <2>2, <2>4
  <1>4. ASSUME NEW c \in Calls, BackoffOver(c)
        PROVE  TypeOK' /\ CanRetry'
    <2>1. call' \in [Calls -> CallStates]
      BY <1>4, NextRound DEF BackoffOver, CanRetry
    <2>2. TypeOK'
      BY <1>4, <2>1 DEF BackoffOver, UnchangedCircuit, TypeOK
    <2>3. call[c] \in CallStates
      BY DEF TypeOK
    <2>4. CanRetry'
      BY <1>4, <2>3 DEF BackoffOver, CanRetry, TypeOK, CallStates
    <2> QED
      BY <2>2, <2>4
  <1>5. CASE CooldownElapses
    BY <1>5 DEF CooldownElapses, TypeOK, CanRetry
  <1>6. CASE UNCHANGED vars
    BY <1>6 DEF vars, TypeOK, CanRetry
  <1> QED
    BY <1>1, <1>2, <1>3, <1>4, <1>5, <1>6
    DEF Next, Proceed, FailFast, Denied, Answered, Unrecorded, GiveUp, BackoffDenied

\* Every field of the circuit and of the calls keeps its range.
THEOREM TypeCorrect == Spec => []TypeOK
  <1>1. Init => TypeOK /\ CanRetry
    BY InitType
  <1>2. (TypeOK /\ CanRetry) /\ [Next]_vars => (TypeOK /\ CanRetry)'
    BY NextType
  <1> QED
    BY <1>1, <1>2, PTL DEF Spec

-------------------------------------------------------------------------------
\* Every step keeps the three circuit fields coherent.
LEMMA NextCoherent ==
    ASSUME TypeOK, CircuitCoherent, [Next]_vars
    PROVE  CircuitCoherent'
  <1>1. CASE RecordSuccess \/ UnchangedCircuit \/ UNCHANGED vars
    BY <1>1 DEF RecordSuccess, UnchangedCircuit, vars, CircuitCoherent
  <1>2. CASE RecordFailure
    BY <1>2 DEF RecordFailure, CircuitCoherent, TypeOK
  <1>3. CASE GrantProbe
    BY <1>3 DEF GrantProbe, CircuitCoherent
  <1>4. CASE CooldownElapses
    BY <1>4 DEF CooldownElapses, CircuitCoherent
  <1> QED
    BY <1>1, <1>2, <1>3, <1>4
    DEF Next, Admit, FailFast, Proceed, Reserve, Denied, Answered, Unrecorded, Retry,
        GiveUp, BackoffOver, BackoffDenied

\* The fields of the circuit never contradict one another.
THEOREM CircuitStaysCoherent == Spec => []CircuitCoherent
  <1>1. Init => CircuitCoherent
    BY DEF Init, CircuitCoherent
  <1>2. TypeOK /\ CircuitCoherent /\ [Next]_vars => CircuitCoherent'
    BY NextCoherent
  <1> QED
    BY <1>1, <1>2, TypeCorrect, PTL DEF Spec

-------------------------------------------------------------------------------
\* The calls in flight are finitely many and at most all of them.
LEMMA InFlightCount ==
    /\ IsFiniteSet(InFlight)
    /\ Cardinality(InFlight) \in Nat
    /\ Cardinality(Calls) \in Nat
    /\ Cardinality(InFlight) <= Cardinality(Calls)
  BY FS_Subset, FS_CardinalityType DEF InFlight

\* A call that leaves lowers the number of calls in flight by one, and that
\* number was positive.
LEMMA LeavingCount ==
    ASSUME TypeOK, NEW c \in Calls, call[c].pc # "idle", Leave(c)
    PROVE  /\ Cardinality(InFlight') = Cardinality(InFlight) - 1
           /\ Cardinality(InFlight) >= 1
  <1>1. InFlight' = InFlight \ {c} /\ c \in InFlight
    BY Leaving
  <1>2. Cardinality(InFlight \ {c}) = Cardinality(InFlight) - 1
    BY <1>1, InFlightCount, FS_RemoveElement
  <1>3. Cardinality(InFlight \ {c}) \in Nat
    BY InFlightCount, FS_RemoveElement, FS_CardinalityType
  <1> QED
    BY <1>1, <1>2, <1>3, InFlightCount

\* A failure recorded by a leaving call either leaves the circuit closed or
\* keeps the count under its bound.
LEMMA RecordedFailure ==
    ASSUME TypeOK, CircuitCoherent, FailuresBounded, NEW c \in Calls, GiveUp(c)
    PROVE  FailuresBounded'
  <1> DEFINE n == Cardinality(InFlight)
             k == Cardinality(Calls)
  <1>1. n \in Nat /\ k \in Nat /\ n <= k /\ n >= 1 /\ Cardinality(InFlight') = n - 1
    BY InFlightCount, LeavingCount DEF GiveUp
  <1> HIDE DEF n, k
  <1>2. openUntil = "none" => failures < Threshold
    BY DEF CircuitCoherent
  <1>3. openUntil # "none" => failures + n < Threshold + k
    BY DEF FailuresBounded, n, k
  <1>4. openUntil' # "none" => failures' + (n - 1) < Threshold + k
    BY <1>1, <1>2, <1>3 DEF GiveUp, RecordFailure, TypeOK
  <1> QED
    BY <1>1, <1>4 DEF FailuresBounded, k

\* Every step keeps the count under its bound.
LEMMA NextBounded ==
    ASSUME TypeOK, CanRetry, CircuitCoherent, FailuresBounded, [Next]_vars
    PROVE  FailuresBounded'
  <1>1. ASSUME NEW c \in Calls, Admit(c)
        PROVE  FailuresBounded'
    <2>1. openUntil' = "none"
      BY <1>1 DEF Admit, CircuitIsOpen, GrantProbe, UnchangedCircuit, TypeOK
    <2> QED
      BY <2>1 DEF FailuresBounded
  <1>2. ASSUME NEW c \in Calls, Leave(c), call[c].pc # "idle", UnchangedCircuit
        PROVE  FailuresBounded'
    <2>1. Cardinality(InFlight') = Cardinality(InFlight) - 1
      BY <1>2, LeavingCount
    <2>2. failures + Cardinality(InFlight) < Threshold + Cardinality(Calls)
          => failures + Cardinality(InFlight') < Threshold + Cardinality(Calls)
      BY <2>1, InFlightCount DEF TypeOK
    <2> QED
      BY <1>2, <2>2 DEF UnchangedCircuit, FailuresBounded
  <1>3. ASSUME NEW c \in Calls, Reserve(c) \/ Retry(c) \/ BackoffOver(c)
        PROVE  FailuresBounded'
    <2>1. InFlight' = InFlight
      BY <1>3, Moving, NextRound DEF Reserve, Retry, BackoffOver, CanRetry
    <2> QED
      BY <1>3, <2>1 DEF Reserve, Retry, BackoffOver, UnchangedCircuit, FailuresBounded
  <1>4. ASSUME NEW c \in Calls, Answered(c)
        PROVE  FailuresBounded'
    BY <1>4 DEF Answered, RecordSuccess, FailuresBounded
  <1>5. ASSUME NEW c \in Calls, GiveUp(c)
        PROVE  FailuresBounded'
    BY <1>5, RecordedFailure
  <1>6. CASE CooldownElapses
    BY <1>6 DEF CooldownElapses, FailuresBounded, InFlight
  <1>7. CASE UNCHANGED vars
    BY <1>7 DEF vars, FailuresBounded, InFlight
  <1> QED
    BY <1>1, <1>2, <1>3, <1>4, <1>5, <1>6, <1>7
    DEF Next, Proceed, FailFast, Denied, Unrecorded, BackoffDenied

\* An open circuit counts at most the failures of the calls that were already
\* under way when it opened.
THEOREM FailuresStayBounded == Spec => []FailuresBounded
  <1>1. Init => TypeOK /\ CanRetry /\ CircuitCoherent /\ FailuresBounded
    <2>1. Init => CircuitCoherent
      BY DEF Init, CircuitCoherent
    <2>2. Init => FailuresBounded
      BY DEF Init, FailuresBounded
    <2> QED
      BY <2>1, <2>2, InitType
  <1>2. (TypeOK /\ CanRetry /\ CircuitCoherent /\ FailuresBounded) /\ [Next]_vars
        => (TypeOK /\ CanRetry /\ CircuitCoherent /\ FailuresBounded)'
    BY NextType, NextCoherent, NextBounded
  <1> QED
    BY <1>1, <1>2, PTL DEF Spec

-------------------------------------------------------------------------------
\* A probe whose call left wrap_model_call without an outcome, with no older
\* call in flight, keeps the circuit refusing every call for good.
THEOREM LostProbeStays == Spec => LostProbeIsForever
  <1>1. ASSUME TypeOK, [Next]_vars, probe, InFlight = {}
        PROVE  probe' /\ InFlight' = {}
    <2>1. \A c \in Calls : call[c].pc = "idle"
      BY <1>1 DEF InFlight
    <2>2. \A c \in Calls : ~Admit(c)
      BY <1>1 DEF Admit, CircuitIsOpen
    <2>3. \A c \in Calls : ~Proceed(c)
      BY <2>1 DEF Proceed, Reserve, Denied, Answered, Unrecorded, Retry, GiveUp,
                  BackoffOver, BackoffDenied
    <2>4. CASE CooldownElapses
      BY <1>1, <2>4 DEF CooldownElapses, InFlight
    <2>5. CASE UNCHANGED vars
      BY <1>1, <2>5 DEF vars, InFlight
    <2> QED
      BY <1>1, <2>2, <2>3, <2>4, <2>5 DEF Next, FailFast
  <1>2. TypeOK /\ [Next]_vars
        => [probe /\ InFlight = {} => probe' /\ InFlight' = {}]_vars
    BY <1>1
  <1> QED
    BY <1>2, TypeCorrect, PTL DEF Spec, LostProbeIsForever

\* A lost probe waits for the calls that were admitted before it: nobody joins
\* them, and only an outcome that one of them records can decide the probe.
LostProbeWaits ==
    ProbeLost => /\ InFlight' \subseteq InFlight
                 /\ \/ ProbeLost'
                    \/ \E c \in InFlight \ InFlight' : Answered(c) \/ GiveUp(c)

\* The calls under way are the only hope of a circuit whose probe ended without
\* an outcome; with none of them LostProbeStays says how it ends.
THEOREM LostProbeHopes == Spec => [][LostProbeWaits]_vars
  <1>1. ASSUME TypeOK, CanRetry, Next, ProbeLost
        PROVE  /\ InFlight' \subseteq InFlight
               /\ ProbeLost' \/ \E c \in InFlight \ InFlight' : Answered(c) \/ GiveUp(c)
    <2>1. \A c \in Calls : ~Admit(c)
      BY <1>1 DEF ProbeLost, Admit, CircuitIsOpen
    <2>2. ASSUME NEW c \in Calls, Reserve(c) \/ Retry(c) \/ BackoffOver(c)
          PROVE  InFlight' \subseteq InFlight /\ ProbeLost'
      <3>1. InFlight' = InFlight /\ probe' = probe
        BY <1>1, <2>2, Moving, NextRound
           DEF Reserve, Retry, BackoffOver, CanRetry, UnchangedCircuit
      <3>2. \A d \in Calls : call'[d].probing = call[d].probing
        BY <1>1, <2>2 DEF Reserve, Retry, BackoffOver, Move, TypeOK, CallStates
      <3> QED
        BY <1>1, <3>1, <3>2 DEF ProbeLost, InFlight
    <2>3. ASSUME NEW c \in Calls, Denied(c) \/ Unrecorded(c) \/ BackoffDenied(c)
          PROVE  InFlight' \subseteq InFlight /\ ProbeLost'
      <3>1. InFlight' = InFlight \ {c} /\ probe' = probe
        BY <1>1, <2>3, Leaving DEF Denied, Unrecorded, BackoffDenied, UnchangedCircuit
      <3>2. \A d \in Calls \ {c} : call'[d] = call[d]
        BY <1>1, <2>3 DEF Denied, Unrecorded, BackoffDenied, Leave, TypeOK
      <3> QED
        BY <1>1, <3>1, <3>2 DEF ProbeLost, InFlight
    <2>4. ASSUME NEW c \in Calls, Answered(c) \/ GiveUp(c)
          PROVE  /\ InFlight' \subseteq InFlight
                 /\ \E d \in InFlight \ InFlight' : Answered(d) \/ GiveUp(d)
      BY <1>1, <2>4, Leaving DEF Answered, GiveUp
    <2>5. CASE UNCHANGED <<probe, call>>
      BY <1>1, <2>5 DEF ProbeLost, InFlight
    <2> QED
      BY <1>1, <2>1, <2>2, <2>3, <2>4, <2>5 DEF Next, Proceed, FailFast, CooldownElapses, vars
  <1>2. TypeOK /\ CanRetry /\ [Next]_vars => [LostProbeWaits]_vars
    BY <1>1 DEF LostProbeWaits
  <1>3. Init => TypeOK /\ CanRetry
    BY InitType
  <1>4. (TypeOK /\ CanRetry) /\ [Next]_vars => (TypeOK /\ CanRetry)'
    BY NextType
  <1> QED
    BY <1>2, <1>3, <1>4, PTL DEF Spec

-------------------------------------------------------------------------------
(* A call comes nearer to its end *)

\* the order of the places of an attempt
Rank(p) == IF p = "reserving" THEN 3 ELSE IF p = "calling" THEN 2 ELSE 1

\* a bound on the steps wrap_model_call has left: the loop counts its rounds
StepsLeft(c) ==
    IF call[c].pc = "idle" THEN 0 ELSE Rank(call[c].pc) + 3 * (Attempts - call[c].attempt)

\* Whatever the circuit and the other calls do, a call under way is never sent
\* back.
CallsAdvance ==
    \A c \in Calls :
        call'[c] # call[c] => call[c].pc = "idle" \/ StepsLeft(c)' < StepsLeft(c)

\* Each step of the loop lowers what the call has left.
LEMMA ProceedFalls ==
    ASSUME TypeOK, CanRetry, NEW c \in Calls, Proceed(c)
    PROVE  /\ StepsLeft(c)' < StepsLeft(c)
           /\ \A d \in Calls \ {c} : call'[d] = call[d]
  <1>1. call[c].pc # "idle" /\ call[c].attempt \in 0..Attempts
    BY DEF Proceed, Reserve, Denied, Answered, Unrecorded, Retry, GiveUp, BackoffOver,
           BackoffDenied, TypeOK, CallStates
  <1>2. CASE Leave(c)
    <2>1. StepsLeft(c)' = 0 /\ \A d \in Calls \ {c} : call'[d] = call[d]
      BY <1>2 DEF Leave, NoCall, StepsLeft, TypeOK
    <2>2. StepsLeft(c) > 0
      BY <1>1 DEF StepsLeft, Rank
    <2> QED
      BY <2>1, <2>2
  <1>3. CASE Reserve(c) \/ Retry(c)
    <2>1. /\ call'[c].attempt = call[c].attempt
          /\ \/ call[c].pc = "reserving" /\ call'[c].pc = "calling"
             \/ call[c].pc = "calling" /\ call'[c].pc = "backoff"
          /\ \A d \in Calls \ {c} : call'[d] = call[d]
      BY <1>3 DEF Reserve, Retry, Move, TypeOK, CallStates
    <2> QED
      BY <1>1, <2>1 DEF StepsLeft, Rank
  <1>4. CASE BackoffOver(c)
    <2>1. /\ call'[c].attempt = call[c].attempt + 1
          /\ call[c].pc = "backoff" /\ call'[c].pc = "reserving"
          /\ \A d \in Calls \ {c} : call'[d] = call[d]
      BY <1>4 DEF BackoffOver, TypeOK, CallStates
    <2> QED
      BY <1>1, <2>1 DEF StepsLeft, Rank
  <1> QED
    BY <1>2, <1>3, <1>4 DEF Proceed, Denied, Answered, Unrecorded, GiveUp, BackoffDenied

\* Why the call that holds the probe ends, with an outcome or without: a call takes
\* at most 3 * Attempts steps and never one back, for any number of threads.
THEOREM CallsComeNearer == Spec => [][CallsAdvance]_vars
  <1>1. TypeOK /\ CanRetry /\ [Next]_vars => [CallsAdvance]_vars
    <2> SUFFICES ASSUME TypeOK, CanRetry, Next PROVE CallsAdvance
      BY DEF CallsAdvance
    <2>1. ASSUME NEW c \in Calls, Proceed(c) PROVE CallsAdvance
      BY <2>1, ProceedFalls DEF CallsAdvance
    <2>2. ASSUME NEW c \in Calls, Admit(c) PROVE CallsAdvance
      BY <2>2 DEF Admit, CallsAdvance, TypeOK
    <2>3. CASE UNCHANGED call
      BY <2>3 DEF CallsAdvance
    <2> QED
      BY <2>1, <2>2, <2>3 DEF Next, FailFast, CooldownElapses, vars
  <1>2. Init => TypeOK /\ CanRetry
    BY InitType
  <1>3. (TypeOK /\ CanRetry) /\ [Next]_vars => (TypeOK /\ CanRetry)'
    BY NextType
  <1> QED
    BY <1>1, <1>2, <1>3, PTL DEF Spec
===============================================================================
