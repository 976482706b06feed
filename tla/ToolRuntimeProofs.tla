---------------------------- MODULE ToolRuntimeProofs ----------------------------
(***************************************************************************)
(* What holds of the tool runtime and its journal for any number of        *)
(* callers, keys and claims.                                               *)
(*                                                                         *)
(* A handler thread carries the claim it was started under, and every      *)
(* claim of a key has a generation of its own: two threads of one claim    *)
(* never coexist because the attempt loop starts a thread only when the    *)
(* previous one has handed its result over.  A mutating key is claimed     *)
(* once, so it has one thread in its life, and what the sink, the thread,  *)
(* the call and the journal know of each other can be written down.        *)
(***************************************************************************)
EXTENDS ToolRuntime, TLAPS

USE ToolRuntimeConstants

Holding == {"claimed", "waiting", "succeeding", "failing", "caching"}

\* What execute knows of its own call.
CallKeyed(c) ==
    /\ call[c].pc # "idle" => call[c].key \in Keys
    /\ call[c].pc \in Holding =>
          /\ call[c].attempt <= Attempts(call[c].key)
          /\ call[c].gen \in 1..journal[call[c].key].gen
    /\ call[c].pc \in {"failing", "caching", "replying"} => call[c].out \in Outcomes

Keyed == \A c \in Callers : CallKeyed(c)

-------------------------------------------------------------------------------
(* The forms in which a step changes a call *)

\* A caller moves on in its call.
LEMMA Moving ==
    ASSUME TypeOK, NEW c \in Callers, NEW pc \in {"waiting", "succeeding", "replying"},
           Move(c, pc)
    PROVE  /\ call' \in [Callers -> CallStates]
           /\ \A d \in Callers \ {c} : call'[d] = call[d]
           /\ call'[c].pc = pc
           /\ call'[c].key = call[c].key
           /\ call'[c].gen = call[c].gen
           /\ call'[c].attempt = call[c].attempt
           /\ call'[c].out = call[c].out
  <1> DEFINE r == [call[c] EXCEPT !.pc = pc]
  <1>1. call[c] \in CallStates
    BY DEF TypeOK
  <1>2. /\ r \in CallStates /\ r.pc = pc /\ r.key = call[c].key
        /\ r.gen = call[c].gen /\ r.attempt = call[c].attempt /\ r.out = call[c].out
    BY <1>1 DEF CallStates
  <1>3. call' = [call EXCEPT ![c] = r]
    BY DEF Move, TypeOK
  <1> HIDE DEF r
  <1> QED
    BY <1>2, <1>3 DEF TypeOK

\* A caller leaves execute.
LEMMA Leaving ==
    ASSUME TypeOK, NEW c \in Callers, Leave(c)
    PROVE  /\ call' \in [Callers -> CallStates]
           /\ \A d \in Callers \ {c} : call'[d] = call[d]
           /\ call'[c].pc = "idle"
  <1>1. NoCall \in CallStates /\ NoCall.pc = "idle"
    BY DEF NoCall, CallStates
  <1> QED
    BY <1>1 DEF Leave, TypeOK

\* A caller has an outcome to reply.
LEMMA Answering ==
    ASSUME TypeOK, NEW c \in Callers, NEW o \in Outcomes, Answer(c, o)
    PROVE  /\ call' \in [Callers -> CallStates]
           /\ \A d \in Callers \ {c} : call'[d] = call[d]
           /\ call'[c].pc = "replying"
           /\ call'[c].key = call[c].key
           /\ call'[c].out = o
  <1> DEFINE r == [call[c] EXCEPT !.pc = "replying", !.out = o]
  <1>1. call[c] \in CallStates
    BY DEF TypeOK
  <1>2. r \in CallStates /\ r.pc = "replying" /\ r.key = call[c].key /\ r.out = o
    BY <1>1 DEF CallStates
  <1>3. call' = [call EXCEPT ![c] = r]
    BY DEF Answer, TypeOK
  <1> HIDE DEF r
  <1> QED
    BY <1>2, <1>3 DEF TypeOK

\* The attempt loop goes round.
LEMMA Retrying ==
    ASSUME TypeOK, NEW c \in Callers, NextAttempt(c), call[c].key \in Keys
    PROVE  /\ call' \in [Callers -> CallStates]
           /\ \A d \in Callers \ {c} : call'[d] = call[d]
           /\ call'[c].pc = "claimed"
           /\ call'[c].key = call[c].key
           /\ call'[c].gen = call[c].gen
           /\ call'[c].attempt <= Attempts(call[c].key)
           /\ call'[c].attempt = call[c].attempt + 1
           /\ call[c].key \in Retryable
  <1> DEFINE n == call[c].attempt + 1
             r == [call[c] EXCEPT !.pc = "claimed", !.attempt = n]
  <1>1. call[c] \in CallStates
    BY DEF TypeOK
  <1>2. call[c].key \in Retryable /\ n = 2
    BY <1>1 DEF NextAttempt, Attempts, CallStates
  <1>3. call' = [call EXCEPT ![c] = r]
    BY DEF NextAttempt, TypeOK
  <1> HIDE DEF n
  <1>4. n \in 1..2 /\ n <= Attempts(call[c].key)
    BY <1>2 DEF Attempts
  <1>5. r \in CallStates /\ r.pc = "claimed" /\ r.key = call[c].key
        /\ r.gen = call[c].gen /\ r.attempt = n
    BY <1>1, <1>4 DEF CallStates
  <1> HIDE DEF r
  <1> QED
    BY <1>2, <1>3, <1>4, <1>5 DEF TypeOK, n

\* The attempt loop is left without a value.
LEMMA GivingUp ==
    ASSUME TypeOK, NEW c \in Callers, NEW s \in Failures, GiveUp(c, s)
    PROVE  /\ call' \in [Callers -> CallStates]
           /\ \A d \in Callers \ {c} : call'[d] = call[d]
           /\ call'[c].pc = "failing"
           /\ call'[c].key = call[c].key
           /\ call'[c].gen = call[c].gen
           /\ call'[c].attempt = call[c].attempt
           /\ call'[c].out \in Outcomes
           /\ call'[c].out.gen = call[c].gen
           /\ call[c].key \in Mutating => call'[c].out.status = "outcome_unknown"
  <1> DEFINE o == [status |-> FailureOf(call[c].key, s), gen |-> call[c].gen]
             r == [call[c] EXCEPT !.pc = "failing", !.out = o]
  <1>1. call[c] \in CallStates
    BY DEF TypeOK
  <1>2. o \in Outcomes /\ o.gen = call[c].gen
        /\ (call[c].key \in Mutating => o.status = "outcome_unknown")
    BY <1>1 DEF CallStates, Outcomes, FailureOf, Failures, Terminal
  <1>3. call' = [call EXCEPT ![c] = r]
    BY DEF GiveUp, TypeOK
  <1> HIDE DEF o
  <1>4. r \in CallStates /\ r.pc = "failing" /\ r.key = call[c].key
        /\ r.gen = call[c].gen /\ r.attempt = call[c].attempt /\ r.out = o
    BY <1>1, <1>2 DEF CallStates
  <1> HIDE DEF r
  <1> QED
    BY <1>2, <1>3, <1>4 DEF TypeOK

-------------------------------------------------------------------------------
(* Types *)

\* No generation of the journal is ever taken back.
GensGrow == \A k \in Keys : journal'[k].gen >= journal[k].gen

\* The entry that claim_execution writes.
LEMMA Claiming ==
    ASSUME TypeOK, NEW c \in Callers, NEW k \in Keys,
           journal' = [journal EXCEPT ![k] = Granted(c, k)]
    PROVE  /\ journal' \in [Keys -> Entries]
           /\ \A l \in Keys \ {k} : journal'[l] = journal[l]
           /\ journal'[k] = Granted(c, k)
           /\ journal'[k].gen = journal[k].gen + 1
           /\ GensGrow
  <1>1. journal[k].gen \in Nat
    BY DEF TypeOK, Entries
  <1>2. Granted(c, k) \in Entries /\ Granted(c, k).gen = journal[k].gen + 1
    BY <1>1 DEF Granted, Entries
  <1>3. /\ journal' \in [Keys -> Entries]
        /\ \A l \in Keys \ {k} : journal'[l] = journal[l]
        /\ journal'[k] = Granted(c, k)
    BY <1>2 DEF TypeOK
  <1>4. \A l \in Keys : journal[l].gen \in Nat
    BY DEF TypeOK, Entries
  <1> QED
    BY <1>2, <1>3, <1>4 DEF GensGrow

\* The entry that complete_execution writes.
LEMMA Completing ==
    ASSUME TypeOK, NEW c \in Callers, NEW s \in Terminal, Complete(c, s), call[c].key \in Keys
    PROVE  /\ journal' \in [Keys -> Entries]
           /\ \A l \in Keys \ {call[c].key} : journal'[l] = journal[l]
           /\ journal'[call[c].key].status = s
           /\ journal'[call[c].key].owner = journal[call[c].key].owner
           /\ journal'[call[c].key].gen = journal[call[c].key].gen
           /\ GensGrow
  <1> DEFINE k == call[c].key
             e == [journal[k] EXCEPT !.status = s, !.expired = FALSE]
  <1>1. journal[k] \in Entries
    BY DEF TypeOK
  <1>2. e \in Entries /\ e.status = s /\ e.owner = journal[k].owner
        /\ e.gen = journal[k].gen
    BY <1>1 DEF Entries
  <1>3. journal' = [journal EXCEPT ![k] = e]
    BY DEF Complete, TypeOK
  <1>4. \A l \in Keys : journal[l].gen \in Nat
    BY DEF TypeOK, Entries
  <1> HIDE DEF e
  <1>5. /\ journal' \in [Keys -> Entries]
        /\ \A l \in Keys \ {k} : journal'[l] = journal[l]
        /\ journal'[k] = e
    BY <1>2, <1>3 DEF TypeOK
  <1> QED
    BY <1>2, <1>4, <1>5 DEF GensGrow

\* Journals that do not change.
LEMMA JournalStays ==
    ASSUME TypeOK, UNCHANGED journal
    PROVE  journal' \in [Keys -> Entries] /\ GensGrow
  <1>1. \A l \in Keys : journal[l].gen \in Nat
    BY DEF TypeOK, Entries
  <1> QED
    BY <1>1 DEF TypeOK, GensGrow

\* A step of one caller leaves what the others know.
LEMMA OthersKeyed ==
    ASSUME TypeOK, Keyed, NEW c \in Callers, GensGrow, journal' \in [Keys -> Entries],
           \A d \in Callers \ {c} : call'[d] = call[d],
           CallKeyed(c)'
    PROVE  Keyed'
  <1>1. ASSUME NEW d \in Callers, d # c
        PROVE  CallKeyed(d)'
    <2>1. call'[d] = call[d] /\ CallKeyed(d)
      BY <1>1 DEF Keyed
    <2>2. ASSUME call[d].pc \in Holding
          PROVE  call[d].gen \in 1..journal'[call[d].key].gen
      <3>1. call[d].key \in Keys /\ call[d].gen \in 1..journal[call[d].key].gen
        BY <2>1, <2>2 DEF CallKeyed, Holding
      <3>2. journal[call[d].key].gen \in Nat /\ journal'[call[d].key].gen \in Nat
        BY <3>1 DEF TypeOK, Entries
      <3> QED
        BY <3>1, <3>2 DEF GensGrow
    <2> QED
      BY <2>1, <2>2 DEF CallKeyed, Attempts
  <1> QED
    BY <1>1 DEF Keyed

\* The record of a handler thread.
LEMMA HandlerTypes ==
    ASSUME TypeOK, NEW h \in handlers, NEW p \in {"running", "applied", "ok", "error"}
    PROVE  /\ h \in Handlers
           /\ [h EXCEPT !.phase = p] \in Handlers
           /\ (handlers \ {h}) \cup {[h EXCEPT !.phase = p]} \subseteq Handlers
  BY DEF TypeOK, Handlers

\* The initial state.
LEMMA InitType ==
    ASSUME Init
    PROVE  TypeOK /\ Keyed
  <1>1. NoCall \in CallStates /\ NoCall.pc = "idle"
    BY DEF NoCall, CallStates
  <1>2. [status |-> "absent", owner |-> NoOwner, gen |-> 0, expired |-> FALSE] \in Entries
    BY DEF Entries
  <1> QED
    BY <1>1, <1>2 DEF Init, TypeOK, Keyed, CallKeyed, Holding

\* A caller that leaves knows nothing.
LEMMA LeavingKeyed ==
    ASSUME TypeOK, Keyed, NEW c \in Callers, Leave(c), GensGrow,
           journal' \in [Keys -> Entries]
    PROVE  Keyed'
  <1>1. CallKeyed(c)'
    BY Leaving DEF CallKeyed, Holding
  <1> QED
    BY <1>1, Leaving, OthersKeyed

\* A step that sends the caller round the attempt loop or out of it.
LEMMA EndingAttempt ==
    ASSUME TypeOK, Keyed, NEW c \in Callers, call[c].pc \in Holding, GensGrow,
           journal' \in [Keys -> Entries],
           NextAttempt(c) \/ \E s \in Failures : GiveUp(c, s)
    PROVE  call' \in [Callers -> CallStates] /\ Keyed'
  <1>1. call[c].key \in Keys /\ CallKeyed(c)
    BY DEF Keyed, CallKeyed, Holding
  <1>2. call[c].gen \in 1..journal'[call[c].key].gen
    <2>1. journal[call[c].key].gen \in Nat /\ journal'[call[c].key].gen \in Nat
      BY <1>1 DEF TypeOK, Entries
    <2> QED
      BY <1>1, <2>1 DEF CallKeyed, GensGrow
  <1>3. CASE NextAttempt(c)
    <2>1. CallKeyed(c)'
      BY <1>1, <1>2, <1>3, Retrying DEF CallKeyed, Attempts
    <2> QED
      BY <1>1, <1>3, <2>1, Retrying, OthersKeyed
  <1>4. ASSUME NEW s \in Failures, GiveUp(c, s)
        PROVE  call' \in [Callers -> CallStates] /\ Keyed'
    <2>1. CallKeyed(c)'
      BY <1>1, <1>2, <1>4, GivingUp DEF CallKeyed, Attempts
    <2> QED
      BY <1>4, <2>1, GivingUp, OthersKeyed
  <1> QED
    BY <1>3, <1>4

\* A step that answers the call.
LEMMA AnsweringKeyed ==
    ASSUME TypeOK, Keyed, NEW c \in Callers, call[c].pc # "idle", GensGrow,
           journal' \in [Keys -> Entries], NEW o \in Outcomes, Answer(c, o)
    PROVE  call' \in [Callers -> CallStates] /\ Keyed'
  <1>1. call[c].key \in Keys /\ call[c] \in CallStates
    BY DEF Keyed, CallKeyed, TypeOK
  <1>2. call'[c].pc = "replying" /\ call'[c].key = call[c].key /\ call'[c].out = o
    BY Answering
  <1>3. CallKeyed(c)'
    BY <1>1, <1>2 DEF CallKeyed, Holding
  <1> QED
    BY <1>3, Answering, OthersKeyed

\* A step inside the attempt.
LEMMA MovingKeyed ==
    ASSUME TypeOK, Keyed, NEW c \in Callers, call[c].pc \in Holding, GensGrow,
           journal' \in [Keys -> Entries],
           NEW pc \in {"waiting", "succeeding", "replying"}, Move(c, pc),
           pc = "replying" => call[c].out \in Outcomes
    PROVE  call' \in [Callers -> CallStates] /\ Keyed'
  <1>1. call[c].key \in Keys /\ CallKeyed(c) /\ call[c] \in CallStates
    BY DEF Keyed, CallKeyed, Holding, TypeOK
  <1>2. call[c].gen \in 1..journal'[call[c].key].gen
    <2>1. journal[call[c].key].gen \in Nat /\ journal'[call[c].key].gen \in Nat
      BY <1>1 DEF TypeOK, Entries
    <2> QED
      BY <1>1, <2>1 DEF CallKeyed, GensGrow
  <1>3. /\ call'[c].pc = pc /\ call'[c].key = call[c].key
        /\ call'[c].gen = call[c].gen /\ call'[c].attempt = call[c].attempt
        /\ call'[c].out = call[c].out
    BY Moving
  <1>4. CallKeyed(c)'
    BY <1>1, <1>2, <1>3 DEF CallKeyed, Holding, Attempts
  <1> QED
    BY <1>4, Moving, OthersKeyed

\* A call starts.
LEMMA Starting ==
    ASSUME TypeOK, Keyed, NEW c \in Callers, NEW k \in Keys, Start(c, k)
    PROVE  /\ call' \in [Callers -> CallStates]
           /\ \A d \in Callers \ {c} : call'[d] = call[d]
           /\ call'[c].key = k
           /\ \/ Decided(k) /\ call'[c].pc = "replying" /\ call'[c].out = OutcomeOf(k)
              \/ call'[c].pc = "checked"
           /\ Keyed'
  <1> DEFINE r == [NoCall EXCEPT !.pc = "replying", !.key = k, !.out = OutcomeOf(k)]
             q == [NoCall EXCEPT !.pc = "checked", !.key = k]
  <1>1. Decided(k) => OutcomeOf(k) \in Outcomes
    BY DEF Decided, OutcomeOf, Outcomes, TypeOK, Entries
  <1>0. NoCall \in CallStates
    BY DEF NoCall, CallStates
  <1>2. q \in CallStates /\ q.pc = "checked" /\ q.key = k
    BY <1>0 DEF CallStates
  <1>3. r.pc = "replying" /\ r.key = k /\ r.out = OutcomeOf(k)
        /\ (Decided(k) => r \in CallStates)
    BY <1>0, <1>1 DEF CallStates
  <1>4. \/ Decided(k) /\ call' = [call EXCEPT ![c] = r]
        \/ call' = [call EXCEPT ![c] = q]
    BY DEF Start
  <1> HIDE DEF r, q
  <1>5. /\ call' \in [Callers -> CallStates]
        /\ \A d \in Callers \ {c} : call'[d] = call[d]
        /\ call'[c].key = k
        /\ \/ Decided(k) /\ call'[c].pc = "replying" /\ call'[c].out = OutcomeOf(k)
           \/ call'[c].pc = "checked"
    BY <1>2, <1>3, <1>4 DEF TypeOK
  <1>6. CallKeyed(c)'
    BY <1>1, <1>5 DEF CallKeyed, Holding
  <1>7. UNCHANGED journal
    BY DEF Start
  <1> QED
    BY <1>5, <1>6, <1>7, JournalStays, OthersKeyed

\* A claim is granted to a caller.
LEMMA Acquiring ==
    ASSUME TypeOK, Keyed, NEW c \in Callers, Claim(c)
    PROVE  /\ call' \in [Callers -> CallStates]
           /\ \A d \in Callers \ {c} : call'[d] = call[d]
           /\ call'[c].pc = "claimed"
           /\ call'[c].key = call[c].key
           /\ call'[c].gen = journal[call[c].key].gen + 1
           /\ call'[c].attempt = 1
           /\ Keyed'
  <1> DEFINE k == call[c].key
             g == journal[k].gen + 1
             n == 1
             r == [call[c] EXCEPT !.pc = "claimed", !.gen = g, !.attempt = n]
  <1>1. call[c] \in CallStates /\ k \in Keys
    BY DEF TypeOK, Keyed, CallKeyed, Claim
  <1>2. journal' = [journal EXCEPT ![k] = Granted(c, k)]
    BY DEF Claim
  <1>3. journal[k].gen \in Nat
    BY <1>1 DEF TypeOK, Entries
  <1>4. journal'[k].gen = g /\ GensGrow /\ journal' \in [Keys -> Entries]
    BY <1>1, <1>2, Claiming
  <1>5. g \in Nat /\ g \in 1..g
    BY <1>3
  <1>6. call' = [call EXCEPT ![c] = r]
    BY DEF Claim, TypeOK
  <1>7. n \in 1..2 /\ n <= Attempts(k)
    BY DEF Attempts
  <1> HIDE DEF g, n
  <1>8. /\ r \in CallStates /\ r.pc = "claimed" /\ r.key = k
        /\ r.gen = g /\ r.attempt = n
    BY <1>1, <1>5, <1>7 DEF CallStates
  <1> HIDE DEF r
  <1>9. /\ call' \in [Callers -> CallStates]
        /\ \A d \in Callers \ {c} : call'[d] = call[d]
        /\ call'[c] = r
    BY <1>6, <1>8 DEF TypeOK
  <1>10. CallKeyed(c)'
    BY <1>1, <1>4, <1>5, <1>7, <1>8, <1>9 DEF CallKeyed, Holding, Attempts
  <1>11. Keyed'
    BY <1>4, <1>9, <1>10, OthersKeyed
  <1> QED
    BY <1>8, <1>9, <1>11 DEF g, n

\* The journal under complete_execution, when it is asked to write at all.
LEMMA MaybeCompleting ==
    ASSUME TypeOK, Keyed, NEW c \in Callers, call[c].pc # "idle", NEW s \in Terminal,
           Complete(c, s) \/ UNCHANGED journal
    PROVE  journal' \in [Keys -> Entries] /\ GensGrow
  <1>1. call[c].key \in Keys
    BY DEF Keyed, CallKeyed
  <1> QED
    BY <1>1, Completing, JournalStays

\* Every step of execute keeps the types.
LEMMA ProceedType ==
    ASSUME TypeOK, Keyed, NEW c \in Callers, Proceed(c)
    PROVE  TypeOK' /\ Keyed'
  <1>0. UNCHANGED journal => journal' \in [Keys -> Entries] /\ GensGrow
    BY JournalStays
  <1>1. CASE Refuse(c) \/ CacheHit(c) \/ ClaimBlocked(c) \/ Stale(c)
    BY <1>0, <1>1, Leaving, LeavingKeyed DEF Refuse, CacheHit, ClaimBlocked, Stale, TypeOK
  <1>2. CASE Claim(c)
    <2>1. call[c].key \in Keys
      BY <1>2 DEF Claim, Keyed, CallKeyed
    <2>2. journal' \in [Keys -> Entries]
      BY <1>2, <2>1, Claiming DEF Claim
    <2> QED
      BY <1>2, <2>2, Acquiring DEF Claim, TypeOK
  <1>3. CASE ClaimReplays(c)
    <2>1. OutcomeOf(call[c].key) \in Outcomes
      BY <1>3 DEF ClaimReplays, Decided, OutcomeOf, Outcomes, TypeOK, Entries, Keyed, CallKeyed
    <2> QED
      BY <1>0, <1>3, <2>1, AnsweringKeyed DEF ClaimReplays, TypeOK
  <1>4. CASE ClaimLost(c)
    <2>1. call[c].key \in Keys
      BY <1>4 DEF ClaimLost, Keyed, CallKeyed
    <2>2. journal' \in [Keys -> Entries] /\ GensGrow
      BY <1>4, <2>1, Claiming DEF ClaimLost
    <2> QED
      BY <1>4, <2>2, Leaving, LeavingKeyed DEF ClaimLost, TypeOK
  <1>5. CASE StartHandler(c)
    <2> DEFINE h == [caller |-> c, key |-> call[c].key, gen |-> call[c].gen,
                     attempt |-> call[c].attempt, phase |-> "running"]
    <2>1. h \in Handlers
      BY <1>5 DEF StartHandler, TypeOK, CallStates, Handlers, Keyed, CallKeyed
    <2>2. handlers' \subseteq Handlers
      BY <1>5, <2>1 DEF StartHandler, TypeOK
    <2>3. call' \in [Callers -> CallStates] /\ Keyed'
      BY <1>0, <1>5, MovingKeyed DEF StartHandler, Holding
    <2> QED
      BY <1>5, <2>2, <2>3 DEF StartHandler, TypeOK
  <1>6. CASE HandlerReturned(c)
    <2>1. call' \in [Callers -> CallStates] /\ Keyed'
      BY <1>0, <1>6, MovingKeyed, EndingAttempt DEF HandlerReturned, Holding, Failures
    <2> QED
      BY <1>6, <2>1 DEF HandlerReturned, TypeOK
  <1>7. CASE HandlerRaised(c)
    <2>1. call' \in [Callers -> CallStates] /\ Keyed'
      BY <1>0, <1>7, EndingAttempt DEF HandlerRaised, Holding
    <2> QED
      BY <1>7, <2>1 DEF HandlerRaised, TypeOK
  <1>8. CASE Abandon(c)
    <2>1. call' \in [Callers -> CallStates] /\ Keyed'
      BY <1>0, <1>8, EndingAttempt DEF Abandon, Holding, Failures
    <2> QED
      BY <1>8, <2>1 DEF Abandon, DropEnded, TypeOK
  <1>9. CASE CommitSuccess(c)
    <2> DEFINE pc == IF call[c].key \in Mutating THEN "replying" ELSE "caching"
               o == [status |-> "succeeded", gen |-> call[c].gen]
               r == [call[c] EXCEPT !.pc = pc, !.out = o]
    <2>1. journal' \in [Keys -> Entries] /\ GensGrow
      BY <1>9, MaybeCompleting DEF CommitSuccess, Terminal
    <2>2. call[c] \in CallStates /\ CallKeyed(c) /\ call[c].pc = "succeeding"
      BY <1>9 DEF TypeOK, Keyed, CommitSuccess
    <2>3. o \in Outcomes /\ pc \in {"replying", "caching"}
      BY <2>2 DEF Outcomes, Terminal, CallStates
    <2>4. call' = [call EXCEPT ![c] = r]
      BY <1>9 DEF CommitSuccess, TypeOK
    <2> HIDE DEF o, pc
    <2>5. /\ r \in CallStates /\ r.pc = pc /\ r.key = call[c].key
          /\ r.gen = call[c].gen /\ r.attempt = call[c].attempt /\ r.out = o
      BY <2>2, <2>3 DEF CallStates
    <2> HIDE DEF r
    <2>6. /\ call' \in [Callers -> CallStates] /\ call'[c] = r
          /\ \A d \in Callers \ {c} : call'[d] = call[d]
      BY <2>4, <2>5 DEF TypeOK
    <2>7. call[c].gen \in 1..journal'[call[c].key].gen
      <3>1. journal[call[c].key].gen \in Nat /\ journal'[call[c].key].gen \in Nat
        BY <2>1, <2>2 DEF TypeOK, Entries, CallKeyed
      <3> QED
        BY <2>1, <2>2, <3>1 DEF CallKeyed, GensGrow, Holding
    <2>8. CallKeyed(c)'
      BY <2>2, <2>3, <2>5, <2>6, <2>7 DEF CallKeyed, Holding, Attempts
    <2>9. Keyed'
      BY <2>1, <2>6, <2>8, OthersKeyed
    <2> QED
      BY <1>9, <2>1, <2>6, <2>9 DEF CommitSuccess, TypeOK
  <1>10. CASE CommitRaises(c)
    <2>1. journal' \in [Keys -> Entries] /\ GensGrow
      BY <1>10, MaybeCompleting DEF CommitRaises, Terminal
    <2>2. call' \in [Callers -> CallStates] /\ Keyed'
      BY <1>10, <2>1, EndingAttempt DEF CommitRaises, Holding
    <2> QED
      BY <1>10, <2>1, <2>2 DEF CommitRaises, TypeOK
  <1>11. CASE FillCache(c)
    <2>1. call' \in [Callers -> CallStates] /\ Keyed'
      BY <1>0, <1>11, MovingKeyed DEF FillCache, Holding, Keyed, CallKeyed
    <2>2. [key |-> call[c].key, gen |-> call[c].gen] \in Values
      BY <1>11 DEF FillCache, Values, TypeOK, CallStates, Keyed, CallKeyed
    <2> QED
      BY <1>11, <2>1, <2>2 DEF FillCache, TypeOK
  <1>12. CASE SkipCache(c)
    <2>1. call' \in [Callers -> CallStates] /\ Keyed'
      BY <1>0, <1>12, MovingKeyed DEF SkipCache, Holding, Keyed, CallKeyed
    <2> QED
      BY <1>12, <2>1 DEF SkipCache, TypeOK
  <1>13. CASE CacheRaises(c)
    BY <1>0, <1>13, EndingAttempt DEF CacheRaises, Holding, TypeOK
  <1>14. CASE CommitFailure(c)
    <2>1. call[c].out \in Outcomes
      BY <1>14 DEF CommitFailure, Keyed, CallKeyed
    <2>2. journal' \in [Keys -> Entries] /\ GensGrow
      BY <1>14, <2>1, MaybeCompleting DEF CommitFailure, Outcomes
    <2>3. call' \in [Callers -> CallStates] /\ Keyed'
      BY <1>14, <2>1, <2>2, MovingKeyed DEF CommitFailure, Holding
    <2> QED
      BY <1>14, <2>2, <2>3 DEF CommitFailure, TypeOK
  <1>15. CASE CommitFailureRaises(c)
    <2>1. call[c].out \in Outcomes
      BY <1>15 DEF CommitFailureRaises, Keyed, CallKeyed
    <2>2. journal' \in [Keys -> Entries] /\ GensGrow
      BY <1>15, <2>1, MaybeCompleting DEF CommitFailureRaises, Outcomes
    <2> QED
      BY <1>15, <2>2, Leaving, LeavingKeyed DEF CommitFailureRaises, TypeOK
  <1>16. CASE Reply(c)
    <2>1. call[c].key \in Keys /\ call[c].out \in Outcomes
      BY <1>16 DEF Reply, Keyed, CallKeyed
    <2>2. told' \in [Keys -> SUBSET Outcomes]
      BY <1>16, <2>1 DEF Reply, TypeOK
    <2> QED
      BY <1>0, <1>16, <2>2, Leaving, LeavingKeyed DEF Reply, TypeOK
  <1> QED
    BY <1>1, <1>2, <1>3, <1>4, <1>5, <1>6, <1>7, <1>8, <1>9, <1>10, <1>11, <1>12, <1>13,
       <1>14, <1>15, <1>16 DEF Proceed

\* Every step keeps the types.
LEMMA NextType ==
    ASSUME TypeOK, Keyed, [Next]_vars
    PROVE  TypeOK' /\ Keyed'
  <1>0. UNCHANGED journal => journal' \in [Keys -> Entries] /\ GensGrow
    BY JournalStays
  <1>1. ASSUME NEW c \in Callers, Crash(c)
        PROVE  TypeOK' /\ Keyed'
    BY <1>0, <1>1, Leaving, LeavingKeyed DEF Crash, TypeOK
  <1>2. ASSUME NEW c \in Callers, NEW k \in Keys, Start(c, k)
        PROVE  TypeOK' /\ Keyed'
    BY <1>2, Starting DEF Start, TypeOK
  <1>3. ASSUME NEW h \in handlers, Apply(h)
        PROVE  TypeOK' /\ Keyed'
    <2>1. handlers' \subseteq Handlers
      BY <1>3, HandlerTypes DEF Apply, Become
    <2>2. effects' \in [Keys -> Nat]
      BY <1>3, HandlerTypes DEF Apply, TypeOK, Handlers
    <2> QED
      BY <1>3, <2>1, <2>2 DEF Apply, TypeOK, Keyed, CallKeyed, Attempts
  <1>4. ASSUME NEW h \in handlers, NEW p \in {"ok", "error"}, End(h, p),
               UNCHANGED <<journal, cache, call, effects, told>>
        PROVE  TypeOK' /\ Keyed'
    <2>1. handlers' \subseteq Handlers
      BY <1>4, HandlerTypes DEF End, Become, TypeOK
    <2> QED
      BY <1>4, <2>1 DEF TypeOK, Keyed, CallKeyed, Attempts
  <1>5. ASSUME NEW k \in Keys, LeaseExpires(k)
        PROVE  TypeOK' /\ Keyed'
    <2>1. [journal[k] EXCEPT !.expired = TRUE] \in Entries
          /\ [journal[k] EXCEPT !.expired = TRUE].gen = journal[k].gen
      <3>1. journal[k] \in Entries
        BY DEF TypeOK
      <3> QED
        BY <3>1 DEF Entries
    <2>2. journal' = [journal EXCEPT ![k] = [journal[k] EXCEPT !.expired = TRUE]]
      BY <1>5 DEF LeaseExpires, TypeOK
    <2>3. journal \in [Keys -> Entries]
      BY DEF TypeOK
    <2> DEFINE e == [journal[k] EXCEPT !.expired = TRUE]
    <2> HIDE DEF e
    <2>4. journal' = [journal EXCEPT ![k] = e] /\ e \in Entries /\ e.gen = journal[k].gen
      BY <2>1, <2>2 DEF e
    <2>5. journal' \in [Keys -> Entries] /\ \A l \in Keys : journal'[l].gen = journal[l].gen
      BY <2>3, <2>4
    <2> QED
      BY <1>5, <2>5 DEF LeaseExpires, TypeOK, Keyed, CallKeyed, Attempts, Holding
  <1>6. CASE CacheExpires
    BY <1>6 DEF CacheExpires, TypeOK, Keyed, CallKeyed, Attempts
  <1>7. CASE UNCHANGED vars
    BY <1>7 DEF vars, TypeOK, Keyed, CallKeyed, Attempts
  <1> QED
    BY <1>1, <1>2, <1>3, <1>4, <1>5, <1>6, <1>7, ProceedType DEF Next, Return, Raise

\* Every field of journal, cache, calls and handler threads keeps its range
\* and execute never makes more attempts than policy_for allows.
THEOREM TypeCorrect == Spec => []TypeOK
<1> QED
  BY InitType, NextType, PTL DEF Spec

-------------------------------------------------------------------------------
(* The threads of a claim *)

OfClaim(h, c) == h.key = call[c].key /\ h.gen = call[c].gen

\* Claims have generations of their own, and a caller that is about to start
\* a thread, or has taken over a thread's value, has none running.
Threads ==
    /\ OneHandlerPerClaim
    /\ \A h \in handlers : h.gen \in 1..journal[h.key].gen
    /\ \A c, d \in Callers :
          /\ call[c].pc \in Holding /\ call[d].pc \in Holding
          /\ call[c].key = call[d].key /\ call[c].gen = call[d].gen
          => c = d
    /\ \A c \in Callers : call[c].pc \in {"claimed", "succeeding", "caching"} =>
          \A h \in handlers : ~OfClaim(h, c)

\* Steps that start no thread and take no claim.
LEMMA ThreadsKept ==
    ASSUME TypeOK, Keyed, Threads, TypeOK', NEW c \in Callers, GensGrow,
           handlers' \subseteq handlers,
           \A d \in Callers \ {c} : call'[d] = call[d],
           call'[c].pc \in Holding =>
              call[c].pc \in Holding /\ call'[c].key = call[c].key /\ call'[c].gen = call[c].gen,
           call'[c].pc \in {"claimed", "succeeding", "caching"} =>
              \A h \in handlers' : ~(h.key = call'[c].key /\ h.gen = call'[c].gen)
    PROVE  Threads'
  <1>1. OneHandlerPerClaim'
    BY DEF Threads, OneHandlerPerClaim
  <1>2. \A h \in handlers' : h.gen \in 1..journal'[h.key].gen
    <2> SUFFICES ASSUME NEW h \in handlers'
                 PROVE  h.gen \in 1..journal'[h.key].gen
      OBVIOUS
    <2>1. h.key \in Keys /\ h.gen \in 1..journal[h.key].gen
      BY DEF Threads, TypeOK, Handlers
    <2>2. journal[h.key].gen \in Nat /\ journal'[h.key].gen \in Nat
      BY <2>1 DEF TypeOK, Entries
    <2> QED
      BY <2>1, <2>2 DEF GensGrow
  <1>3. \A d, e \in Callers :
          /\ call'[d].pc \in Holding /\ call'[e].pc \in Holding
          /\ call'[d].key = call'[e].key /\ call'[d].gen = call'[e].gen
          => d = e
    <2>1. \A d \in Callers : call'[d].pc \in Holding =>
             call[d].pc \in Holding /\ call'[d].key = call[d].key /\ call'[d].gen = call[d].gen
      OBVIOUS
    <2> QED
      BY <2>1 DEF Threads
  <1>4. \A d \in Callers : call'[d].pc \in {"claimed", "succeeding", "caching"} =>
          \A h \in handlers' : ~(h.key = call'[d].key /\ h.gen = call'[d].gen)
    <2> SUFFICES ASSUME NEW d \in Callers, NEW h \in handlers',
                        call'[d].pc \in {"claimed", "succeeding", "caching"}
                 PROVE  ~(h.key = call'[d].key /\ h.gen = call'[d].gen)
      OBVIOUS
    <2>1. CASE d = c
      BY <2>1 DEF OfClaim, Holding
    <2>2. CASE d # c
      BY <2>2 DEF Threads, OfClaim
    <2> QED
      BY <2>1, <2>2
  <1> QED
    BY <1>1, <1>2, <1>3, <1>4 DEF Threads, OfClaim

\* A thread that only changes its phase, or ends, or nothing at all.
LEMMA ThreadsPhase ==
    ASSUME TypeOK, Threads, TypeOK', UNCHANGED call, GensGrow,
           \/ UNCHANGED handlers
           \/ \E h \in handlers, p \in {"applied", "ok", "error"} :
                 Become(h, p) \/ handlers' = handlers \ {h}
    PROVE  Threads'
  <1>1. \A g \in handlers' : \E h \in handlers :
           /\ g.key = h.key /\ g.gen = h.gen
           /\ g = h \/ (h \notin handlers' \/ g = [h EXCEPT !.phase = g.phase])
    BY DEF Become, TypeOK, Handlers
  <1>2. OneHandlerPerClaim'
    <2> SUFFICES ASSUME NEW f \in handlers', NEW g \in handlers', f.key = g.key, f.gen = g.gen
                 PROVE  f = g
      BY DEF OneHandlerPerClaim
    <2>1. CASE handlers' \subseteq handlers
      BY <2>1 DEF Threads, OneHandlerPerClaim
    <2>2. ASSUME NEW h \in handlers, NEW p \in {"applied", "ok", "error"}, Become(h, p)
          PROVE  f = g
      <3>1. [h EXCEPT !.phase = p].key = h.key /\ [h EXCEPT !.phase = p].gen = h.gen
        BY DEF TypeOK, Handlers
      <3> QED
        BY <2>2, <3>1 DEF Become, Threads, OneHandlerPerClaim
    <2> QED
      BY <2>1, <2>2
  <1>3. \A g \in handlers' : g.gen \in 1..journal'[g.key].gen
    <2> SUFFICES ASSUME NEW g \in handlers', NEW h \in handlers, g.key = h.key, g.gen = h.gen
                 PROVE  g.gen \in 1..journal'[g.key].gen
      BY <1>1
    <2>1. h.key \in Keys /\ h.gen \in 1..journal[h.key].gen
      BY DEF Threads, TypeOK, Handlers
    <2>2. journal[h.key].gen \in Nat /\ journal'[h.key].gen \in Nat
      BY <2>1 DEF TypeOK, Entries
    <2> QED
      BY <2>1, <2>2 DEF GensGrow
  <1>4. \A d \in Callers : call'[d].pc \in {"claimed", "succeeding", "caching"} =>
          \A g \in handlers' : ~(g.key = call'[d].key /\ g.gen = call'[d].gen)
    BY <1>1 DEF Threads, OfClaim
  <1> QED
    BY <1>2, <1>3, <1>4 DEF Threads, OfClaim

\* The attempt ends: the caller goes round or out of the attempt loop.
LEMMA ThreadsOfEnding ==
    ASSUME TypeOK, Keyed, Threads, TypeOK', NEW c \in Callers, call[c].pc \in Holding,
           GensGrow, handlers' \subseteq handlers,
           \/ NextAttempt(c) /\ \A h \in handlers' : ~OfClaim(h, c)
           \/ \E s \in Failures : GiveUp(c, s)
    PROVE  Threads'
  <1>1. call[c].key \in Keys
    BY DEF Keyed, CallKeyed, Holding
  <1>2. CASE NextAttempt(c) /\ \A h \in handlers' : ~OfClaim(h, c)
    BY <1>1, <1>2, Retrying, ThreadsKept DEF OfClaim
  <1>3. ASSUME NEW s \in Failures, GiveUp(c, s)
        PROVE  Threads'
    BY <1>3, GivingUp, ThreadsKept
  <1> QED
    BY <1>2, <1>3

\* The steps of execute keep the threads of a claim apart.
LEMMA ProceedThreads ==
    ASSUME TypeOK, Keyed, Threads, TypeOK', NEW c \in Callers, Proceed(c)
    PROVE  Threads'
  <1>0. UNCHANGED journal => GensGrow
    BY JournalStays
  <1>1. CASE Refuse(c) \/ CacheHit(c) \/ ClaimBlocked(c) \/ Stale(c) \/ Reply(c)
    <2>1. Leave(c) /\ UNCHANGED <<journal, handlers>>
      BY <1>1 DEF Refuse, CacheHit, ClaimBlocked, Stale, Reply
    <2> QED
      BY <1>0, <2>1, Leaving, ThreadsKept DEF Holding
  <1>2. CASE Claim(c)
    <2> DEFINE k == call[c].key
    <2>1. k \in Keys /\ journal[k].gen \in Nat
      BY <1>2 DEF Claim, Keyed, CallKeyed, TypeOK, Entries
    <2>2. /\ journal'[k].gen = journal[k].gen + 1
          /\ \A l \in Keys \ {k} : journal'[l] = journal[l]
      BY <1>2, <2>1, Claiming DEF Claim
    <2>3. /\ \A d \in Callers \ {c} : call'[d] = call[d]
          /\ call'[c].pc = "claimed" /\ call'[c].key = k
          /\ call'[c].gen = journal[k].gen + 1
      BY <1>2, Acquiring
    <2>4. UNCHANGED handlers
      BY <1>2 DEF Claim
    <2>5. \A h \in handlers : h.key \in Keys /\ h.gen \in 1..journal[h.key].gen
      BY DEF Threads, TypeOK, Handlers
    <2>6. \A h \in handlers : ~(h.key = k /\ h.gen = call'[c].gen)
      BY <2>1, <2>3, <2>5
    <2>7. \A h \in handlers : h.gen \in 1..journal'[h.key].gen
      BY <2>1, <2>2, <2>5
    <2>8. \A d \in Callers \ {c} : call[d].pc \in Holding /\ call[d].key = k =>
             call[d].gen # journal[k].gen + 1
      BY <2>1 DEF Keyed, CallKeyed
    <2>9. \A d, e \in Callers :
             /\ call'[d].pc \in Holding /\ call'[e].pc \in Holding
             /\ call'[d].key = call'[e].key /\ call'[d].gen = call'[e].gen
             => d = e
      BY <2>3, <2>8 DEF Threads
    <2>10. \A d \in Callers : call'[d].pc \in {"claimed", "succeeding", "caching"} =>
             \A h \in handlers : ~(h.key = call'[d].key /\ h.gen = call'[d].gen)
      BY <2>3, <2>6 DEF Threads, OfClaim
    <2> QED
      BY <2>4, <2>7, <2>9, <2>10 DEF Threads, OneHandlerPerClaim, OfClaim
  <1>3. CASE ClaimReplays(c)
    <2>1. OutcomeOf(call[c].key) \in Outcomes
      BY <1>3 DEF ClaimReplays, Decided, OutcomeOf, Outcomes, TypeOK, Entries, Keyed, CallKeyed
    <2> QED
      BY <1>0, <1>3, <2>1, Answering, ThreadsKept DEF ClaimReplays, Holding
  <1>4. CASE ClaimLost(c)
    <2>1. call[c].key \in Keys
      BY <1>4 DEF ClaimLost, Keyed, CallKeyed
    <2>2. GensGrow
      BY <1>4, <2>1, Claiming DEF ClaimLost
    <2> QED
      BY <1>4, <2>2, Leaving, ThreadsKept DEF ClaimLost, Holding
  <1>5. CASE StartHandler(c)
    <2> DEFINE n == [caller |-> c, key |-> call[c].key, gen |-> call[c].gen,
                     attempt |-> call[c].attempt, phase |-> "running"]
    <2>1. n.key = call[c].key /\ n.gen = call[c].gen /\ handlers' = handlers \cup {n}
      BY <1>5 DEF StartHandler
    <2>2. /\ UNCHANGED journal /\ call[c].pc = "claimed"
          /\ \A d \in Callers \ {c} : call'[d] = call[d]
          /\ call'[c].pc = "waiting" /\ call'[c].key = call[c].key
          /\ call'[c].gen = call[c].gen
      BY <1>5, Moving DEF StartHandler
    <2> HIDE DEF n
    <2>3. \A h \in handlers : ~(h.key = n.key /\ h.gen = n.gen)
      BY <2>1, <2>2 DEF Threads, OfClaim
    <2>4. OneHandlerPerClaim'
      BY <2>1, <2>3 DEF Threads, OneHandlerPerClaim
    <2>5. \A h \in handlers' : h.gen \in 1..journal'[h.key].gen
      BY <2>1, <2>2 DEF Threads, Keyed, CallKeyed, Holding
    <2>6. \A d \in Callers \ {c} : call[d].pc \in {"claimed", "succeeding", "caching"} =>
             ~(n.key = call[d].key /\ n.gen = call[d].gen)
      BY <2>1, <2>2 DEF Threads, Holding
    <2>7. \A d \in Callers : call'[d].pc \in {"claimed", "succeeding", "caching"} =>
             \A h \in handlers' : ~(h.key = call'[d].key /\ h.gen = call'[d].gen)
      BY <2>1, <2>2, <2>6 DEF Threads, OfClaim
    <2>8. \A d, e \in Callers :
             /\ call'[d].pc \in Holding /\ call'[e].pc \in Holding
             /\ call'[d].key = call'[e].key /\ call'[d].gen = call'[e].gen
             => d = e
      BY <2>2 DEF Threads, Holding
    <2> QED
      BY <2>4, <2>5, <2>7, <2>8 DEF Threads, OfClaim
  <1>6. ASSUME NEW h \in handlers, IsHandlerOf(c, h), handlers' = handlers \ {h}
        PROVE  \A g \in handlers' : ~OfClaim(g, c)
    BY <1>6 DEF IsHandlerOf, OfClaim, Threads, OneHandlerPerClaim
  <1>7. CASE HandlerReturned(c)
    <2>1. handlers' \subseteq handlers /\ \A g \in handlers' : ~OfClaim(g, c)
      BY <1>6, <1>7 DEF HandlerReturned
    <2>2. CASE Move(c, "succeeding")
      BY <1>0, <1>7, <2>1, <2>2, Moving, ThreadsKept DEF HandlerReturned, OfClaim, Holding
    <2> QED
      BY <1>0, <1>7, <2>1, <2>2, ThreadsOfEnding DEF HandlerReturned, Holding, Failures
  <1>8. CASE HandlerRaised(c)
    <2>1. handlers' \subseteq handlers /\ \A g \in handlers' : ~OfClaim(g, c)
      BY <1>6, <1>8 DEF HandlerRaised
    <2> QED
      BY <1>0, <1>8, <2>1, ThreadsOfEnding DEF HandlerRaised, Holding
  <1>9. CASE Abandon(c)
    BY <1>0, <1>9, ThreadsOfEnding DEF Abandon, DropEnded, Holding, Failures
  <1>10. CASE CommitSuccess(c)
    <2>1. call[c].key \in Keys /\ GensGrow /\ UNCHANGED handlers /\ call[c].pc = "succeeding"
      BY <1>10, MaybeCompleting DEF CommitSuccess, Terminal, Keyed, CallKeyed
    <2>2. call[c] \in CallStates
      BY DEF TypeOK
    <2>3. call'[c].key = call[c].key /\ call'[c].gen = call[c].gen
          /\ \A d \in Callers \ {c} : call'[d] = call[d]
      BY <1>10, <2>2 DEF CommitSuccess, TypeOK, CallStates
    <2> QED
      BY <2>1, <2>3, ThreadsKept DEF Threads, OfClaim, Holding
  <1>11. CASE CommitRaises(c) \/ CacheRaises(c)
    <2>1. GensGrow
      BY <1>0, <1>11, MaybeCompleting DEF CommitRaises, CacheRaises, Terminal
    <2>2. \A h \in handlers : ~OfClaim(h, c)
      BY <1>11 DEF CommitRaises, CacheRaises, Threads
    <2> QED
      BY <1>11, <2>1, <2>2, ThreadsOfEnding DEF CommitRaises, CacheRaises, Holding
  <1>12. CASE FillCache(c) \/ SkipCache(c)
    BY <1>0, <1>12, Moving, ThreadsKept DEF FillCache, SkipCache, Holding
  <1>13. CASE CommitFailure(c) \/ CommitFailureRaises(c)
    <2>1. call[c].out \in Outcomes /\ call[c].pc = "failing"
      BY <1>13 DEF CommitFailure, CommitFailureRaises, Keyed, CallKeyed
    <2>2. GensGrow
      BY <1>13, <2>1, MaybeCompleting DEF CommitFailure, CommitFailureRaises, Outcomes
    <2>3. CASE CommitFailure(c)
      BY <2>2, <2>3, Moving, ThreadsKept DEF CommitFailure, Holding
    <2>4. CASE CommitFailureRaises(c)
      BY <2>2, <2>4, Leaving, ThreadsKept DEF CommitFailureRaises, Holding
    <2> QED
      BY <1>13, <2>3, <2>4
  <1> QED
    BY <1>1, <1>2, <1>3, <1>4, <1>5, <1>7, <1>8, <1>9, <1>10, <1>11, <1>12, <1>13 DEF Proceed

\* Every step keeps the threads of a claim apart.
LEMMA NextThreads ==
    ASSUME TypeOK, Keyed, Threads, TypeOK', [Next]_vars
    PROVE  Threads'
  <1>0. UNCHANGED journal => GensGrow
    BY JournalStays
  <1>1. ASSUME NEW c \in Callers, Crash(c)
        PROVE  Threads'
    BY <1>0, <1>1, Leaving, ThreadsKept DEF Crash, Holding
  <1>2. ASSUME NEW c \in Callers, NEW k \in Keys, Start(c, k)
        PROVE  Threads'
    BY <1>0, <1>2, Starting, ThreadsKept DEF Start, Holding
  <1>3. ASSUME NEW h \in handlers, Apply(h)
        PROVE  Threads'
    BY <1>0, <1>3, ThreadsPhase DEF Apply
  <1>4. ASSUME NEW h \in handlers, NEW p \in {"ok", "error"}, End(h, p),
               UNCHANGED <<journal, cache, call, effects, told>>
        PROVE  Threads'
    <2>1. Become(h, p) \/ handlers' = handlers \ {h}
      BY <1>4 DEF End
    <2> QED
      BY <1>0, <1>4, <2>1, ThreadsPhase
  <1>5. ASSUME NEW k \in Keys, LeaseExpires(k)
        PROVE  Threads'
    <2>1. \A l \in Keys : journal'[l].gen = journal[l].gen /\ journal[l].gen \in Nat
      BY <1>5 DEF LeaseExpires, TypeOK, Entries
    <2>2. GensGrow
      BY <2>1 DEF GensGrow
    <2> QED
      BY <1>5, <2>2, ThreadsPhase DEF LeaseExpires
  <1>6. CASE CacheExpires \/ UNCHANGED vars
    BY <1>0, <1>6, ThreadsPhase DEF CacheExpires, vars
  <1> QED
    BY <1>1, <1>2, <1>3, <1>4, <1>5, <1>6, ProceedThreads DEF Next, Return, Raise

\* The initial state has no threads and no claims.
LEMMA InitThreads ==
    ASSUME Init
    PROVE  Threads
  BY DEF Init, NoCall, Threads, OneHandlerPerClaim, Holding

\* A claim never has two live handler threads, however often its attempts
\* fail, time out or are abandoned (the attempt loop of execute).
THEOREM HandlersAreExclusive == Spec => []OneHandlerPerClaim
<1>1. Threads => OneHandlerPerClaim
  BY DEF Threads
<1> QED
  BY <1>1, InitType, NextType, InitThreads, NextThreads, PTL DEF Spec

-------------------------------------------------------------------------------
(* The outcome of a key *)

\* What the journal has decided stays.
DecisionsStay ==
    \A k \in Keys : Decided(k) => Decided(k)' /\ OutcomeOf(k)' = OutcomeOf(k)

\* A terminal entry is written over by nothing but itself.
LEMMA CompletingDecides ==
    ASSUME TypeOK, Keyed, NEW c \in Callers, call[c].pc \in {"succeeding", "failing"},
           NEW s \in Terminal, s = Claimed(c),
           (FenceHolds(c) /\ Complete(c, s)) \/ UNCHANGED journal
    PROVE  DecisionsStay
  <1>1. call[c].key \in Keys
    BY DEF Keyed, CallKeyed
  <1>2. CASE FenceHolds(c) /\ Complete(c, s)
    <2>1. journal[call[c].key].status \in {"in_progress", s}
      BY <1>2 DEF FenceHolds
    <2> QED
      BY <1>1, <1>2, <2>1, Completing DEF DecisionsStay, Decided, OutcomeOf, Terminal, Failures
  <1>3. CASE UNCHANGED journal
    BY <1>3 DEF DecisionsStay, Decided, OutcomeOf
  <1> QED
    BY <1>2, <1>3

\* No step changes a decision.
LEMMA NextDecisions ==
    ASSUME TypeOK, Keyed, [Next]_vars
    PROVE  DecisionsStay
  <1>1. CASE UNCHANGED journal
    BY <1>1 DEF DecisionsStay, Decided, OutcomeOf
  <1>2. ASSUME NEW c \in Callers, Claim(c) \/ ClaimLost(c)
        PROVE  DecisionsStay
    <2> DEFINE k == call[c].key
    <2>1. k \in Keys /\ Claimable(k) /\ journal' = [journal EXCEPT ![k] = Granted(c, k)]
      BY <1>2 DEF Claim, ClaimLost, Keyed, CallKeyed
    <2>2. ~Decided(k)
      BY <2>1 DEF Claimable, Decided, Terminal, Failures
    <2>3. \A l \in Keys \ {k} : journal'[l] = journal[l]
      BY <2>1, Claiming
    <2> QED
      BY <2>2, <2>3 DEF DecisionsStay, Decided, OutcomeOf
  <1>3. ASSUME NEW c \in Callers, CommitSuccess(c) \/ CommitRaises(c)
        PROVE  DecisionsStay
    <2>1. call[c].pc = "succeeding" /\ Claimed(c) = "succeeded"
      BY <1>3 DEF CommitSuccess, CommitRaises, Claimed
    <2> QED
      BY <1>3, <2>1, CompletingDecides DEF CommitSuccess, CommitRaises, Terminal
  <1>4. ASSUME NEW c \in Callers, CommitFailure(c) \/ CommitFailureRaises(c)
        PROVE  DecisionsStay
    <2>1. /\ call[c].pc = "failing"
          /\ Claimed(c) = call[c].out.status
          /\ call[c].out.status \in Terminal
      BY <1>4 DEF CommitFailure, CommitFailureRaises, Claimed, Keyed, CallKeyed, Outcomes
    <2> QED
      BY <1>4, <2>1, CompletingDecides DEF CommitFailure, CommitFailureRaises
  <1>5. ASSUME NEW k \in Keys, LeaseExpires(k)
        PROVE  DecisionsStay
    BY <1>5 DEF LeaseExpires, DecisionsStay, Decided, OutcomeOf, TypeOK, Entries
  <1> QED
    BY <1>1, <1>2, <1>3, <1>4, <1>5
    DEF Next, vars, Proceed, Start, Refuse, CacheHit, ClaimReplays, ClaimBlocked, StartHandler,
        HandlerReturned, HandlerRaised, Abandon, FillCache, SkipCache, CacheRaises, Stale,
        Reply, Crash, Apply, Return, Raise, CacheExpires

\* What a call that has a committed outcome, or is about to commit one, says
\* of the journal.
CallAnswers(c) ==
    /\ call[c].pc \in {"caching", "replying"} =>
          Decided(call[c].key) /\ call[c].out = OutcomeOf(call[c].key)
    /\ call[c].pc = "caching" => call[c].out.status = "succeeded"
    /\ call[c].pc \in {"caching", "failing"} => call[c].out.gen = call[c].gen

Answers == CacheCommitted /\ \A c \in Callers : CallAnswers(c)

\* A step of one caller leaves the answers of the others.
LEMMA AnswersKept ==
    ASSUME TypeOK, Keyed, Answers, DecisionsStay, NEW c \in Callers,
           \A d \in Callers \ {c} : call'[d] = call[d],
           CallAnswers(c)',
           cache' \in {cache, Nothing} \/ CacheCommitted'
    PROVE  Answers'
  <1>1. ASSUME NEW d \in Callers, d # c
        PROVE  CallAnswers(d)'
    <2>1. call'[d] = call[d] /\ CallAnswers(d)
      BY <1>1 DEF Answers
    <2>2. call[d].pc \in {"caching", "replying"} => call[d].key \in Keys
      BY DEF Keyed, CallKeyed
    <2> QED
      BY <2>1, <2>2 DEF CallAnswers, DecisionsStay, Decided, OutcomeOf
  <1>2. CacheCommitted'
    <2>1. CASE cache' = cache /\ cache # Nothing
      <3>1. cache.key \in Keys
        BY <2>1 DEF TypeOK, Values
      <3>2. journal[cache.key].status = "succeeded" /\ journal[cache.key].gen = cache.gen
        BY <2>1 DEF Answers, CacheCommitted
      <3> QED
        BY <2>1, <3>1, <3>2 DEF DecisionsStay, CacheCommitted, Decided, OutcomeOf, Terminal
    <2>2. CASE cache' = Nothing
      BY <2>2 DEF CacheCommitted
    <2> QED
      BY <2>1, <2>2
  <1> QED
    BY <1>1, <1>2 DEF Answers

\* Every step keeps the answers true.
LEMMA NextAnswers ==
    ASSUME TypeOK, Keyed, Answers, [Next]_vars
    PROVE  Answers'
  <1>0. DecisionsStay
    BY NextDecisions
  <1>1. ASSUME NEW c \in Callers, Leave(c), cache' = cache
        PROVE  Answers'
    BY <1>0, <1>1, Leaving, AnswersKept DEF CallAnswers
  <1>2. ASSUME NEW c \in Callers, NEW k \in Keys, Start(c, k)
        PROVE  Answers'
    <2>1. UNCHANGED <<journal, cache>>
      BY <1>2 DEF Start
    <2>2. CallAnswers(c)'
      BY <1>2, <2>1, Starting DEF CallAnswers, Decided, OutcomeOf
    <2> QED
      BY <1>0, <1>2, <2>1, <2>2, Starting, AnswersKept
  <1>3. ASSUME NEW c \in Callers, Claim(c)
        PROVE  Answers'
    BY <1>0, <1>3, Acquiring, AnswersKept DEF Claim, CallAnswers
  <1>4. ASSUME NEW c \in Callers, ClaimReplays(c)
        PROVE  Answers'
    <2>1. OutcomeOf(call[c].key) \in Outcomes
      BY <1>4 DEF ClaimReplays, Decided, OutcomeOf, Outcomes, TypeOK, Entries, Keyed, CallKeyed
    <2>2. UNCHANGED <<journal, cache>>
      BY <1>4 DEF ClaimReplays
    <2>3. CallAnswers(c)'
      BY <1>4, <2>1, <2>2, Answering DEF ClaimReplays, CallAnswers, Decided, OutcomeOf
    <2> QED
      BY <1>0, <1>4, <2>1, <2>2, <2>3, Answering, AnswersKept DEF ClaimReplays
  <1>5. ASSUME NEW c \in Callers, NEW pc \in {"waiting", "succeeding"}, Move(c, pc), cache' = cache
        PROVE  Answers'
    BY <1>0, <1>5, Moving, AnswersKept DEF CallAnswers
  <1>6. ASSUME NEW c \in Callers, call[c].pc \in Holding, cache' = cache,
               NextAttempt(c) \/ \E s \in Failures : GiveUp(c, s)
        PROVE  Answers'
    <2>1. call[c].key \in Keys
      BY <1>6 DEF Keyed, CallKeyed, Holding
    <2>2. CASE NextAttempt(c)
      BY <1>0, <1>6, <2>1, <2>2, Retrying, AnswersKept DEF CallAnswers
    <2>3. ASSUME NEW s \in Failures, GiveUp(c, s)
          PROVE  Answers'
      BY <1>0, <1>6, <2>3, GivingUp, AnswersKept DEF CallAnswers
    <2> QED
      BY <1>6, <2>2, <2>3
  <1>7. ASSUME NEW c \in Callers, CommitSuccess(c)
        PROVE  Answers'
    <2> DEFINE k == call[c].key
               o == [status |-> "succeeded", gen |-> call[c].gen]
    <2>1. call[c] \in CallStates /\ k \in Keys /\ journal[k].gen = call[c].gen
      BY <1>7 DEF CommitSuccess, TypeOK, Keyed, CallKeyed, FenceHolds
    <2>2. journal'[k].status = "succeeded" /\ journal'[k].gen = call[c].gen
      BY <1>7, <2>1, Completing DEF CommitSuccess, Terminal
    <2>3. /\ call'[c].key = k /\ call'[c].gen = call[c].gen /\ call'[c].out = o
          /\ call'[c].pc \in {"replying", "caching"}
          /\ \A d \in Callers \ {c} : call'[d] = call[d]
      BY <1>7, <2>1 DEF CommitSuccess, TypeOK, CallStates
    <2>4. o.status = "succeeded" /\ o.gen = call[c].gen
      OBVIOUS
    <2>5. Decided(k)' /\ OutcomeOf(k)' = o
      BY <2>2, <2>3 DEF Decided, OutcomeOf, Terminal
    <2> HIDE DEF o
    <2>6. CallAnswers(c)'
      BY <2>3, <2>4, <2>5 DEF CallAnswers, Decided, OutcomeOf
    <2> QED
      BY <1>0, <1>7, <2>3, <2>6, AnswersKept DEF CommitSuccess
  <1>8. ASSUME NEW c \in Callers, FillCache(c) \/ SkipCache(c)
        PROVE  Answers'
    <2>1. /\ call[c].pc = "caching" /\ CallAnswers(c) /\ Move(c, "replying")
          /\ UNCHANGED journal
      BY <1>8 DEF FillCache, SkipCache, Answers
    <2>2. CallAnswers(c)'
      BY <2>1, Moving DEF CallAnswers, Decided, OutcomeOf
    <2>3. cache' = cache \/ CacheCommitted'
      <3>1. CASE FillCache(c)
        <4>1. cache'.key = call[c].key /\ cache'.gen = call[c].gen
          BY <3>1 DEF FillCache
        <4>2. OutcomeOf(call[c].key).status = journal[call[c].key].status
              /\ OutcomeOf(call[c].key).gen = journal[call[c].key].gen
          BY DEF OutcomeOf
        <4> QED
          BY <2>1, <4>1, <4>2 DEF CacheCommitted, CallAnswers
      <3> QED
        BY <1>8, <3>1 DEF SkipCache
    <2> QED
      BY <1>0, <2>1, <2>2, <2>3, Moving, AnswersKept
  <1>9. ASSUME NEW c \in Callers, CommitFailure(c)
        PROVE  Answers'
    <2> DEFINE k == call[c].key
    <2>1. /\ k \in Keys /\ journal[k].gen = call[c].gen /\ call[c].out \in Outcomes
          /\ call[c].out.gen = call[c].gen
      BY <1>9 DEF CommitFailure, Keyed, CallKeyed, FenceHolds, Answers, CallAnswers
    <2>2. journal'[k].status = call[c].out.status /\ journal'[k].gen = call[c].gen
      BY <1>9, <2>1, Completing DEF CommitFailure, Outcomes
    <2>3. Decided(k)' /\ OutcomeOf(k)' = call[c].out
      <3>1. journal'[k].status \in Terminal
        BY <2>1, <2>2 DEF Outcomes
      <3>2. OutcomeOf(k)' = [status |-> journal'[k].status, gen |-> journal'[k].gen]
        BY <1>9, Moving DEF OutcomeOf, CommitFailure
      <3>3. call[c].out = [status |-> call[c].out.status, gen |-> call[c].out.gen]
        BY <2>1 DEF Outcomes
      <3>4. Decided(k)' <=> journal'[k].status \in Terminal
        BY <1>9, Moving DEF Decided, CommitFailure
      <3> QED
        BY <2>1, <2>2, <3>1, <3>2, <3>3, <3>4
    <2>4. /\ call'[c].key = k /\ call'[c].pc = "replying" /\ call'[c].out = call[c].out
          /\ \A d \in Callers \ {c} : call'[d] = call[d]
      BY <1>9, Moving DEF CommitFailure
    <2>5. CallAnswers(c)'
      BY <2>3, <2>4 DEF CallAnswers, Decided, OutcomeOf
    <2> QED
      BY <1>0, <1>9, <2>4, <2>5, AnswersKept DEF CommitFailure
  <1>10. ASSUME UNCHANGED call, cache' \in {cache, Nothing}
         PROVE  Answers'
    <2>1. CASE Callers = {}
      <3>1. ASSUME cache' # Nothing
            PROVE  CacheCommitted'
        <4>1. cache' = cache /\ cache.key \in Keys
          BY <1>10, <3>1 DEF TypeOK, Values
        <4> QED
          BY <1>0, <3>1, <4>1
             DEF Answers, CacheCommitted, DecisionsStay, Decided, OutcomeOf, Terminal
      <3> QED
        BY <2>1, <3>1 DEF Answers, CacheCommitted
    <2>2. ASSUME NEW c \in Callers
          PROVE  Answers'
      <3>1. CallAnswers(c) /\ CallKeyed(c)
        BY DEF Answers, Keyed
      <3>2. CallAnswers(c)'
        BY <1>0, <1>10, <3>1 DEF CallAnswers, CallKeyed, DecisionsStay, Decided, OutcomeOf
      <3> QED
        BY <1>0, <1>10, <3>2, AnswersKept
    <2> QED
      BY <2>1, <2>2
  <1>11. ASSUME NEW c \in Callers, Proceed(c)
         PROVE  Answers'
    <2>1. CASE Refuse(c) \/ CacheHit(c) \/ ClaimBlocked(c) \/ ClaimLost(c) \/ Stale(c)
               \/ CommitFailureRaises(c) \/ Reply(c)
      BY <1>1, <2>1 DEF Refuse, CacheHit, ClaimBlocked, ClaimLost, Stale, CommitFailureRaises, Reply
    <2>2. CASE StartHandler(c) \/ HandlerReturned(c)
      BY <1>5, <1>6, <2>2 DEF StartHandler, HandlerReturned, Holding, Failures
    <2>3. CASE HandlerRaised(c) \/ Abandon(c) \/ CommitRaises(c) \/ CacheRaises(c)
      BY <1>6, <2>3 DEF HandlerRaised, Abandon, CommitRaises, CacheRaises, Holding, Failures
    <2> QED
      BY <1>3, <1>4, <1>7, <1>8, <1>9, <1>11, <2>1, <2>2, <2>3 DEF Proceed
  <1>12. ASSUME NEW c \in Callers, Crash(c)
         PROVE  Answers'
    BY <1>1, <1>12 DEF Crash
  <1> QED
    BY <1>2, <1>10, <1>11, <1>12 DEF Next, vars, Apply, Return, Raise, LeaseExpires, CacheExpires

\* Nothing is committed, answered or cached in the initial state.
LEMMA InitAnswers ==
    ASSUME Init
    PROVE  Answers
  BY DEF Init, NoCall, Answers, CallAnswers, CacheCommitted

\* Only the commit of the execution that produced it puts a result into the
\* cache that answers later calls (execute, after _commit_execution_result).
THEOREM CacheIsCommitted == Spec => []CacheCommitted
<1>1. Answers => CacheCommitted
  BY DEF Answers
<1> QED
  BY <1>1, InitType, NextType, InitAnswers, NextAnswers, PTL DEF Spec

\* A step writes the entry of one key at most.
LEMMA OneKeyMoves ==
    ASSUME TypeOK, Keyed, [Next]_vars
    PROVE  \/ UNCHANGED journal
           \/ \E k \in Keys : \A l \in Keys \ {k} : journal'[l] = journal[l]
  <1>1. ASSUME NEW c \in Callers, call[c].pc # "idle",
               \/ journal' = [journal EXCEPT ![call[c].key] = Granted(c, call[c].key)]
               \/ \E s \in Terminal : Complete(c, s)
        PROVE  \E k \in Keys : \A l \in Keys \ {k} : journal'[l] = journal[l]
    <2>1. call[c].key \in Keys
      BY <1>1 DEF Keyed, CallKeyed
    <2> QED
      BY <1>1, <2>1, Claiming, Completing
  <1>2. ASSUME NEW c \in Callers, Claim(c) \/ ClaimLost(c)
        PROVE  \E k \in Keys : \A l \in Keys \ {k} : journal'[l] = journal[l]
    BY <1>1, <1>2 DEF Claim, ClaimLost
  <1>3. ASSUME NEW c \in Callers,
               CommitSuccess(c) \/ CommitRaises(c) \/ CommitFailure(c) \/ CommitFailureRaises(c)
        PROVE  \/ UNCHANGED journal
               \/ \E k \in Keys : \A l \in Keys \ {k} : journal'[l] = journal[l]
    <2>1. call[c].pc = "failing" => call[c].out.status \in Terminal
      BY DEF Keyed, CallKeyed, Outcomes
    <2> QED
      BY <1>1, <1>3, <2>1
      DEF CommitSuccess, CommitRaises, CommitFailure, CommitFailureRaises, Terminal
  <1>4. ASSUME NEW k \in Keys, LeaseExpires(k)
        PROVE  \E l \in Keys : \A m \in Keys \ {l} : journal'[m] = journal[m]
    BY <1>4 DEF LeaseExpires, TypeOK
  <1> QED
    BY <1>2, <1>3, <1>4
    DEF Next, vars, Proceed, Start, Refuse, CacheHit, ClaimReplays, ClaimBlocked, StartHandler,
        HandlerReturned, HandlerRaised, Abandon, FillCache, SkipCache, CacheRaises, Stale,
        Reply, Crash, Apply, Return, Raise, CacheExpires

\* A step that tells nobody anything decides one key or none.
LEMMA StepDecides ==
    ASSUME TypeOK, Keyed, TypeOK', [Next]_vars, UNCHANGED told
    PROVE  [Once!Next]_(Once!vars)
  <1> DEFINE out == [k \in Keys |-> IF Decided(k) THEN OutcomeOf(k) ELSE Nothing]
  <1>0. DecisionsStay
    BY NextDecisions
  <1>1. \A k \in Keys : out[k] = IF Decided(k) THEN OutcomeOf(k) ELSE Nothing
    OBVIOUS
  <1>2. \A k \in Keys : out'[k] = IF Decided(k)' THEN OutcomeOf(k)' ELSE Nothing
    BY DEF Decided, OutcomeOf
  <1>3. \A k \in Keys : Decided(k)' => OutcomeOf(k)' \in Outcomes
    BY DEF Decided, OutcomeOf, Outcomes, TypeOK, Entries
  <1>4. out = [k \in Keys |-> out[k]] /\ out' = [k \in Keys |-> out'[k]]
    BY DEF Decided, OutcomeOf
  <1>5. CASE \A k \in Keys : Decided(k)' => Decided(k)
    <2>1. \A k \in Keys : out'[k] = out[k]
      BY <1>0, <1>1, <1>2, <1>5 DEF DecisionsStay
    <2>2. out' = out
      BY <1>4, <2>1
    <2> QED
      BY <2>2 DEF Once!vars
  <1>6. ASSUME NEW k \in Keys, Decided(k)', ~Decided(k)
        PROVE  Once!Next
    <2>1. \A l \in Keys \ {k} : out'[l] = out[l]
      <3>1. \A l \in Keys \ {k} : journal'[l] = journal[l]
        BY <1>6, OneKeyMoves DEF Decided
      <3> QED
        BY <1>1, <1>2, <3>1 DEF Decided, OutcomeOf
    <2>2. out[k] = Nothing /\ out'[k] \in Outcomes
      BY <1>1, <1>2, <1>3, <1>6
    <2>3. out' = [out EXCEPT ![k] = out'[k]]
      BY <1>4, <2>1
    <2>4. Once!Decide(k)
      BY <2>2, <2>3 DEF Once!Decide
    <2> QED
      BY <2>4 DEF Once!Next
  <1> QED
    BY <1>5, <1>6

\* Journal and calls implement the promise made to the callers: a key is
\* decided once and its callers are told that decision, whatever claims,
\* takeovers, lost store answers and crashes there are.
THEOREM Refinement == Spec => ImplementsDecidedOutcome
<1> DEFINE out == [k \in Keys |-> IF Decided(k) THEN OutcomeOf(k) ELSE Nothing]
<1>1. Init => Once!Init
  BY DEF Init, Once!Init, Decided, Terminal, Failures
<1>2. TypeOK /\ Keyed /\ Answers /\ TypeOK' /\ [Next]_vars => [Once!Next]_(Once!vars)
  <2> SUFFICES ASSUME TypeOK, Keyed, Answers, TypeOK', [Next]_vars
               PROVE  [Once!Next]_(Once!vars)
    OBVIOUS
  <2>1. ASSUME NEW c \in Callers, Reply(c)
        PROVE  Once!Next
    <3> DEFINE k == call[c].key
    <3>1. k \in Keys /\ Decided(k) /\ call[c].out = OutcomeOf(k) /\ call[c].out \in Outcomes
      BY <2>1 DEF Reply, Keyed, CallKeyed, Answers, CallAnswers
    <3>2. out[k] = call[c].out /\ out[k] # Nothing
      BY <3>1, NothingIsNoOutcome
    <3>3. out' = out
      BY <2>1 DEF Reply, Decided, OutcomeOf
    <3>4. told' = [told EXCEPT ![k] = told[k] \cup {out[k]}]
      BY <2>1, <3>2 DEF Reply
    <3>5. Once!Tell(k)
      BY <3>2, <3>3, <3>4 DEF Once!Tell
    <3> QED
      BY <3>1, <3>5 DEF Once!Next
  <2>2. CASE UNCHANGED told
    BY <2>2, StepDecides
  <2> QED
    BY <2>1, <2>2
    DEF Next, vars, Proceed, Start, Refuse, CacheHit, Claim, ClaimLost, ClaimReplays,
        ClaimBlocked, StartHandler, HandlerReturned, HandlerRaised, Abandon, CommitSuccess,
        CommitRaises, CommitFailure, CommitFailureRaises, FillCache, SkipCache, CacheRaises,
        Stale, Crash, Apply, Return, Raise, LeaseExpires, CacheExpires
<1> QED
  BY <1>1, <1>2, InitType, NextType, InitAnswers, NextAnswers, PTL
  DEF Spec, ImplementsDecidedOutcome, Once!Spec

-------------------------------------------------------------------------------
(* Mutating tools *)

\* What journal, told and effects know of a mutating key: it is claimed once,
\* and no failure is ever committed for it.
KeySunk(k) ==
    /\ effects[k] \in {0, 1}
    /\ journal[k].gen \in {0, 1}
    /\ journal[k].status = "absent" => journal[k].gen = 0 /\ effects[k] = 0
    /\ journal[k].status \notin Failures
    /\ journal[k].status = "succeeded" => effects[k] = 1
    /\ \A o \in told[k] : o.status \in {"succeeded", "outcome_unknown"}
    /\ \A o \in told[k] : o.status = "succeeded" => effects[k] = 1

\* What a thread of a mutating key knows of its sink.
ThreadSunk(h) ==
    h.key \in Mutating =>
        /\ h.phase = "running" => effects[h.key] = 0
        /\ h.phase \in {"applied", "ok"} => effects[h.key] = 1

\* What a call of a mutating key knows of the sink.
CallSunk(c) ==
    call[c].key \in Mutating =>
        /\ call[c].pc = "claimed" => effects[call[c].key] = 0
        /\ call[c].pc = "succeeding" => effects[call[c].key] = 1
        /\ call[c].pc = "failing" => call[c].out.status = "outcome_unknown"

Sunk ==
    /\ \A k \in Mutating : KeySunk(k)
    /\ \A h \in handlers : ThreadSunk(h)
    /\ \A c \in Callers : CallSunk(c)

\* A mutating key has one thread in its life.
LEMMA OneThread ==
    ASSUME TypeOK, Threads, Sunk, NEW k \in Mutating
    PROVE  /\ \A g, h \in handlers : g.key = k /\ h.key = k => g = h
           /\ \A h \in handlers : h.key = k => h.gen = 1 /\ journal[k].gen = 1
  <1>1. \A h \in handlers : h.key = k => h.gen = 1 /\ journal[k].gen = 1
    BY DEF Threads, Sunk, KeySunk
  <1> QED
    BY <1>1 DEF Threads, OneHandlerPerClaim

\* Steps of a caller that touch neither journal nor sinks.
LEMMA SunkKept ==
    ASSUME TypeOK, Sunk, NEW c \in Callers, UNCHANGED <<effects, journal>>,
           \A h \in handlers' : h \in handlers \/ ThreadSunk(h),
           \A d \in Callers \ {c} : call'[d] = call[d],
           CallSunk(c)',
           UNCHANGED told
    PROVE  Sunk'
  <1>1. \A k \in Mutating : KeySunk(k)'
    BY DEF Sunk, KeySunk
  <1>2. \A h \in handlers' : ThreadSunk(h)'
    BY DEF Sunk, ThreadSunk
  <1>3. \A d \in Callers : CallSunk(d)'
    BY DEF Sunk, CallSunk
  <1> QED
    BY <1>1, <1>2, <1>3 DEF Sunk

\* A mutating key is not retried and its failures are of unknown outcome.
LEMMA SunkEnding ==
    ASSUME TypeOK, Keyed, Sunk, NEW c \in Callers, call[c].pc \in Holding,
           NextAttempt(c) \/ \E s \in Failures : GiveUp(c, s)
    PROVE  /\ \A d \in Callers \ {c} : call'[d] = call[d]
           /\ \A k \in Mutating : call'[c].key = k =>
                 call[c].key = k /\ call'[c].pc = "failing"
                 /\ call'[c].out.status = "outcome_unknown"
  <1>1. call[c].key \in Keys
    BY DEF Keyed, CallKeyed, Holding
  <1>2. CASE NextAttempt(c)
    BY <1>1, <1>2, Retrying
  <1>3. ASSUME NEW s \in Failures, GiveUp(c, s)
        PROVE  /\ \A d \in Callers \ {c} : call'[d] = call[d]
               /\ \A k \in Mutating : call'[c].key = k =>
                     call[c].key = k /\ call'[c].pc = "failing"
                     /\ call'[c].out.status = "outcome_unknown"
    BY <1>3, GivingUp
  <1> QED
    BY <1>2, <1>3

\* A commit of an outcome the sink agrees with.
LEMMA SunkCommit ==
    ASSUME TypeOK, Keyed, Sunk, NEW c \in Callers, call[c].pc \in Holding,
           NEW s \in Terminal, Complete(c, s) \/ UNCHANGED journal,
           UNCHANGED <<effects, handlers, told>>,
           call[c].key \in Mutating =>
              s \notin Failures /\ (s = "succeeded" => effects[call[c].key] = 1),
           \A d \in Callers \ {c} : call'[d] = call[d],
           CallSunk(c)'
    PROVE  Sunk'
  <1>1. \A k \in Mutating : KeySunk(k)'
    <2> SUFFICES ASSUME NEW k \in Mutating
                 PROVE  KeySunk(k)'
      OBVIOUS
    <2>1. KeySunk(k) /\ call[c].key \in Keys
      BY DEF Sunk, Keyed, CallKeyed, Holding
    <2>2. CASE journal'[k] = journal[k]
      BY <2>1, <2>2 DEF KeySunk
    <2>3. CASE journal'[k] # journal[k]
      <3>1. k = call[c].key /\ journal'[k].status = s /\ journal'[k].gen = journal[k].gen
        BY <2>3, <2>1, Completing
      <3> QED
        BY <2>1, <3>1 DEF KeySunk, Terminal, Failures
    <2> QED
      BY <2>2, <2>3
  <1>2. \A h \in handlers' : ThreadSunk(h)'
    BY DEF Sunk, ThreadSunk
  <1>3. \A d \in Callers : CallSunk(d)'
    BY DEF Sunk, CallSunk
  <1> QED
    BY <1>1, <1>2, <1>3 DEF Sunk

\* The steps of execute keep what is known of the sinks.
LEMMA ProceedSunk ==
    ASSUME TypeOK, Keyed, Threads, Answers, Sunk, NEW c \in Callers, Proceed(c)
    PROVE  Sunk'
  <1>1. CASE Refuse(c) \/ CacheHit(c) \/ ClaimBlocked(c) \/ Stale(c)
    <2>1. Leave(c) /\ UNCHANGED <<journal, handlers, effects, told>>
      BY <1>1 DEF Refuse, CacheHit, ClaimBlocked, Stale
    <2> QED
      BY <2>1, Leaving, SunkKept DEF CallSunk
  <1>2. ASSUME Claim(c) \/ ClaimLost(c)
        PROVE  Sunk'
    <2> DEFINE k == call[c].key
    <2>1. /\ k \in Keys /\ Claimable(k) /\ journal' = [journal EXCEPT ![k] = Granted(c, k)]
          /\ UNCHANGED <<handlers, effects, told>>
      BY <1>2 DEF Claim, ClaimLost, Keyed, CallKeyed
    <2>2. /\ \A l \in Keys \ {k} : journal'[l] = journal[l]
          /\ journal'[k].gen = journal[k].gen + 1
          /\ journal'[k].status = "in_progress"
      BY <2>1, Claiming DEF Granted
    <2>3. k \in Mutating => journal[k].gen = 0 /\ effects[k] = 0
      BY <2>1 DEF Claimable, Sunk, KeySunk
    <2>4. /\ \A d \in Callers \ {c} : call'[d] = call[d]
          /\ call'[c].pc \in {"idle", "claimed"}
          /\ call'[c].pc = "claimed" => call'[c].key = k
      BY <1>2, Acquiring, Leaving DEF ClaimLost
    <2>5. \A l \in Mutating : KeySunk(l)'
      BY <2>1, <2>2, <2>3 DEF Sunk, KeySunk, Failures
    <2>6. \A h \in handlers' : ThreadSunk(h)'
      BY <2>1 DEF Sunk, ThreadSunk
    <2>7. \A d \in Callers : CallSunk(d)'
      BY <2>1, <2>3, <2>4 DEF Sunk, CallSunk
    <2> QED
      BY <2>5, <2>6, <2>7 DEF Sunk
  <1>3. CASE ClaimReplays(c)
    <2>1. OutcomeOf(call[c].key) \in Outcomes
      BY <1>3 DEF ClaimReplays, Decided, OutcomeOf, Outcomes, TypeOK, Entries, Keyed, CallKeyed
    <2> QED
      BY <1>3, <2>1, Answering, SunkKept DEF ClaimReplays, CallSunk
  <1>4. CASE StartHandler(c)
    <2> DEFINE n == [caller |-> c, key |-> call[c].key, gen |-> call[c].gen,
                     attempt |-> call[c].attempt, phase |-> "running"]
    <2>1. /\ n.key = call[c].key /\ n.phase = "running" /\ handlers' = handlers \cup {n}
          /\ call[c].pc = "claimed" /\ UNCHANGED <<journal, effects, told>>
          /\ Move(c, "waiting")
      BY <1>4 DEF StartHandler
    <2> HIDE DEF n
    <2>2. ThreadSunk(n)
      BY <2>1 DEF ThreadSunk, Sunk, CallSunk
    <2> QED
      BY <2>1, <2>2, Moving, SunkKept DEF CallSunk
  <1>5. CASE HandlerReturned(c)
    <2>1. PICK h \in handlers : IsHandlerOf(c, h) /\ h.phase = "ok" /\ handlers' = handlers \ {h}
      BY <1>5 DEF HandlerReturned
    <2>2. call[c].key \in Mutating => effects[call[c].key] = 1
      BY <2>1 DEF IsHandlerOf, Sunk, ThreadSunk
    <2>3. CASE Move(c, "succeeding")
      BY <1>5, <2>1, <2>2, <2>3, Moving, SunkKept DEF HandlerReturned, CallSunk
    <2>4. CASE GiveUp(c, "failed")
      BY <1>5, <2>1, <2>4, GivingUp, SunkKept DEF HandlerReturned, CallSunk, Failures
    <2> QED
      BY <1>5, <2>3, <2>4 DEF HandlerReturned
  <1>6. CASE HandlerRaised(c) \/ Abandon(c) \/ CacheRaises(c)
    <2>1. /\ call[c].pc \in Holding /\ handlers' \subseteq handlers
          /\ NextAttempt(c) \/ \E s \in Failures : GiveUp(c, s)
          /\ UNCHANGED <<journal, effects, told>>
      BY <1>6 DEF HandlerRaised, Abandon, DropEnded, CacheRaises, Holding, Failures
    <2> QED
      BY <2>1, SunkEnding, SunkKept DEF CallSunk
  <1>7. CASE CommitSuccess(c)
    <2>1. call[c].key \in Mutating => effects[call[c].key] = 1
      BY <1>7 DEF CommitSuccess, Sunk, CallSunk
    <2>2. call[c] \in CallStates
      BY DEF TypeOK
    <2>3. /\ call'[c].pc \in {"replying", "caching"} /\ call'[c].key = call[c].key
          /\ \A d \in Callers \ {c} : call'[d] = call[d]
      BY <1>7, <2>2 DEF CommitSuccess, TypeOK, CallStates
    <2> QED
      BY <1>7, <2>1, <2>3, SunkCommit DEF CommitSuccess, CallSunk, Terminal, Failures, Holding
  <1>8. CASE CommitRaises(c)
    <2>1. call[c].key \in Mutating => effects[call[c].key] = 1
      BY <1>8 DEF CommitRaises, Sunk, CallSunk
    <2>2. call[c].pc \in Holding /\ "succeeded" \in Terminal /\ "succeeded" \notin Failures
      BY <1>8 DEF CommitRaises, Holding, Terminal, Failures
    <2>3. CallSunk(c)' /\ \A d \in Callers \ {c} : call'[d] = call[d]
      BY <1>8, <2>2, SunkEnding DEF CommitRaises, CallSunk
    <2> QED
      BY <1>8, <2>1, <2>2, <2>3, SunkCommit DEF CommitRaises
  <1>9. CASE FillCache(c) \/ SkipCache(c)
    BY <1>9, Moving, SunkKept DEF FillCache, SkipCache, CallSunk
  <1>10. CASE CommitFailure(c) \/ CommitFailureRaises(c)
    <2> DEFINE s == call[c].out.status
    <2>1. call[c].pc = "failing" /\ s \in Terminal
      BY <1>10 DEF CommitFailure, CommitFailureRaises, Keyed, CallKeyed, Outcomes
    <2>2. call[c].key \in Mutating => s = "outcome_unknown"
      BY <2>1 DEF Sunk, CallSunk
    <2>3. CallSunk(c)' /\ \A d \in Callers \ {c} : call'[d] = call[d]
      BY <1>10, Moving, Leaving DEF CommitFailure, CommitFailureRaises, CallSunk
    <2>4. Complete(c, s) \/ UNCHANGED journal
      BY <1>10 DEF CommitFailure, CommitFailureRaises
    <2>5. UNCHANGED <<handlers, effects, told>>
      BY <1>10 DEF CommitFailure, CommitFailureRaises
    <2> HIDE DEF s
    <2>6. call[c].pc \in Holding
      BY <2>1 DEF Holding
    <2>7. call[c].key \in Mutating => /\ s \notin Failures
                                      /\ s = "succeeded" => effects[call[c].key] = 1
      BY <2>2 DEF Failures
    <2> QED
      BY <2>1, <2>3, <2>4, <2>5, <2>6, <2>7, SunkCommit
  <1>11. CASE Reply(c)
    <2> DEFINE k == call[c].key
    <2>0. call[c].pc = "replying" /\ UNCHANGED <<journal, handlers, effects>>
      BY <1>11 DEF Reply
    <2>1. k \in Keys /\ Decided(k) /\ call[c].out.status = journal[k].status
      <3>1. k \in Keys /\ Decided(k) /\ call[c].out = OutcomeOf(k)
        BY <2>0 DEF Keyed, CallKeyed, Answers, CallAnswers
      <3> QED
        BY <3>1 DEF OutcomeOf
    <2>2. \A l \in Keys : told'[l] = told[l] \/ (l = k /\ told'[l] = told[l] \cup {call[c].out})
      BY <1>11, <2>1 DEF Reply, TypeOK
    <2>3. \A l \in Mutating : KeySunk(l)'
      BY <2>0, <2>1, <2>2 DEF Sunk, KeySunk, Decided, Terminal
    <2>4. \A d \in Callers : CallSunk(d)'
      BY <1>11, <2>0, Leaving DEF Reply, Sunk, CallSunk
    <2> QED
      BY <2>0, <2>3, <2>4 DEF Sunk, ThreadSunk
  <1> QED
    BY <1>1, <1>2, <1>3, <1>4, <1>5, <1>6, <1>7, <1>8, <1>9, <1>10, <1>11 DEF Proceed

\* Every step keeps what is known of the sinks.
LEMMA NextSunk ==
    ASSUME TypeOK, Keyed, Threads, Answers, Sunk, [Next]_vars
    PROVE  Sunk'
  <1>1. ASSUME NEW c \in Callers, Crash(c)
        PROVE  Sunk'
    BY <1>1, Leaving, SunkKept DEF Crash, CallSunk
  <1>2. ASSUME NEW c \in Callers, NEW k \in Keys, Start(c, k)
        PROVE  Sunk'
    BY <1>2, Starting, SunkKept DEF Start, CallSunk
  <1>3. ASSUME NEW h \in handlers, Apply(h)
        PROVE  Sunk'
    <2> DEFINE k == h.key
               g == [h EXCEPT !.phase = "applied"]
    <2>1. /\ k \in Mutating /\ h.phase = "running" /\ effects[k] = 0
          /\ handlers' = (handlers \ {h}) \cup {g}
          /\ effects' = [effects EXCEPT ![k] = effects[k] + 1]
          /\ UNCHANGED <<journal, call, told>>
      BY <1>3 DEF Apply, Become, Sunk, ThreadSunk
    <2>2. g.key = k /\ g.phase = "applied"
      BY DEF TypeOK, Handlers
    <2>3. effects'[k] = 1 /\ \A l \in Keys \ {k} : effects'[l] = effects[l]
      BY <2>1 DEF TypeOK
    <2>4. journal[k].gen = 1 /\ h.gen = 1 /\ \A f \in handlers : f.key = k => f = h
      BY <2>1, OneThread
    <2>5. \A d \in Callers : call[d].pc = "claimed" => call[d].key # k
      <3> SUFFICES ASSUME NEW d \in Callers, call[d].pc = "claimed", call[d].key = k
                   PROVE  FALSE
        OBVIOUS
      <3>1. call[d].gen = 1
        BY <2>1, <2>4 DEF Keyed, CallKeyed, Holding
      <3> QED
        BY <2>4, <3>1 DEF Threads, OfClaim
    <2> HIDE DEF g
    <2>6. \A l \in Mutating : KeySunk(l)'
      BY <2>1, <2>3, <2>4 DEF Sunk, KeySunk
    <2>7. \A f \in handlers' : ThreadSunk(f)'
      <3> SUFFICES ASSUME NEW f \in handlers', f.key \in Mutating
                   PROVE  ThreadSunk(f)'
        BY DEF ThreadSunk
      <3>1. CASE f = g
        BY <2>2, <2>3, <3>1 DEF ThreadSunk
      <3>2. CASE f # g
        <4>1. f \in handlers /\ f.key # k
          BY <2>1, <2>4, <3>2
        <4> QED
          BY <2>3, <4>1 DEF Sunk, ThreadSunk
      <3> QED
        BY <3>1, <3>2
    <2>8. \A d \in Callers : CallSunk(d)'
      BY <2>1, <2>3, <2>5 DEF Sunk, CallSunk
    <2> QED
      BY <2>6, <2>7, <2>8 DEF Sunk
  <1>4. ASSUME NEW h \in handlers, NEW p \in {"ok", "error"}, End(h, p),
               p = "ok" /\ h.key \in Mutating => h.phase = "applied",
               UNCHANGED <<journal, cache, call, effects, told>>
        PROVE  Sunk'
    <2> DEFINE g == [h EXCEPT !.phase = p]
    <2>1. handlers' \subseteq handlers \cup {g}
      BY <1>4 DEF End, Become
    <2>2. g.key = h.key /\ g.phase = p
      BY DEF TypeOK, Handlers
    <2> HIDE DEF g
    <2>3. ThreadSunk(g)
      BY <1>4, <2>2 DEF Sunk, ThreadSunk
    <2>4. \A f \in handlers' : ThreadSunk(f)'
      BY <1>4, <2>1, <2>3 DEF Sunk, ThreadSunk
    <2> QED
      BY <1>4, <2>4 DEF Sunk, KeySunk, CallSunk
  <1>5. ASSUME NEW k \in Keys, LeaseExpires(k)
        PROVE  Sunk'
    <2>1. \A l \in Keys : journal'[l].gen = journal[l].gen /\ journal'[l].status = journal[l].status
      BY <1>5 DEF LeaseExpires, TypeOK, Entries
    <2>2. UNCHANGED <<call, handlers, effects, told>>
      BY <1>5 DEF LeaseExpires
    <2> QED
      BY <2>1, <2>2 DEF Sunk, KeySunk, ThreadSunk, CallSunk
  <1>6. CASE CacheExpires \/ UNCHANGED vars
    BY <1>6 DEF CacheExpires, vars, Sunk, KeySunk, ThreadSunk, CallSunk
  <1> QED
    BY <1>1, <1>2, <1>3, <1>4, <1>5, <1>6, ProceedSunk DEF Next, Return, Raise

\* No sink has been reached in the initial state.
LEMMA InitSunk ==
    ASSUME Init
    PROVE  Sunk
  BY DEF Init, NoCall, Sunk, KeySunk, ThreadSunk, CallSunk, Failures

\* A mutating tool reaches its sink at most once for an idempotency key, and
\* an effect excludes any thread that could repeat it (claim_execution without
\* takeover, no retry, one thread per claim).
THEOREM MutationsHappenOnce == Spec => []MutatesOnce
<1>1. TypeOK /\ Threads /\ Sunk => MutatesOnce
  <2> SUFFICES ASSUME TypeOK, Threads, Sunk, NEW k \in Mutating
               PROVE  /\ effects[k] <= 1
                      /\ \A h \in handlers : h.key = k /\ MayApply(h) =>
                            /\ effects[k] = 0
                            /\ \A g \in handlers : g.key = k /\ MayApply(g) => g = h
    BY DEF MutatesOnce
  <2>1. effects[k] <= 1
    BY DEF Sunk, KeySunk
  <2> QED
    BY <2>1, OneThread DEF Sunk, ThreadSunk, MayApply
<1> QED
  BY <1>1, InitType, NextType, InitThreads, NextThreads, InitAnswers, NextAnswers,
     InitSunk, NextSunk, PTL DEF Spec

\* No caller is told, and the journal never says, that a mutation failed, and
\* success is said only of a sink that was reached
\* (mark_side_effect_outcome_unknown, _commit_execution_result).
THEOREM MutationsNotDenied == Spec => []MutationNotDenied
<1>1. Sunk => MutationNotDenied
  BY DEF Sunk, KeySunk, MutationNotDenied
<1> QED
  BY <1>1, InitType, NextType, InitThreads, NextThreads, InitAnswers, NextAnswers,
     InitSunk, NextSunk, PTL DEF Spec

-------------------------------------------------------------------------------
(* A call comes nearer to its end *)

\* the order of the places of an attempt
Rank(p) ==
    IF p = "checked" THEN 7
    ELSE IF p = "claimed" THEN 6
    ELSE IF p = "waiting" THEN 5
    ELSE IF p = "succeeding" THEN 4
    ELSE IF p = "caching" THEN 3
    ELSE IF p = "failing" THEN 2
    ELSE IF p = "replying" THEN 1
    ELSE 0

\* a bound on the steps execute has left: there are two attempts at most
StepsLeft(c) ==
    IF call[c].pc = "idle" THEN 0
    ELSE IF call[c].pc = "checked" THEN 14
    ELSE Rank(call[c].pc) + 7 * (2 - call[c].attempt)

\* Nothing that happens - a handler thread that ends late, a lost lease, another
\* claim, an error of the store - sends a started call back.
CallsAdvance ==
    \A c \in Callers :
        call'[c] # call[c] => call[c].pc = "idle" \/ StepsLeft(c)' < StepsLeft(c)

\* A call that goes on within its attempt, or leaves the loop.
LEMMA RankFalls ==
    ASSUME TypeOK, NEW c \in Callers, call' \in [Callers -> CallStates],
           call[c].pc \notin {"idle", "checked"}, call'[c].pc # "checked",
           \/ call'[c].attempt = call[c].attempt /\ Rank(call'[c].pc) < Rank(call[c].pc)
           \/ call'[c].attempt = call[c].attempt + 1 /\ Rank(call'[c].pc) <= 6
           \/ call'[c].pc = "idle"
    PROVE  StepsLeft(c)' < StepsLeft(c)
<1>1. call[c] \in CallStates /\ call'[c] \in CallStates
  BY DEF TypeOK
<1>2. call[c].attempt \in 1..2 /\ call'[c].attempt \in 1..2
  BY <1>1 DEF CallStates
<1>3. Rank(call[c].pc) \in 1..7 /\ Rank(call'[c].pc) \in 0..7
  BY <1>1 DEF CallStates, Rank
<1>4. CASE call'[c].pc = "idle"
  <2>1. StepsLeft(c)' = 0
    BY <1>4 DEF StepsLeft
  <2>2. StepsLeft(c) = Rank(call[c].pc) + 7 * (2 - call[c].attempt)
    BY DEF StepsLeft
  <2> QED
    BY <1>2, <1>3, <2>1, <2>2
<1>5. CASE call'[c].pc # "idle"
  <2>1. /\ StepsLeft(c)' = Rank(call'[c].pc) + 7 * (2 - call'[c].attempt)
        /\ StepsLeft(c) = Rank(call[c].pc) + 7 * (2 - call[c].attempt)
    BY <1>5 DEF StepsLeft
  <2> QED
    BY <1>2, <1>3, <1>5, <2>1
<1> QED
  BY <1>4, <1>5

\* A call that leaves the lookup.
LEMMA CheckedFalls ==
    ASSUME TypeOK, NEW c \in Callers, call' \in [Callers -> CallStates],
           call[c].pc = "checked", call'[c].pc # "checked"
    PROVE  StepsLeft(c)' < StepsLeft(c)
<1>1. call'[c] \in CallStates
  BY DEF TypeOK
<1>2. call'[c].attempt \in 1..2 /\ Rank(call'[c].pc) \in 0..6
  BY <1>1 DEF CallStates, Rank
<1>3. StepsLeft(c) = 14
  BY DEF StepsLeft
<1>4. StepsLeft(c)' \in {0, Rank(call'[c].pc) + 7 * (2 - call'[c].attempt)}
  BY DEF StepsLeft
<1> QED
  BY <1>2, <1>3, <1>4

\* Every step of execute lowers what the call has left.
LEMMA ProceedFalls ==
    ASSUME TypeOK, Keyed, NEW c \in Callers, Proceed(c)
    PROVE  /\ StepsLeft(c)' < StepsLeft(c)
           /\ \A d \in Callers \ {c} : call'[d] = call[d]
<1> USE DEF Rank
<1>0. call' \in [Callers -> CallStates]
  BY ProceedType DEF TypeOK
<1>1. CASE Refuse(c) \/ CacheHit(c) \/ ClaimBlocked(c) \/ ClaimLost(c)
  BY <1>0, <1>1, Leaving, CheckedFalls DEF Refuse, CacheHit, ClaimBlocked, ClaimLost
<1>2. CASE Claim(c)
  <2>1. call[c].pc = "checked" /\ call'[c].pc = "claimed"
    BY <1>2 DEF Claim, TypeOK, CallStates
  <2> QED
    BY <1>0, <1>2, <2>1, CheckedFalls DEF Claim, TypeOK
<1>3. CASE ClaimReplays(c)
  <2>1. call[c].pc = "checked" /\ call'[c].pc = "replying"
    BY <1>3 DEF ClaimReplays, Answer, TypeOK, CallStates
  <2> QED
    BY <1>0, <1>3, <2>1, CheckedFalls DEF ClaimReplays, Answer, TypeOK
<1>4. CASE StartHandler(c)
  BY <1>0, <1>4, Moving, RankFalls DEF StartHandler
<1>5. CASE FillCache(c) \/ SkipCache(c) \/ CommitFailure(c)
  BY <1>0, <1>5, Moving, RankFalls DEF FillCache, SkipCache, CommitFailure
<1>6. CASE CommitSuccess(c)
  <2>1. /\ call[c].pc = "succeeding" /\ call'[c].pc \in {"replying", "caching"}
        /\ call'[c].attempt = call[c].attempt
        /\ \A d \in Callers \ {c} : call'[d] = call[d]
    BY <1>6 DEF CommitSuccess, TypeOK, CallStates
  <2> QED
    BY <1>0, <2>1, RankFalls
<1>7. ASSUME call[c].pc \in {"waiting", "succeeding", "caching"},
             \/ Move(c, "succeeding") /\ call[c].pc = "waiting"
             \/ NextAttempt(c)
             \/ \E s \in Failures : GiveUp(c, s)
      PROVE  /\ StepsLeft(c)' < StepsLeft(c)
             /\ \A d \in Callers \ {c} : call'[d] = call[d]
  <2>1. CASE Move(c, "succeeding") /\ call[c].pc = "waiting"
    BY <1>0, <2>1, Moving, RankFalls
  <2>2. CASE NextAttempt(c)
    <3>1. call[c].key \in Keys
      BY <1>7 DEF Keyed, CallKeyed
    <3> QED
      BY <1>0, <1>7, <2>2, <3>1, Retrying, RankFalls
  <2>3. CASE \E s \in Failures : GiveUp(c, s)
    BY <1>0, <1>7, <2>3, GivingUp, RankFalls
  <2> QED
    BY <1>7, <2>1, <2>2, <2>3
<1>8. CASE HandlerReturned(c) \/ HandlerRaised(c) \/ Abandon(c) \/ CommitRaises(c)
           \/ CacheRaises(c)
  BY <1>7, <1>8 DEF HandlerReturned, HandlerRaised, Abandon, CommitRaises, CacheRaises,
                    Failures
<1>9. CASE CommitFailureRaises(c) \/ Stale(c) \/ Reply(c)
  BY <1>0, <1>9, Leaving, RankFalls DEF CommitFailureRaises, Stale, Reply
<1> QED
  BY <1>1, <1>2, <1>3, <1>4, <1>5, <1>6, <1>8, <1>9 DEF Proceed

\* Why execute returns although its handler thread may hang: a call takes at most
\* 14 steps and never one back, for any number of callers, keys and claims.
THEOREM CallsComeNearer == Spec => [][CallsAdvance]_vars
<1>1. TypeOK /\ Keyed /\ [Next]_vars => [CallsAdvance]_vars
  <2> SUFFICES ASSUME TypeOK, Keyed, Next PROVE CallsAdvance
    BY DEF CallsAdvance
  <2>1. ASSUME NEW c \in Callers, Proceed(c) PROVE CallsAdvance
    BY <2>1, ProceedFalls DEF CallsAdvance
  <2>2. ASSUME NEW c \in Callers, Crash(c) PROVE CallsAdvance
    <3>1. /\ call' \in [Callers -> CallStates] /\ call'[c].pc = "idle"
          /\ \A d \in Callers \ {c} : call'[d] = call[d]
      BY <2>2, Leaving DEF Crash
    <3>2. CASE call[c].pc = "idle"
      BY <3>1, <3>2 DEF CallsAdvance
    <3>3. CASE call[c].pc = "checked"
      BY <3>1, <3>3, CheckedFalls DEF CallsAdvance
    <3>4. CASE call[c].pc \notin {"idle", "checked"}
      BY <3>1, <3>4, RankFalls DEF CallsAdvance
    <3> QED
      BY <3>2, <3>3, <3>4
  <2>3. ASSUME NEW c \in Callers, NEW k \in Keys, Start(c, k) PROVE CallsAdvance
    BY <2>3 DEF Start, CallsAdvance, TypeOK
  <2>4. CASE UNCHANGED call
    BY <2>4 DEF CallsAdvance
  <2> QED
    BY <2>1, <2>2, <2>3, <2>4 DEF Next, Apply, Return, Raise, LeaseExpires, CacheExpires
<1> QED
  BY <1>1, InitType, NextType, PTL DEF Spec
===============================================================================
