----------------------------- MODULE ToolRuntime -----------------------------
(***************************************************************************)
(* ToolRuntimeService.execute over the execution journal: worker processes *)
(* call tools under idempotency keys; the journal grants an execution to   *)
(* one claim (owner, generation) at a time and keeps its terminal result,  *)
(* which later calls replay.  The handler runs in a daemon thread that a   *)
(* timeout or a cancellation abandons and nothing stops.                   *)
(*                                                                         *)
(* Every journal operation is one lock region of the store, hence one      *)
(* step.  The journal and the cache are shared and outlive a process; a    *)
(* process that dies takes its call and its handler threads with it.       *)
(*                                                                         *)
(* Abstractions: all keys are calls with the same arguments (they share    *)
(* one cache entry); a result is the claim that produced it, the attempts  *)
(* of one claim are not told apart; the clock is the flag expired of a     *)
(* lease; the circuit and the rate limit may refuse any call.              *)
(***************************************************************************)
EXTENDS Naturals

CONSTANTS
    Callers,    \* threads that call tools, each in a process of its own
    Keys,       \* idempotency keys
    Mutating,   \* keys of tools whose side_effect_level is not read-only
    Retryable,  \* keys of tools whose policy has max_retries = 1
    MaxGen,     \* bound: claims per key
    NoOwner,    \* lease_owner before the first claim
    Nothing     \* no cache entry, no outcome

\* policy_for grants a retry to the LLM drafting tools only
ASSUME ToolRuntimeConstants ==
    /\ Mutating \subseteq Keys
    /\ Retryable \subseteq Keys \ Mutating
    /\ MaxGen \in Nat \ {0}
    /\ NoOwner \notin Callers
    /\ Nothing \notin Keys

VARIABLES
    journal,   \* ExecutionJournalEntry of every key
    cache,     \* the entry of the shared CacheStore
    call,      \* where every caller stands in execute
    handlers,  \* the handler threads that are alive
    effects,   \* how often a handler of a mutating key reached its sink
    told       \* the outcomes callers of a key were told

vars == <<journal, cache, call, handlers, effects, told>>

Failures == {"failed", "timed_out"}   \* timed_out stands for canceled as well
Terminal == {"succeeded", "outcome_unknown"} \cup Failures   \* TERMINAL_EXECUTION_STATUSES

Outcomes == [status : Terminal, gen : Nat]

ASSUME NothingIsNoOutcome == Nothing \notin Outcomes

Values == [key : Keys, gen : Nat]

Entries ==
    [status  : {"absent", "in_progress"} \cup Terminal,
     owner   : Callers \cup {NoOwner},
     gen     : Nat,          \* lease_generation
     expired : BOOLEAN]      \* lease_until has passed

CallStates ==
    [pc      : {"idle", "checked", "claimed", "waiting",
                "succeeding", "failing", "caching", "replying"},
     key     : Keys \cup {Nothing},
     gen     : Nat,          \* the generation of the claim
     attempt : 1..2,
     out     : Outcomes \cup {Nothing}]

Handlers ==
    [caller : Callers, key : Keys, gen : Nat, attempt : 1..2,
     phase  : {"running", "applied", "ok", "error"}]

NoCall == [pc |-> "idle", key |-> Nothing, gen |-> 0, attempt |-> 1, out |-> Nothing]

Init ==
    /\ journal = [k \in Keys |-> [status |-> "absent", owner |-> NoOwner,
                                  gen |-> 0, expired |-> FALSE]]
    /\ cache = Nothing
    /\ call = [c \in Callers |-> NoCall]
    /\ handlers = {}
    /\ effects = [k \in Keys |-> 0]
    /\ told = [k \in Keys |-> {}]

-------------------------------------------------------------------------------
(* Reading the state *)

Decided(k) == journal[k].status \in Terminal

OutcomeOf(k) == [status |-> journal[k].status, gen |-> journal[k].gen]

\* mutant: an expired lease is taken over whatever the tool does
Claimable_AnyTool(k) ==
    \/ journal[k].status = "absent"
    \/ journal[k].status = "in_progress" /\ journal[k].expired

\* next_execution_claim: a new entry, or the takeover of an expired lease
Claimable(k) ==
    \/ journal[k].status = "absent"
    \/ /\ journal[k].status = "in_progress"
       /\ journal[k].expired
       /\ k \notin Mutating       \* allow_expired_takeover

\* mutants: the token of the claim, or the status of the entry, is ignored
FenceHolds_AnyClaim(c) == journal[call[c].key].status = "in_progress"

FenceHolds_AnyStatus(c) ==
    /\ journal[call[c].key].owner = c
    /\ journal[call[c].key].gen = call[c].gen

\* the status execute asks complete_execution for
Claimed(c) == IF call[c].pc = "succeeding" THEN "succeeded" ELSE call[c].out.status

\* completed_execution_entry accepts the claim that call c holds, also when
\* the entry is terminal already with the very status that is asked for
FenceHolds(c) ==
    /\ journal[call[c].key].owner = c
    /\ journal[call[c].key].gen = call[c].gen
    /\ journal[call[c].key].status \in {"in_progress", Claimed(c)}

Attempts(k) == IF k \in Retryable THEN 2 ELSE 1

IsHandlerOf(c, h) ==
    /\ h.caller = c
    /\ h.key = call[c].key
    /\ h.gen = call[c].gen
    /\ h.attempt = call[c].attempt

-------------------------------------------------------------------------------
(* execute *)

Move(c, pc) == call' = [call EXCEPT ![c].pc = pc]

\* execute returns or raises without an outcome of the execution
Leave(c) == call' = [call EXCEPT ![c] = NoCall]

Answer(c, o) ==
    call' = [call EXCEPT ![c].pc = "replying", ![c].out = o]

\* get_execution is asked before the circuit, the rate limit and the cache
Start(c, k) ==
    /\ call[c].pc = "idle"
    /\ call' = [call EXCEPT
          ![c] = IF Decided(k)
                 THEN [NoCall EXCEPT !.pc = "replying", !.key = k, !.out = OutcomeOf(k)]
                 ELSE [NoCall EXCEPT !.pc = "checked", !.key = k]]
    /\ UNCHANGED <<journal, cache, handlers, effects, told>>

\* CIRCUIT_OPEN or RATE_LIMITED
Refuse(c) ==
    /\ call[c].pc = "checked"
    /\ Leave(c)
    /\ UNCHANGED <<journal, cache, handlers, effects, told>>

\* a cached value of a call with the same arguments is returned
CacheHit(c) ==
    /\ call[c].pc = "checked"
    /\ call[c].key \notin Mutating
    /\ cache # Nothing
    /\ Leave(c)
    /\ UNCHANGED <<journal, cache, handlers, effects, told>>

\* the entry next_execution_claim writes
Granted(c, k) ==
    [status |-> "in_progress", owner |-> c, expired |-> FALSE,
     gen |-> journal[k].gen + 1]

\* the attempt loop is entered
Claim(c) ==
    LET k == call[c].key IN
    /\ call[c].pc = "checked"
    /\ Claimable(k)
    /\ journal[k].gen < MaxGen
    /\ journal' = [journal EXCEPT ![k] = Granted(c, k)]
    /\ call' = [call EXCEPT ![c].pc = "claimed", ![c].gen = journal[k].gen + 1,
                            ![c].attempt = 1]
    /\ UNCHANGED <<cache, handlers, effects, told>>

\* the outcome was committed after the lookup
ClaimReplays(c) ==
    /\ call[c].pc = "checked"
    /\ Decided(call[c].key)
    /\ Answer(c, OutcomeOf(call[c].key))
    /\ UNCHANGED <<journal, cache, handlers, effects, told>>

\* IDEMPOTENCY_IN_PROGRESS or IDEMPOTENCY_OUTCOME_UNKNOWN
ClaimBlocked(c) ==
    /\ call[c].pc = "checked"
    /\ ~Decided(call[c].key)
    /\ ~Claimable(call[c].key)
    /\ Leave(c)
    /\ UNCHANGED <<journal, cache, handlers, effects, told>>

\* claim_execution raises although the store has written the entry
ClaimLost(c) ==
    LET k == call[c].key IN
    /\ call[c].pc = "checked"
    /\ Claimable(k)
    /\ journal[k].gen < MaxGen
    /\ journal' = [journal EXCEPT ![k] = Granted(c, k)]
    /\ Leave(c)
    /\ UNCHANGED <<cache, handlers, effects, told>>

\* _call_with_timeout starts the handler thread
StartHandler(c) ==
    /\ call[c].pc = "claimed"
    /\ handlers' = handlers \cup
          {[caller |-> c, key |-> call[c].key, gen |-> call[c].gen,
            attempt |-> call[c].attempt, phase |-> "running"]}
    /\ Move(c, "waiting")
    /\ UNCHANGED <<journal, cache, effects, told>>

\* the next round of the attempt loop
NextAttempt(c) ==
    /\ call[c].attempt < Attempts(call[c].key)
    /\ call' = [call EXCEPT ![c].pc = "claimed", ![c].attempt = @ + 1]

\* mutant: a mutation that did not end well is a plain failure
FailureOf_Plain(k, status) == status

\* mark_side_effect_outcome_unknown and the status for the journal
FailureOf(k, status) == IF k \in Mutating THEN "outcome_unknown" ELSE status

GiveUp(c, status) ==
    call' = [call EXCEPT ![c].pc = "failing",
                         ![c].out = [status |-> FailureOf(call[c].key, status),
                                     gen |-> call[c].gen]]

\* the handler's value is taken from the queue
HandlerReturned(c) ==
    /\ call[c].pc = "waiting"
    /\ \E h \in handlers : IsHandlerOf(c, h) /\ h.phase = "ok" /\ handlers' = handlers \ {h}
    /\ \/ Move(c, "succeeding")
       \/ GiveUp(c, "failed")    \* TOOL_CONTRACT_VIOLATION
    /\ UNCHANGED <<journal, cache, effects, told>>

\* the handler's exception is raised
HandlerRaised(c) ==
    /\ call[c].pc = "waiting"
    /\ \E h \in handlers : IsHandlerOf(c, h) /\ h.phase = "error" /\ handlers' = handlers \ {h}
    /\ NextAttempt(c) \/ \E s \in Failures : GiveUp(c, s)
    /\ UNCHANGED <<journal, cache, effects, told>>

\* the thread of the attempt, if it has ended, is gone with its queue
DropEnded(c) ==
    handlers' = {h \in handlers : ~(IsHandlerOf(c, h) /\ h.phase \in {"ok", "error"})}

\* mutant: a timed out attempt is repeated like any other
Abandon_Retries(c) ==
    /\ call[c].pc = "waiting"
    /\ DropEnded(c)
    /\ NextAttempt(c) \/ GiveUp(c, "timed_out")
    /\ UNCHANGED <<journal, cache, effects, told>>

\* mutant: only a thread that has ended is abandoned
Abandon_WaitsForTheThread(c) ==
    /\ call[c].pc = "waiting"
    /\ \E h \in handlers : IsHandlerOf(c, h) /\ h.phase \in {"ok", "error"}
    /\ DropEnded(c)
    /\ GiveUp(c, "timed_out")
    /\ UNCHANGED <<journal, cache, effects, told>>

\* the deadline passes or the cancel event is set: the wait ends, without
\* looking at the queue again, and a thread that has not ended goes on
Abandon(c) ==
    /\ call[c].pc = "waiting"
    /\ DropEnded(c)
    /\ GiveUp(c, "timed_out")
    /\ UNCHANGED <<journal, cache, effects, told>>

\* complete_execution writes the terminal entry of the claim
Complete(c, status) ==
    journal' = [journal EXCEPT ![call[c].key].status = status,
                               ![call[c].key].expired = FALSE]

\* the success is committed; read-only tools fill the cache next
CommitSuccess(c) ==
    /\ call[c].pc = "succeeding"
    /\ FenceHolds(c)
    /\ Complete(c, "succeeded")
    /\ call' = [call EXCEPT ![c].pc = IF call[c].key \in Mutating THEN "replying"
                                                                  ELSE "caching",
                            ![c].out = [status |-> "succeeded", gen |-> call[c].gen]]
    /\ UNCHANGED <<cache, handlers, effects, told>>

\* the store raises, before or after it has written: the attempt counts as
\* failed, and a retryable tool runs its handler again
CommitRaises(c) ==
    /\ call[c].pc = "succeeding"
    /\ \/ FenceHolds(c) /\ Complete(c, "succeeded")
       \/ UNCHANGED journal
    /\ NextAttempt(c) \/ \E s \in Failures : GiveUp(c, s)
    /\ UNCHANGED <<cache, handlers, effects, told>>

CommitFailure(c) ==
    /\ call[c].pc = "failing"
    /\ FenceHolds(c)
    /\ Complete(c, call[c].out.status)
    /\ Move(c, "replying")
    /\ UNCHANGED <<cache, handlers, effects, told>>

\* the failure is not recorded: the store raises out of execute
CommitFailureRaises(c) ==
    /\ call[c].pc = "failing"
    /\ \/ FenceHolds(c) /\ Complete(c, call[c].out.status)
       \/ UNCHANGED journal
    /\ Leave(c)
    /\ UNCHANGED <<cache, handlers, effects, told>>

\* STALE_EXECUTION_FENCE: the caller is sent to the journal
Stale(c) ==
    /\ call[c].pc \in {"succeeding", "failing"}
    /\ ~FenceHolds(c)
    /\ Leave(c)
    /\ UNCHANGED <<journal, cache, handlers, effects, told>>

\* cache_store.set
FillCache(c) ==
    /\ call[c].pc = "caching"
    /\ cache' = [key |-> call[c].key, gen |-> call[c].gen]
    /\ Move(c, "replying")
    /\ UNCHANGED <<journal, handlers, effects, told>>

\* the tool has no cache policy
SkipCache(c) ==
    /\ call[c].pc = "caching"
    /\ Move(c, "replying")
    /\ UNCHANGED <<journal, cache, handlers, effects, told>>

\* cache_store.set raises inside the attempt: the committed call goes on as
\* a failed one
CacheRaises(c) ==
    /\ call[c].pc = "caching"
    /\ NextAttempt(c) \/ \E s \in Failures : GiveUp(c, s)
    /\ UNCHANGED <<journal, cache, handlers, effects, told>>

Reply(c) ==
    /\ call[c].pc = "replying"
    /\ told' = [told EXCEPT ![call[c].key] = @ \cup {call[c].out}]
    /\ Leave(c)
    /\ UNCHANGED <<journal, cache, handlers, effects>>

\* the steps of execute; the handler thread is not waited for
Proceed(c) ==
    \/ Refuse(c) \/ CacheHit(c)
    \/ Claim(c) \/ ClaimReplays(c) \/ ClaimBlocked(c) \/ ClaimLost(c)
    \/ StartHandler(c) \/ HandlerReturned(c) \/ HandlerRaised(c) \/ Abandon(c)
    \/ CommitSuccess(c) \/ CommitRaises(c) \/ FillCache(c) \/ SkipCache(c)
    \/ CacheRaises(c) \/ CommitFailure(c) \/ CommitFailureRaises(c) \/ Stale(c)
    \/ Reply(c)

-------------------------------------------------------------------------------
(* Handler threads and the world *)

Awaited(h) == call[h.caller].pc = "waiting" /\ IsHandlerOf(h.caller, h)

Become(h, phase) == handlers' = (handlers \ {h}) \cup {[h EXCEPT !.phase = phase]}

\* the thread ends; an abandoned one leaves nothing behind
End(h, phase) ==
    IF Awaited(h) THEN Become(h, phase) ELSE handlers' = handlers \ {h}

\* the sink of a mutating tool commits
Apply(h) ==
    /\ h.phase = "running"
    /\ h.key \in Mutating
    /\ Become(h, "applied")
    /\ effects' = [effects EXCEPT ![h.key] = @ + 1]
    /\ UNCHANGED <<journal, cache, call, told>>

\* the handler returns, a mutating one after its sink has committed
Return(h) ==
    /\ h.phase = IF h.key \in Mutating THEN "applied" ELSE "running"
    /\ End(h, "ok")
    /\ UNCHANGED <<journal, cache, call, effects, told>>

\* the handler raises, a mutating one before or after that
Raise(h) ==
    /\ h.phase \in {"running", "applied"}
    /\ End(h, "error")
    /\ UNCHANGED <<journal, cache, call, effects, told>>

LeaseExpires(k) ==
    /\ journal[k].status = "in_progress"
    /\ ~journal[k].expired
    /\ journal' = [journal EXCEPT ![k].expired = TRUE]
    /\ UNCHANGED <<cache, call, handlers, effects, told>>

CacheExpires ==
    /\ cache # Nothing
    /\ cache' = Nothing
    /\ UNCHANGED <<journal, call, handlers, effects, told>>

\* the process of a caller dies and is started again
Crash(c) ==
    /\ Leave(c)
    /\ handlers' = {h \in handlers : h.caller # c}
    /\ UNCHANGED <<journal, cache, effects, told>>

Next ==
    \/ \E c \in Callers : Proceed(c) \/ Crash(c) \/ \E k \in Keys : Start(c, k)
    \/ \E h \in handlers : Apply(h) \/ Return(h) \/ Raise(h)
    \/ \E k \in Keys : LeaseExpires(k)
    \/ CacheExpires

Spec == Init /\ [][Next]_vars

\* A thread inside execute goes on: every wait in it has a deadline.  Handler
\* threads may hang for ever, and nothing makes a caller start a call.
FairSpec == Spec /\ \A c \in Callers : WF_vars(Proceed(c))

-------------------------------------------------------------------------------
(* Properties *)

\* Every field keeps its range; no attempt is made beyond max_retries.
TypeOK ==
    /\ journal \in [Keys -> Entries]
    /\ cache \in Values \cup {Nothing}
    /\ call \in [Callers -> CallStates]
    /\ handlers \subseteq Handlers
    /\ effects \in [Keys -> Nat]
    /\ told \in [Keys -> SUBSET Outcomes]

\* A handler thread that may still reach the sink of its tool.
MayApply(h) == h.key \in Mutating /\ h.phase = "running"

\* The sink of a mutating tool is reached at most once for an idempotency
\* key, whatever calls, crashes, lost store answers, expired leases and
\* abandoned threads there are: an effect excludes any thread that could
\* repeat it, and two such threads never exist.
MutatesOnce ==
    \A k \in Mutating :
        /\ effects[k] <= 1
        /\ \A h \in handlers : h.key = k /\ MayApply(h) =>
              /\ effects[k] = 0
              /\ \A g \in handlers : g.key = k /\ MayApply(g) => g = h

\* Nobody is told, and the journal never says, that a mutation failed, and
\* when it says it succeeded the sink was reached: _commit_execution_result
\* agrees with the sink although no step reads it.
MutationNotDenied ==
    \A k \in Mutating :
        /\ \A o \in told[k] : o.status \in {"succeeded", "outcome_unknown"}
        /\ \A o \in told[k] : o.status = "succeeded" => effects[k] = 1
        /\ journal[k].status \notin Failures
        /\ journal[k].status = "succeeded" => effects[k] = 1

\* A claim has one live handler at a time: the attempt loop of execute never
\* starts the next attempt beside a thread it abandoned.
OneHandlerPerClaim ==
    \A g, h \in handlers : g.key = h.key /\ g.gen = h.gen => g = h

\* What the cache serves is the committed result of its execution: a result
\* that complete_execution refused never reaches cache_store.set.
CacheCommitted ==
    cache # Nothing =>
        /\ journal[cache.key].status = "succeeded"
        /\ journal[cache.key].gen = cache.gen

\* The journal gives every key one outcome, and execute tells its callers
\* nothing else.
Once == INSTANCE DecidedOutcome WITH
           Undecided <- Nothing,
           outcome <- [k \in Keys |-> IF Decided(k) THEN OutcomeOf(k) ELSE Nothing]

ImplementsDecidedOutcome == Once!Spec

\* execute returns whatever its handler thread does.
CallsReturn == \A c \in Callers : call[c].pc # "idle" ~> call[c].pc = "idle"
===============================================================================
