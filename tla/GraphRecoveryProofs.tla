------------------------- MODULE GraphRecoveryProofs -------------------------
(***************************************************************************)
(* A half-made revision can always be rolled forward, and session and gate *)
(* agree when nothing is pending: the part of the proofs about             *)
(* GraphRevision that looks at the session and at what every call has yet  *)
(* to look at.                                                             *)
(*                                                                         *)
(* The argument: a revision is claimed under session.lock by a call that   *)
(* saw nothing pending when it recovered.  What another call of the turn   *)
(* claimed since has the same base, and a base has one claim.  So at most  *)
(* one revision is pending, it is the newest, and the session runs its     *)
(* base or itself.                                                         *)
(*                                                                         *)
(* The last part shows that gate and session implement RevisionLog: what   *)
(* a call holds was pending when it was read, so it is the gate's newest   *)
(* revision, or complete and already in the session.                       *)
(*                                                                         *)
(* At the end: each call comes nearer to its end with every step, and the  *)
(* locks are never waited for in a circle.                                 *)
(***************************************************************************)
EXTENDS GraphRevisionProofs

-------------------------------------------------------------------------------
(* The invariant *)

\* The call switched the session, or found it switched.
Finishing(c) == c.pc \in {"finish", "done"} \/ (c.pc = "publish" /\ c.after = "done")

\* The call has still to look at the transaction, or works on it.
Regards(c, tx) ==
    \/ tx \in c.todo
    \/ \E f \in c.found : f[1] = tx
    \/ c.pc \in Working /\ c.tx = tx

Complete(tx) == head[tx] = 3

\* A revising call that has not proposed yet, while the session has not moved
\* on, and a new process without a session: nothing pending escapes them, but
\* what another call of the turn claimed since.
Looks(t) ==
    LET c == calls[t] IN
    /\ c.kind = "revise" /\ ~c.rolled /\ ~Revising(t) /\ session = base =>
          \A tx \in claims : Complete(tx) \/ Base(tx) = base \/ Regards(c, tx)
    /\ c.kind = "boot" /\ session = NoGraph =>
          /\ \A tx \in claims : Complete(tx) \/ Regards(c, tx)
          /\ \A f \in c.found : ~Complete(f[1])

\* session.lock: the session stays the base of the transaction until it is
\* switched, and nothing else is pending when the claim is made.
Revises(t) ==
    LET c == calls[t] IN
    /\ c.pc \in {"claim", "prepare"} \/ (c.pc = "publish" /\ c.after = "population") =>
          Revising(t)
    /\ Revising(t) =>
          /\ c.kind = "revise"
          /\ c.pc \notin {"discover", "propose", "reload"}
          /\ c.pc = "publish" => c.after \notin {"discover", "reload"}
          /\ ~Finishing(c) => session = Base(c.tx)
    /\ c.pc = "claim" => \A tx \in claims : Complete(tx) \/ Base(tx) = Base(c.tx)

Follows(t) ==
    LET c == calls[t] IN
    IF At(t, "idle") THEN ~Revising(t) ELSE
    /\ c.kind # "none"
    /\ c.kind = "boot" => \A u \in Threads \ {t} : At(u, "idle")
    /\ c.kind # "boot" => session \in Graphs /\ Len(base) <= Len(session)
    /\ c.pc = "propose" => c.todo = {} /\ c.found = {} /\ ~c.rolled /\ c.kind = "revise"
    /\ c.pc = "reload" => head[c.tx] >= 2
    /\ c.pc = "publish" =>
          /\ c.after = "discover" => c.next = 1
          /\ c.after = "reload" => c.next = 2
          /\ c.next = 3 => c.after = "done"
    /\ Finishing(c) => session \in Graphs /\ IsPrefix(c.tx, session)
    /\ Revises(t)
    /\ Looks(t)

\* At most one revision is pending, the newest.
Pending ==
    /\ \A a, b \in claims : ~Complete(a) /\ ~Complete(b) => a = b
    /\ \A a, b \in claims : ~Complete(a) => Len(b) <= Len(a)
    /\ \A tx \in Transactions : head[tx] # 0 => tx \in claims

\* The session runs every complete revision, unless it was declared anew.
Completed ==
    session \in Graphs /\ ~redeclared =>
        \A tx \in claims : Complete(tx) => IsPrefix(tx, session)

RInv == Pending /\ PendingRecoverable /\ Completed /\ \A t \in Threads : Follows(t)

-------------------------------------------------------------------------------
(* Kinds of steps *)

\* What the state invariants say of a call.
LEMMA FollowFacts ==
    ASSUME IInv, RInv, NEW t \in Threads
    PROVE  /\ Follows(t)
           /\ ~At(t, "idle") => Revises(t) /\ Looks(t)
           /\ session \in Graphs \cup {NoGraph} /\ base \in Graphs
           /\ Len(base) \in Nat
           /\ session \in Graphs => Len(session) \in Nat /\ session # NoGraph
           /\ NoThread \notin Threads
           /\ \A tx \in Transactions : head[tx] \in 0..3
           /\ claims \subseteq Transactions
           /\ calls[t].found \in SUBSET (Transactions \X (1..2))
<1>1. Follows(t) /\ (~At(t, "idle") => Revises(t) /\ Looks(t))
    BY DEF RInv, Follows
<1>2. /\ session \in Graphs \cup {NoGraph} /\ base \in Graphs
      /\ \A tx \in Transactions : head[tx] \in 0..3
      /\ claims \subseteq Transactions
    BY DEF IInv, TypeOK
<1>3. NoThread \notin Threads
    BY DEF NoThread, Threads
<1>4. calls[t].found \in SUBSET (Transactions \X (1..2))
    BY CallFields DEF Calls
<1> QED
    BY <1>1, <1>2, <1>3, <1>4, GraphLength, NoGraphIsNoGraph

\* What a step of one call leaves true of the others.
LEMMA Others ==
    ASSUME IInv, RInv, IInv', NEW t \in Threads, ~At(t, "idle"),
           \A u \in Threads \ {t} : calls'[u] = calls[u],
           UNCHANGED base,
           \A x \in Transactions : head'[x] >= head[x],
           \/ UNCHANGED session
           \/ calls[t].kind = "boot"
           \/ /\ session \in Graphs /\ session' \in Graphs /\ IsPrefix(session, session')
              /\ Len(session') > Len(session)
              /\ sessionLock \in {NoThread, t},
           \/ UNCHANGED claims
           \/ /\ sessionLock = t
              /\ \E tx \in Transactions : claims' = claims \cup {tx} /\ Base(tx) = session,
           \/ UNCHANGED sessionLock
           \/ sessionLock = t /\ sessionLock' = NoThread
           \/ sessionLock = NoThread /\ sessionLock' = t
    PROVE  \A u \in Threads \ {t} : Follows(u)'
<1> SUFFICES ASSUME NEW u \in Threads, u # t
             PROVE  Follows(u)'
    OBVIOUS
<1>1. calls'[u] = calls[u] /\ Follows(u) /\ Follows(t)
    BY FollowFacts
<1>2. /\ session \in Graphs \cup {NoGraph} /\ base \in Graphs
      /\ Len(base) \in Nat
      /\ session \in Graphs => Len(session) \in Nat /\ session # NoGraph
      /\ NoThread \notin Threads
      /\ \A tx \in Transactions : head[tx] \in 0..3
      /\ \A tx \in Transactions : head'[tx] \in 0..3
      /\ claims \subseteq Transactions /\ claims' \subseteq Transactions
    BY FollowFacts DEF IInv, TypeOK
<1>3. Revising(u)' <=> Revising(u)
    BY <1>2 DEF Revising
<1>4. CASE At(u, "idle")
    BY <1>1, <1>3, <1>4 DEF Follows, At
<1>5. CASE ~At(u, "idle")
    <2>1. calls[u].kind # "boot" /\ calls[t].kind # "boot" /\ calls[u].kind # "none"
        BY <1>1, <1>5 DEF Follows
    <2>2. /\ session \in Graphs /\ Len(base) <= Len(session) /\ session' \in Graphs
          /\ Len(session) \in Nat /\ Len(session') \in Nat
          /\ IsPrefix(session, session')
          /\ Len(session) <= Len(session')
          /\ session' # session => Len(session) < Len(session') /\ sessionLock \in {NoThread, t}
        BY <1>1, <1>2, <1>5, <2>1, GraphLength, PrefixOrder DEF Follows
    <2>3. \A x \in Transactions : Complete(x) => Complete(x)'
        BY <1>2 DEF Complete
    <2>4. Finishing(calls[u]) => IsPrefix(calls[u].tx, session')
        BY <1>1, <1>5, <2>2, CallFields, PrefixOrder DEF Follows
    <2>5. calls[u].pc = "reload" => head'[calls[u].tx] >= 2
        <3> SUFFICES ASSUME calls[u].pc = "reload"
                     PROVE  head'[calls[u].tx] >= 2
            OBVIOUS
        <3>1. calls[u].tx \in Transactions
            BY CallFields DEF Working
        <3>2. head[calls[u].tx] >= 2
            BY <1>1, <1>5 DEF Follows
        <3> QED
            BY <1>2, <3>1, <3>2
    <2>6. Revises(u)'
        <3>1. Revises(u)
            BY <1>5, FollowFacts
        <3>2. Revising(u) => session' = session
            BY <1>2, <2>2 DEF Revising
        <3>3. calls[u].pc = "claim" => claims' = claims
            BY <3>1 DEF Revises, Revising
        <3> QED
            BY <1>1, <1>2, <1>3, <2>3, <3>1, <3>2, <3>3 DEF Revises, Finishing
    <2>7. Looks(u)'
        <3>1. Looks(u)
            BY <1>5, FollowFacts
        <3>2. session' = base => session = base
            BY <2>2
        <3>3. session' = base => \A tx \in claims' : tx \in claims \/ Base(tx) = base
            BY <3>2
        <3>4. \A tx : Regards(calls[u], tx) <=> Regards(calls'[u], tx)
            BY <1>1
        <3> QED
            BY <1>1, <1>2, <1>3, <2>1, <2>3, <3>1, <3>2, <3>3, <3>4 DEF Looks, Regards
    <2> QED
        BY <1>1, <1>5, <2>1, <2>2, <2>4, <2>5, <2>6, <2>7 DEF Follows, At, Finishing
<1> QED
    BY <1>4, <1>5

\* A step that sets one call.
LEMMA SetOne ==
    ASSUME IInv, NEW t \in Threads, NEW c, Set(t, c)
    PROVE  calls'[t] = c /\ \A u \in Threads \ {t} : calls'[u] = calls[u]
    BY DEF IInv, TypeOK, Set

\* Claims, heads and the session stay.
LEMMA KeepStep ==
    ASSUME IInv, RInv, IInv', NEW t \in Threads, ~At(t, "idle"), NEW c, Set(t, c),
           UNCHANGED <<claims, head, session, redeclared, base>>,
           \/ UNCHANGED sessionLock
           \/ sessionLock = t /\ sessionLock' = NoThread
           \/ sessionLock = NoThread /\ sessionLock' = t,
           Follows(t)'
    PROVE  RInv'
<1>1. \A u \in Threads \ {t} : calls'[u] = calls[u]
    BY SetOne
<1>2. \A x \in Transactions : head'[x] >= head[x]
    BY FollowFacts
<1>3. \A u \in Threads \ {t} : Follows(u)'
    BY <1>1, <1>2, Others
<1>4. Pending' /\ PendingRecoverable' /\ Completed'
    BY DEF RInv, Pending, PendingRecoverable, Completed, Complete
<1> QED
    BY <1>3, <1>4 DEF RInv

\* A call that ends leaves everything to the others.
LEMMA ReturnStep ==
    ASSUME IInv, RInv, IInv', NEW t \in Threads, ~At(t, "idle"), Return(t),
           UNCHANGED <<claims, head, redeclared, base>>,
           session' = session \/ (calls[t].kind = "boot" /\ session' = NoGraph)
    PROVE  RInv'
<1>1. calls'[t] = Idle /\ \A u \in Threads \ {t} : calls'[u] = calls[u]
    BY IdleCall, SetCall DEF IInv, Return
<1>2. /\ \A x \in Transactions : head'[x] >= head[x]
      /\ NoThread \notin Threads
    BY FollowFacts
<1>3. \/ UNCHANGED sessionLock /\ sessionLock # t
      \/ sessionLock = t /\ sessionLock' = NoThread
    BY DEF Return, Revising
<1>4. \A u \in Threads \ {t} : Follows(u)'
    BY <1>1, <1>2, <1>3, Others
<1>5. Follows(t)'
    BY <1>1, <1>2, <1>3, IdleCall DEF Follows, At, Revising
<1>6. Pending' /\ PendingRecoverable' /\ Completed'
    BY NoGraphIsNoGraph DEF RInv, Pending, PendingRecoverable, Completed, Complete
<1> QED
    BY <1>4, <1>5, <1>6 DEF RInv

\* The session moves on to a transaction based on it, or stays.
LEMMA SwitchSession ==
    ASSUME IInv, RInv, IInv', NEW t \in Threads, ~At(t, "idle"), NEW c, Set(t, c),
           UNCHANGED <<claims, head, redeclared, base, sessionLock>>,
           sessionLock \in {NoThread, t},
           NEW tx \in claims, session' = tx, session \in {tx, Base(tx)},
           Follows(t)'
    PROVE  RInv'
<1>1. \A u \in Threads \ {t} : calls'[u] = calls[u]
    BY SetOne
<1>2. \A x \in Transactions : head'[x] >= head[x]
    BY FollowFacts
<1>3. /\ tx \in Transactions /\ tx \in Graphs /\ Len(tx) \in Nat /\ Len(tx) # 0
      /\ Base(tx) \in Graphs /\ Len(Base(tx)) = Len(tx) - 1 /\ IsPrefix(Base(tx), tx)
      /\ claims \subseteq Transactions
    BY TransactionLength, BaseOfTransaction, FollowFacts
<1>4. \/ UNCHANGED session
      \/ /\ session \in Graphs /\ session' \in Graphs /\ IsPrefix(session, session')
         /\ Len(session') > Len(session)
         /\ sessionLock \in {NoThread, t}
    BY <1>3
<1>5. \A u \in Threads \ {t} : Follows(u)'
    BY <1>1, <1>2, <1>4, Others
<1>6. Pending'
    BY DEF RInv, Pending, Complete
<1>7. PendingRecoverable'
    <2> SUFFICES ASSUME NEW x \in claims, head[x] < 3
                 PROVE  tx \in {NoGraph, Base(x), x}
        BY DEF PendingRecoverable
    <2>1. session \in {NoGraph, Base(x), x} /\ session # NoGraph
        BY <1>3, NoGraphIsNoGraph DEF RInv, PendingRecoverable
    <2>2. CASE session = tx
        BY <2>1, <2>2
    <2>3. CASE session = Base(tx)
        <3>1. session = Base(x) => x = tx
            BY <2>3 DEF IInv, Claimed
        <3>2. ~Complete(x) /\ Len(tx) <= Len(x)
            <4>1. ~Complete(x)
                BY DEF Complete
            <4> QED
                BY <4>1 DEF RInv, Pending
        <3>3. x # Base(tx)
            BY <1>3, <3>2
        <3> QED
            BY <2>1, <2>3, <3>1, <3>3
    <2> QED
        BY <2>2, <2>3
<1>8. Completed'
    <2> SUFFICES ASSUME ~redeclared, NEW x \in claims, Complete(x)
                 PROVE  IsPrefix(x, tx)
        BY DEF Completed, Complete
    <2>1. IsPrefix(x, session)
        BY <1>3 DEF RInv, Completed
    <2>2. x \in Graphs /\ session \in Graphs /\ IsPrefix(session, tx)
        BY <1>3, PrefixOrder DEF Transactions
    <2> QED
        BY <1>3, <2>1, <2>2, PrefixOrder
<1> QED
    BY <1>5, <1>6, <1>7, <1>8 DEF RInv

-------------------------------------------------------------------------------
(* The actions *)

LEMMA RaisingRecovery ==
    ASSUME IInv, RInv, IInv', NEW t \in Threads,
           \/ EnsureRaises(t) \/ InstallRaises(t) \/ ProposeRefused(t) \/ ClaimRefused(t)
           \/ PopulationStale(t) \/ AdvanceRaises(t) \/ Fault(t)
    PROVE  RInv'
<1>1. /\ Return(t)
      /\ UNCHANGED <<journal, gate, redeclared, base>>
      /\ session' = session \/ (calls[t].kind = "boot" /\ session' = NoGraph)
      /\ ~At(t, "idle")
    BY DEF EnsureRaises, InstallRaises, ProposeRefused, ClaimRefused,
       PopulationStale, AdvanceRaises, Fault, Break, Discovered, At
<1>2. UNCHANGED <<claims, head, redeclared, base>>
    BY <1>1 DEF journal
<1> QED
    BY <1>1, <1>2, ReturnStep

\* A turn: every call has all claims to look at.
LEMMA TurnRecovery ==
    ASSUME IInv, RInv, IInv', Turn
    PROVE  RInv'
<1>1. PICK r \in 0..MaxCalls, m \in 0..MaxCalls :
         calls' = [t \in Threads |->
           IF t <= r + m
           THEN [Idle EXCEPT !.pc = "discover", !.todo = claims,
                             !.kind = IF t <= r THEN "revise" ELSE "mutate"]
           ELSE Idle]
    BY DEF Turn
<1>2. /\ \A t \in Threads : At(t, "idle")
      /\ session # NoGraph /\ base' = session
      /\ UNCHANGED <<journal, gate, session, redeclared, sessionLock, faults>>
    BY DEF Turn
<1>3. UNCHANGED <<claims, records, head>>
    BY <1>2 DEF journal
<1>4. session \in Graphs /\ Len(session) \in Nat
    BY <1>2, GraphLength DEF IInv, TypeOK
<1>5. ASSUME NEW t \in Threads
      PROVE  Follows(t)'
    <2>1. ~Revising(t) /\ ~Revising(t)'
        BY <1>2, FollowFacts DEF Follows, Revising
    <2>2. \/ calls'[t] = Idle
          \/ \E k \in {"revise", "mutate"} :
                calls'[t] = [Idle EXCEPT !.pc = "discover", !.todo = claims, !.kind = k]
        BY <1>1
    <2>3. CASE calls'[t] = Idle
        BY <2>1, <2>3, IdleCall DEF Follows, At
    <2>4. ASSUME NEW k \in {"revise", "mutate"},
                 calls'[t] = [Idle EXCEPT !.pc = "discover", !.todo = claims, !.kind = k]
          PROVE  Follows(t)'
        <3>1. calls'[t].pc = "discover" /\ calls'[t].todo = claims /\ calls'[t].kind = k
            BY <2>4, IdleCall DEF Calls
        <3>2. Revises(t)'
            BY <2>1, <3>1 DEF Revises
        <3>3. Looks(t)'
            BY <1>3, <2>1, <3>1 DEF Looks, Regards
        <3> QED
            BY <1>2, <1>4, <3>1, <3>2, <3>3 DEF Follows, At, Finishing
    <2> QED
        BY <2>2, <2>3, <2>4
<1>6. Pending' /\ PendingRecoverable' /\ Completed'
    BY <1>2, <1>3 DEF RInv, Pending, PendingRecoverable, Completed, Complete
<1> QED
    BY <1>5, <1>6 DEF RInv

\* A new process: it has all claims to look at, and it is alone.
LEMMA BootRecovery ==
    ASSUME IInv, RInv, IInv', Boot
    PROVE  RInv'
<1> DEFINE c == [Idle EXCEPT !.pc = "discover", !.kind = "boot", !.todo = claims]
<1>1. /\ session = NoGraph
      /\ \A t \in Threads : At(t, "idle")
      /\ UNCHANGED <<journal, gate, session, redeclared, sessionLock, base, faults>>
      /\ Set(1, c)
    BY DEF Boot
<1>2. UNCHANGED <<claims, records, head>>
    BY <1>1 DEF journal
<1>3. 1 \in Threads
    BY GraphRevisionConstants DEF Threads
<1>4. /\ c \in Calls /\ c.pc = "discover" /\ c.kind = "boot" /\ c.todo = claims /\ c.found = {}
    <2>1. claims \in SUBSET Transactions
        BY DEF IInv, TypeOK
    <2> QED
        BY <2>1, IdleCall DEF Calls
<1> HIDE DEF c
<1>5. calls'[1] = c /\ \A u \in Threads \ {1} : calls'[u] = calls[u]
    BY <1>1, <1>3, <1>4, SetCall DEF IInv
<1>6. \A t \in Threads : ~Revising(t) /\ ~Revising(t)'
    BY <1>1, FollowFacts DEF Follows, Revising
<1>7. \A u \in Threads \ {1} : Follows(u)'
    BY <1>1, <1>5, <1>6 DEF Follows, At
<1>8. Follows(1)'
    <2>1. Revises(1)'
        BY <1>3, <1>4, <1>5, <1>6 DEF Revises
    <2>2. Looks(1)'
        BY <1>2, <1>4, <1>5 DEF Looks, Regards
    <2> QED
        BY <1>1, <1>4, <1>5, <2>1, <2>2 DEF Follows, At, Finishing
<1>9. Pending' /\ PendingRecoverable' /\ Completed'
    BY <1>1, <1>2 DEF RInv, Pending, PendingRecoverable, Completed, Complete
<1> QED
    BY <1>3, <1>7, <1>8, <1>9 DEF RInv

LEMMA CrashRecovery ==
    ASSUME IInv, RInv, IInv', Crash
    PROVE  RInv'
<1>1. /\ UNCHANGED <<journal, gate, base>>
      /\ session' = NoGraph /\ sessionLock' = NoThread
      /\ calls' = [t \in Threads |-> Idle]
    BY DEF Crash
<1>2. UNCHANGED <<claims, records, head>>
    BY <1>1 DEF journal
<1>3. \A t \in Threads : Follows(t)'
    BY <1>1, IdleCall DEF Follows, At, Revising, NoThread, Threads
<1>4. Pending' /\ PendingRecoverable' /\ Completed'
    BY <1>1, <1>2, NoGraphIsNoGraph DEF RInv, Pending, PendingRecoverable, Completed, Complete
<1> QED
    BY <1>3, <1>4 DEF RInv

\* discover_pending turns a claim into a record, a finding or nothing to do.
LEMMA MaterializeRecovery ==
    ASSUME IInv, RInv, IInv', NEW t \in Threads, Materialize(t)
    PROVE  RInv'
<1>1. PICK tx \in calls[t].todo :
          \/ /\ head[tx] = 0
             /\ Set(t, [calls[t] EXCEPT !.todo = @ \ {tx}, !.pc = "publish", !.tx = tx,
                                        !.next = 1, !.after = "discover"])
          \/ /\ head[tx] # 0
             /\ Set(t, [calls[t] EXCEPT !.todo = @ \ {tx},
                        !.found = IF head[tx] < 3 THEN @ \cup {<<tx, head[tx]>>} ELSE @])
    BY DEF Materialize
<1>2. /\ calls[t].pc = "discover"
      /\ UNCHANGED <<claims, head, gate, session, redeclared, sessionLock, base, faults>>
    BY DEF Materialize, At
<1>3. /\ calls[t] \in Calls /\ Holds(calls[t]) /\ tx \in Transactions /\ head[tx] \in 0..3
      /\ Follows(t) /\ Revises(t) /\ Looks(t) /\ ~At(t, "idle")
    <2>1. ~At(t, "idle")
        BY <1>2 DEF At
    <2> QED
        BY <1>1, <2>1, CallFields, FollowFacts DEF Holds
<1>4. ~Revising(t) /\ ~Revising(t)'
    BY <1>2, <1>3 DEF Revises, Revising
<1>5. CASE head[tx] = 0
    <2> DEFINE c == [calls[t] EXCEPT !.todo = @ \ {tx}, !.pc = "publish", !.tx = tx,
                                     !.next = 1, !.after = "discover"]
    <2>1. /\ c.pc = "publish" /\ c.tx = tx /\ c.next = 1 /\ c.after = "discover"
          /\ c.todo = calls[t].todo \ {tx} /\ c.found = calls[t].found
          /\ c.kind = calls[t].kind /\ c.rolled = calls[t].rolled
        BY <1>3 DEF Calls
    <2>2. Set(t, c)
        BY <1>1, <1>5
    <2> HIDE DEF c
    <2>3. calls'[t] = c
        BY <2>2, SetOne
    <2>4. \A x : Regards(calls[t], x) => Regards(c, x)
        BY <1>2, <2>1 DEF Regards, Working
    <2>5. Looks(t)'
        BY <1>2, <1>3, <1>4, <2>1, <2>3, <2>4 DEF Looks, Complete
    <2>6. Revises(t)'
        BY <1>4, <2>1, <2>3 DEF Revises
    <2>7. Follows(t)'
        BY <1>2, <1>3, <2>1, <2>2, <2>3, <2>5, <2>6, SetOne DEF Follows, At, Finishing
    <2> QED
        BY <1>2, <1>3, <2>2, <2>7, KeepStep
<1>6. CASE head[tx] # 0
    <2> DEFINE c == [calls[t] EXCEPT !.todo = @ \ {tx},
                        !.found = IF head[tx] < 3 THEN @ \cup {<<tx, head[tx]>>} ELSE @]
    <2>1. /\ c.pc = "discover" /\ c.todo = calls[t].todo \ {tx}
          /\ c.found = IF head[tx] < 3 THEN calls[t].found \cup {<<tx, head[tx]>>}
                       ELSE calls[t].found
          /\ c.kind = calls[t].kind /\ c.rolled = calls[t].rolled
        BY <1>2, <1>3 DEF Calls
    <2>2. Set(t, c)
        BY <1>1, <1>6
    <2> HIDE DEF c
    <2>3. calls'[t] = c
        BY <2>2, SetOne
    <2>4. \A x : Regards(calls[t], x) => Regards(c, x) \/ (x = tx /\ Complete(x))
        <3>1. head[tx] < 3 => \E f \in c.found : f[1] = tx
            <4>1. <<tx, head[tx]>>[1] = tx
                OBVIOUS
            <4>2. head[tx] < 3 => <<tx, head[tx]>> \in c.found
                BY <2>1
            <4> QED
                BY <4>1, <4>2
        <3>2. head[tx] < 3 \/ Complete(tx)
            BY <1>3 DEF Complete
        <3>3. calls[t].found \subseteq c.found
            BY <2>1
        <3> QED
            BY <1>2, <2>1, <3>1, <3>2, <3>3 DEF Regards, Working
    <2>5. (\A f \in calls[t].found : ~Complete(f[1])) => \A f \in c.found : ~Complete(f[1])
        BY <2>1 DEF Complete
    <2>6. Looks(t)'
        BY <1>2, <1>3, <1>4, <2>1, <2>3, <2>4, <2>5 DEF Looks, Complete
    <2>7. Revises(t)'
        BY <1>4, <2>1, <2>3 DEF Revises
    <2>8. Follows(t)'
        BY <1>2, <1>3, <2>1, <2>2, <2>3, <2>6, <2>7, SetOne DEF Follows, At, Finishing
    <2> QED
        BY <1>2, <1>3, <2>2, <2>8, KeepStep
<1> QED
    BY <1>1, <1>5, <1>6

\* A session is made from the base of the revision, if there is none.
LEMMA EnsureRecovery ==
    ASSUME IInv, RInv, IInv', NEW t \in Threads, Ensure(t)
    PROVE  RInv'
<1>1. PICK f \in calls[t].found :
          /\ session \in {NoGraph, Base(f[1]), f[1]}
          /\ session' = IF session = NoGraph THEN Base(f[1]) ELSE session
          /\ Set(t, [calls[t] EXCEPT !.found = @ \ {f}, !.tx = f[1], !.seen = f[2],
                                     !.pc = IF f[2] = 1 THEN "population" ELSE "install"])
    BY DEF Ensure
<1>2. /\ UNCHANGED <<journal, gate, redeclared, sessionLock, base, faults>>
      /\ calls[t].pc = "discover" /\ calls[t].todo = {} /\ sessionLock = NoThread
    BY DEF Ensure, Discovered, At
<1>3. UNCHANGED <<claims, records, head>>
    BY <1>2 DEF journal
<1>4. /\ calls[t] \in Calls /\ Holds(calls[t]) /\ f[1] \in claims /\ f[1] \in Transactions
      /\ Follows(t) /\ Revises(t) /\ Looks(t) /\ ~At(t, "idle")
      /\ ~Revising(t) /\ ~Revising(t)'
    <2>1. ~At(t, "idle")
        BY <1>2 DEF At
    <2>2. ~Revising(t) /\ ~Revising(t)'
        BY <1>2, FollowFacts DEF Revising
    <2> QED
        BY <1>1, <2>1, <2>2, CallFields, FollowFacts DEF Holds
<1> DEFINE c == [calls[t] EXCEPT !.found = @ \ {f}, !.tx = f[1], !.seen = f[2],
                                 !.pc = IF f[2] = 1 THEN "population" ELSE "install"]
<1>5. /\ c.pc = (IF f[2] = 1 THEN "population" ELSE "install") /\ c.tx = f[1]
      /\ c.todo = {} /\ c.found = calls[t].found \ {f}
      /\ c.kind = calls[t].kind /\ c.rolled = calls[t].rolled
    BY <1>2, <1>4 DEF Calls
<1>6. Set(t, c)
    BY <1>1
<1> HIDE DEF c
<1>7. calls'[t] = c /\ \A u \in Threads \ {t} : calls'[u] = calls[u]
    BY <1>6, SetOne
<1>8. \A x : Regards(calls[t], x) => Regards(c, x)
    BY <1>2, <1>5 DEF Regards, Working
<1>9. Revises(t)'
    BY <1>4, <1>5, <1>7 DEF Revises
<1>10. CASE session # NoGraph
    <2>1. session' = session
        BY <1>1, <1>10
    <2>2. Looks(t)'
        BY <1>2, <1>3, <1>4, <1>5, <1>7, <1>8, <2>1 DEF Looks, Complete
    <2>3. Follows(t)'
        BY <1>2, <1>4, <1>5, <1>7, <1>9, <2>1, <2>2 DEF Follows, At, Finishing
    <2> QED
        BY <1>2, <1>3, <1>4, <1>6, <2>1, <2>3, KeepStep
<1>11. CASE session = NoGraph
    <2>1. calls[t].kind = "boot" /\ session' = Base(f[1]) /\ ~Complete(f[1])
        <3>1. calls[t].kind = "boot"
            BY <1>4, <1>11, NoGraphIsNoGraph DEF Follows
        <3> QED
            BY <1>1, <1>4, <1>11, <3>1 DEF Looks
    <2>2. /\ f[1] \in Graphs /\ Len(f[1]) \in Nat /\ Base(f[1]) \in Graphs
          /\ Len(Base(f[1])) = Len(f[1]) - 1
        BY <1>4, BaseOfTransaction, TransactionLength
    <2>3. session' \in Graphs /\ session' # NoGraph
        BY <2>1, <2>2, NoGraphIsNoGraph
    <2>4. \A u \in Threads \ {t} : Follows(u)'
        <3>1. \A x \in Transactions : head'[x] >= head[x]
            BY <1>3, FollowFacts
        <3> QED
            BY <1>2, <1>3, <1>4, <1>7, <2>1, <3>1, Others
    <2>5. Looks(t)'
        BY <1>5, <1>7, <2>1, <2>3 DEF Looks
    <2>6. Follows(t)'
        BY <1>4, <1>5, <1>7, <1>9, <2>1, <2>5 DEF Follows, At, Finishing
    <2>7. Pending'
        BY <1>3 DEF RInv, Pending, Complete
    <2>8. PendingRecoverable'
        <3> SUFFICES ASSUME NEW x \in claims, head[x] < 3
                     PROVE  session' \in {NoGraph, Base(x), x}
            BY <1>3 DEF PendingRecoverable
        <3>1. ~Complete(x)
            BY DEF Complete
        <3>2. x = f[1]
            BY <1>4, <2>1, <3>1 DEF RInv, Pending
        <3> QED
            BY <2>1, <3>2
    <2>9. Completed'
        <3> SUFFICES ASSUME NEW x \in claims, Complete(x)
                     PROVE  IsPrefix(x, Base(f[1]))
            BY <1>3, <2>1 DEF Completed, Complete
        <3>1. /\ x \in Transactions /\ x \in Graphs /\ Len(x) \in Nat /\ Len(x) # 0
              /\ Base(x) \in Graphs /\ Len(Base(x)) = Len(x) - 1 /\ gate \in Graphs
            BY TransactionLength, BaseOfTransaction, FollowFacts DEF IInv, TypeOK
        <3>2. Len(x) <= Len(f[1]) /\ x # f[1]
            BY <1>4, <2>1 DEF RInv, Pending
        <3>3. /\ IsPrefix(x, gate) /\ IsPrefix(Base(x), gate) /\ IsPrefix(Base(f[1]), gate)
            <4>1. head[x] >= 2
                BY DEF Complete
            <4> QED
                BY <1>4, <3>1, <4>1 DEF IInv, Heads, Claimed
        <3>4. /\ Len(x) <= Len(gate) /\ \A i \in 1..Len(x) : x[i] = gate[i]
            BY <3>1, <3>3, PrefixPointwise
        <3>5. /\ Len(Base(x)) <= Len(gate)
              /\ \A i \in 1..Len(Base(x)) : Base(x)[i] = gate[i]
            BY <3>1, <3>3, PrefixPointwise
        <3>6. /\ Len(Base(f[1])) <= Len(gate)
              /\ \A i \in 1..Len(Base(f[1])) : Base(f[1])[i] = gate[i]
            BY <2>2, <3>1, <3>3, PrefixPointwise
        <3>7. Len(x) # Len(f[1])
            <4> SUFFICES ASSUME Len(x) = Len(f[1])
                         PROVE  FALSE
                OBVIOUS
            <4>1. Base(x) = Base(f[1])
                BY <2>2, <3>1, <3>5, <3>6, SameRevisions
            <4> QED
                BY <1>4, <3>2, <4>1 DEF IInv, Claimed
        <3>8. Len(x) <= Len(Base(f[1]))
            BY <2>2, <3>1, <3>2, <3>7
        <3>9. \A i \in 1..Len(x) : i \in 1..Len(Base(f[1]))
            BY <2>2, <3>1, <3>8
        <3> QED
            BY <2>2, <3>1, <3>4, <3>6, <3>8, <3>9, PrefixPointwise
    <2> QED
        BY <2>4, <2>6, <2>7, <2>8, <2>9 DEF RInv
<1> QED
    BY <1>10, <1>11

\* Nothing is pending any more.
LEMMA RecoveredRecovery ==
    ASSUME IInv, RInv, IInv', NEW t \in Threads, Recovered(t)
    PROVE  RInv'
<1>1. /\ UNCHANGED <<journal, gate, sessionLock, base, faults>>
      /\ calls[t].pc = "discover" /\ calls[t].todo = {} /\ calls[t].found = {}
    BY DEF Recovered, Discovered, At
<1>2. UNCHANGED <<claims, records, head>>
    BY <1>1 DEF journal
<1>3. /\ calls[t] \in Calls /\ Follows(t) /\ Revises(t) /\ Looks(t) /\ ~At(t, "idle")
      /\ ~Revising(t) /\ ~Revising(t)'
    <2>1. ~At(t, "idle")
        BY <1>1 DEF At
    <2>2. Revises(t)
        BY <2>1, FollowFacts
    <2>3. ~Revising(t) /\ ~Revising(t)'
        BY <1>1, <2>2 DEF Revises, Revising
    <2> QED
        BY <2>1, <2>3, CallFields, FollowFacts
<1>4. PICK c : Set(t, c) /\ c = IF calls[t].kind = "revise" /\ ~calls[t].rolled
                                THEN [calls[t] EXCEPT !.pc = "propose"] ELSE Idle
    BY DEF Recovered, Goto
<1>5. calls'[t] = c /\ \A u \in Threads \ {t} : calls'[u] = calls[u]
    BY <1>4, SetOne
<1>6. CASE session # NoGraph
    <2>1. UNCHANGED <<session, redeclared>>
        BY <1>6 DEF Recovered
    <2>2. CASE calls[t].kind = "revise" /\ ~calls[t].rolled
        <3>1. /\ c.pc = "propose" /\ c.todo = {} /\ c.found = {}
              /\ c.kind = "revise" /\ ~c.rolled
            BY <1>1, <1>3, <1>4, <2>2 DEF Calls
        <3>2. \A x : Regards(calls[t], x) => Regards(c, x)
            BY <1>1, <3>1 DEF Regards, Working
        <3>3. Looks(t)'
            BY <1>1, <1>2, <1>3, <1>5, <2>1, <2>2, <3>1, <3>2 DEF Looks, Complete
        <3>4. Revises(t)'
            BY <1>3, <1>5, <3>1 DEF Revises
        <3>5. Follows(t)'
            BY <1>1, <1>3, <1>5, <2>1, <2>2, <3>1, <3>3, <3>4 DEF Follows, At, Finishing
        <3> QED
            BY <1>1, <1>2, <1>3, <1>4, <2>1, <3>5, KeepStep
    <2>3. CASE ~(calls[t].kind = "revise" /\ ~calls[t].rolled)
        <3>1. Follows(t)'
            BY <1>3, <1>4, <1>5, <2>3, IdleCall DEF Follows, At
        <3> QED
            BY <1>1, <1>2, <1>3, <1>4, <2>1, <3>1, KeepStep
    <2> QED
        BY <2>2, <2>3
<1>7. CASE session = NoGraph
    <2>1. calls[t].kind = "boot"
        BY <1>3, <1>7, NoGraphIsNoGraph DEF Follows
    <2>2. redeclared' = TRUE /\ c = Idle
        BY <1>4, <1>7, <2>1, Zenon DEF Recovered
    <2>3. \A x \in claims : Complete(x)
        BY <1>1, <1>3, <1>7, <2>1 DEF Looks, Regards, Working
    <2>4. \A x \in Transactions : head'[x] >= head[x]
        BY <1>2, FollowFacts
    <2>5. \A u \in Threads \ {t} : Follows(u)'
        BY <1>1, <1>2, <1>3, <1>5, <2>1, <2>4, Others
    <2>6. Follows(t)'
        BY <1>3, <1>5, <2>2, IdleCall DEF Follows, At
    <2>7. Pending' /\ Completed'
        BY <1>2, <2>2 DEF RInv, Pending, Complete, Completed
    <2>8. PendingRecoverable'
        BY <1>2, <2>3 DEF PendingRecoverable, Complete
    <2> QED
        BY <2>5, <2>6, <2>7, <2>8 DEF RInv
<1> QED
    BY <1>6, <1>7

\* load_recovery: what is not POPULATION_COMMITTED any more is complete.
LEMMA ReloadRecovery ==
    ASSUME IInv, RInv, IInv', NEW t \in Threads, Reload(t)
    PROVE  RInv'
<1> DEFINE c == [calls[t] EXCEPT !.seen = head[calls[t].tx],
                                 !.pc = IF head[calls[t].tx] = 2 THEN "install" ELSE "discover"]
           tx == calls[t].tx
<1>1. /\ UNCHANGED <<journal, gate, session, redeclared, sessionLock, base, faults>>
      /\ calls[t].pc = "reload"
      /\ Set(t, c)
    BY DEF Reload, At
<1>2. UNCHANGED <<claims, records, head>>
    BY <1>1 DEF journal
<1>3. /\ calls[t] \in Calls /\ Follows(t) /\ Revises(t) /\ Looks(t) /\ ~At(t, "idle")
      /\ tx \in Transactions /\ head[tx] \in 0..3
    <2>1. ~At(t, "idle")
        BY <1>1 DEF At
    <2> QED
        BY <1>1, <2>1, CallFields, FollowFacts DEF Working
<1>4. ~Revising(t) /\ ~Revising(t)'
    BY <1>1, <1>3 DEF Revises, Revising
<1>5. /\ c.pc = (IF head[tx] = 2 THEN "install" ELSE "discover") /\ c.tx = tx
      /\ c.todo = calls[t].todo /\ c.found = calls[t].found
      /\ c.kind = calls[t].kind /\ c.rolled = calls[t].rolled
    BY <1>3 DEF Calls
<1> HIDE DEF c
<1>6. calls'[t] = c
    BY <1>1, SetOne
<1>7. head[tx] = 2 \/ Complete(tx)
    BY <1>1, <1>3 DEF Follows, Complete
<1>8. \A x : Regards(calls[t], x) => Regards(c, x) \/ (x = tx /\ Complete(x))
    BY <1>1, <1>5, <1>7 DEF Regards, Working
<1>9. Looks(t)'
    BY <1>1, <1>2, <1>3, <1>4, <1>5, <1>6, <1>8 DEF Looks, Complete
<1>10. Revises(t)'
    BY <1>4, <1>5, <1>6 DEF Revises
<1>11. Follows(t)'
    BY <1>1, <1>2, <1>3, <1>5, <1>6, <1>9, <1>10, SetOne DEF Follows, At, Finishing
<1> QED
    BY <1>1, <1>2, <1>3, <1>11, KeepStep

\* The session takes the transaction, under its lock.
LEMMA InstallRecovery ==
    ASSUME IInv, RInv, IInv', NEW t \in Threads, Install(t) \/ Switch(t)
    PROVE  RInv'
<1> DEFINE c == [calls[t] EXCEPT !.pc = "finish"]
           tx == calls[t].tx
<1>1. /\ UNCHANGED <<journal, gate, redeclared, sessionLock, base, faults>>
      /\ calls[t].pc = "install"
      /\ session' = tx
      /\ Set(t, c)
    BY DEF Install, Switch, At, Goto
<1>2. UNCHANGED <<claims, records, head>>
    BY <1>1 DEF journal
<1>3. /\ calls[t] \in Calls /\ Follows(t) /\ Revises(t) /\ Looks(t) /\ ~At(t, "idle")
      /\ tx \in claims /\ tx \in Transactions /\ tx \in Graphs
    <2>1. ~At(t, "idle")
        BY <1>1 DEF At
    <2> QED
        BY <1>1, <2>1, CallFields, FollowFacts DEF Holds, Working
<1>4. sessionLock \in {NoThread, t} /\ session \in {tx, Base(tx)}
    <2>1. CASE Revising(t)
        BY <1>1, <1>3, <2>1 DEF Revises, Revising, Finishing
    <2>2. CASE ~Revising(t)
        BY <1>1, <2>2 DEF Install, Installable, Switch
    <2> QED
        BY <2>1, <2>2
<1>5. /\ c.pc = "finish" /\ c.tx = tx
      /\ c.todo = calls[t].todo /\ c.found = calls[t].found
      /\ c.kind = calls[t].kind /\ c.rolled = calls[t].rolled
    BY <1>3 DEF Calls
<1> HIDE DEF c
<1>6. calls'[t] = c
    BY <1>1, SetOne
<1>7. \A x : Regards(calls[t], x) => Regards(c, x)
    BY <1>1, <1>5 DEF Regards, Working
<1>8. /\ Len(tx) \in Nat /\ Base(tx) \in Graphs /\ Len(Base(tx)) = Len(tx) - 1
      /\ IsPrefix(tx, tx) /\ tx # NoGraph
    BY <1>3, TransactionLength, BaseOfTransaction, PrefixOrder, NoGraphIsNoGraph
<1>9. session \in Graphs /\ Len(base) \in Nat
    BY <1>3, <1>4, <1>8, FollowFacts
<1>10. calls[t].kind # "boot" =>
           Len(base) <= Len(session') /\ (session' = base => session = base)
    BY <1>1, <1>3, <1>4, <1>8, <1>9 DEF Follows
<1>11. Looks(t)'
    BY <1>1, <1>2, <1>3, <1>5, <1>6, <1>7, <1>8, <1>10 DEF Looks, Complete, Revising
<1>12. Revises(t)'
    BY <1>1, <1>2, <1>3, <1>5, <1>6 DEF Revises, Revising, Finishing
<1>13. Follows(t)'
    BY <1>1, <1>2, <1>3, <1>5, <1>6, <1>8, <1>10, <1>11, <1>12, SetOne DEF Follows, At, Finishing
<1> QED
    BY <1>1, <1>2, <1>3, <1>4, <1>13, SwitchSession

\* A proposal: what is pending has the same base.
LEMMA ProposeRecovery ==
    ASSUME IInv, RInv, IInv', NEW t \in Threads, Propose(t)
    PROVE  RInv'
<1>1. PICK p \in Proposals :
          /\ Fresh(p)
          /\ sessionLock' = t
          /\ Set(t, [calls[t] EXCEPT !.pc = "claim", !.tx = Append(session, p), !.seen = 0])
    BY DEF Propose
<1>2. /\ UNCHANGED <<journal, gate, session, redeclared, base, faults>>
      /\ session = base /\ Len(session) < MaxRevisions
      /\ calls[t].pc = "propose" /\ sessionLock = NoThread
    BY DEF Propose, At
<1>3. UNCHANGED <<claims, records, head>>
    BY <1>2 DEF journal
<1>4. /\ calls[t] \in Calls /\ Follows(t) /\ Revises(t) /\ Looks(t) /\ ~At(t, "idle")
      /\ ~Revising(t) /\ Revising(t)' /\ session \in Graphs
    <2>1. ~At(t, "idle")
        BY <1>2 DEF At
    <2>2. ~Revising(t) /\ Revising(t)'
        BY <1>1, <1>2, FollowFacts DEF Revising
    <2> QED
        BY <1>2, <2>1, <2>2, CallFields, FollowFacts
<1>5. Base(Append(session, p)) = session
    BY <1>1, <1>2, <1>4, Extension DEF Fresh
<1> DEFINE c == [calls[t] EXCEPT !.pc = "claim", !.tx = Append(session, p), !.seen = 0]
<1>6. /\ c.pc = "claim" /\ c.tx = Append(session, p)
      /\ c.todo = calls[t].todo /\ c.found = calls[t].found /\ c.kind = calls[t].kind
    BY <1>4 DEF Calls
<1>7. Set(t, c)
    BY <1>1
<1> HIDE DEF c
<1>8. calls'[t] = c
    BY <1>7, SetOne
<1>9. /\ calls[t].kind = "revise" /\ ~calls[t].rolled
      /\ calls[t].todo = {} /\ calls[t].found = {}
    BY <1>2, <1>4 DEF Follows
<1>10. \A x \in claims : Complete(x) \/ Base(x) = session
    BY <1>2, <1>4, <1>9 DEF Looks, Regards, Working
<1>11. Revises(t)'
    BY <1>2, <1>3, <1>4, <1>5, <1>6, <1>8, <1>9, <1>10 DEF Revises, Complete
<1>12. Looks(t)'
    BY <1>4, <1>6, <1>8, <1>9 DEF Looks
<1>13. Follows(t)'
    BY <1>2, <1>3, <1>4, <1>6, <1>8, <1>9, <1>11, <1>12 DEF Follows, At, Finishing
<1> QED
    BY <1>1, <1>2, <1>3, <1>4, <1>7, <1>13, KeepStep

\* A claim makes the one pending revision, or finds that it is there.
LEMMA ClaimRecovery ==
    ASSUME IInv, RInv, IInv', NEW t \in Threads, Claim(t)
    PROVE  RInv'
<1> DEFINE tx == calls[t].tx
           c == [calls[t] EXCEPT !.pc = "prepare"]
<1>1. /\ UNCHANGED <<records, head, gate, session, redeclared, sessionLock, base, faults>>
      /\ calls[t].pc = "claim"
      /\ Claimable(tx)
      /\ claims' = claims \cup {tx}
      /\ Set(t, c)
    BY DEF Claim, At, Goto
<1>2. /\ calls[t] \in Calls /\ Follows(t) /\ Revises(t) /\ Looks(t) /\ ~At(t, "idle")
      /\ tx \in Transactions /\ IsPrefix(Base(tx), gate)
    <2>1. ~At(t, "idle")
        BY <1>1 DEF At
    <2> QED
        BY <1>1, <2>1, CallFields, FollowFacts DEF Holds
<1>3. Revising(t) /\ Revising(t)' /\ sessionLock = t
    BY <1>1, <1>2 DEF Revises, Revising
<1>4. /\ session = Base(tx) /\ calls[t].kind = "revise"
      /\ \A x \in claims : Complete(x) \/ Base(x) = Base(tx)
    BY <1>1, <1>2, <1>3 DEF Revises, Finishing
<1>5. c.pc = "prepare" /\ c.tx = tx /\ c.kind = calls[t].kind
    BY <1>2 DEF Calls
<1> HIDE DEF c
<1>6. calls'[t] = c /\ \A u \in Threads \ {t} : calls'[u] = calls[u]
    BY <1>1, SetOne
<1>7. \A x \in claims : ~Complete(x) => x = tx
    BY <1>1, <1>4 DEF Claimable
<1>8. \A u \in Threads \ {t} : Follows(u)'
    <2>1. \A x \in Transactions : head'[x] >= head[x]
        BY <1>1, FollowFacts
    <2> QED
        BY <1>1, <1>2, <1>3, <1>4, <1>6, <2>1, Others
<1>9. Follows(t)'
    <2>1. Revises(t)'
        BY <1>1, <1>3, <1>4, <1>5, <1>6 DEF Revises, Finishing
    <2>2. Looks(t)'
        BY <1>3, <1>4, <1>5, <1>6 DEF Looks
    <2> QED
        BY <1>1, <1>2, <1>4, <1>5, <1>6, <2>1, <2>2 DEF Follows, At, Finishing
<1>10. Pending'
    <2>1. CASE tx \in claims
        BY <1>1, <2>1 DEF RInv, Pending, Complete
    <2>2. CASE tx \notin claims
        <3>1. \A x \in claims : Complete(x)
            BY <1>7, <2>2
        <3>2. \A b \in claims : Len(b) <= Len(tx)
            <4> SUFFICES ASSUME NEW b \in claims
                         PROVE  Len(b) <= Len(tx)
                OBVIOUS
            <4>1. /\ b \in Transactions /\ Len(b) \in Nat /\ gate \in Graphs
                  /\ Base(b) \in Graphs /\ Len(Base(b)) = Len(b) - 1
                  /\ IsPrefix(Base(b), gate)
                  /\ tx \in Graphs /\ Len(tx) \in Nat /\ Len(tx) # 0 /\ Len(gate) \in Nat
                  /\ Base(tx) \in Graphs /\ Len(Base(tx)) = Len(tx) - 1
                BY <1>2, TransactionLength, BaseOfTransaction, FollowFacts, GraphLength
                DEF IInv, TypeOK, Claimed
            <4>2. Len(Base(b)) <= Len(gate)
                BY <4>1, PrefixPointwise
            <4>3. ~(Len(tx) <= Len(gate))
                <5> SUFFICES ASSUME Len(tx) <= Len(gate)
                             PROVE  FALSE
                    OBVIOUS
                <5>1. Len(tx) \in 1..Len(gate)
                    BY <4>1
                <5>2. /\ SubSeq(gate, 1, Len(tx)) \in claims
                      /\ Base(SubSeq(gate, 1, Len(tx))) = SubSeq(gate, 1, Len(tx) - 1)
                    BY <4>1, <5>1, RevisionChain DEF IInv, Claimed
                <5>3. Base(tx) = SubSeq(gate, 1, Len(tx) - 1)
                    <6>1. Len(tx) - 1 \in 0..Len(gate)
                        BY <4>1, <5>1
                    <6>2. /\ SubSeq(gate, 1, Len(tx) - 1) \in Graphs
                          /\ Len(SubSeq(gate, 1, Len(tx) - 1)) = Len(tx) - 1
                          /\ \A i \in 1..(Len(tx) - 1) :
                                SubSeq(gate, 1, Len(tx) - 1)[i] = gate[i]
                        BY <4>1, <6>1, FirstRevisions
                    <6>3. \A i \in 1..(Len(tx) - 1) : Base(tx)[i] = gate[i]
                        BY <1>2, <4>1, PrefixPointwise
                    <6> QED
                        BY <4>1, <6>2, <6>3, SameRevisions
                <5> QED
                    BY <1>1, <2>2, <5>2, <5>3 DEF Claimable
            <4> QED
                BY <4>1, <4>2, <4>3
        <3>3. Len(tx) <= Len(tx)
            BY <1>2, TransactionLength
        <3> QED
            BY <1>1, <3>1, <3>2, <3>3 DEF RInv, Pending, Complete
    <2> QED
        BY <2>1, <2>2
<1>11. PendingRecoverable'
    BY <1>1, <1>4 DEF RInv, PendingRecoverable
<1>12. Completed'
    <2>1. tx \in claims \/ head[tx] = 0
        BY <1>2 DEF RInv, Pending
    <2> QED
        BY <1>1, <2>1 DEF RInv, Completed, Complete
<1> QED
    BY <1>8, <1>9, <1>10, <1>11, <1>12 DEF RInv

\* prepare, by the revising call.
LEMMA PrepareRecovery ==
    ASSUME IInv, RInv, IInv', NEW t \in Threads, Prepare(t)
    PROVE  RInv'
<1> DEFINE tx == calls[t].tx
<1>1. /\ UNCHANGED <<claims, head, gate, session, redeclared, sessionLock, base, faults>>
      /\ calls[t].pc = "prepare"
    BY DEF Prepare, At
<1>2. /\ calls[t] \in Calls /\ Follows(t) /\ Revises(t) /\ ~At(t, "idle")
    <2>1. ~At(t, "idle")
        BY <1>1 DEF At
    <2> QED
        BY <2>1, CallFields, FollowFacts
<1>3. Revising(t) /\ Revising(t)' /\ session = Base(tx) /\ calls[t].kind = "revise"
    BY <1>1, <1>2 DEF Revises, Revising, Finishing
<1>4. PICK c : /\ Set(t, c)
               /\ \/ c = [calls[t] EXCEPT !.pc = "publish", !.tx = tx, !.next = 1,
                                          !.after = "population"]
                  \/ c = [calls[t] EXCEPT !.seen = head[tx], !.pc = "population"]
    BY DEF Prepare, PublishRecord
<1>5. /\ c.pc = "population" \/ (c.pc = "publish" /\ c.next = 1 /\ c.after = "population")
      /\ c.tx = tx /\ c.kind = "revise"
    BY <1>2, <1>3, <1>4 DEF Calls
<1>6. calls'[t] = c
    BY <1>4, SetOne
<1>7. Revises(t)'
    BY <1>1, <1>3, <1>5, <1>6 DEF Revises, Finishing
<1>8. Looks(t)'
    BY <1>3, <1>5, <1>6 DEF Looks
<1>9. Follows(t)'
    BY <1>1, <1>2, <1>3, <1>5, <1>6, <1>7, <1>8 DEF Follows, At, Finishing
<1> QED
    BY <1>1, <1>2, <1>4, <1>9, KeepStep

LEMMA CommitPopulationRecovery ==
    ASSUME IInv, RInv, IInv', NEW t \in Threads, CommitPopulation(t)
    PROVE  RInv'
<1> DEFINE c == [calls[t] EXCEPT !.pc = "commit"]
<1>1. /\ UNCHANGED <<journal, session, redeclared, sessionLock, base, faults>>
      /\ calls[t].pc = "population"
      /\ Set(t, c)
    BY DEF CommitPopulation, At, Goto
<1>2. UNCHANGED <<claims, records, head>>
    BY <1>1 DEF journal
<1>3. calls[t] \in Calls /\ Follows(t) /\ Revises(t) /\ Looks(t) /\ ~At(t, "idle")
    <2>1. ~At(t, "idle")
        BY <1>1 DEF At
    <2> QED
        BY <2>1, CallFields, FollowFacts
<1>4. /\ c.pc = "commit" /\ c.tx = calls[t].tx
      /\ c.todo = calls[t].todo /\ c.found = calls[t].found
      /\ c.kind = calls[t].kind /\ c.rolled = calls[t].rolled
    BY <1>3 DEF Calls
<1> HIDE DEF c
<1>5. calls'[t] = c
    BY <1>1, SetOne
<1>6. \A x : Regards(calls[t], x) => Regards(c, x)
    BY <1>1, <1>4 DEF Regards, Working
<1>7. Looks(t)'
    BY <1>1, <1>2, <1>3, <1>4, <1>5, <1>6 DEF Looks, Complete, Revising
<1>8. Revises(t)'
    BY <1>1, <1>2, <1>3, <1>4, <1>5 DEF Revises, Revising, Finishing
<1>9. Follows(t)'
    BY <1>1, <1>2, <1>3, <1>4, <1>5, <1>7, <1>8, SetOne DEF Follows, At, Finishing
<1> QED
    BY <1>1, <1>2, <1>3, <1>9, KeepStep

\* advance keeps to its target.
LEMMA AdvanceRecovery ==
    ASSUME IInv, RInv, IInv', NEW t \in Threads,
           PopulationCommitted(t) \/ ExecutionCommitted(t)
    PROVE  RInv'
<1> DEFINE tx == calls[t].tx
<1>1. PICK pc, target, after :
          /\ Advance(t, pc, target, after)
          /\ \/ pc = "commit" /\ target = 2 /\ after = IF Revising(t) THEN "install" ELSE "reload"
             \/ pc = "finish" /\ target = 3 /\ after = "done"
    BY DEF PopulationCommitted, ExecutionCommitted
<1>2. /\ UNCHANGED <<claims, head, gate, session, redeclared, sessionLock, base, faults>>
      /\ calls[t].pc = pc
    BY <1>1 DEF Advance, At
<1>3. /\ calls[t] \in Calls /\ Follows(t) /\ Revises(t) /\ Looks(t) /\ ~At(t, "idle")
      /\ head[tx] \in 0..3
    <2>1. ~At(t, "idle")
        BY <1>1, <1>2 DEF At
    <2> QED
        BY <1>1, <1>2, <2>1, CallFields, FollowFacts DEF Working
<1>4. PICK c : /\ Set(t, c)
               /\ \/ /\ AlreadyAdvanced(t, target)
                     /\ c = [calls[t] EXCEPT !.pc = after, !.seen = head[tx]]
                  \/ /\ MayAdvance(t, target)
                     /\ c = [calls[t] EXCEPT !.pc = "publish", !.tx = tx, !.next = target,
                                             !.after = after]
    BY <1>1 DEF Advance, PublishRecord
<1>5. /\ \/ c.pc = after /\ target <= head[tx]
         \/ c.pc = "publish" /\ c.next = target /\ c.after = after
      /\ c.tx = tx /\ c.todo = calls[t].todo /\ c.found = calls[t].found
      /\ c.kind = calls[t].kind /\ c.rolled = calls[t].rolled
    BY <1>3, <1>4 DEF Calls, AlreadyAdvanced
<1>6. calls'[t] = c
    BY <1>4, SetOne
<1>7. \A x : Regards(calls[t], x) => Regards(c, x)
    BY <1>1, <1>2, <1>5 DEF Regards, Working
<1>8. Looks(t)'
    BY <1>2, <1>3, <1>5, <1>6, <1>7 DEF Looks, Complete, Revising
<1>9. Finishing(c) <=> Finishing(calls[t])
    BY <1>1, <1>2, <1>5 DEF Finishing
<1>10. Revises(t)'
    BY <1>1, <1>2, <1>3, <1>5, <1>6, <1>9 DEF Revises, Revising, Finishing
<1>11. Follows(t)'
    BY <1>1, <1>2, <1>3, <1>4, <1>5, <1>6, <1>8, <1>9, <1>10, SetOne
    DEF Follows, At, Finishing, AlreadyAdvanced
<1> QED
    BY <1>2, <1>3, <1>4, <1>11, KeepStep

\* The head file: a revision that becomes complete is the session's.
LEMMA PublishHeadRecovery ==
    ASSUME IInv, RInv, IInv', NEW t \in Threads, PublishHead(t)
    PROVE  RInv'
<1> DEFINE tx == calls[t].tx
           c == [calls[t] EXCEPT !.pc = calls[t].after, !.seen = calls[t].next,
                                 !.found = IF calls[t].after = "discover"
                                           THEN @ \cup {<<calls[t].tx, 1>>} ELSE @]
<1>1. /\ UNCHANGED <<claims, records, gate, session, redeclared, sessionLock, base, faults>>
      /\ calls[t].pc = "publish"
      /\ head' = [head EXCEPT ![tx] = calls[t].next]
      /\ Set(t, c)
    BY DEF PublishHead, At
<1>2. /\ calls[t] \in Calls /\ Follows(t) /\ Revises(t) /\ Looks(t) /\ ~At(t, "idle")
      /\ tx \in Transactions /\ tx \in claims /\ head[tx] \in 0..3
      /\ calls[t].next = head[tx] + 1
      /\ calls[t].after \in {"discover", "population", "reload", "install", "done"}
    <2>1. ~At(t, "idle")
        BY <1>1 DEF At
    <2>2. calls[t].after \in {"discover", "population", "reload", "install", "done"}
        BY CallFields DEF Calls
    <2> QED
        BY <1>1, <2>1, <2>2, CallFields, FollowFacts DEF Holds, Publishes, Working
<1>3. /\ c.pc = calls[t].after /\ c.tx = tx /\ c.todo = calls[t].todo
      /\ c.found = IF calls[t].after = "discover"
                   THEN calls[t].found \cup {<<tx, 1>>} ELSE calls[t].found
      /\ c.kind = calls[t].kind /\ c.rolled = calls[t].rolled
    BY <1>2 DEF Calls
<1> HIDE DEF c
<1>4. calls'[t] = c /\ \A u \in Threads \ {t} : calls'[u] = calls[u]
    BY <1>1, SetOne
<1>5. /\ head'[tx] = calls[t].next
      /\ \A x \in Transactions : x # tx => head'[x] = head[x]
      /\ \A x \in Transactions : head[x] \in 0..3 /\ head'[x] >= head[x]
    <2>1. head \in [Transactions -> 0..3]
        BY DEF IInv, TypeOK
    <2> QED
        BY <1>1, <1>2, <2>1
<1>6. Finishing(c) <=> Finishing(calls[t])
    BY <1>1, <1>2, <1>3 DEF Finishing
<1>7. calls[t].next = 3 => session \in Graphs /\ IsPrefix(tx, session) /\ session # NoGraph
    BY <1>1, <1>2, NoGraphIsNoGraph DEF Follows, Finishing
<1>8. \A u \in Threads \ {t} : Follows(u)'
    BY <1>1, <1>2, <1>4, <1>5, Others
<1>9. Revises(t)'
    BY <1>1, <1>2, <1>3, <1>4, <1>6 DEF Revises, Revising, Finishing
<1>10. Looks(t)'
    <2>1. \A x \in claims : Complete(x) => Complete(x)'
        <3>1. calls[t].next <= 3
            BY <1>5, <1>2 DEF IInv, TypeOK
        <3>2. claims \subseteq Transactions
            BY FollowFacts
        <3> QED
            BY <1>2, <1>5, <3>1, <3>2 DEF Complete
    <2>2. \A x : Regards(calls[t], x) => Regards(c, x)
        <3>1. calls[t].after = "discover" => <<tx, 1>> \in c.found /\ <<tx, 1>>[1] = tx
            BY <1>3
        <3>2. calls[t].found \subseteq c.found
            BY <1>3
        <3>3. calls[t].after # "discover" => c.pc \in Working
            BY <1>2, <1>3 DEF Working
        <3> QED
            BY <1>1, <1>3, <3>1, <3>2, <3>3 DEF Regards
    <2>3. session = NoGraph /\ (\A f \in calls[t].found : ~Complete(f[1])) =>
              \A f \in c.found : ~Complete(f[1])'
        <3> SUFFICES ASSUME session = NoGraph, \A f \in calls[t].found : ~Complete(f[1]),
                            NEW f \in c.found
                     PROVE  head'[f[1]] # 3
            BY DEF Complete
        <3>1. CASE f[1] = tx
            BY <1>5, <1>7, <3>1
        <3>2. CASE f[1] # tx
            <4>1. f \in calls[t].found
                BY <1>3, <3>2
            <4>2. f[1] \in Transactions
                BY <4>1, FollowFacts
            <4> QED
                BY <1>5, <3>2, <4>1, <4>2 DEF Complete
        <3> QED
            BY <3>1, <3>2
    <2> QED
        BY <1>1, <1>2, <1>3, <1>4, <2>1, <2>2, <2>3 DEF Looks, Revising
<1>11. Follows(t)'
    BY <1>1, <1>2, <1>3, <1>4, <1>5, <1>6, <1>9, <1>10 DEF Follows, At, Finishing
<1>12. Pending'
    <2>1. \A x \in claims : Complete(x) => Complete(x)'
        <3>1. calls[t].next <= 3
            BY <1>5, <1>2 DEF IInv, TypeOK
        <3>2. claims \subseteq Transactions
            BY FollowFacts
        <3> QED
            BY <1>2, <1>5, <3>1, <3>2 DEF Complete
    <2> QED
        BY <1>1, <1>2, <1>5, <2>1 DEF RInv, Pending
<1>13. PendingRecoverable'
    <2> SUFFICES ASSUME NEW x \in claims, head'[x] < 3
                 PROVE  session \in {NoGraph, Base(x), x}
        BY <1>1 DEF PendingRecoverable
    <2>1. x \in Transactions /\ head'[x] \in 0..3
        BY FollowFacts DEF IInv, TypeOK
    <2>2. head[x] < 3
        BY <1>5, <2>1
    <2> QED
        BY <2>2 DEF RInv, PendingRecoverable
<1>14. Completed'
    <2>1. \A x \in claims : Complete(x)' => Complete(x) \/ (x = tx /\ calls[t].next = 3)
        BY <1>5, FollowFacts DEF Complete
    <2> QED
        BY <1>1, <1>7, <2>1 DEF RInv, Completed
<1> QED
    BY <1>8, <1>11, <1>12, <1>13, <1>14 DEF RInv

\* A call that rolled a revision forward does not propose.
LEMMA DoneRecovery ==
    ASSUME IInv, RInv, IInv', NEW t \in Threads, Done(t)
    PROVE  RInv'
<1>1. /\ UNCHANGED <<journal, gate, session, redeclared, base, faults>>
      /\ calls[t].pc = "done"
    BY DEF Done, At
<1>2. UNCHANGED <<claims, records, head>>
    BY <1>1 DEF journal
<1>3. calls[t] \in Calls /\ Follows(t) /\ Revises(t) /\ ~At(t, "idle")
    <2>1. ~At(t, "idle")
        BY <1>1 DEF At
    <2> QED
        BY <2>1, CallFields, FollowFacts
<1>4. CASE Revising(t)
    <2>1. Return(t)
        BY <1>4 DEF Done
    <2> QED
        BY <1>1, <1>2, <1>3, <2>1, ReturnStep
<1>5. CASE ~Revising(t)
    <2> DEFINE c == [calls[t] EXCEPT !.pc = "discover", !.rolled = TRUE]
    <2>1. Set(t, c) /\ UNCHANGED sessionLock
        BY <1>5 DEF Done
    <2>2. /\ c.pc = "discover" /\ c.kind = calls[t].kind /\ c.rolled = TRUE
        BY <1>3 DEF Calls
    <2> HIDE DEF c
    <2>3. calls'[t] = c /\ ~Revising(t)'
        BY <1>5, <2>1, SetOne DEF Revising
    <2>4. session \in Graphs /\ session # NoGraph
        BY <1>1, <1>3, NoGraphIsNoGraph DEF Follows, Finishing
    <2>5. Looks(t)'
        BY <1>1, <2>2, <2>3, <2>4 DEF Looks
    <2>6. Revises(t)'
        BY <2>2, <2>3 DEF Revises
    <2>7. Follows(t)'
        BY <1>1, <1>3, <2>1, <2>2, <2>3, <2>5, <2>6, SetOne DEF Follows, At, Finishing
    <2> QED
        BY <1>1, <1>2, <1>3, <2>1, <2>7, KeepStep
<1> QED
    BY <1>4, <1>5

LEMMA InitRecovery ==
    ASSUME Init
    PROVE  RInv
<1>1. claims = {} /\ head = [tx \in Transactions |-> 0] /\ sessionLock = NoThread
    BY Zenon DEF Init
<1>2. \A t \in Threads : calls[t] = Idle
    BY Zenon DEF Init
<1>3. Pending /\ PendingRecoverable /\ Completed
    BY <1>1 DEF Pending, PendingRecoverable, Completed
<1>4. \A t \in Threads : Follows(t)
    BY <1>1, <1>2, IdleCall DEF Follows, At, Revising, NoThread, Threads
<1> QED
    BY <1>3, <1>4 DEF RInv

LEMMA NextRecovery ==
    ASSUME IInv, RInv, IInv', [Next]_vars
    PROVE  RInv'
<1>1. CASE Turn
    BY <1>1, TurnRecovery
<1>2. CASE Boot
    BY <1>2, BootRecovery
<1>3. CASE Crash
    BY <1>3, CrashRecovery
<1>4. ASSUME NEW t \in Threads, Proceed(t) \/ Fault(t)
      PROVE  RInv'
    <2>1. CASE \/ EnsureRaises(t) \/ InstallRaises(t) \/ ProposeRefused(t) \/ ClaimRefused(t)
               \/ PopulationStale(t) \/ AdvanceRaises(t) \/ Fault(t)
        BY <2>1, RaisingRecovery
    <2>2. CASE Materialize(t)
        BY <2>2, MaterializeRecovery
    <2>3. CASE Ensure(t)
        BY <2>3, EnsureRecovery
    <2>4. CASE Recovered(t)
        BY <2>4, RecoveredRecovery
    <2>5. CASE Reload(t)
        BY <2>5, ReloadRecovery
    <2>6. CASE Install(t) \/ Switch(t)
        BY <2>6, InstallRecovery
    <2>7. CASE Propose(t)
        BY <2>7, ProposeRecovery
    <2>8. CASE Claim(t)
        BY <2>8, ClaimRecovery
    <2>9. CASE Prepare(t)
        BY <2>9, PrepareRecovery
    <2>10. CASE CommitPopulation(t)
        BY <2>10, CommitPopulationRecovery
    <2>11. CASE PopulationCommitted(t) \/ ExecutionCommitted(t)
        BY <2>11, AdvanceRecovery
    <2>12. CASE PublishHead(t)
        BY <2>12, PublishHeadRecovery
    <2>13. CASE Done(t)
        BY <2>13, DoneRecovery
    <2> QED
        BY <1>4, <2>1, <2>2, <2>3, <2>4, <2>5, <2>6, <2>7, <2>8, <2>9, <2>10, <2>11, <2>12, <2>13
        DEF Proceed, Recover, Revise, Commit
<1>5. CASE UNCHANGED vars
    <2>1. UNCHANGED <<journal, gate, session, redeclared, sessionLock, base, calls, faults>>
        BY <1>5 DEF vars
    <2>2. UNCHANGED <<claims, records, head>>
        BY <2>1 DEF journal
    <2>3. \A t \in Threads : Follows(t)'
        BY <2>1, <2>2 DEF RInv, Follows, Revises, Looks, Regards, Complete, Finishing, Revising, At
    <2> QED
        BY <2>1, <2>2, <2>3 DEF RInv, Pending, PendingRecoverable, Completed, Complete
<1> QED
    BY <1>1, <1>2, <1>3, <1>4, <1>5 DEF Next

LEMMA RecoveryInvariant == Spec => [](IInv /\ RInv)
<1>1. Init => IInv /\ RInv
    BY InitInv, InitRecovery
<1>2. (IInv /\ RInv) /\ [Next]_vars => (IInv /\ RInv)'
    BY NextInv, NextRecovery
<1> QED
    BY <1>1, <1>2, PTL DEF Spec

-------------------------------------------------------------------------------
(* What recovery promises *)

\* Whatever is pending can be rolled forward from where the session is: no
\* pending revision meets a session that runs neither its base nor itself
\* (GRAPH_REVISION_RECOVERY_EXECUTION_BASE_MISMATCH).
THEOREM PendingIsRecoverable == Spec => []PendingRecoverable
<1>1. IInv /\ RInv => PendingRecoverable
    BY DEF RInv
<1> QED
    BY <1>1, RecoveryInvariant, PTL

\* When no call runs and nothing is pending, session and gate run the same
\* graph (_install_recovered_execution_graph_revision), unless the graph was
\* declared anew.
THEOREM SettledAgrees == Spec => []SettledAgree
<1>1. ASSUME IInv, RInv
      PROVE  SettledAgree
    <2> SUFFICES ASSUME \A tx \in claims : head[tx] = 3, session # NoGraph, ~redeclared
                 PROVE  session = gate
        BY DEF SettledAgree
    <2>1. session \in Graphs /\ gate \in Graphs /\ IsPrefix(session, gate)
        BY <1>1 DEF IInv, TypeOK, SessionAccepted
    <2>2. Len(session) \in Nat /\ Len(gate) \in Nat
        BY <2>1, GraphLength
    <2>3. IsPrefix(gate, session)
        <3>1. CASE Len(gate) = 0
            BY <2>1, <2>2, <3>1, PrefixPointwise
        <3>2. CASE Len(gate) # 0
            <4>1. Len(gate) \in 1..Len(gate)
                BY <2>2, <3>2
            <4>2. SubSeq(gate, 1, Len(gate)) = gate
                BY <2>1, GraphLength, SubSeqFull
            <4>3. gate \in claims
                BY <1>1, <4>1, <4>2 DEF IInv, Claimed
            <4> QED
                BY <1>1, <2>1, <4>3 DEF RInv, Completed, Complete
        <3> QED
            BY <3>1, <3>2
    <2>4. /\ Len(session) <= Len(gate) /\ Len(gate) <= Len(session)
          /\ \A i \in 1..Len(session) : session[i] = gate[i]
        BY <2>1, <2>3, PrefixPointwise
    <2> QED
        BY <2>1, <2>2, <2>4, SameRevisions
<1> QED
    BY <1>1, RecoveryInvariant, PTL

-------------------------------------------------------------------------------
(* The gate is one revision ahead at most *)

(***************************************************************************)
(* The refinement of RevisionLog needs more than recoverability: when a    *)
(* call is about to switch the session, the revision it holds must be the  *)
(* gate's, not one that was completed and passed since it was read.        *)
(***************************************************************************)

\* The session runs the transaction if it is complete.
Caught(tx) == Complete(tx) /\ session \in Graphs => IsPrefix(tx, session)

\* A call got the transactions it holds while they were pending, so they were
\* completed, if at all, with the session.  The exception is a proposal that was
\* complete before the graph was declared anew: it ends in a journal conflict.
Taken(t) ==
    LET c == calls[t] IN
    ~At(t, "idle") =>
        /\ \A f \in c.found : Caught(f[1])
        /\ c.pc \in {"population", "commit"} =>
              Caught(c.tx) \/ (Revising(t) /\ c.seen = 3)
        /\ c.pc \in {"reload", "install", "publish"} => Caught(c.tx)
        /\ c.pc = "population" => session \in Graphs

\* What is pending is what the gate accepted last, or based on it.
Newest == \A tx \in claims : ~Complete(tx) => gate \in {tx, Base(tx)}

AInv == Newest /\ \A t \in Threads : Taken(t)

\* What was caught stays caught while the session only extends.
LEMMA CaughtStays ==
    ASSUME IInv, NEW x \in Transactions, Caught(x),
           \/ session' = session \/ session' = NoGraph
           \/ session \in Graphs /\ session' \in Graphs /\ IsPrefix(session, session'),
           Complete(x)' => Complete(x) \/ (session \in Graphs => IsPrefix(x, session))
    PROVE  Caught(x)'
<1> SUFFICES ASSUME Complete(x)', session' \in Graphs
             PROVE  IsPrefix(x, session')
    BY DEF Caught
<1>1. session \in Graphs /\ (session' = session \/ IsPrefix(session, session'))
    BY NoGraphIsNoGraph
<1>2. IsPrefix(x, session)
    BY <1>1 DEF Caught
<1>3. x \in Graphs
    BY TransactionLength
<1> QED
    BY <1>1, <1>2, <1>3, PrefixOrder

\* What a step of one call leaves true of what the others hold.
LEMMA OthersTaken ==
    ASSUME IInv, RInv, AInv, NEW t \in Threads, ~At(t, "idle"),
           \A u \in Threads \ {t} : calls'[u] = calls[u],
           \/ session' = session \/ calls[t].kind = "boot"
           \/ session \in Graphs /\ session' \in Graphs /\ IsPrefix(session, session'),
           \/ UNCHANGED sessionLock
           \/ sessionLock = t /\ sessionLock' = NoThread
           \/ sessionLock = NoThread /\ sessionLock' = t,
           \A x \in Transactions :
               Complete(x)' => Complete(x) \/ (session \in Graphs => IsPrefix(x, session))
    PROVE  \A u \in Threads \ {t} : Taken(u)'
<1> SUFFICES ASSUME NEW u \in Threads, u # t, ~At(u, "idle")
             PROVE  Taken(u)'
    BY DEF Taken, At
<1>1. /\ calls'[u] = calls[u] /\ Taken(u) /\ Follows(u) /\ Follows(t)
      /\ Holds(calls[u]) /\ claims \subseteq Transactions /\ NoThread \notin Threads
    BY CallFields, FollowFacts DEF AInv
<1>2. calls[t].kind # "boot" /\ session \in Graphs
    BY <1>1 DEF Follows
<1>3. Revising(u)' <=> Revising(u)
    BY <1>1 DEF Revising
<1>4. session' \in Graphs /\ (session' = session \/ IsPrefix(session, session'))
    BY <1>2
<1>5. \A x \in Transactions : Caught(x) => Caught(x)'
    BY <1>2, <1>4, CaughtStays
<1>6. \A f \in calls[u].found : f[1] \in Transactions
    BY <1>1 DEF Holds
<1>7. calls[u].pc \in Working => calls[u].tx \in Transactions
    BY CallFields
<1> HIDE DEF Caught
<1> QED
    BY <1>1, <1>3, <1>4, <1>5, <1>6, <1>7 DEF Taken, At, Working

\* The gate stays and nothing is claimed.
LEMMA NewestStays ==
    ASSUME Newest, UNCHANGED <<claims, gate>>,
           \A x \in claims : Complete(x) => Complete(x)'
    PROVE  Newest'
    BY DEF Newest

\* Claims, heads, gate and session stay.
LEMMA KeepTaken ==
    ASSUME IInv, RInv, AInv, NEW t \in Threads, ~At(t, "idle"), NEW c, Set(t, c),
           UNCHANGED <<claims, head, gate, session>>,
           \/ UNCHANGED sessionLock
           \/ sessionLock = t /\ sessionLock' = NoThread
           \/ sessionLock = NoThread /\ sessionLock' = t,
           Taken(t)'
    PROVE  AInv'
<1>1. \A u \in Threads \ {t} : calls'[u] = calls[u]
    BY SetOne
<1>2. \A x : Complete(x)' <=> Complete(x)
    BY DEF Complete
<1>3. \A u \in Threads \ {t} : Taken(u)'
    BY <1>1, <1>2, OthersTaken
<1>4. Newest'
    BY <1>2, NewestStays DEF AInv
<1> QED
    BY <1>3, <1>4 DEF AInv

\* A call that ends holds nothing.
LEMMA ReturnTaken ==
    ASSUME IInv, RInv, AInv, NEW t \in Threads, ~At(t, "idle"), Return(t),
           UNCHANGED <<claims, head, gate>>,
           session' = session \/ calls[t].kind = "boot"
    PROVE  AInv'
<1>1. calls'[t] = Idle /\ \A u \in Threads \ {t} : calls'[u] = calls[u]
    BY IdleCall, SetCall DEF IInv, Return
<1>2. \/ UNCHANGED sessionLock
      \/ sessionLock = t /\ sessionLock' = NoThread
    BY DEF Return, Revising
<1>3. \A x : Complete(x)' <=> Complete(x)
    BY DEF Complete
<1>4. \A u \in Threads \ {t} : Taken(u)'
    BY <1>1, <1>2, <1>3, OthersTaken
<1>5. Taken(t)'
    BY <1>1, IdleCall DEF Taken, At, Idle
<1>6. Newest'
    BY <1>3, NewestStays DEF AInv
<1> QED
    BY <1>4, <1>5, <1>6 DEF AInv

\* Calls that begin, and processes that die, hold nothing.
LEMMA BeginTaken ==
    ASSUME IInv, RInv, AInv, Turn \/ Boot \/ Crash
    PROVE  AInv'
<1>1. UNCHANGED <<claims, head, gate>>
    BY DEF Turn, Boot, Crash, journal
<1>2. Newest'
    BY <1>1, NewestStays DEF AInv, Complete
<1>3. /\ calls \in [Threads -> Calls]
      /\ [Idle EXCEPT !.pc = "discover", !.kind = "boot", !.todo = claims].found = {}
      /\ [Idle EXCEPT !.pc = "discover", !.kind = "boot", !.todo = claims].pc = "discover"
      /\ \A k : LET c == [Idle EXCEPT !.pc = "discover", !.todo = claims, !.kind = k] IN
                c.found = {} /\ c.pc = "discover"
    BY IdleCall DEF IInv, TypeOK, Idle
<1>4. \A u \in Threads :
          calls'[u].pc = "idle" \/ (calls'[u].found = {} /\ calls'[u].pc = "discover")
    <2>1. CASE Turn
        <3>1. PICK r \in 0..MaxCalls, m \in 0..MaxCalls :
                 calls' = [t \in Threads |->
                   IF t <= r + m
                   THEN [Idle EXCEPT !.pc = "discover", !.todo = claims,
                                     !.kind = IF t <= r THEN "revise" ELSE "mutate"]
                   ELSE Idle]
            BY <2>1 DEF Turn
        <3> SUFFICES ASSUME NEW u \in Threads
                     PROVE  \/ calls'[u].pc = "idle"
                            \/ calls'[u].found = {} /\ calls'[u].pc = "discover"
            OBVIOUS
        <3>2. CASE ~(u <= r + m)
            BY <3>1, <3>2, IdleCall
        <3>3. CASE u <= r + m
            <4> DEFINE k == IF u <= r THEN "revise" ELSE "mutate"
            <4>1. calls'[u] = [Idle EXCEPT !.pc = "discover", !.todo = claims, !.kind = k]
                BY <3>1, <3>3
            <4> HIDE DEF k
            <4> QED
                BY <1>3, <4>1
        <3> QED
            BY <3>2, <3>3
    <2>2. CASE Boot
        <3>1. /\ \A u \in Threads : calls[u].pc = "idle"
              /\ Set(1, [Idle EXCEPT !.pc = "discover", !.kind = "boot", !.todo = claims])
            BY <2>2 DEF Boot, At
        <3> QED
            BY <1>3, <3>1 DEF Set
    <2>3. CASE Crash
        BY <2>3, IdleCall DEF Crash
    <2> QED
        BY <2>1, <2>2, <2>3
<1>5. \A u \in Threads : Taken(u)'
    BY <1>4 DEF Taken, At
<1> QED
    BY <1>2, <1>5 DEF AInv

LEMMA RaisingTaken ==
    ASSUME IInv, RInv, AInv, NEW t \in Threads,
           \/ EnsureRaises(t) \/ InstallRaises(t) \/ ProposeRefused(t) \/ ClaimRefused(t)
           \/ PopulationStale(t) \/ AdvanceRaises(t) \/ Fault(t)
    PROVE  AInv'
<1>1. /\ Return(t)
      /\ UNCHANGED <<journal, gate>>
      /\ session' = session \/ calls[t].kind = "boot"
      /\ ~At(t, "idle")
    BY DEF EnsureRaises, InstallRaises, ProposeRefused, ClaimRefused,
       PopulationStale, AdvanceRaises, Fault, Break, Discovered, At
<1> QED
    BY <1>1, ReturnTaken DEF journal

\* What discovery adds is pending.
LEMMA MaterializeTaken ==
    ASSUME IInv, RInv, AInv, NEW t \in Threads, Materialize(t)
    PROVE  AInv'
<1>1. PICK tx \in calls[t].todo :
          \/ /\ head[tx] = 0
             /\ Set(t, [calls[t] EXCEPT !.todo = @ \ {tx}, !.pc = "publish", !.tx = tx,
                                        !.next = 1, !.after = "discover"])
          \/ Set(t, [calls[t] EXCEPT !.todo = @ \ {tx},
                     !.found = IF head[tx] < 3 THEN @ \cup {<<tx, head[tx]>>} ELSE @])
    BY DEF Materialize
<1>2. /\ UNCHANGED <<claims, head, gate, session, sessionLock>>
      /\ calls[t].pc = "discover" /\ ~At(t, "idle")
    BY DEF Materialize, At
<1>3. calls[t] \in Calls /\ Taken(t)
    BY CallFields DEF AInv
<1>4. \A x : Caught(x)' <=> Caught(x)
    BY <1>2 DEF Caught, Complete
<1>5. CASE head[tx] = 0 /\ Set(t, [calls[t] EXCEPT !.todo = @ \ {tx}, !.pc = "publish",
                                     !.tx = tx, !.next = 1, !.after = "discover"])
    <2> DEFINE c == [calls[t] EXCEPT !.todo = @ \ {tx}, !.pc = "publish", !.tx = tx,
                                     !.next = 1, !.after = "discover"]
    <2>1. c.pc = "publish" /\ c.tx = tx /\ c.found = calls[t].found
        BY <1>3 DEF Calls
    <2>2. Set(t, c)
        BY <1>5
    <2> HIDE DEF c
    <2>3. calls'[t] = c
        BY <2>2, SetOne
    <2>4. Caught(tx)
        BY <1>5 DEF Caught, Complete
    <2>5. Taken(t)'
        BY <1>2, <1>3, <1>4, <2>1, <2>3, <2>4 DEF Taken, At
    <2> QED
        BY <1>2, <2>2, <2>5, KeepTaken
<1>6. CASE Set(t, [calls[t] EXCEPT !.todo = @ \ {tx},
                   !.found = IF head[tx] < 3 THEN @ \cup {<<tx, head[tx]>>} ELSE @])
    <2> DEFINE c == [calls[t] EXCEPT !.todo = @ \ {tx},
                     !.found = IF head[tx] < 3 THEN @ \cup {<<tx, head[tx]>>} ELSE @]
    <2>1. /\ c.pc = "discover"
          /\ c.found = IF head[tx] < 3 THEN calls[t].found \cup {<<tx, head[tx]>>}
                       ELSE calls[t].found
        BY <1>2, <1>3 DEF Calls
    <2>2. Set(t, c)
        BY <1>6
    <2> HIDE DEF c
    <2>3. calls'[t] = c
        BY <2>2, SetOne
    <2>4. head[tx] < 3 => Caught(tx)
        BY DEF Caught, Complete
    <2>5. \A f \in c.found : Caught(f[1])
        BY <1>2, <1>3, <2>1, <2>4 DEF Taken
    <2>6. Taken(t)'
        BY <1>4, <2>1, <2>3, <2>5 DEF Taken, At
    <2> QED
        BY <1>2, <2>2, <2>6, KeepTaken
<1> QED
    BY <1>1, <1>5, <1>6

LEMMA EnsureTaken ==
    ASSUME IInv, RInv, AInv, NEW t \in Threads, Ensure(t)
    PROVE  AInv'
<1>1. PICK f \in calls[t].found :
          /\ session \in {NoGraph, Base(f[1]), f[1]}
          /\ session' = IF session = NoGraph THEN Base(f[1]) ELSE session
          /\ Set(t, [calls[t] EXCEPT !.found = @ \ {f}, !.tx = f[1], !.seen = f[2],
                                     !.pc = IF f[2] = 1 THEN "population" ELSE "install"])
    BY DEF Ensure
<1>2. /\ UNCHANGED <<claims, head, gate, sessionLock>>
      /\ calls[t].pc = "discover" /\ ~At(t, "idle")
    BY DEF Ensure, Discovered, At, journal
<1>3. /\ calls[t] \in Calls /\ Holds(calls[t]) /\ f[1] \in claims /\ f[1] \in Transactions
      /\ Follows(t) /\ Looks(t) /\ Taken(t) /\ claims \subseteq Transactions
    BY <1>1, <1>2, CallFields, FollowFacts DEF Holds, AInv
<1>4. Base(f[1]) \in Graphs /\ f[1] \in Graphs /\ session \in Graphs \cup {NoGraph}
    BY <1>3, BaseOfTransaction, TransactionLength, FollowFacts
<1> DEFINE c == [calls[t] EXCEPT !.found = @ \ {f}, !.tx = f[1], !.seen = f[2],
                                 !.pc = IF f[2] = 1 THEN "population" ELSE "install"]
<1>5. /\ c.pc = (IF f[2] = 1 THEN "population" ELSE "install") /\ c.tx = f[1]
      /\ c.found = calls[t].found \ {f}
    BY <1>3 DEF Calls
<1>6. Set(t, c)
    BY <1>1
<1> HIDE DEF c
<1>7. calls'[t] = c /\ \A u \in Threads \ {t} : calls'[u] = calls[u]
    BY <1>6, SetOne
<1>8. session = NoGraph => calls[t].kind = "boot" /\ \A g \in calls[t].found : ~Complete(g[1])
    BY <1>2, <1>3, NoGraphIsNoGraph DEF Follows, Looks
<1>9. \A x : Complete(x)' <=> Complete(x)
    BY <1>2 DEF Complete
<1>10. session' \in Graphs /\ (session # NoGraph => session' = session)
    BY <1>1, <1>4
<1>11. \A g \in calls[t].found : Caught(g[1])'
    <2>1. CASE session = NoGraph
        BY <1>8, <1>9, <2>1 DEF Caught
    <2>2. CASE session # NoGraph
        BY <1>2, <1>3, <1>9, <1>10, <2>2 DEF Taken, Caught
    <2> QED
        BY <2>1, <2>2
<1>12. Taken(t)'
    BY <1>1, <1>5, <1>7, <1>10, <1>11 DEF Taken, At
<1>13. \A u \in Threads \ {t} : Taken(u)'
    BY <1>2, <1>7, <1>8, <1>9, <1>10, OthersTaken
<1>14. Newest'
    BY <1>2, <1>9, NewestStays DEF AInv
<1> QED
    BY <1>12, <1>13, <1>14 DEF AInv

LEMMA RecoveredTaken ==
    ASSUME IInv, RInv, AInv, NEW t \in Threads, Recovered(t)
    PROVE  AInv'
<1>1. /\ UNCHANGED <<claims, head, gate, sessionLock>>
      /\ calls[t].pc = "discover" /\ calls[t].found = {} /\ ~At(t, "idle")
      /\ session' = session \/ (session = NoGraph /\ session' = <<>>)
    BY DEF Recovered, Discovered, At, journal
<1>2. calls[t] \in Calls /\ Follows(t)
    BY CallFields, FollowFacts
<1>3. /\ \A u \in Threads \ {t} : calls'[u] = calls[u]
      /\ calls'[t].pc = "idle" \/ (calls'[t].pc = "propose" /\ calls'[t].found = {})
    <2>1. CASE Set(t, Idle)
        BY <2>1, IdleCall, SetOne
    <2>2. CASE Goto(t, "propose")
        <3> DEFINE c == [calls[t] EXCEPT !.pc = "propose"]
        <3>1. c.pc = "propose" /\ c.found = {}
            BY <1>1, <1>2 DEF Calls
        <3>2. Set(t, c)
            BY <2>2 DEF Goto
        <3> HIDE DEF c
        <3> QED
            BY <3>1, <3>2, SetOne
    <2> QED
        BY <2>1, <2>2 DEF Recovered
<1>4. session' = session \/ calls[t].kind = "boot"
    BY <1>1, <1>2, NoGraphIsNoGraph DEF Follows
<1>5. \A x : Complete(x)' <=> Complete(x)
    BY <1>1 DEF Complete
<1>6. \A u \in Threads \ {t} : Taken(u)'
    BY <1>1, <1>3, <1>4, <1>5, OthersTaken
<1>7. Taken(t)'
    BY <1>3 DEF Taken, At
<1>8. Newest'
    BY <1>1, <1>5, NewestStays DEF AInv
<1> QED
    BY <1>6, <1>7, <1>8 DEF AInv

\* A call goes on with what it found.
LEMMA StayTaken ==
    ASSUME IInv, RInv, AInv, NEW t \in Threads, ~At(t, "idle"), NEW c, Set(t, c),
           UNCHANGED <<claims, head, gate, session>>,
           UNCHANGED sessionLock \/ (sessionLock = NoThread /\ sessionLock' = t),
           c.found = calls[t].found,
           c.pc \in {"population", "commit"} =>
               Caught(c.tx) \/ (Revising(t) /\ c.seen = 3),
           c.pc \in {"reload", "install", "publish"} => Caught(c.tx),
           c.pc = "population" => session \in Graphs
    PROVE  AInv'
<1>1. calls'[t] = c
    BY SetOne
<1>2. \A x : Caught(x)' <=> Caught(x)
    BY DEF Caught, Complete
<1>3. Revising(t) => Revising(t)'
    BY FollowFacts DEF Revising
<1>4. \A f \in c.found : Caught(f[1])
    BY DEF AInv, Taken
<1> HIDE DEF Caught
<1>5. Taken(t)'
    BY <1>1, <1>2, <1>3, <1>4 DEF Taken, At
<1> QED
    BY <1>5, KeepTaken

LEMMA ReloadTaken ==
    ASSUME IInv, RInv, AInv, NEW t \in Threads, Reload(t)
    PROVE  AInv'
<1> DEFINE tx == calls[t].tx
           c == [calls[t] EXCEPT !.seen = head[tx],
                                 !.pc = IF head[tx] = 2 THEN "install" ELSE "discover"]
<1>1. /\ UNCHANGED <<claims, head, gate, session, sessionLock>>
      /\ Set(t, c) /\ ~At(t, "idle")
    BY DEF Reload, At, journal
<1>2. /\ c.pc = (IF head[tx] = 2 THEN "install" ELSE "discover") /\ c.tx = tx
      /\ c.found = calls[t].found
    BY CallFields DEF Calls
<1> HIDE DEF c
<1>3. head[tx] = 2 => Caught(tx)
    BY DEF Caught, Complete
<1> QED
    BY <1>1, <1>2, <1>3, StayTaken

\* The lock is taken, or the base claimed, or the record of the base read.
LEMMA ProposeTaken ==
    ASSUME IInv, RInv, AInv, NEW t \in Threads, Propose(t)
    PROVE  AInv'
<1>1. PICK p \in Proposals :
          Set(t, [calls[t] EXCEPT !.pc = "claim", !.tx = Append(session, p), !.seen = 0])
    BY DEF Propose
<1> DEFINE c == [calls[t] EXCEPT !.pc = "claim", !.tx = Append(session, p), !.seen = 0]
<1>2. /\ UNCHANGED <<claims, head, gate, session>>
      /\ sessionLock = NoThread /\ sessionLock' = t
      /\ Set(t, c) /\ ~At(t, "idle")
    BY <1>1 DEF Propose, At, journal
<1>3. c.pc = "claim" /\ c.found = calls[t].found
    BY CallFields DEF Calls
<1> HIDE DEF c
<1> QED
    BY <1>2, <1>3, StayTaken

LEMMA PrepareTaken ==
    ASSUME IInv, RInv, AInv, NEW t \in Threads, Prepare(t)
    PROVE  AInv'
<1> DEFINE tx == calls[t].tx
<1>1. /\ UNCHANGED <<claims, head, gate, session, sessionLock>>
      /\ calls[t].pc = "prepare" /\ ~At(t, "idle")
    BY DEF Prepare, At
<1>2. calls[t] \in Calls /\ Follows(t) /\ Revises(t) /\ head[tx] \in 0..3
    BY <1>1, CallFields, FollowFacts DEF Working
<1>3. Revising(t) /\ session \in Graphs
    BY <1>1, <1>2 DEF Revises, Follows
<1>4. PICK c : /\ Set(t, c)
               /\ \/ /\ head[tx] = 0
                     /\ c = [calls[t] EXCEPT !.pc = "publish", !.tx = tx, !.next = 1,
                                             !.after = "population"]
                  \/ c = [calls[t] EXCEPT !.seen = head[tx], !.pc = "population"]
    BY DEF Prepare, PublishRecord
<1>5. /\ \/ c.pc = "publish" /\ head[tx] = 0
         \/ c.pc = "population" /\ c.seen = head[tx]
      /\ c.tx = tx /\ c.found = calls[t].found
    BY <1>2, <1>4 DEF Calls
<1>6. Caught(tx) \/ head[tx] = 3
    BY DEF Caught, Complete
<1>7. head[tx] = 0 => Caught(tx)
    BY DEF Caught, Complete
<1> HIDE DEF Caught
<1> QED
    BY <1>1, <1>3, <1>4, <1>5, <1>6, <1>7, StayTaken

\* advance refuses the proposal that was complete before.
LEMMA AdvanceTaken ==
    ASSUME IInv, RInv, AInv, NEW t \in Threads,
           PopulationCommitted(t) \/ ExecutionCommitted(t)
    PROVE  AInv'
<1> DEFINE tx == calls[t].tx
<1>1. PICK pc, target, after :
          /\ Advance(t, pc, target, after)
          /\ \/ pc = "commit" /\ target = 2 /\ after \in {"install", "reload"}
             \/ pc = "finish" /\ target = 3 /\ after = "done"
    BY DEF PopulationCommitted, ExecutionCommitted
<1>2. /\ UNCHANGED <<claims, head, gate, session, sessionLock>>
      /\ calls[t].pc = pc /\ ~At(t, "idle")
    BY <1>1 DEF Advance, At
<1>3. calls[t] \in Calls /\ Taken(t)
    BY CallFields DEF AInv
<1>4. PICK c : /\ Set(t, c)
               /\ \/ /\ AlreadyAdvanced(t, target)
                     /\ c = [calls[t] EXCEPT !.pc = after, !.seen = head[tx]]
                  \/ /\ MayAdvance(t, target)
                     /\ c = [calls[t] EXCEPT !.pc = "publish", !.tx = tx, !.next = target,
                                             !.after = after]
    BY <1>1 DEF Advance, PublishRecord
<1>5. /\ \/ c.pc = after /\ calls[t].seen + 1 = target
         \/ c.pc = "publish" /\ head[tx] + 1 = target
      /\ c.tx = tx /\ c.found = calls[t].found
    BY <1>3, <1>4 DEF Calls, AlreadyAdvanced, MayAdvance
<1>6. head[tx] + 1 = target => Caught(tx)
    BY <1>1 DEF Caught, Complete
<1>7. c.pc \in {"install", "reload"} => Caught(tx)
    BY <1>1, <1>2, <1>3, <1>5 DEF Taken
<1> HIDE DEF Caught
<1> QED
    BY <1>1, <1>2, <1>4, <1>5, <1>6, <1>7, StayTaken

LEMMA DoneTaken ==
    ASSUME IInv, RInv, AInv, NEW t \in Threads, Done(t)
    PROVE  AInv'
<1>1. UNCHANGED <<claims, head, gate, session>> /\ ~At(t, "idle")
    BY DEF Done, At, journal
<1>2. CASE Revising(t)
    BY <1>1, <1>2, ReturnTaken DEF Done
<1>3. CASE ~Revising(t)
    <2> DEFINE c == [calls[t] EXCEPT !.pc = "discover", !.rolled = TRUE]
    <2>1. Set(t, c) /\ UNCHANGED sessionLock
        BY <1>3 DEF Done
    <2>2. c.pc = "discover" /\ c.found = calls[t].found
        BY CallFields DEF Calls
    <2> HIDE DEF c
    <2> QED
        BY <1>1, <2>1, <2>2, StayTaken
<1> QED
    BY <1>2, <1>3

\* A base does not begin with what is based on it.
LEMMA BaseIsBefore ==
    ASSUME NEW tx \in Transactions
    PROVE  /\ tx \in Graphs /\ Base(tx) \in Graphs /\ Base(tx) # tx
           /\ ~IsPrefix(tx, Base(tx)) /\ IsPrefix(Base(tx), tx)
<1>1. /\ tx \in Graphs /\ Base(tx) \in Graphs /\ Len(tx) \in Nat
      /\ Len(Base(tx)) = Len(tx) - 1 /\ IsPrefix(Base(tx), tx)
    BY BaseOfTransaction, TransactionLength
<1>2. ~(Len(tx) <= Len(Base(tx)))
    BY <1>1
<1> QED
    BY <1>1, <1>2, PrefixPointwise

\* What the session is about to switch to is what the gate accepted last.
LEMMA InstallsNewest ==
    ASSUME IInv, RInv, AInv, NEW t \in Threads, Install(t) \/ Switch(t),
           session # calls[t].tx
    PROVE  session = Base(calls[t].tx) /\ gate = calls[t].tx
<1> DEFINE tx == calls[t].tx
<1>1. calls[t].pc = "install" /\ ~At(t, "idle")
    BY DEF Install, Switch, At
<1>2. /\ tx \in claims /\ tx \in Transactions /\ IsPrefix(tx, gate)
      /\ Taken(t) /\ Revises(t)
    BY <1>1, CallFields, FollowFacts DEF Holds, Working, Accepted, AInv
<1>3. session = Base(tx)
    <2>1. CASE Revising(t)
        BY <1>1, <1>2, <2>1 DEF Revises, Finishing
    <2>2. CASE ~Revising(t)
        BY <2>2 DEF Install, Installable, Switch
    <2> QED
        BY <2>1, <2>2
<1>4. ~Complete(tx)
    BY <1>1, <1>2, <1>3, BaseIsBefore DEF Taken, Caught
<1>5. gate # Base(tx)
    BY <1>2, BaseIsBefore
<1> QED
    BY <1>2, <1>3, <1>4, <1>5 DEF AInv, Newest

LEMMA InstallTaken ==
    ASSUME IInv, RInv, AInv, NEW t \in Threads, Install(t) \/ Switch(t)
    PROVE  AInv'
<1> DEFINE tx == calls[t].tx
           c == [calls[t] EXCEPT !.pc = "finish"]
<1>1. /\ UNCHANGED <<claims, head, gate, sessionLock>>
      /\ calls[t].pc = "install" /\ ~At(t, "idle")
      /\ session' = tx /\ Set(t, c)
    BY DEF Install, Switch, At, Goto, journal
<1>2. /\ c.pc = "finish" /\ c.found = calls[t].found
      /\ tx \in Transactions /\ Taken(t) /\ claims \subseteq Transactions
    BY <1>1, CallFields, FollowFacts DEF Calls, Working, AInv
<1> HIDE DEF c
<1>3. calls'[t] = c /\ \A u \in Threads \ {t} : calls'[u] = calls[u]
    BY <1>1, SetOne
<1>4. \/ session' = session
      \/ session \in Graphs /\ session' \in Graphs /\ IsPrefix(session, session')
    BY <1>1, <1>2, InstallsNewest, BaseIsBefore
<1>5. \A x : Complete(x)' <=> Complete(x)
    BY <1>1 DEF Complete
<1>6. \A f \in calls[t].found : f[1] \in Transactions
    BY <1>2, CallFields DEF Holds
<1>7. \A x \in Transactions : Caught(x) => Caught(x)'
    BY <1>4, <1>5, CaughtStays
<1>8. \A u \in Threads \ {t} : Taken(u)'
    BY <1>1, <1>3, <1>4, <1>5, OthersTaken
<1>9. Taken(t)'
    <2> HIDE DEF Caught
    <2> QED
        BY <1>1, <1>2, <1>3, <1>6, <1>7 DEF Taken, At
<1>10. Newest'
    BY <1>1, <1>5, NewestStays DEF AInv
<1> QED
    BY <1>8, <1>9, <1>10 DEF AInv

\* A claim is made on the gate's graph, or repeats the gate's next revision.
LEMMA ClaimTaken ==
    ASSUME IInv, RInv, AInv, NEW t \in Threads, Claim(t)
    PROVE  AInv'
<1> DEFINE tx == calls[t].tx
           c == [calls[t] EXCEPT !.pc = "prepare"]
<1>1. /\ UNCHANGED <<head, gate, session, sessionLock>>
      /\ claims' = claims \cup {tx} /\ Claimable(tx)
      /\ calls[t].pc = "claim" /\ ~At(t, "idle") /\ Set(t, c)
    BY DEF Claim, At, Goto
<1>2. /\ c.pc = "prepare" /\ c.found = calls[t].found
      /\ Holds(calls[t]) /\ Revises(t) /\ Taken(t)
    BY <1>1, CallFields, FollowFacts DEF Calls, AInv
<1> HIDE DEF c
<1>3. calls'[t] = c /\ \A u \in Threads \ {t} : calls'[u] = calls[u]
    BY <1>1, SetOne
<1>4. /\ tx \in Transactions /\ session = Base(tx) /\ session \in Graphs
      /\ gate \in Graphs /\ IsPrefix(session, gate)
    <2>1. tx \in Transactions /\ session = Base(tx)
        BY <1>1, <1>2 DEF Holds, Revises, Finishing
    <2> QED
        BY <2>1, BaseIsBefore DEF IInv, TypeOK, SessionAccepted
<1>5. tx \in claims \/ gate = Base(tx)
    <2>1. /\ Len(session) \in Nat /\ Len(gate) \in Nat /\ Len(session) <= Len(gate)
          /\ \A i \in 1..Len(session) : session[i] = gate[i]
        BY <1>4, GraphLength, PrefixPointwise
    <2>2. CASE Len(session) = Len(gate)
        BY <1>4, <2>1, <2>2, SameRevisions
    <2>3. CASE Len(session) # Len(gate)
        <3> DEFINE n == Len(session) + 1
        <3>1. n \in 1..Len(gate) /\ n - 1 = Len(session) /\ Len(session) \in 0..Len(gate)
            BY <2>1, <2>3
        <3>2. /\ SubSeq(gate, 1, Len(session)) \in Graphs
              /\ Len(SubSeq(gate, 1, Len(session))) = Len(session)
              /\ \A i \in 1..Len(session) : SubSeq(gate, 1, Len(session))[i] = gate[i]
            BY <1>4, <3>1, FirstRevisions
        <3>3. SubSeq(gate, 1, Len(session)) = session
            BY <1>4, <2>1, <3>2, SameRevisions
        <3>4. SubSeq(gate, 1, n) \in claims
            BY <3>1 DEF IInv, Claimed
        <3>5. Base(SubSeq(gate, 1, n)) = SubSeq(gate, 1, n - 1)
            BY <1>4, <3>1, RevisionChain
        <3>6. Base(SubSeq(gate, 1, n)) = Base(tx)
            BY <1>4, <3>1, <3>3, <3>5
        <3> QED
            BY <1>1, <3>4, <3>6 DEF Claimable
    <2> QED
        BY <2>2, <2>3
<1>6. \A x : Complete(x)' <=> Complete(x)
    BY <1>1 DEF Complete
<1>7. Newest'
    BY <1>1, <1>5, <1>6 DEF AInv, Newest
<1>8. \A u \in Threads \ {t} : Taken(u)'
    BY <1>1, <1>3, <1>6, OthersTaken
<1>9. \A x : Caught(x)' <=> Caught(x)
    BY <1>1, <1>6 DEF Caught
<1>10. Taken(t)'
    <2> HIDE DEF Caught
    <2> QED
        BY <1>1, <1>2, <1>3, <1>9 DEF Taken, At
<1> QED
    BY <1>7, <1>8, <1>10 DEF AInv

\* The gate accepts a revision of the graph that the session runs.
LEMMA AcceptsOnSession ==
    ASSUME IInv, RInv, AInv, NEW t \in Threads, CommitPopulation(t), gate' # gate
    PROVE  /\ calls[t].tx \in claims /\ calls[t].tx \in Transactions
           /\ ~Complete(calls[t].tx)
           /\ gate = Base(calls[t].tx) /\ session = gate /\ gate' = calls[t].tx
<1> DEFINE tx == calls[t].tx
<1>1. /\ calls[t].pc = "population" /\ ~At(t, "idle")
      /\ gate = Base(tx) /\ gate' = tx
    BY DEF CommitPopulation, At
<1>2. tx \in claims /\ tx \in Transactions /\ Taken(t)
    BY <1>1, CallFields DEF Holds, Working, AInv
<1>3. ~Complete(tx)
    <2> SUFFICES ASSUME Complete(tx)
                 PROVE  FALSE
        OBVIOUS
    <2>1. head[tx] >= 2
        BY DEF Complete
    <2>2. IsPrefix(tx, gate)
        BY <1>2, <2>1 DEF IInv, Heads
    <2> QED
        BY <1>1, <1>2, <2>2, BaseIsBefore
<1>4. session \in Graphs /\ IsPrefix(session, gate)
    BY <1>1, <1>2 DEF Taken, IInv, SessionAccepted
<1>5. session \in {NoGraph, Base(tx), tx}
    <2>1. head[tx] < 3
        BY <1>2, <1>3, FollowFacts DEF Complete
    <2> QED
        BY <1>2, <2>1 DEF RInv, PendingRecoverable
<1>6. session # tx /\ session # NoGraph
    BY <1>1, <1>2, <1>4, BaseIsBefore, NoGraphIsNoGraph
<1> QED
    BY <1>1, <1>2, <1>3, <1>5, <1>6

LEMMA CommitPopulationTaken ==
    ASSUME IInv, RInv, AInv, NEW t \in Threads, CommitPopulation(t)
    PROVE  AInv'
<1> DEFINE tx == calls[t].tx
           c == [calls[t] EXCEPT !.pc = "commit"]
<1>1. /\ UNCHANGED <<claims, head, session, sessionLock>>
      /\ calls[t].pc = "population" /\ ~At(t, "idle") /\ Set(t, c)
    BY DEF CommitPopulation, At, Goto, journal
<1>2. /\ c.pc = "commit" /\ c.found = calls[t].found /\ c.tx = tx /\ c.seen = calls[t].seen
      /\ Taken(t)
    BY <1>1, CallFields DEF Calls, AInv
<1> HIDE DEF c
<1>3. calls'[t] = c /\ \A u \in Threads \ {t} : calls'[u] = calls[u]
    BY <1>1, SetOne
<1>4. \A x : Complete(x)' <=> Complete(x)
    BY <1>1 DEF Complete
<1>5. Newest'
    <2>1. CASE gate' = gate
        BY <1>1, <1>4, <2>1, NewestStays DEF AInv
    <2>2. CASE gate' # gate
        <3>1. tx \in claims /\ ~Complete(tx) /\ gate' = tx
            BY <2>2, AcceptsOnSession
        <3>2. \A x \in claims : ~Complete(x) => x = tx
            BY <3>1 DEF RInv, Pending
        <3> QED
            BY <1>1, <1>4, <3>1, <3>2 DEF Newest
    <2> QED
        BY <2>1, <2>2
<1>6. \A u \in Threads \ {t} : Taken(u)'
    BY <1>1, <1>3, <1>4, OthersTaken
<1>7. \A x : Caught(x)' <=> Caught(x)
    BY <1>1, <1>4 DEF Caught
<1>8. Revising(t)' <=> Revising(t)
    BY <1>1 DEF Revising
<1>9. Taken(t)'
    <2> HIDE DEF Caught
    <2> QED
        BY <1>1, <1>2, <1>3, <1>7, <1>8 DEF Taken, At
<1> QED
    BY <1>5, <1>6, <1>9 DEF AInv

\* What becomes complete is the session's; it was finished.
LEMMA PublishHeadTaken ==
    ASSUME IInv, RInv, AInv, NEW t \in Threads, PublishHead(t)
    PROVE  AInv'
<1> DEFINE tx == calls[t].tx
           c == [calls[t] EXCEPT !.pc = calls[t].after, !.seen = calls[t].next,
                                 !.found = IF calls[t].after = "discover"
                                           THEN @ \cup {<<calls[t].tx, 1>>} ELSE @]
<1>1. /\ UNCHANGED <<claims, gate, session, sessionLock>>
      /\ calls[t].pc = "publish" /\ ~At(t, "idle")
      /\ head' = [head EXCEPT ![tx] = calls[t].next]
      /\ Set(t, c)
    BY DEF PublishHead, At
<1>2. /\ calls[t] \in Calls /\ Follows(t) /\ Revises(t) /\ Taken(t) /\ Publishes(calls[t])
      /\ tx \in Transactions /\ claims \subseteq Transactions /\ head \in [Transactions -> 0..3]
    BY <1>1, CallFields, FollowFacts DEF Working, AInv, IInv, TypeOK
<1>3. /\ c.pc = calls[t].after /\ c.tx = tx
      /\ c.found = IF calls[t].after = "discover" THEN calls[t].found \cup {<<tx, 1>>}
                   ELSE calls[t].found
      /\ calls[t].after \in {"discover", "population", "reload", "install", "done"}
    BY <1>2 DEF Calls
<1> HIDE DEF c
<1>4. calls'[t] = c /\ \A u \in Threads \ {t} : calls'[u] = calls[u]
    BY <1>1, SetOne
<1>5. /\ \A x \in Transactions \ {tx} : head'[x] = head[x]
      /\ head'[tx] = calls[t].next /\ calls[t].next = head[tx] + 1
    BY <1>1, <1>2 DEF Publishes
<1>6. calls[t].next = 3 => calls[t].after = "done" /\ session \in Graphs /\ IsPrefix(tx, session)
    BY <1>1, <1>2 DEF Follows, Finishing, At
<1>7. calls[t].next \in 0..3
    <2>1. calls[t] \in Calls
        BY <1>2
    <2> QED
        BY <2>1 DEF Calls
<1>8. \A x \in Transactions :
          Complete(x)' => Complete(x) \/ (session \in Graphs => IsPrefix(x, session))
    BY <1>5, <1>6 DEF Complete
<1>9. \A x \in Transactions : Caught(x) => Caught(x)'
    BY <1>1, <1>8, CaughtStays
<1>10. \A u \in Threads \ {t} : Taken(u)'
    BY <1>1, <1>4, <1>8, OthersTaken
<1>11. \A x : x = tx /\ calls[t].after # "done" => Caught(x)'
    BY <1>5, <1>6 DEF Caught, Complete
<1>12. c.pc = "population" => session' \in Graphs
    BY <1>1, <1>2, <1>3 DEF Revises, Follows
<1>13. \A f \in calls[t].found : f[1] \in Transactions
    BY <1>2, CallFields DEF Holds
<1>14. Taken(t)'
    <2> HIDE DEF Caught
    <2>1. \A f \in c.found : Caught(f[1])'
        BY <1>1, <1>2, <1>3, <1>9, <1>11, <1>13 DEF Taken
    <2> QED
        BY <1>3, <1>4, <1>11, <1>12, <2>1 DEF Taken, At
<1>15. Newest'
    <2>1. \A x \in claims : Complete(x) => Complete(x)'
        BY <1>2, <1>5, <1>7 DEF Complete
    <2> QED
        BY <1>1, <2>1, NewestStays DEF AInv
<1> QED
    BY <1>10, <1>14, <1>15 DEF AInv

LEMMA InitTaken ==
    ASSUME Init
    PROVE  AInv
<1>1. claims = {} /\ \A t \in Threads : calls[t] = Idle
    BY Zenon DEF Init
<1> QED
    BY <1>1, IdleCall DEF AInv, Newest, Taken, At

LEMMA NextTaken ==
    ASSUME IInv, RInv, AInv, [Next]_vars
    PROVE  AInv'
<1>1. CASE Turn \/ Boot \/ Crash
    BY <1>1, BeginTaken
<1>2. ASSUME NEW t \in Threads, Proceed(t) \/ Fault(t)
      PROVE  AInv'
    <2>1. CASE \/ EnsureRaises(t) \/ InstallRaises(t) \/ ProposeRefused(t) \/ ClaimRefused(t)
               \/ PopulationStale(t) \/ AdvanceRaises(t) \/ Fault(t)
        BY <2>1, RaisingTaken
    <2>2. CASE Materialize(t) \/ Ensure(t) \/ Recovered(t) \/ Reload(t)
        BY <2>2, MaterializeTaken, EnsureTaken, RecoveredTaken, ReloadTaken
    <2>3. CASE Install(t) \/ Switch(t)
        BY <2>3, InstallTaken
    <2>4. CASE Propose(t) \/ Claim(t) \/ Prepare(t)
        BY <2>4, ProposeTaken, ClaimTaken, PrepareTaken
    <2>5. CASE CommitPopulation(t) \/ PublishHead(t) \/ Done(t)
        BY <2>5, CommitPopulationTaken, PublishHeadTaken, DoneTaken
    <2>6. CASE PopulationCommitted(t) \/ ExecutionCommitted(t)
        BY <2>6, AdvanceTaken
    <2> QED
        BY <1>2, <2>1, <2>2, <2>3, <2>4, <2>5, <2>6 DEF Proceed, Recover, Revise, Commit
<1>3. CASE UNCHANGED vars
    <2>1. UNCHANGED <<claims, head, gate, session, sessionLock, calls>>
        BY <1>3 DEF vars, journal
    <2> QED
        BY <2>1 DEF AInv, Newest, Taken, Caught, Complete, Revising, At
<1> QED
    BY <1>1, <1>2, <1>3 DEF Next

LEMMA AcceptanceInvariant == Spec => [](IInv /\ RInv /\ AInv)
<1>1. Init => AInv
    BY InitTaken
<1>2. IInv /\ RInv /\ AInv /\ [Next]_vars => AInv'
    BY NextTaken
<1> QED
    BY <1>1, <1>2, RecoveryInvariant, PTL DEF Spec

-------------------------------------------------------------------------------
(* The refinement *)

\* A transaction is its base and one proposal more.
LEMMA LastRevision ==
    ASSUME NEW tx \in Transactions
    PROVE  /\ Len(Base(tx)) < MaxRevisions
           /\ \E p \in Proposals \ ToSet(Base(tx)) : tx = Append(Base(tx), p)
<1> DEFINE n == Len(tx)
           p == tx[n]
<1>1. /\ tx \in Graphs /\ n \in Nat /\ n # 0 /\ Base(tx) \in Graphs /\ Len(Base(tx)) = n - 1
      /\ \A i \in 1..(n - 1) : Base(tx)[i] = tx[i]
    BY BaseOfTransaction, TransactionLength
<1>2. /\ tx \in Seq(Proposals) /\ n <= MaxRevisions /\ IsInjective(tx)
      /\ Base(tx) \in Seq(Proposals) /\ MaxRevisions \in Nat
    BY <1>1, GraphIsSequence, GraphRevisionConstants
<1>3. p \in Proposals
    BY <1>1, <1>2, ElementOfSeq
<1>4. /\ Append(Base(tx), p) \in Seq(Proposals) /\ Len(Append(Base(tx), p)) = n
      /\ \A i \in 1..(n - 1) : Append(Base(tx), p)[i] = Base(tx)[i]
      /\ Append(Base(tx), p)[n] = p
    BY <1>1, <1>2, <1>3, AppendProperties
<1>5. tx = Append(Base(tx), p)
    <2>1. \A i \in 1..n : Append(Base(tx), p)[i] = tx[i]
        BY <1>1, <1>4
    <2> QED
        BY <1>2, <1>4, <2>1, SeqEqual
<1>6. p \notin ToSet(Base(tx))
    <2> SUFFICES ASSUME NEW i \in DOMAIN Base(tx), Base(tx)[i] = p
                 PROVE  FALSE
        BY DEF ToSet
    <2>1. DOMAIN Base(tx) = 1..(n - 1) /\ DOMAIN tx = 1..n
        BY <1>1, <1>2, LenProperties
    <2>2. i \in 1..n /\ n \in 1..n /\ i # n /\ tx[i] = tx[n]
        BY <1>1, <2>1
    <2> QED
        BY <1>2, <2>1, <2>2 DEF IsInjective
<1>7. Len(Base(tx)) < MaxRevisions
    BY <1>1, <1>2
<1> QED
    BY <1>3, <1>5, <1>6, <1>7

\* Each step is one of the abstract log, or changes neither gate nor session.
LEMMA RefinementStep ==
    ASSUME IInv, RInv, AInv, [Next]_vars
    PROVE  [Log!Next]_(Log!logVars)
<1>1. CASE UNCHANGED <<gate, session>>
    BY <1>1 DEF Log!logVars
<1>2. CASE UNCHANGED gate /\ session' = NoGraph
    BY <1>2 DEF Log!Next, Log!Lose
<1>3. CASE Turn \/ Boot \/ Crash \/ UNCHANGED vars
    BY <1>1, <1>2, <1>3 DEF Turn, Boot, Crash, vars
<1>4. ASSUME NEW t \in Threads, Proceed(t) \/ Fault(t)
      PROVE  [Log!Next]_(Log!logVars)
    <2>1. CASE CommitPopulation(t)
        <3>1. CASE gate' = gate
            BY <1>1, <2>1, <3>1 DEF CommitPopulation
        <3>2. CASE gate' # gate
            <4> DEFINE tx == calls[t].tx
            <4>1. /\ tx \in Transactions /\ gate = Base(tx) /\ session = gate
                  /\ gate' = tx /\ session' = session
                BY <2>1, <3>2, AcceptsOnSession DEF CommitPopulation
            <4>2. PICK p \in Proposals \ ToSet(gate) : gate' = Append(gate, p)
                BY <4>1, LastRevision
            <4>3. Len(gate) < MaxRevisions
                BY <4>1, LastRevision
            <4>4. Log!Accept
                BY <4>1, <4>2, <4>3 DEF Log!Accept, Log!ToSet, ToSet
            <4> QED
                BY <4>4 DEF Log!Next
        <3> QED
            BY <3>1, <3>2
    <2>2. CASE Install(t) \/ Switch(t)
        <3> DEFINE tx == calls[t].tx
        <3>1. UNCHANGED gate /\ session' = tx /\ calls[t].pc = "install"
            BY <2>2 DEF Install, Switch, At
        <3>2. CASE session = tx
            BY <1>1, <3>1, <3>2
        <3>3. CASE session # tx
            <4>1. session = Base(tx) /\ gate = tx
                BY <2>2, <3>3, InstallsNewest
            <4>2. tx \in Transactions
                BY <3>1, CallFields DEF Working
            <4>3. session # NoGraph /\ gate # <<>>
                BY <4>1, <4>2, BaseIsBefore, NoGraphIsNoGraph DEF Transactions
            <4>4. Log!Follow
                BY <3>1, <4>1, <4>3 DEF Log!Follow, Log!Front, Front, Base
            <4> QED
                BY <4>4 DEF Log!Next
        <3> QED
            BY <3>2, <3>3
    <2>3. CASE Ensure(t)
        <3>1. PICK f \in calls[t].found :
                  session' = IF session = NoGraph THEN Base(f[1]) ELSE session
            BY <2>3 DEF Ensure
        <3>2. calls[t].pc = "discover" /\ UNCHANGED gate /\ ~At(t, "idle")
            BY <2>3 DEF Ensure, Discovered, At
        <3>3. CASE session # NoGraph
            BY <1>1, <3>1, <3>2, <3>3
        <3>4. CASE session = NoGraph
            <4>1. f[1] \in claims /\ f[1] \in Transactions /\ Follows(t) /\ Looks(t)
                BY <3>1, <3>2, CallFields, FollowFacts DEF Holds
            <4>2. ~Complete(f[1])
                BY <3>1, <3>2, <3>4, <4>1, NoGraphIsNoGraph DEF Follows, Looks
            <4>3. gate \in {f[1], Base(f[1])}
                BY <4>1, <4>2 DEF AInv, Newest
            <4>4. f[1] # <<>>
                BY <4>1 DEF Transactions
            <4>5. session' = gate \/ (gate # <<>> /\ session' = Front(gate))
                BY <3>1, <3>4, <4>3, <4>4 DEF Base
            <4>6. Log!Resume
                BY <3>2, <3>4, <4>5 DEF Log!Resume, Log!Front, Front
            <4> QED
                BY <4>6 DEF Log!Next
        <3> QED
            BY <3>3, <3>4
    <2>4. CASE Recovered(t)
        <3>1. UNCHANGED gate /\ (session' = session \/ (session = NoGraph /\ session' = <<>>))
            BY <2>4 DEF Recovered
        <3>2. CASE session' = session
            BY <1>1, <3>1, <3>2
        <3>3. CASE session = NoGraph /\ session' = <<>>
            <4>1. Log!Resume
                BY <3>1, <3>3 DEF Log!Resume, Log!Front, Front
            <4> QED
                BY <4>1 DEF Log!Next
        <3> QED
            BY <3>1, <3>2, <3>3
    <2>5. CASE \/ EnsureRaises(t) \/ InstallRaises(t) \/ ProposeRefused(t) \/ ClaimRefused(t)
               \/ PopulationStale(t) \/ AdvanceRaises(t) \/ Fault(t)
        <3>1. UNCHANGED gate /\ session' \in {session, NoGraph}
            BY <2>5 DEF EnsureRaises, InstallRaises, ProposeRefused, ClaimRefused,
               PopulationStale, AdvanceRaises, Fault, Break
        <3> QED
            BY <1>1, <1>2, <3>1
    <2>6. CASE \/ Materialize(t) \/ Reload(t) \/ Propose(t) \/ Claim(t) \/ Prepare(t)
               \/ PopulationCommitted(t) \/ ExecutionCommitted(t) \/ PublishHead(t) \/ Done(t)
        BY <1>1, <2>6 DEF Materialize, Reload, Propose, Claim, Prepare, PopulationCommitted,
           ExecutionCommitted, Advance, PublishHead, Done
    <2> QED
        BY <1>4, <2>1, <2>2, <2>3, <2>4, <2>5, <2>6 DEF Proceed, Recover, Revise, Commit
<1> QED
    BY <1>3, <1>4 DEF Next

\* revise_graph accepts one revision at a time, on top of the graph the session
\* runs and for a trigger of its own; and what _ensure_graph_revision_base_session
\* rebuilds after a crash is at most one revision behind.
THEOREM Refinement == Spec => ImplementsRevisionLog
<1>1. Init => Log!Init
    BY DEF Init, Log!Init
<1>2. IInv /\ RInv /\ AInv /\ [Next]_vars => [Log!Next]_(Log!logVars)
    BY RefinementStep
<1> QED
    BY <1>1, <1>2, AcceptanceInvariant, PTL DEF Spec, ImplementsRevisionLog, Log!Spec

-------------------------------------------------------------------------------
(* Calls come nearer to their end *)

\* the call is between the record and the head of a claim it has read
Materializing(c) == c.pc = "publish" /\ c.after = "discover"

\* the order of the places of a call that handles one revision
Place(c) ==
    IF c.pc = "claim" THEN 13
    ELSE IF c.pc = "prepare" THEN 12
    ELSE IF c.pc = "publish" /\ c.after = "population" THEN 11
    ELSE IF c.pc = "population" THEN 10
    ELSE IF c.pc = "commit" THEN 9
    ELSE IF c.pc = "publish" /\ c.after \in {"reload", "install"} THEN 8
    ELSE IF c.pc = "reload" THEN 7
    ELSE IF c.pc = "install" THEN 6
    ELSE IF c.pc = "finish" THEN 5
    ELSE IF c.pc = "publish" /\ c.after = "done" THEN 4
    ELSE IF c.pc = "done" THEN 3
    ELSE IF c.pc = "discover" THEN 2
    ELSE 1

\* A call ends, or takes session.lock, which it does once, or reads one more
\* claim, or has materialised it, or takes up one more pending revision, or is
\* further on with the one it handles.
Nearer(t) ==
    LET c == calls[t]  d == calls'[t] IN
    \/ d = Idle
    \/ ~Revising(t) /\ Revising(t)'
    \/ /\ Revising(t)' <=> Revising(t)
       /\ \/ d.todo \subseteq c.todo /\ d.todo # c.todo
          \/ /\ d.todo = c.todo
             /\ \/ Materializing(c) /\ ~Materializing(d)
                \/ /\ ~Materializing(c) /\ ~Materializing(d)
                   /\ \/ d.found \subseteq c.found /\ d.found # c.found
                      \/ d.found = c.found /\ Place(d) < Place(c)

\* A call that has begun only comes nearer to its end, whatever it and the other
\* calls find in the journal, the gate and the session.
CallsAdvance ==
    \A t \in Threads : calls'[t] # calls[t] => At(t, "idle") \/ Nearer(t)

\* A step that sets one call.
LEMMA OnlyOne ==
    ASSUME TypeOK, NEW t \in Threads, NEW c, Set(t, c)
    PROVE  calls'[t] = c /\ \A u \in Threads \ {t} : calls'[u] = calls[u]
    BY DEF TypeOK, Set

\* The call is further on with the revision it handles.
LEMMA FurtherOn ==
    ASSUME TypeOK, NEW t \in Threads, NEW c, Set(t, c), UNCHANGED sessionLock,
           c.todo = calls[t].todo, c.found = calls[t].found,
           ~Materializing(calls[t]), ~Materializing(c),
           Place(c) < Place(calls[t])
    PROVE  Nearer(t)
<1>1. calls'[t] = c /\ (Revising(t)' <=> Revising(t))
    BY OnlyOne DEF Revising
<1> QED
    BY <1>1 DEF Nearer

\* A call that ends.
LEMMA EndsNearer ==
    ASSUME TypeOK, NEW t \in Threads, Set(t, Idle)
    PROVE  Nearer(t)
    BY OnlyOne DEF Nearer

\* Recovery: reading claims and taking up what is pending.
LEMMA DiscoverNearer ==
    ASSUME TypeOK, NEW t \in Threads, Materialize(t) \/ Ensure(t) \/ Recovered(t)
    PROVE  Nearer(t)
<1>1. /\ calls[t] \in Calls /\ calls[t].pc = "discover" /\ UNCHANGED sessionLock
      /\ Revising(t)' <=> Revising(t)
      /\ ~Materializing(calls[t])
    BY DEF TypeOK, Materialize, Ensure, Recovered, Discovered, At, Revising, Materializing
<1>2. CASE Materialize(t)
    <2>1. PICK tx \in calls[t].todo :
              \/ Set(t, [calls[t] EXCEPT !.todo = @ \ {tx}, !.pc = "publish", !.tx = tx,
                                         !.next = 1, !.after = "discover"])
              \/ Set(t, [calls[t] EXCEPT !.todo = @ \ {tx},
                         !.found = IF head[tx] < 3 THEN @ \cup {<<tx, head[tx]>>} ELSE @])
        BY <1>2 DEF Materialize
    <2> DEFINE c == [calls[t] EXCEPT !.todo = @ \ {tx}, !.pc = "publish", !.tx = tx,
                                     !.next = 1, !.after = "discover"]
               d == [calls[t] EXCEPT !.todo = @ \ {tx},
                     !.found = IF head[tx] < 3 THEN @ \cup {<<tx, head[tx]>>} ELSE @]
    <2>2. c.todo = calls[t].todo \ {tx} /\ d.todo = calls[t].todo \ {tx}
        BY <1>1 DEF Calls
    <2>3. Set(t, c) \/ Set(t, d)
        BY <2>1
    <2> HIDE DEF c, d
    <2>4. calls'[t].todo = calls[t].todo \ {tx}
        BY <2>2, <2>3, OnlyOne
    <2> QED
        BY <1>1, <2>1, <2>4 DEF Nearer
<1>3. CASE Ensure(t)
    <2>1. PICK f \in calls[t].found :
              Set(t, [calls[t] EXCEPT !.found = @ \ {f}, !.tx = f[1], !.seen = f[2],
                                      !.pc = IF f[2] = 1 THEN "population" ELSE "install"])
        BY <1>3 DEF Ensure
    <2> DEFINE c == [calls[t] EXCEPT !.found = @ \ {f}, !.tx = f[1], !.seen = f[2],
                                     !.pc = IF f[2] = 1 THEN "population" ELSE "install"]
    <2>2. c.pc # "publish" /\ c.todo = calls[t].todo /\ c.found = calls[t].found \ {f}
        BY <1>1 DEF Calls
    <2>3. Set(t, c)
        BY <2>1
    <2> HIDE DEF c
    <2>4. calls'[t] = c /\ ~Materializing(c)
        BY <2>2, <2>3, OnlyOne DEF Materializing
    <2> QED
        BY <1>1, <2>1, <2>2, <2>4 DEF Nearer
<1>4. CASE Recovered(t)
    <2>1. CASE Set(t, Idle)
        BY <2>1, EndsNearer
    <2>2. CASE Goto(t, "propose")
        <3> DEFINE c == [calls[t] EXCEPT !.pc = "propose"]
        <3>1. c.pc = "propose" /\ c.todo = calls[t].todo /\ c.found = calls[t].found
            BY <1>1 DEF Calls
        <3>2. Set(t, c)
            BY <2>2 DEF Goto
        <3> HIDE DEF c
        <3>3. Place(c) < Place(calls[t]) /\ ~Materializing(c)
            BY <1>1, <3>1 DEF Place, Materializing
        <3> QED
            BY <1>1, <3>1, <3>2, <3>3, FurtherOn
    <2> QED
        BY <1>4, <2>1, <2>2 DEF Recovered
<1> QED
    BY <1>2, <1>3, <1>4

\* The head file follows its record.
LEMMA PublishHeadNearer ==
    ASSUME TypeOK, NEW t \in Threads, PublishHead(t)
    PROVE  Nearer(t)
<1>1. /\ calls[t] \in Calls /\ calls[t].pc = "publish" /\ UNCHANGED sessionLock
      /\ Revising(t)' <=> Revising(t)
    BY DEF TypeOK, PublishHead, At, Revising
<1>2. calls[t].after \in {"discover", "population", "reload", "install", "done"}
    BY <1>1 DEF Calls
<1> DEFINE c == [calls[t] EXCEPT !.pc = calls[t].after, !.seen = calls[t].next,
                                 !.found = IF calls[t].after = "discover"
                                           THEN @ \cup {<<calls[t].tx, 1>>} ELSE @]
<1>3. /\ c.pc = calls[t].after /\ c.todo = calls[t].todo
      /\ calls[t].after # "discover" => c.found = calls[t].found
    BY <1>1 DEF Calls
<1>4. Set(t, c)
    BY DEF PublishHead
<1> HIDE DEF c
<1>5. ~Materializing(c)
    BY <1>2, <1>3 DEF Materializing
<1>6. CASE calls[t].after = "discover"
    <2>1. calls'[t] = c /\ Materializing(calls[t])
        BY <1>1, <1>4, <1>6, OnlyOne DEF Materializing
    <2> QED
        BY <1>1, <1>3, <1>5, <2>1 DEF Nearer
<1>7. CASE calls[t].after # "discover"
    <2>1. Place(c) < Place(calls[t]) /\ ~Materializing(calls[t])
        BY <1>1, <1>2, <1>3, <1>7 DEF Place, Materializing
    <2> QED
        BY <1>1, <1>3, <1>4, <1>5, <1>7, <2>1, FurtherOn
<1> QED
    BY <1>6, <1>7

\* The steps that only move the call on.
LEMMA MoveNearer ==
    ASSUME TypeOK, NEW t \in Threads, NEW pc \in {"finish", "prepare", "commit"}, Goto(t, pc),
           UNCHANGED sessionLock, <<calls[t].pc, pc>> \in {<<"install", "finish">>,
              <<"claim", "prepare">>, <<"population", "commit">>}
    PROVE  Nearer(t)
<1>1. calls[t] \in Calls /\ calls[t].pc # "publish"
    BY DEF TypeOK
<1> DEFINE c == [calls[t] EXCEPT !.pc = pc]
<1>2. c.pc = pc /\ c.todo = calls[t].todo /\ c.found = calls[t].found
    BY <1>1 DEF Calls
<1>3. Set(t, c)
    BY DEF Goto
<1> HIDE DEF c
<1>4. Place(c) < Place(calls[t])
    BY <1>2 DEF Place
<1> QED
    BY <1>1, <1>2, <1>3, <1>4, FurtherOn DEF Materializing

\* A proposal takes session.lock.
LEMMA ProposeNearer ==
    ASSUME NEW t \in Threads, Propose(t)
    PROVE  Nearer(t)
<1>1. sessionLock = NoThread /\ sessionLock' = t /\ t # NoThread
    BY DEF Propose, Threads, NoThread
<1> QED
    BY <1>1 DEF Nearer, Revising

\* What the steps of the journal do to the call.
LEMMA EntryNearer ==
    ASSUME TypeOK, NEW t \in Threads, NEW target, NEW pc, NEW after,
           <<pc, target, after>> \in {<<"commit", 2, "install">>, <<"commit", 2, "reload">>,
                                      <<"finish", 3, "done">>},
           Advance(t, pc, target, after)
    PROVE  Nearer(t)
<1>1. /\ calls[t] \in Calls /\ calls[t].pc = pc /\ UNCHANGED sessionLock
      /\ ~Materializing(calls[t])
    BY DEF TypeOK, Advance, At, Materializing
<1> DEFINE c == [calls[t] EXCEPT !.pc = after, !.seen = head[calls[t].tx]]
           d == [calls[t] EXCEPT !.pc = "publish", !.tx = calls[t].tx, !.next = target,
                                 !.after = after]
<1>2. /\ c.pc = after /\ c.todo = calls[t].todo /\ c.found = calls[t].found
      /\ d.pc = "publish" /\ d.after = after
      /\ d.todo = calls[t].todo /\ d.found = calls[t].found
    BY <1>1 DEF Calls
<1>3. Set(t, c) \/ Set(t, d)
    BY DEF Advance, PublishRecord
<1> HIDE DEF c, d
<1>4. Place(c) < Place(calls[t]) /\ ~Materializing(c)
    BY <1>1, <1>2 DEF Place, Materializing
<1>5. Place(d) < Place(calls[t]) /\ ~Materializing(d)
    BY <1>1, <1>2 DEF Place, Materializing
<1> QED
    BY <1>1, <1>2, <1>3, <1>4, <1>5, FurtherOn

\* The rest of prepare.
LEMMA PrepareNearer ==
    ASSUME TypeOK, NEW t \in Threads, Prepare(t)
    PROVE  Nearer(t)
<1>1. /\ calls[t] \in Calls /\ calls[t].pc = "prepare" /\ UNCHANGED sessionLock
      /\ ~Materializing(calls[t])
    BY DEF TypeOK, Prepare, At, Materializing
<1> DEFINE c == [calls[t] EXCEPT !.seen = head[calls[t].tx], !.pc = "population"]
           d == [calls[t] EXCEPT !.pc = "publish", !.tx = calls[t].tx, !.next = 1,
                                 !.after = "population"]
<1>2. /\ c.pc = "population" /\ c.todo = calls[t].todo /\ c.found = calls[t].found
      /\ d.pc = "publish" /\ d.after = "population"
      /\ d.todo = calls[t].todo /\ d.found = calls[t].found
    BY <1>1 DEF Calls
<1>3. Set(t, c) \/ Set(t, d)
    BY DEF Prepare, PublishRecord
<1> HIDE DEF c, d
<1>4. /\ Place(c) < Place(calls[t]) /\ ~Materializing(c)
      /\ Place(d) < Place(calls[t]) /\ ~Materializing(d)
    BY <1>1, <1>2 DEF Place, Materializing
<1> QED
    BY <1>1, <1>2, <1>3, <1>4, FurtherOn

\* load_recovery after the population is committed.
LEMMA ReloadNearer ==
    ASSUME TypeOK, NEW t \in Threads, Reload(t)
    PROVE  Nearer(t)
<1>1. /\ calls[t] \in Calls /\ calls[t].pc = "reload" /\ UNCHANGED sessionLock
      /\ ~Materializing(calls[t])
    BY DEF TypeOK, Reload, At, Materializing
<1> DEFINE c == [calls[t] EXCEPT !.seen = head[calls[t].tx],
                      !.pc = IF head[calls[t].tx] = 2 THEN "install" ELSE "discover"]
<1>2. /\ c.pc \in {"install", "discover"} /\ c.todo = calls[t].todo
      /\ c.found = calls[t].found
    BY <1>1 DEF Calls
<1>3. Set(t, c)
    BY DEF Reload
<1> HIDE DEF c
<1>4. Place(c) < Place(calls[t]) /\ ~Materializing(c)
    BY <1>1, <1>2 DEF Place, Materializing
<1> QED
    BY <1>1, <1>2, <1>3, <1>4, FurtherOn

\* A revision is complete.
LEMMA DoneNearer ==
    ASSUME TypeOK, NEW t \in Threads, Done(t)
    PROVE  Nearer(t)
<1>1. CASE Revising(t)
    BY <1>1, EndsNearer DEF Done, Return
<1>2. CASE ~Revising(t)
    <2>1. /\ calls[t] \in Calls /\ calls[t].pc = "done" /\ UNCHANGED sessionLock
          /\ ~Materializing(calls[t])
        BY <1>2 DEF TypeOK, Done, At, Materializing
    <2> DEFINE c == [calls[t] EXCEPT !.pc = "discover", !.rolled = TRUE]
    <2>2. c.pc = "discover" /\ c.todo = calls[t].todo /\ c.found = calls[t].found
        BY <2>1 DEF Calls
    <2>3. Set(t, c)
        BY <1>2 DEF Done
    <2> HIDE DEF c
    <2>4. Place(c) < Place(calls[t]) /\ ~Materializing(c)
        BY <2>1, <2>2 DEF Place, Materializing
    <2> QED
        BY <2>1, <2>2, <2>3, <2>4, FurtherOn
<1> QED
    BY <1>1, <1>2

\* Every step of a call, and every fault of it, brings it nearer to its end.
LEMMA ProceedNearer ==
    ASSUME TypeOK, NEW t \in Threads, Proceed(t) \/ Fault(t)
    PROVE  Nearer(t)
<1>1. CASE \/ EnsureRaises(t) \/ InstallRaises(t) \/ ProposeRefused(t) \/ ClaimRefused(t)
           \/ PopulationStale(t) \/ AdvanceRaises(t) \/ Fault(t)
    BY <1>1, EndsNearer DEF EnsureRaises, InstallRaises, ProposeRefused, ClaimRefused,
       PopulationStale, AdvanceRaises, Fault, Break, Return
<1>2. CASE Materialize(t) \/ Ensure(t) \/ Recovered(t)
    BY <1>2, DiscoverNearer
<1>3. CASE Install(t) \/ Switch(t) \/ Claim(t) \/ CommitPopulation(t)
    BY <1>3, MoveNearer DEF Install, Switch, Claim, CommitPopulation, At
<1>4. CASE PopulationCommitted(t)
    BY <1>4, EntryNearer DEF PopulationCommitted
<1>5. CASE ExecutionCommitted(t)
    BY <1>5, EntryNearer DEF ExecutionCommitted
<1>6. CASE Reload(t) \/ Propose(t) \/ Prepare(t) \/ PublishHead(t) \/ Done(t)
    BY <1>6, ReloadNearer, ProposeNearer, PrepareNearer, PublishHeadNearer, DoneNearer
<1> QED
    BY <1>1, <1>2, <1>3, <1>4, <1>5, <1>6 DEF Proceed, Recover, Revise, Commit

\* And it sets no other call.
LEMMA ProceedAlone ==
    ASSUME TypeOK, NEW t \in Threads, Proceed(t) \/ Fault(t)
    PROVE  \A u \in Threads \ {t} : calls'[u] = calls[u]
<1>1. \E c : Set(t, c)
    <2>1. CASE Recover(t)
        BY <2>1 DEF Recover, Materialize, Ensure, EnsureRaises, Recovered, Reload, Install,
           InstallRaises, Break, Return, Goto
    <2>2. CASE Revise(t)
        BY <2>2 DEF Revise, Propose, ProposeRefused, Claim, ClaimRefused, Prepare, Switch,
           PublishRecord, Return, Goto
    <2>3. CASE Commit(t)
        BY <2>3 DEF Commit, CommitPopulation, PopulationStale, PopulationCommitted,
           ExecutionCommitted, Advance, AdvanceRaises, PublishHead, Done, PublishRecord, Break,
           Return, Goto
    <2>4. CASE Fault(t)
        BY <2>4 DEF Fault, Break, Return
    <2> QED
        BY <2>1, <2>2, <2>3, <2>4 DEF Proceed
<1> QED
    BY <1>1, OnlyOne

\* Why revisions and recoveries return, for any number of calls, claims and
\* revisions: a call reads each claim once, rolls each pending revision forward
\* once and proposes once, and no other call, no fault and no conflict makes it
\* begin again.
THEOREM CallsComeNearer == Spec => [][CallsAdvance]_vars
<1>1. TypeOK /\ [Next]_vars => [CallsAdvance]_vars
    <2> SUFFICES ASSUME TypeOK, Next PROVE CallsAdvance
        BY DEF CallsAdvance
    <2>1. CASE Turn \/ Boot
        <3>1. \A t \in Threads : At(t, "idle")
            BY <2>1 DEF Turn, Boot
        <3> QED
            BY <3>1 DEF CallsAdvance
    <2>2. CASE Crash
        BY <2>2 DEF Crash, CallsAdvance, Nearer
    <2>3. ASSUME NEW t \in Threads, Proceed(t) \/ Fault(t)
          PROVE  CallsAdvance
        BY <2>3, ProceedNearer, ProceedAlone DEF CallsAdvance
    <2> QED
        BY <2>1, <2>2, <2>3 DEF Next
<1> QED
    BY <1>1, TypeCorrect, PTL DEF Spec

-------------------------------------------------------------------------------
(* Calls never wait for each other in a circle *)

\* the call needs session.lock and another one holds it
WaitsForSession(t) ==
    /\ \/ Discovered(t) /\ calls[t].found # {}
       \/ At(t, "propose")
       \/ At(t, "install") /\ ~Revising(t)
    /\ sessionLock # NoThread

\* the call needs the lock of a journal entry and another one holds it
WaitsForEntry(t) ==
    \/ /\ At(t, "discover")
       /\ calls[t].todo # {}
       /\ \A tx \in calls[t].todo : ~Unlocked(tx)
    \/ /\ \/ At(t, "prepare") \/ At(t, "commit") \/ At(t, "reload") \/ At(t, "finish")
       /\ ~Unlocked(calls[t].tx)

\* While calls are under way, one of them waits for no lock.
SomeCallGoesOn ==
    (\E t \in Threads : ~At(t, "idle")) =>
        \E t \in Threads : /\ ~At(t, "idle")
                           /\ ~WaitsForSession(t) /\ ~WaitsForEntry(t)

\* session.lock and the locks of entries are taken in this order and nobody asks
\* for session.lock twice: who is between record and head waits for nothing, and
\* the holder of session.lock only for such a call.
THEOREM NoDeadlock == Spec => []SomeCallGoesOn
<1>1. ASSUME IInv, RInv
      PROVE  SomeCallGoesOn
    <2> SUFFICES ASSUME NEW u \in Threads, ~At(u, "idle")
                 PROVE  \E t \in Threads : /\ ~At(t, "idle")
                                           /\ ~WaitsForSession(t) /\ ~WaitsForEntry(t)
        BY DEF SomeCallGoesOn
    <2>1. CASE \E t \in Threads : At(t, "publish")
        BY <2>1 DEF WaitsForSession, WaitsForEntry, At, Discovered
    <2>2. CASE ~\E t \in Threads : At(t, "publish")
        <3>1. \A t \in Threads : ~WaitsForEntry(t)
            BY <2>2 DEF WaitsForEntry, Unlocked
        <3>2. CASE sessionLock = NoThread
            BY <3>1, <3>2 DEF WaitsForSession
        <3>3. CASE sessionLock # NoThread
            <4>1. sessionLock \in Threads /\ Revising(sessionLock)
                BY <1>1, <3>3 DEF IInv, TypeOK, Revising
            <4>2. Follows(sessionLock)
                BY <1>1, <4>1 DEF RInv
            <4>3. ~At(sessionLock, "idle") /\ Revises(sessionLock)
                BY <4>1, <4>2 DEF Follows
            <4>4. ~WaitsForSession(sessionLock)
                BY <4>1, <4>3 DEF Revises, WaitsForSession, Discovered, At
            <4> QED
                BY <3>1, <4>1, <4>3, <4>4
        <3> QED
            BY <3>2, <3>3
    <2> QED
        BY <2>1, <2>2
<1> QED
    BY <1>1, RecoveryInvariant, PTL
===============================================================================
