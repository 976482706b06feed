------------------------- MODULE GraphRevisionProofs -------------------------
(***************************************************************************)
(* Proofs about GraphRevision, for any number of calls, proposals,         *)
(* revisions and faults.                                                   *)
(***************************************************************************)
EXTENDS GraphRevision, SequenceTheorems, TLAPS

-------------------------------------------------------------------------------
(* Graphs *)

\* A graph is a sequence of distinct proposals within the revision budget.
LEMMA GraphIsSequence ==
    \A g : g \in Graphs <=> g \in Seq(Proposals) /\ Len(g) <= MaxRevisions /\ IsInjective(g)
<1> SUFFICES ASSUME NEW g
             PROVE  g \in Graphs <=> /\ g \in Seq(Proposals)
                                     /\ Len(g) <= MaxRevisions
                                     /\ IsInjective(g)
    OBVIOUS
<1>m. MaxRevisions \in Nat
    BY GraphRevisionConstants
<1>1. ASSUME g \in Graphs
      PROVE  g \in Seq(Proposals) /\ Len(g) <= MaxRevisions /\ IsInjective(g)
    <2>1. PICK n \in 0..MaxRevisions : g \in [1..n -> Proposals]
        BY <1>1 DEF Graphs
    <2>2. n \in Nat /\ n <= MaxRevisions
        BY <1>m
    <2>3. g \in Seq(Proposals)
        BY <2>1, <2>2, SeqDef
    <2>4. Len(g) \in Nat /\ 1..Len(g) = 1..n
        BY <2>1, <2>3, LenProperties
    <2>5. Len(g) = n
        BY <2>2, <2>4
    <2> QED
        BY <1>1, <2>2, <2>3, <2>5 DEF Graphs
<1>2. ASSUME g \in Seq(Proposals), Len(g) <= MaxRevisions, IsInjective(g)
      PROVE  g \in Graphs
    <2>1. Len(g) \in Nat /\ g \in [1..Len(g) -> Proposals]
        BY <1>2, LenProperties
    <2>2. Len(g) \in 0..MaxRevisions
        BY <1>2, <2>1, <1>m
    <2> QED
        BY <1>2, <2>1, <2>2 DEF Graphs
<1> QED
    BY <1>1, <1>2

LEMMA GraphLength == \A g \in Graphs : Len(g) \in Nat /\ g \in Seq(Proposals)
    BY GraphIsSequence, LenProperties

LEMMA EmptyGraph == <<>> \in Graphs /\ Len(<<>>) = 0
<1>1. <<>> \in Seq(Proposals) /\ Len(<<>>) = 0
    BY EmptySeq
<1>2. DOMAIN <<>> = {}
    BY <1>1, LenProperties
<1>3. IsInjective(<<>>)
    BY <1>2, Zenon DEF IsInjective
<1>4. Len(<<>>) <= MaxRevisions
    BY <1>1, GraphRevisionConstants
<1> QED
    BY <1>1, <1>3, <1>4, GraphIsSequence, Zenon

\* IsPrefix, element by element.
LEMMA PrefixPointwise ==
    ASSUME NEW s \in Graphs, NEW g \in Graphs
    PROVE  IsPrefix(s, g) <=> Len(s) <= Len(g) /\ \A i \in 1..Len(s) : s[i] = g[i]
<1>1. Len(s) \in Nat /\ Len(g) \in Nat /\ s \in Seq(Proposals) /\ g \in Seq(Proposals)
    BY GraphLength
<1>2. SubSeq(s, 1, Len(s)) = s
    BY <1>1, SubSeqFull
<1>3. ASSUME Len(s) <= Len(g)
      PROVE  /\ SubSeq(g, 1, Len(s)) \in Seq(Proposals)
             /\ Len(SubSeq(g, 1, Len(s))) = Len(s)
             /\ \A i \in 1..Len(s) : SubSeq(g, 1, Len(s))[i] = g[i]
    <2>1. \A i \in 1..Len(s) : g[i] \in Proposals
        BY <1>1, <1>3, ElementOfSeq
    <2>2. /\ SubSeq(g, 1, Len(s)) \in Seq(Proposals)
          /\ Len(SubSeq(g, 1, Len(s))) = IF 1 <= Len(s) THEN Len(s) - 1 + 1 ELSE 0
          /\ \A i \in 1..(Len(s) - 1 + 1) : SubSeq(g, 1, Len(s))[i] = g[1 + i - 1]
        BY <1>1, <2>1, SubSeqProperties
    <2>3. /\ (IF 1 <= Len(s) THEN Len(s) - 1 + 1 ELSE 0) = Len(s)
          /\ Len(s) - 1 + 1 = Len(s)
          /\ \A i \in 1..Len(s) : 1 + i - 1 = i
        BY <1>1
    <2> QED
        BY <2>2, <2>3
<1>4. ASSUME IsPrefix(s, g)
      PROVE  Len(s) <= Len(g) /\ \A i \in 1..Len(s) : s[i] = g[i]
    BY <1>2, <1>3, <1>4 DEF IsPrefix
<1>5. ASSUME Len(s) <= Len(g), \A i \in 1..Len(s) : s[i] = g[i]
      PROVE  IsPrefix(s, g)
    <2>1. s = SubSeq(g, 1, Len(s))
        BY <1>1, <1>3, <1>5, SeqEqual
    <2> QED
        BY <1>2, <1>5, <2>1 DEF IsPrefix
<1> QED
    BY <1>4, <1>5

LEMMA PrefixOrder ==
    /\ \A g \in Graphs : IsPrefix(<<>>, g) /\ IsPrefix(g, g)
    /\ \A f, g, h \in Graphs : IsPrefix(f, g) /\ IsPrefix(g, h) => IsPrefix(f, h)
<1>1. \A g \in Graphs : IsPrefix(<<>>, g) /\ IsPrefix(g, g)
    BY PrefixPointwise, EmptyGraph, GraphLength
<1>2. ASSUME NEW f \in Graphs, NEW g \in Graphs, NEW h \in Graphs, IsPrefix(f, g), IsPrefix(g, h)
      PROVE  IsPrefix(f, h)
    <2>1. Len(f) \in Nat /\ Len(g) \in Nat /\ Len(h) \in Nat
        BY GraphLength
    <2>2. Len(f) <= Len(g) /\ \A i \in 1..Len(f) : f[i] = g[i]
        BY <1>2, PrefixPointwise
    <2>3. Len(g) <= Len(h) /\ \A i \in 1..Len(g) : g[i] = h[i]
        BY <1>2, PrefixPointwise
    <2>4. Len(f) <= Len(h) /\ \A i \in 1..Len(f) : f[i] = h[i]
        BY <2>1, <2>2, <2>3
    <2> QED
        BY <2>4, PrefixPointwise
<1> QED
    BY <1>1, <1>2

\* The first n revisions of a graph.
LEMMA FirstRevisions ==
    ASSUME NEW g \in Graphs, NEW n \in 0..Len(g)
    PROVE  /\ SubSeq(g, 1, n) \in Graphs
           /\ Len(SubSeq(g, 1, n)) = n
           /\ \A i \in 1..n : SubSeq(g, 1, n)[i] = g[i]
<1>1. Len(g) \in Nat /\ g \in Seq(Proposals) /\ Len(g) <= MaxRevisions /\ IsInjective(g)
    BY GraphIsSequence, GraphLength
<1>2. n \in Nat /\ n <= Len(g)
    BY <1>1
<1>3. \A i \in 1..n : g[i] \in Proposals
    BY <1>1, <1>2, ElementOfSeq
<1>4. /\ SubSeq(g, 1, n) \in Seq(Proposals)
      /\ Len(SubSeq(g, 1, n)) = IF 1 <= n THEN n - 1 + 1 ELSE 0
      /\ \A i \in 1..(n - 1 + 1) : SubSeq(g, 1, n)[i] = g[1 + i - 1]
    BY <1>2, <1>3, SubSeqProperties
<1>5. /\ (IF 1 <= n THEN n - 1 + 1 ELSE 0) = n
      /\ n - 1 + 1 = n
      /\ \A i \in 1..n : 1 + i - 1 = i
    BY <1>2
<1>6. Len(SubSeq(g, 1, n)) = n /\ \A i \in 1..n : SubSeq(g, 1, n)[i] = g[i]
    BY <1>4, <1>5
<1>7. DOMAIN SubSeq(g, 1, n) = 1..n /\ DOMAIN g = 1..Len(g)
    BY <1>1, <1>4, <1>6, LenProperties
<1>8. 1..n \subseteq 1..Len(g)
    BY <1>1, <1>2
<1>9. IsInjective(SubSeq(g, 1, n))
    BY <1>1, <1>6, <1>7, <1>8 DEF IsInjective
<1>10. n <= MaxRevisions
    BY <1>1, <1>2, GraphRevisionConstants
<1> QED
    BY <1>4, <1>6, <1>9, <1>10, GraphIsSequence

\* Two graphs of one length with the same revisions are one.
LEMMA SameRevisions ==
    ASSUME NEW f \in Graphs, NEW g \in Graphs,
           Len(f) = Len(g), \A i \in 1..Len(f) : f[i] = g[i]
    PROVE  f = g
    BY GraphLength, SeqEqual

LEMMA TransactionLength == \A tx \in Transactions : tx \in Graphs /\ Len(tx) \in Nat \ {0}
<1> SUFFICES ASSUME NEW tx \in Transactions
             PROVE  tx \in Graphs /\ Len(tx) \in Nat \ {0}
    OBVIOUS
<1>1. tx \in Graphs /\ tx # <<>> /\ tx \in Seq(Proposals)
    BY GraphLength DEF Transactions
<1> QED
    BY <1>1, EmptySeq

\* The base of a transaction is its graph without the last revision.
LEMMA BaseOfTransaction ==
    ASSUME NEW tx \in Transactions
    PROVE  /\ Base(tx) \in Graphs
           /\ Len(Base(tx)) = Len(tx) - 1
           /\ \A i \in 1..(Len(tx) - 1) : Base(tx)[i] = tx[i]
           /\ IsPrefix(Base(tx), tx)
<1>1. tx \in Graphs /\ Len(tx) \in Nat /\ Len(tx) # 0
    BY TransactionLength
<1>2. Len(tx) - 1 \in 0..Len(tx)
    BY <1>1
<1>3. Base(tx) = SubSeq(tx, 1, Len(tx) - 1)
    BY DEF Base, Front
<1>4. /\ Base(tx) \in Graphs
      /\ Len(Base(tx)) = Len(tx) - 1
      /\ \A i \in 1..(Len(tx) - 1) : Base(tx)[i] = tx[i]
    <2> DEFINE n == Len(tx) - 1
    <2>1. n \in 0..Len(tx) /\ Base(tx) = SubSeq(tx, 1, n)
        BY <1>2, <1>3
    <2> HIDE DEF n
    <2>2. /\ SubSeq(tx, 1, n) \in Graphs
          /\ Len(SubSeq(tx, 1, n)) = n
          /\ \A i \in 1..n : SubSeq(tx, 1, n)[i] = tx[i]
        BY <1>1, <2>1, FirstRevisions
    <2>3. Base(tx) \in Graphs /\ Len(Base(tx)) = n /\ \A i \in 1..n : Base(tx)[i] = tx[i]
        BY <2>1, <2>2
    <2> QED
        BY <2>3 DEF n
<1>5. IsPrefix(Base(tx), tx)
    BY <1>1, <1>2, <1>4, PrefixPointwise
<1> QED
    BY <1>4, <1>5

\* A fresh proposal within the budget makes a transaction on the graph.
LEMMA Extension ==
    ASSUME NEW g \in Graphs, Len(g) < MaxRevisions, NEW p \in Proposals, p \notin ToSet(g)
    PROVE  Append(g, p) \in Transactions /\ Base(Append(g, p)) = g
<1> DEFINE h == Append(g, p)
<1>1. Len(g) \in Nat /\ g \in Seq(Proposals) /\ Len(g) <= MaxRevisions /\ IsInjective(g)
    BY GraphIsSequence, GraphLength
<1>2. /\ h \in Seq(Proposals) /\ h # <<>> /\ Len(h) = Len(g) + 1
      /\ \A i \in 1..Len(g) : h[i] = g[i]
      /\ h[Len(g) + 1] = p
    BY <1>1, AppendProperties
<1>3. DOMAIN h = 1..(Len(g) + 1) /\ DOMAIN g = 1..Len(g)
    BY <1>1, <1>2, LenProperties
<1>4. \A i \in 1..Len(g) : g[i] # p
    BY <1>3 DEF ToSet
<1> HIDE DEF h
<1>5. IsInjective(h)
    <2> SUFFICES ASSUME NEW i \in 1..(Len(g) + 1), NEW j \in 1..(Len(g) + 1), h[i] = h[j]
                 PROVE  i = j
        BY <1>3 DEF IsInjective
    <2>1. i \in 1..Len(g) \/ i = Len(g) + 1
        BY <1>1
    <2>2. j \in 1..Len(g) \/ j = Len(g) + 1
        BY <1>1
    <2>3. CASE i \in 1..Len(g) /\ j \in 1..Len(g)
        BY <1>1, <1>2, <1>3, <2>3 DEF IsInjective
    <2> QED
        BY <1>2, <1>4, <2>1, <2>2, <2>3
<1>6. h \in Transactions
    BY <1>1, <1>2, <1>5, GraphIsSequence, GraphRevisionConstants DEF Transactions
<1>7. /\ Base(h) \in Graphs
      /\ Len(Base(h)) = Len(h) - 1
      /\ \A i \in 1..(Len(h) - 1) : Base(h)[i] = h[i]
    BY <1>6, BaseOfTransaction
<1>8. Len(h) - 1 = Len(g)
    BY <1>1, <1>2
<1>9. Base(h) = g
    BY <1>2, <1>7, <1>8, SameRevisions
<1> QED
    BY <1>6, <1>9 DEF h

\* The first n revisions are a transaction based on the first n - 1.
LEMMA RevisionChain ==
    ASSUME NEW g \in Graphs, NEW n \in 1..Len(g)
    PROVE  /\ SubSeq(g, 1, n) \in Transactions
           /\ Base(SubSeq(g, 1, n)) = SubSeq(g, 1, n - 1)
<1>1. Len(g) \in Nat
    BY GraphLength
<1>2. n \in 0..Len(g) /\ n - 1 \in 0..Len(g) /\ n \in Nat /\ n # 0
    BY <1>1
<1>3. /\ SubSeq(g, 1, n) \in Graphs
      /\ Len(SubSeq(g, 1, n)) = n
      /\ \A i \in 1..n : SubSeq(g, 1, n)[i] = g[i]
    BY <1>2, FirstRevisions
<1>4. /\ SubSeq(g, 1, n - 1) \in Graphs
      /\ Len(SubSeq(g, 1, n - 1)) = n - 1
      /\ \A i \in 1..(n - 1) : SubSeq(g, 1, n - 1)[i] = g[i]
    BY <1>2, FirstRevisions
<1>5. SubSeq(g, 1, n) \in Transactions
    BY <1>2, <1>3, EmptyGraph DEF Transactions
<1>6. /\ Base(SubSeq(g, 1, n)) \in Graphs
      /\ Len(Base(SubSeq(g, 1, n))) = n - 1
      /\ \A i \in 1..(n - 1) : Base(SubSeq(g, 1, n))[i] = SubSeq(g, 1, n)[i]
    BY <1>3, <1>5, BaseOfTransaction
<1>7. 1..(n - 1) \subseteq 1..n
    BY <1>2
<1>8. Base(SubSeq(g, 1, n)) = SubSeq(g, 1, n - 1)
    BY <1>3, <1>4, <1>6, <1>7, SameRevisions
<1> QED
    BY <1>5, <1>8

\* A transaction shares all revisions but its last with its base.
LEMMA RevisionsOfBase ==
    ASSUME NEW tx \in Transactions, NEW n \in 1..Len(tx)
    PROVE  SubSeq(tx, 1, n) = IF n = Len(tx) THEN tx ELSE SubSeq(Base(tx), 1, n)
<1>1. tx \in Graphs /\ Len(tx) \in Nat /\ Len(tx) # 0
    BY TransactionLength
<1>2. /\ Base(tx) \in Graphs
      /\ Len(Base(tx)) = Len(tx) - 1
      /\ \A i \in 1..(Len(tx) - 1) : Base(tx)[i] = tx[i]
    BY BaseOfTransaction
<1>3. /\ SubSeq(tx, 1, n) \in Graphs
      /\ Len(SubSeq(tx, 1, n)) = n
      /\ \A i \in 1..n : SubSeq(tx, 1, n)[i] = tx[i]
    BY <1>1, FirstRevisions
<1>4. CASE n = Len(tx)
    BY <1>1, <1>3, <1>4, SameRevisions
<1>5. CASE n # Len(tx)
    <2>1. n \in 0..(Len(tx) - 1) /\ 1..n \subseteq 1..(Len(tx) - 1)
        BY <1>1, <1>5
    <2>2. /\ SubSeq(Base(tx), 1, n) \in Graphs
          /\ Len(SubSeq(Base(tx), 1, n)) = n
          /\ \A i \in 1..n : SubSeq(Base(tx), 1, n)[i] = Base(tx)[i]
        BY <1>2, <2>1, FirstRevisions
    <2>3. SubSeq(tx, 1, n) = SubSeq(Base(tx), 1, n)
        BY <1>2, <1>3, <2>1, <2>2, SameRevisions
    <2> QED
        BY <1>5, <2>3
<1> QED
    BY <1>4, <1>5

-------------------------------------------------------------------------------
(* The invariant of the journal *)

\* the call works on a transaction whose base it claimed or found claimed
Working ==
    {"prepare", "population", "commit", "reload", "install", "finish", "done", "publish"}

\* the gate has accepted the transaction
Accepted == {"commit", "reload", "install", "finish", "done"}

\* What a call holds agrees with the journal and the gate.
Holds(c) ==
    /\ c.todo \subseteq claims
    /\ \A f \in c.found : f[1] \in claims /\ (f[2] # 1 => IsPrefix(f[1], gate))
    /\ c.pc = "claim" => c.tx \in Transactions /\ IsPrefix(Base(c.tx), gate)
    /\ c.pc \in Working => c.tx \in claims
    /\ c.pc \in Accepted => IsPrefix(c.tx, gate)

\* A call between a record and its head: the next status, on disk, and not
\* beyond what the gate has accepted.
Publishes(c) ==
    c.pc = "publish" =>
        /\ c.next = head[c.tx] + 1
        /\ <<c.tx, c.next>> \in records
        /\ c.next >= 2 \/ c.after \in Accepted => IsPrefix(c.tx, gate)

CallsHold == \A t \in Threads : Holds(calls[t]) /\ Publishes(calls[t])

\* The lock of an entry.
OnePublisher ==
    \A t, u \in Threads :
        At(t, "publish") /\ At(u, "publish") /\ calls[t].tx = calls[u].tx => t = u

Heads ==
    \A tx \in Transactions :
        /\ head[tx] # 0 => <<tx, head[tx]>> \in records
        /\ head[tx] >= 2 => IsPrefix(tx, gate)

\* Claims are one per base and made on accepted graphs; what was accepted is
\* claimed.
Claimed ==
    /\ \A tx \in claims : IsPrefix(Base(tx), gate)
    /\ \A a, b \in claims : Base(a) = Base(b) => a = b
    /\ \A n \in 1..Len(gate) : SubSeq(gate, 1, n) \in claims

SessionAccepted == session \in Graphs => IsPrefix(session, gate)

IInv == TypeOK /\ CallsHold /\ OnePublisher /\ Heads /\ Claimed /\ SessionAccepted

LEMMA IdleCall ==
    Idle \in Calls /\ Idle.pc = "idle" /\ Idle.todo = {} /\ Idle.found = {}
<1>1. <<>> \in Graphs
    BY EmptyGraph
<1> QED
    BY <1>1 DEF Idle, Calls

\* The initial state.
LEMMA InitInv ==
    ASSUME Init
    PROVE  IInv
<1>1. <<>> \in Graphs /\ Len(<<>>) = 0 /\ IsPrefix(<<>>, <<>>)
    BY EmptyGraph, PrefixOrder
<1>2. \A t \in Threads : calls[t] = Idle
    BY DEF Init
<1>3. TypeOK
    <2>1. gate \in Graphs /\ session \in Graphs /\ base \in Graphs
        BY <1>1, Zenon DEF Init
    <2>2. calls \in [Threads -> Calls]
        BY <1>2, IdleCall DEF Init
    <2>3. /\ claims = {} /\ records = {} /\ head = [tx \in Transactions |-> 0]
          /\ redeclared = FALSE /\ sessionLock = NoThread /\ faults = 0
        BY Zenon DEF Init
    <2>4. head \in [Transactions -> 0..3] /\ faults \in 0..MaxFaults
        BY <2>3, GraphRevisionConstants
    <2> QED
        BY <2>1, <2>2, <2>3, <2>4 DEF TypeOK
<1>4. CallsHold /\ OnePublisher
    BY <1>2, IdleCall DEF CallsHold, OnePublisher, Holds, Publishes, Working, Accepted, At
<1>5. Heads
    BY DEF Init, Heads
<1>6. Claimed
    BY <1>1 DEF Init, Claimed
<1>7. SessionAccepted
    BY <1>1 DEF Init, SessionAccepted
<1> QED
    BY <1>3, <1>4, <1>5, <1>6, <1>7 DEF IInv

-------------------------------------------------------------------------------
(* Kinds of steps *)

\* A step that sets one call.
LEMMA SetCall ==
    ASSUME TypeOK, NEW t \in Threads, NEW c \in Calls, Set(t, c)
    PROVE  /\ calls' \in [Threads -> Calls]
           /\ calls'[t] = c
           /\ \A u \in Threads \ {t} : calls'[u] = calls[u]
    BY DEF TypeOK, Set

\* Journal and gate stay; no call begins to publish.
LEMMA QuietStep ==
    ASSUME IInv, TypeOK', UNCHANGED <<journal, gate>>,
           \A u \in Threads :
               calls'[u] = calls[u] \/ (Holds(calls'[u]) /\ calls'[u].pc # "publish"),
           SessionAccepted'
    PROVE  IInv'
<1>1. UNCHANGED <<claims, records, head, gate>>
    BY DEF journal
<1>2. CallsHold'
    BY <1>1 DEF IInv, CallsHold, Holds, Publishes
<1>3. OnePublisher'
    BY DEF IInv, OnePublisher, At
<1>4. Heads' /\ Claimed'
    BY <1>1 DEF IInv, Heads, Claimed
<1> QED
    BY <1>2, <1>3, <1>4 DEF IInv

\* A call writes the record of the next status.
LEMMA RecordStep ==
    ASSUME IInv, TypeOK', NEW t \in Threads, NEW c \in Calls, Set(t, c),
           UNCHANGED <<claims, head, gate, session>>,
           c.pc = "publish", Unlocked(c.tx), Holds(c),
           c.next = head[c.tx] + 1,
           records' = records \cup {<<c.tx, c.next>>},
           c.next >= 2 \/ c.after \in Accepted => IsPrefix(c.tx, gate)
    PROVE  IInv'
<1>1. calls'[t] = c /\ \A u \in Threads \ {t} : calls'[u] = calls[u]
    BY SetCall DEF IInv
<1>2. \A u \in Threads \ {t} : Holds(calls[u])' /\ Publishes(calls[u])'
    BY <1>1 DEF IInv, CallsHold, Holds, Publishes
<1>3. Holds(calls[t])' /\ Publishes(calls[t])'
    BY <1>1 DEF Holds, Publishes
<1>4. CallsHold'
    BY <1>2, <1>3 DEF CallsHold
<1>5. OnePublisher'
    BY <1>1 DEF IInv, OnePublisher, Unlocked, At
<1>6. Heads' /\ Claimed' /\ SessionAccepted'
    BY DEF IInv, Heads, Claimed, SessionAccepted
<1> QED
    BY <1>4, <1>5, <1>6 DEF IInv

\* One call goes on; the journal stays, and so does the gate.
LEMMA CallStep ==
    ASSUME IInv, NEW t \in Threads, NEW c \in Calls, Set(t, c),
           UNCHANGED <<journal, gate, base>>,
           Holds(c), c.pc # "publish",
           session' \in Graphs \cup {NoGraph}, SessionAccepted',
           redeclared' \in BOOLEAN, sessionLock' \in Threads \cup {NoThread},
           faults' \in 0..MaxFaults
    PROVE  IInv'
<1>1. /\ calls' \in [Threads -> Calls]
      /\ calls'[t] = c /\ \A u \in Threads \ {t} : calls'[u] = calls[u]
    BY SetCall DEF IInv
<1>2. UNCHANGED <<claims, records, head, gate>>
    BY DEF journal
<1>3. TypeOK'
    BY <1>1, <1>2 DEF IInv, TypeOK
<1>4. Holds(c)'
    BY <1>2 DEF Holds
<1>5. \A u \in Threads : calls'[u] = calls[u] \/ (Holds(calls'[u]) /\ calls'[u].pc # "publish")
    BY <1>1, <1>4
<1> QED
    BY <1>3, <1>5, QuietStep

\* A call that ends, whether it raises or not.
LEMMA EndStep ==
    ASSUME IInv, NEW t \in Threads, Return(t),
           UNCHANGED <<journal, gate, redeclared, base>>,
           session' \in {session, NoGraph}, faults' \in 0..MaxFaults
    PROVE  IInv'
<1>1. Set(t, Idle) /\ sessionLock' \in Threads \cup {NoThread}
    BY DEF IInv, TypeOK, Return, NoThread
<1>2. Holds(Idle)
    BY IdleCall DEF Holds, Working, Accepted
<1>3. session' \in Graphs \cup {NoGraph} /\ SessionAccepted'
    BY NoGraphIsNoGraph DEF IInv, TypeOK, SessionAccepted
<1> QED
    BY <1>1, <1>2, <1>3, IdleCall, CallStep DEF IInv, TypeOK

\* Every call that raises ends.
LEMMA RaisingStep ==
    ASSUME IInv, NEW t \in Threads,
           \/ EnsureRaises(t) \/ InstallRaises(t) \/ ProposeRefused(t) \/ ClaimRefused(t)
           \/ PopulationStale(t) \/ AdvanceRaises(t) \/ Fault(t)
    PROVE  IInv'
<1>1. /\ Return(t)
      /\ UNCHANGED <<journal, gate, redeclared, base>>
      /\ session' \in {session, NoGraph}
      /\ faults' = faults \/ (faults < MaxFaults /\ faults' = faults + 1)
    BY DEF EnsureRaises, InstallRaises, ProposeRefused, ClaimRefused, PopulationStale,
       AdvanceRaises, Fault, Break
<1>2. faults' \in 0..MaxFaults
    BY <1>1, GraphRevisionConstants DEF IInv, TypeOK
<1> QED
    BY <1>1, <1>2, EndStep

\* The fields of a call.
LEMMA CallFields ==
    ASSUME IInv, NEW t \in Threads
    PROVE  /\ calls[t] \in Calls /\ Holds(calls[t]) /\ Publishes(calls[t])
           /\ calls[t].tx \in Graphs
           /\ calls[t].pc \in Working =>
                 /\ calls[t].tx \in Transactions
                 /\ head[calls[t].tx] \in 0..3
                 /\ Base(calls[t].tx) \in Graphs
<1>1. calls[t] \in Calls /\ Holds(calls[t]) /\ Publishes(calls[t])
    BY DEF IInv, TypeOK, CallsHold
<1>2. calls[t].tx \in Graphs
    BY <1>1 DEF Calls
<1>3. calls[t].pc \in Working => calls[t].tx \in Transactions
    BY <1>1 DEF Holds, IInv, TypeOK
<1>4. calls[t].pc \in Working => head[calls[t].tx] \in 0..3
    BY <1>3 DEF IInv, TypeOK
<1> QED
    BY <1>1, <1>2, <1>3, <1>4, BaseOfTransaction

-------------------------------------------------------------------------------
(* The actions *)

\* A turn or a bootstrap begins.
LEMMA TurnStep ==
    ASSUME IInv, Turn \/ Boot
    PROVE  IInv'
<1>1. UNCHANGED <<journal, gate, session, redeclared, sessionLock, faults>>
    BY DEF Turn, Boot
<1>2. base' \in Graphs
    BY DEF Turn, Boot, IInv, TypeOK
<1>3. UNCHANGED <<claims, records, head>>
    BY <1>1 DEF journal
<1>4. /\ calls' \in [Threads -> Calls]
      /\ \A u \in Threads : calls'[u] = calls[u]
            \/ (calls'[u].pc \in {"idle", "discover"} /\ calls'[u].todo \subseteq claims
                /\ calls'[u].found = {})
    <2>c. claims \subseteq Transactions
        BY DEF IInv, TypeOK
    <2>1. CASE Turn
        <3>1. PICK r \in 0..MaxCalls, m \in 0..MaxCalls :
                 calls' = [t \in Threads |->
                   IF t <= r + m
                   THEN [Idle EXCEPT !.pc = "discover", !.todo = claims,
                                     !.kind = IF t <= r THEN "revise" ELSE "mutate"]
                   ELSE Idle]
            BY <2>1 DEF Turn
        <3>2. \A k \in {"revise", "mutate"} :
                 LET c == [Idle EXCEPT !.pc = "discover", !.todo = claims, !.kind = k]
                 IN  c \in Calls /\ c.pc = "discover" /\ c.todo = claims /\ c.found = {}
            BY <2>c, IdleCall DEF Calls
        <3> QED
            BY <3>1, <3>2, IdleCall
    <2>2. CASE Boot
        <3>1. 1 \in Threads
            BY GraphRevisionConstants DEF Threads
        <3> DEFINE c == [Idle EXCEPT !.pc = "discover", !.kind = "boot", !.todo = claims]
        <3>2. c \in Calls /\ c.pc = "discover" /\ c.todo = claims /\ c.found = {}
            BY <2>c, IdleCall DEF Calls
        <3>3. Set(1, c)
            BY <2>2 DEF Boot
        <3> QED
            BY <3>1, <3>2, <3>3, SetCall DEF IInv
    <2> QED
        BY <2>1, <2>2
<1>5. TypeOK'
    BY <1>1, <1>2, <1>3, <1>4 DEF IInv, TypeOK
<1>6. \A u \in Threads : calls'[u] = calls[u] \/ (Holds(calls'[u]) /\ calls'[u].pc # "publish")
    BY <1>4 DEF Holds, Working, Accepted
<1>7. SessionAccepted'
    BY <1>1 DEF IInv, SessionAccepted
<1> QED
    BY <1>1, <1>5, <1>6, <1>7, QuietStep

\* A crash.
LEMMA CrashStep ==
    ASSUME IInv, Crash
    PROVE  IInv'
<1>1. /\ UNCHANGED <<journal, gate, base>>
      /\ faults < MaxFaults /\ faults' = faults + 1
      /\ session' = NoGraph /\ redeclared' = FALSE /\ sessionLock' = NoThread
      /\ calls' = [t \in Threads |-> Idle]
    BY DEF Crash
<1>2. UNCHANGED <<claims, records, head, gate, base>>
    BY <1>1 DEF journal
<1>3. faults' \in 0..MaxFaults
    BY <1>1, GraphRevisionConstants DEF IInv, TypeOK
<1>4. TypeOK'
    BY <1>1, <1>2, <1>3, IdleCall DEF IInv, TypeOK
<1>5. \A u \in Threads : Holds(calls'[u]) /\ calls'[u].pc # "publish"
    BY <1>1, IdleCall DEF Holds, Working, Accepted
<1>6. SessionAccepted'
    BY <1>1, NoGraphIsNoGraph DEF SessionAccepted
<1> QED
    BY <1>1, <1>4, <1>5, <1>6, QuietStep

\* discover_pending looks at one claim.
LEMMA MaterializeStep ==
    ASSUME IInv, NEW t \in Threads, Materialize(t)
    PROVE  IInv'
<1>1. PICK tx \in calls[t].todo :
          /\ Unlocked(tx)
          /\ \/ /\ head[tx] = 0
                /\ records' = records \cup {<<tx, 1>>}
                /\ Set(t, [calls[t] EXCEPT !.todo = @ \ {tx}, !.pc = "publish", !.tx = tx,
                                           !.next = 1, !.after = "discover"])
             \/ /\ head[tx] # 0
                /\ Set(t, [calls[t] EXCEPT !.todo = @ \ {tx},
                           !.found = IF head[tx] < 3 THEN @ \cup {<<tx, head[tx]>>} ELSE @])
                /\ UNCHANGED records
    BY DEF Materialize
<1>2. /\ At(t, "discover")
      /\ UNCHANGED <<claims, head, gate, session, redeclared, sessionLock, base, faults>>
    BY DEF Materialize
<1>3. /\ calls[t] \in Calls /\ Holds(calls[t]) /\ calls[t].pc = "discover"
      /\ tx \in claims /\ tx \in Transactions /\ tx \in Graphs /\ head[tx] \in 0..3
      /\ claims \subseteq Transactions /\ calls[t].todo \subseteq claims
    BY <1>1, <1>2, CallFields DEF IInv, TypeOK, Holds, At, Transactions
<1>4. CASE head[tx] = 0
    <2> DEFINE c == [calls[t] EXCEPT !.todo = @ \ {tx}, !.pc = "publish", !.tx = tx,
                                     !.next = 1, !.after = "discover"]
    <2>1. records' = records \cup {<<tx, 1>>} /\ Set(t, c)
        BY <1>1, <1>4
    <2>2. /\ c \in Calls /\ c.pc = "publish" /\ c.tx = tx /\ c.next = 1 /\ c.after = "discover"
          /\ c.todo \subseteq claims /\ c.found = calls[t].found
        <3>1. calls[t].todo \ {tx} \in SUBSET Transactions
            BY <1>3 DEF Holds
        <3>2. PICK todo \in SUBSET Transactions : todo = calls[t].todo \ {tx}
            BY <3>1
        <3>3. PICK next \in 0..3 : next = 1
            OBVIOUS
        <3>4. c = [calls[t] EXCEPT !.todo = todo, !.pc = "publish", !.tx = tx, !.next = next,
                                   !.after = "discover"]
            BY <3>2, <3>3
        <3> HIDE DEF c
        <3>5. /\ c \in Calls /\ c.pc = "publish" /\ c.tx = tx /\ c.next = next
              /\ c.after = "discover" /\ c.todo = todo /\ c.found = calls[t].found
            BY <1>3, <3>4 DEF Calls
        <3> QED
            BY <1>3, <3>2, <3>3, <3>5 DEF Holds
    <2> HIDE DEF c
    <2>3. Holds(c)
        BY <1>3, <2>2 DEF Holds, Accepted
    <2>4. calls' \in [Threads -> Calls]
        BY <2>1, <2>2, SetCall DEF IInv
    <2>5. TypeOK'
        BY <1>2, <1>3, <2>1, <2>4 DEF IInv, TypeOK
    <2> QED
        BY <1>1, <1>2, <1>4, <2>1, <2>2, <2>3, <2>5, RecordStep DEF Accepted
<1>5. CASE head[tx] # 0
    <2> DEFINE c == [calls[t] EXCEPT !.todo = @ \ {tx},
                           !.found = IF head[tx] < 3 THEN @ \cup {<<tx, head[tx]>>} ELSE @]
    <2>1. UNCHANGED records /\ Set(t, c)
        BY <1>1, <1>5
    <2>2. /\ c \in Calls /\ c.pc = "discover" /\ c.todo \subseteq claims
          /\ c.found \subseteq calls[t].found \cup {<<tx, head[tx]>>}
        <3> DEFINE F == IF head[tx] < 3 THEN calls[t].found \cup {<<tx, head[tx]>>}
                        ELSE calls[t].found
        <3>1. calls[t].todo \ {tx} \in SUBSET Transactions
            BY <1>3 DEF Holds
        <3>2. calls[t].found \in SUBSET (Transactions \X (1..2))
            BY <1>3 DEF Calls
        <3>3. head[tx] < 3 => <<tx, head[tx]>> \in Transactions \X (1..2)
            BY <1>3, <1>5
        <3>4. /\ F \in SUBSET (Transactions \X (1..2))
              /\ F \subseteq calls[t].found \cup {<<tx, head[tx]>>}
            BY <3>2, <3>3
        <3> HIDE DEF F
        <3>5. PICK todo \in SUBSET Transactions, found \in SUBSET (Transactions \X (1..2)) :
                 todo = calls[t].todo \ {tx} /\ found = F
            BY <3>1, <3>4
        <3>6. c = [calls[t] EXCEPT !.todo = todo, !.found = found]
            BY <3>5 DEF F
        <3> HIDE DEF c
        <3>7. c \in Calls /\ c.pc = calls[t].pc /\ c.todo = todo /\ c.found = found
            BY <1>3, <3>6 DEF Calls
        <3> QED
            BY <1>3, <3>4, <3>5, <3>7
    <2>3. head[tx] # 1 => IsPrefix(tx, gate)
        <3>1. head[tx] # 1 => head[tx] >= 2
            BY <1>3, <1>5
        <3> QED
            BY <1>3, <3>1 DEF IInv, Heads
    <2> HIDE DEF c
    <2>4. Holds(c)
        BY <1>3, <2>2, <2>3 DEF Holds, Accepted, Working
    <2>5. /\ SessionAccepted' /\ UNCHANGED <<journal, gate, base>>
          /\ session' \in Graphs \cup {NoGraph} /\ redeclared' \in BOOLEAN
          /\ sessionLock' \in Threads \cup {NoThread} /\ faults' \in 0..MaxFaults
        BY <1>2, <2>1 DEF IInv, TypeOK, SessionAccepted, journal
    <2> QED
        BY <2>1, <2>2, <2>4, <2>5, CallStep
<1> QED
    BY <1>4, <1>5

\* _ensure_graph_revision_base_session.
LEMMA EnsureStep ==
    ASSUME IInv, NEW t \in Threads, Ensure(t)
    PROVE  IInv'
<1>1. PICK f \in calls[t].found :
          /\ session' = IF session = NoGraph THEN Base(f[1]) ELSE session
          /\ Set(t, [calls[t] EXCEPT !.found = @ \ {f}, !.tx = f[1], !.seen = f[2],
                                     !.pc = IF f[2] = 1 THEN "population" ELSE "install"])
    BY DEF Ensure
<1>2. UNCHANGED <<journal, gate, redeclared, sessionLock, base, faults>>
    BY DEF Ensure
<1>3. /\ calls[t] \in Calls /\ Holds(calls[t])
      /\ f[1] \in claims /\ (f[2] # 1 => IsPrefix(f[1], gate))
      /\ f[1] \in Graphs /\ f[1] \in Transactions /\ f[2] \in 1..2
    BY <1>1, CallFields DEF Holds, Calls, Transactions
<1> DEFINE c == [calls[t] EXCEPT !.found = @ \ {f}, !.tx = f[1], !.seen = f[2],
                                 !.pc = IF f[2] = 1 THEN "population" ELSE "install"]
<1>4. /\ c \in Calls /\ c.pc = (IF f[2] = 1 THEN "population" ELSE "install") /\ c.tx = f[1]
      /\ c.todo = calls[t].todo /\ c.found \subseteq calls[t].found
    <2>1. PICK found \in SUBSET (Transactions \X (1..2)), seen \in 0..3, tx \in Graphs :
             found = calls[t].found \ {f} /\ seen = f[2] /\ tx = f[1]
        <3>1. calls[t].found \ {f} \in SUBSET (Transactions \X (1..2))
            BY <1>3 DEF Calls
        <3>2. f[2] \in 0..3
            BY <1>3
        <3> QED
            BY <1>3, <3>1, <3>2
    <2>2. PICK pc \in {"population", "install"} :
             pc = IF f[2] = 1 THEN "population" ELSE "install"
        OBVIOUS
    <2>3. c = [calls[t] EXCEPT !.found = found, !.tx = tx, !.seen = seen, !.pc = pc]
        BY <2>1, <2>2
    <2> HIDE DEF c
    <2>4. /\ c \in Calls /\ c.pc = pc /\ c.tx = tx
          /\ c.todo = calls[t].todo /\ c.found = found
        BY <1>3, <2>3 DEF Calls
    <2> QED
        BY <2>1, <2>2, <2>4
<1>5. Set(t, c)
    BY <1>1
<1> HIDE DEF c
<1>6. Holds(c) /\ c.pc # "publish"
    BY <1>3, <1>4 DEF Holds, Accepted
<1>7. Base(f[1]) \in Graphs /\ IsPrefix(Base(f[1]), gate)
    BY <1>3, BaseOfTransaction DEF IInv, Claimed
<1>8. session' \in Graphs \cup {NoGraph} /\ SessionAccepted'
    BY <1>1, <1>2, <1>7 DEF IInv, TypeOK, SessionAccepted
<1>9. /\ UNCHANGED <<journal, gate, base>>
      /\ redeclared' \in BOOLEAN
      /\ sessionLock' \in Threads \cup {NoThread} /\ faults' \in 0..MaxFaults
    BY <1>2 DEF IInv, TypeOK
<1> QED
    BY <1>4, <1>5, <1>6, <1>8, <1>9, CallStep

\* Nothing is pending.
LEMMA RecoveredStep ==
    ASSUME IInv, NEW t \in Threads, Recovered(t)
    PROVE  IInv'
<1>1. /\ UNCHANGED <<journal, gate, sessionLock, base, faults>>
      /\ calls[t].todo = {} /\ calls[t].found = {}
      /\ \/ session' = <<>> /\ redeclared' = TRUE
         \/ UNCHANGED <<session, redeclared>>
    BY DEF Recovered, Discovered
<1>2. PICK c \in {[calls[t] EXCEPT !.pc = "propose"], Idle} : Set(t, c)
    BY DEF Recovered, Goto
<1>3. /\ c \in Calls /\ c.pc \in {"propose", "idle"} /\ c.todo = {} /\ c.found = {}
    BY <1>1, <1>2, CallFields, IdleCall DEF Calls
<1>4. Holds(c) /\ c.pc # "publish"
    BY <1>3 DEF Holds, Accepted, Working
<1>5. <<>> \in Graphs /\ IsPrefix(<<>>, gate)
    BY EmptyGraph, PrefixOrder DEF IInv, TypeOK
<1>6. session' \in Graphs \cup {NoGraph} /\ (session' \in Graphs => IsPrefix(session', gate))
    BY <1>1, <1>5, Zenon DEF IInv, TypeOK, SessionAccepted
<1>7. redeclared' \in BOOLEAN
    BY <1>1, Zenon DEF IInv, TypeOK
<1>8. sessionLock' \in Threads \cup {NoThread} /\ faults' \in 0..MaxFaults /\ gate' = gate
    BY <1>1, Zenon DEF IInv, TypeOK
<1>9. SessionAccepted'
    BY <1>6, <1>8 DEF SessionAccepted
<1>10. UNCHANGED <<journal, gate, base>>
    BY <1>1
<1> QED
    BY <1>2, <1>3, <1>4, <1>6, <1>7, <1>8, <1>9, <1>10, CallStep

\* The head file follows its record.
LEMMA PublishHeadStep ==
    ASSUME IInv, NEW t \in Threads, PublishHead(t)
    PROVE  /\ IInv'
           /\ head' = [head EXCEPT ![calls[t].tx] = head[calls[t].tx] + 1]
           /\ calls[t].tx \in claims
<1> DEFINE tx == calls[t].tx
<1>1. /\ UNCHANGED <<claims, records, gate, session, redeclared, sessionLock, base, faults>>
      /\ head' = [head EXCEPT ![tx] = calls[t].next]
      /\ calls[t].pc = "publish"
    BY DEF PublishHead, At
<1>2. /\ calls[t] \in Calls /\ Holds(calls[t])
      /\ tx \in claims /\ tx \in Transactions /\ head[tx] \in 0..3
      /\ calls[t].next = head[tx] + 1 /\ calls[t].next \in 0..3
      /\ <<tx, calls[t].next>> \in records
      /\ calls[t].next >= 2 \/ calls[t].after \in Accepted => IsPrefix(tx, gate)
      /\ calls[t].after \in {"discover", "population", "reload", "install", "done"}
      /\ calls[t].found \in SUBSET (Transactions \X (1..2))
      /\ calls[t].todo \subseteq claims
    <2>1. calls[t].next \in 0..3 /\ calls[t].found \in SUBSET (Transactions \X (1..2))
          /\ calls[t].after \in {"discover", "population", "reload", "install", "done"}
        BY CallFields DEF Calls
    <2> QED
        BY <1>1, <2>1, CallFields DEF Holds, Publishes, Working
<1>3. PICK found \in SUBSET (Transactions \X (1..2)) :
          /\ found = IF calls[t].after = "discover"
                     THEN calls[t].found \cup {<<tx, 1>>} ELSE calls[t].found
    <2>1. <<tx, 1>> \in Transactions \X (1..2)
        BY <1>2
    <2>2. calls[t].found \cup {<<tx, 1>>} \in SUBSET (Transactions \X (1..2))
        BY <1>2, <2>1
    <2> QED
        BY <1>2, <2>2
<1>4. PICK pc \in {"discover", "population", "reload", "install", "done"},
           seen \in 0..3 : pc = calls[t].after /\ seen = calls[t].next
    BY <1>2
<1> DEFINE c == [calls[t] EXCEPT !.pc = pc, !.seen = seen, !.found = found]
<1>5. Set(t, c)
    BY <1>3, <1>4 DEF PublishHead
<1>6. c \in Calls /\ c.pc = pc /\ c.tx = tx /\ c.todo = calls[t].todo /\ c.found = found
    BY <1>2 DEF Calls
<1> HIDE DEF c
<1>7. Holds(c)
    <2>1. \A f \in found : f[1] \in claims /\ (f[2] # 1 => IsPrefix(f[1], gate))
        BY <1>2, <1>3 DEF Holds
    <2>2. pc \in Accepted => IsPrefix(tx, gate)
        BY <1>2, <1>4
    <2> QED
        BY <1>2, <1>6, <2>1, <2>2 DEF Holds
<1>8. /\ calls' \in [Threads -> Calls]
      /\ calls'[t] = c /\ \A u \in Threads \ {t} : calls'[u] = calls[u]
    BY <1>5, <1>6, SetCall DEF IInv
<1>9. head' \in [Transactions -> 0..3] /\ head'[tx] = head[tx] + 1
      /\ \A x \in Transactions : x # tx => head'[x] = head[x]
    BY <1>1, <1>2 DEF IInv, TypeOK
<1>10. TypeOK'
    BY <1>1, <1>8, <1>9 DEF IInv, TypeOK
<1>11. \A u \in Threads : Holds(calls[u])'
    BY <1>1, <1>7, <1>8 DEF IInv, CallsHold, Holds
<1>12. \A u \in Threads : Publishes(calls[u])'
    <2> SUFFICES ASSUME NEW u \in Threads, u # t, calls[u].pc = "publish"
                 PROVE  Publishes(calls[u])'
        BY <1>6, <1>8 DEF Publishes
    <2>1. calls[u].tx # tx
        BY <1>1 DEF IInv, OnePublisher, At
    <2>2. calls[u].tx \in Transactions
        BY CallFields DEF Working
    <2>3. Publishes(calls[u])
        BY DEF IInv, CallsHold
    <2>4. calls'[u] = calls[u] /\ head'[calls[u].tx] = head[calls[u].tx]
        BY <1>8, <1>9, <2>1, <2>2
    <2> QED
        BY <1>1, <2>3, <2>4 DEF Publishes
<1>13. CallsHold'
    BY <1>11, <1>12 DEF CallsHold
<1>14. OnePublisher'
    BY <1>6, <1>8 DEF IInv, OnePublisher, At
<1>15. Heads'
    BY <1>1, <1>2, <1>9 DEF IInv, Heads
<1>16. Claimed' /\ SessionAccepted'
    BY <1>1 DEF IInv, Claimed, SessionAccepted
<1>17. head' = [head EXCEPT ![calls[t].tx] = head[calls[t].tx] + 1] /\ calls[t].tx \in claims
    BY <1>1, <1>2
<1> QED
    BY <1>10, <1>13, <1>14, <1>15, <1>16, <1>17 DEF IInv

\* The other actions of a call that leave journal and gate alone.
LEMMA ReloadStep ==
    ASSUME IInv, NEW t \in Threads, Reload(t)
    PROVE  IInv'
<1>1. /\ UNCHANGED <<journal, gate, session, redeclared, sessionLock, base, faults>>
      /\ calls[t].pc = "reload"
    BY DEF Reload, At
<1>2. calls[t] \in Calls /\ Holds(calls[t]) /\ head[calls[t].tx] \in 0..3
    BY <1>1, CallFields DEF Working
<1>3. PICK pc \in {"install", "discover"}, seen \in 0..3 :
          Set(t, [calls[t] EXCEPT !.seen = seen, !.pc = pc])
    BY <1>2 DEF Reload
<1> DEFINE c == [calls[t] EXCEPT !.seen = seen, !.pc = pc]
<1>4. /\ c \in Calls /\ c.pc = pc /\ c.tx = calls[t].tx
      /\ c.todo = calls[t].todo /\ c.found = calls[t].found
    BY <1>2 DEF Calls
<1> HIDE DEF c
<1>5. Holds(c) /\ c.pc # "publish"
    BY <1>1, <1>2, <1>4 DEF Holds, Working, Accepted
<1>6. Set(t, c)
    BY <1>3 DEF c
<1>7. /\ SessionAccepted' /\ UNCHANGED <<journal, gate, base>>
      /\ session' \in Graphs \cup {NoGraph} /\ redeclared' \in BOOLEAN
      /\ sessionLock' \in Threads \cup {NoThread} /\ faults' \in 0..MaxFaults
    BY <1>1 DEF IInv, TypeOK, SessionAccepted
<1> QED
    BY <1>4, <1>5, <1>6, <1>7, CallStep

\* The session takes the transaction the gate has accepted.
LEMMA InstallStep ==
    ASSUME IInv, NEW t \in Threads, Install(t) \/ Switch(t)
    PROVE  IInv'
<1>1. /\ UNCHANGED <<journal, gate, redeclared, base, faults>>
      /\ UNCHANGED sessionLock
      /\ calls[t].pc = "install"
      /\ session' = calls[t].tx
      /\ Goto(t, "finish")
    BY DEF Install, Switch, At
<1>2. /\ calls[t] \in Calls /\ Holds(calls[t]) /\ calls[t].tx \in Graphs
      /\ IsPrefix(calls[t].tx, gate)
    BY <1>1, CallFields DEF Holds, Accepted
<1> DEFINE c == [calls[t] EXCEPT !.pc = "finish"]
<1>3. /\ c \in Calls /\ c.pc = "finish" /\ c.tx = calls[t].tx
      /\ c.todo = calls[t].todo /\ c.found = calls[t].found
    BY <1>2 DEF Calls
<1>4. Set(t, c)
    BY <1>1 DEF Goto
<1> HIDE DEF c
<1>5. Holds(c) /\ c.pc # "publish"
    BY <1>1, <1>2, <1>3 DEF Holds, Working, Accepted
<1>6. /\ SessionAccepted' /\ UNCHANGED <<journal, gate, base>>
      /\ session' \in Graphs \cup {NoGraph} /\ redeclared' \in BOOLEAN
      /\ sessionLock' \in Threads \cup {NoThread} /\ faults' \in 0..MaxFaults
    BY <1>1, <1>2 DEF IInv, TypeOK, SessionAccepted
<1> QED
    BY <1>3, <1>4, <1>5, <1>6, CallStep

\* A proposal on the graph of the session.
LEMMA ProposeStep ==
    ASSUME IInv, NEW t \in Threads, Propose(t)
    PROVE  IInv'
<1>1. PICK p \in Proposals :
          /\ Fresh(p)
          /\ sessionLock' = t
          /\ Set(t, [calls[t] EXCEPT !.pc = "claim", !.tx = Append(session, p), !.seen = 0])
    BY DEF Propose
<1>2. /\ UNCHANGED <<journal, gate, session, redeclared, base, faults>>
      /\ session = base /\ Len(session) < MaxRevisions
      /\ calls[t].pc = "propose"
    BY DEF Propose, At
<1>3. session \in Graphs /\ IsPrefix(session, gate) /\ calls[t] \in Calls /\ Holds(calls[t])
    BY <1>2, CallFields DEF IInv, TypeOK, SessionAccepted
<1>4. Append(session, p) \in Transactions /\ Base(Append(session, p)) = session
    BY <1>1, <1>2, <1>3, Extension DEF Fresh
<1>5. PICK tx \in Transactions : tx = Append(session, p)
    BY <1>4
<1>5a. PICK seen \in 0..3 : seen = 0
    OBVIOUS
<1>6. tx \in Graphs
    BY DEF Transactions
<1> DEFINE c == [calls[t] EXCEPT !.pc = "claim", !.tx = tx, !.seen = seen]
<1>7. /\ c \in Calls /\ c.pc = "claim" /\ c.tx = tx
      /\ c.todo = calls[t].todo /\ c.found = calls[t].found
    BY <1>3, <1>6 DEF Calls
<1>8. Set(t, c)
    BY <1>1, <1>5, <1>5a
<1> HIDE DEF c
<1>9. Holds(c) /\ c.pc # "publish"
    BY <1>3, <1>4, <1>5, <1>7 DEF Holds, Working, Accepted
<1>10. /\ SessionAccepted' /\ UNCHANGED <<journal, gate, base>>
       /\ session' \in Graphs \cup {NoGraph} /\ redeclared' \in BOOLEAN
       /\ sessionLock' \in Threads \cup {NoThread} /\ faults' \in 0..MaxFaults
    BY <1>1, <1>2 DEF IInv, TypeOK, SessionAccepted
<1> QED
    BY <1>7, <1>8, <1>9, <1>10, CallStep

\* A call that rolled a revision forward looks again; the revising one ends.
LEMMA DoneStep ==
    ASSUME IInv, NEW t \in Threads, Done(t)
    PROVE  IInv'
<1>1. /\ UNCHANGED <<journal, gate, session, redeclared, base, faults>>
      /\ calls[t].pc = "done"
    BY DEF Done, At
<1>2. CASE Revising(t)
    <2>1. Return(t) /\ session' \in {session, NoGraph} /\ faults' \in 0..MaxFaults
        BY <1>1, <1>2 DEF Done, IInv, TypeOK
    <2> QED
        BY <1>1, <2>1, EndStep
<1>3. CASE ~Revising(t)
    <2> DEFINE c == [calls[t] EXCEPT !.pc = "discover", !.rolled = TRUE]
    <2>1. Set(t, c) /\ UNCHANGED sessionLock
        BY <1>3 DEF Done
    <2>2. calls[t] \in Calls /\ Holds(calls[t])
        BY CallFields
    <2>3. /\ c \in Calls /\ c.pc = "discover" /\ c.tx = calls[t].tx
          /\ c.todo = calls[t].todo /\ c.found = calls[t].found
        BY <2>2 DEF Calls
    <2> HIDE DEF c
    <2>4. Holds(c) /\ c.pc # "publish"
        BY <2>2, <2>3 DEF Holds, Working, Accepted
    <2>5. /\ SessionAccepted' /\ UNCHANGED <<journal, gate, base>>
          /\ session' \in Graphs \cup {NoGraph} /\ redeclared' \in BOOLEAN
          /\ sessionLock' \in Threads \cup {NoThread} /\ faults' \in 0..MaxFaults
        BY <1>1, <2>1 DEF IInv, TypeOK, SessionAccepted
    <2> QED
        BY <2>1, <2>3, <2>4, <2>5, CallStep
<1> QED
    BY <1>2, <1>3

\* The claim of a base that is free, or the transaction's own.
LEMMA ClaimStep ==
    ASSUME IInv, NEW t \in Threads, Claim(t)
    PROVE  IInv'
<1> DEFINE tx == calls[t].tx
           c == [calls[t] EXCEPT !.pc = "prepare"]
<1>1. /\ UNCHANGED <<records, head, gate, session, redeclared, sessionLock, base, faults>>
      /\ calls[t].pc = "claim"
      /\ Claimable(tx)
      /\ claims' = claims \cup {tx}
      /\ Set(t, c)
    BY DEF Claim, At, Goto
<1>2. calls[t] \in Calls /\ Holds(calls[t]) /\ tx \in Transactions /\ IsPrefix(Base(tx), gate)
    BY <1>1, CallFields DEF Holds
<1>3. /\ c \in Calls /\ c.pc = "prepare" /\ c.tx = tx
      /\ c.todo = calls[t].todo /\ c.found = calls[t].found
    BY <1>2 DEF Calls
<1> HIDE DEF c
<1>4. /\ calls' \in [Threads -> Calls]
      /\ calls'[t] = c /\ \A u \in Threads \ {t} : calls'[u] = calls[u]
    BY <1>1, <1>3, SetCall DEF IInv
<1>5. TypeOK'
    BY <1>1, <1>2, <1>4 DEF IInv, TypeOK
<1>6. \A u \in Threads : Holds(calls[u])' /\ Publishes(calls[u])'
    <2>1. Holds(calls[t])' /\ Publishes(calls[t])'
        BY <1>1, <1>2, <1>3, <1>4 DEF Holds, Publishes, Accepted
    <2>2. \A u \in Threads \ {t} : Holds(calls[u])' /\ Publishes(calls[u])'
        BY <1>1, <1>4 DEF IInv, CallsHold, Holds, Publishes
    <2> QED
        BY <2>1, <2>2
<1>7. OnePublisher'
    BY <1>3, <1>4 DEF IInv, OnePublisher, At
<1>8. Heads' /\ SessionAccepted'
    BY <1>1 DEF IInv, Heads, SessionAccepted
<1>9. Claimed'
    BY <1>1, <1>2 DEF IInv, Claimed, Claimable
<1> QED
    BY <1>5, <1>6, <1>7, <1>8, <1>9 DEF IInv, CallsHold

\* prepare writes the first record, or finds that it is there.
LEMMA PrepareStep ==
    ASSUME IInv, NEW t \in Threads, Prepare(t)
    PROVE  IInv'
<1> DEFINE tx == calls[t].tx
<1>1. /\ UNCHANGED <<claims, head, gate, session, redeclared, sessionLock, base, faults>>
      /\ calls[t].pc = "prepare"
      /\ Unlocked(tx)
    BY DEF Prepare, At
<1>2. /\ calls[t] \in Calls /\ Holds(calls[t]) /\ tx \in Transactions /\ head[tx] \in 0..3
      /\ tx \in claims
    BY <1>1, CallFields DEF Working, Holds
<1>3. CASE head[tx] = 0
    <2>1. PICK next \in 0..3 : next = 1
        OBVIOUS
    <2> DEFINE c == [calls[t] EXCEPT !.pc = "publish", !.tx = tx, !.next = next,
                                     !.after = "population"]
    <2>2. records' = records \cup {<<tx, 1>>} /\ Set(t, c)
        BY <1>3, <2>1 DEF Prepare, PublishRecord
    <2>3. tx \in Graphs
        BY <1>2 DEF Transactions
    <2>4. /\ c \in Calls /\ c.pc = "publish" /\ c.tx = tx /\ c.next = next
          /\ c.after = "population" /\ c.todo = calls[t].todo /\ c.found = calls[t].found
        BY <1>2, <2>3 DEF Calls
    <2> HIDE DEF c
    <2>5. Holds(c)
        BY <1>1, <1>2, <2>4 DEF Holds, Working, Accepted
    <2>6. calls' \in [Threads -> Calls]
        BY <2>2, <2>4, SetCall DEF IInv
    <2>7. TypeOK'
        BY <1>1, <1>2, <2>2, <2>6 DEF IInv, TypeOK
    <2> QED
        BY <1>1, <1>3, <2>1, <2>2, <2>4, <2>5, <2>7, RecordStep DEF Accepted
<1>4. CASE head[tx] # 0
    <2>1. PICK seen \in 0..3 : seen = head[tx]
        BY <1>2
    <2> DEFINE c == [calls[t] EXCEPT !.seen = seen, !.pc = "population"]
    <2>2. Set(t, c) /\ UNCHANGED records
        BY <1>4, <2>1 DEF Prepare
    <2>3. /\ c \in Calls /\ c.pc = "population" /\ c.tx = tx
          /\ c.todo = calls[t].todo /\ c.found = calls[t].found
        BY <1>2 DEF Calls
    <2> HIDE DEF c
    <2>4. Holds(c) /\ c.pc # "publish"
        BY <1>2, <2>3 DEF Holds, Working, Accepted
    <2>5. /\ SessionAccepted' /\ UNCHANGED <<journal, gate, base>>
          /\ session' \in Graphs \cup {NoGraph} /\ redeclared' \in BOOLEAN
          /\ sessionLock' \in Threads \cup {NoThread} /\ faults' \in 0..MaxFaults
        BY <1>1, <2>2 DEF IInv, TypeOK, SessionAccepted, journal
    <2> QED
        BY <2>2, <2>3, <2>4, <2>5, CallStep
<1> QED
    BY <1>3, <1>4

\* advance writes the next record, finds it done, or raises.
LEMMA AdvanceStep ==
    ASSUME IInv, NEW t \in Threads, PopulationCommitted(t) \/ ExecutionCommitted(t)
    PROVE  IInv'
<1> DEFINE tx == calls[t].tx
<1>1. PICK pc \in {"commit", "finish"}, target \in 0..3, after \in {"install", "reload", "done"} :
          /\ Advance(t, pc, target, after)
          /\ target \in {2, 3}
    <2>1. 2 \in 0..3 /\ 3 \in 0..3
        OBVIOUS
    <2> QED
        BY <2>1 DEF PopulationCommitted, ExecutionCommitted
<1>2. /\ UNCHANGED <<claims, head, gate, session, redeclared, sessionLock, base, faults>>
      /\ calls[t].pc = pc
      /\ Unlocked(tx)
    BY <1>1 DEF Advance, At
<1>3. /\ calls[t] \in Calls /\ Holds(calls[t]) /\ tx \in Transactions /\ head[tx] \in 0..3
      /\ tx \in claims /\ IsPrefix(tx, gate) /\ tx \in Graphs
    BY <1>2, CallFields DEF Working, Holds, Accepted
<1>4. CASE /\ AlreadyAdvanced(t, target)
           /\ Set(t, [calls[t] EXCEPT !.pc = after, !.seen = head[calls[t].tx]])
           /\ UNCHANGED records
    <2>1. PICK seen \in 0..3 : seen = head[tx]
        BY <1>3
    <2> DEFINE c == [calls[t] EXCEPT !.pc = after, !.seen = seen]
    <2>2. Set(t, c) /\ UNCHANGED records
        BY <1>4, <2>1
    <2>3. /\ c \in Calls /\ c.pc = after /\ c.tx = tx
          /\ c.todo = calls[t].todo /\ c.found = calls[t].found
        BY <1>3 DEF Calls
    <2> HIDE DEF c
    <2>4. Holds(c) /\ c.pc # "publish"
        BY <1>3, <2>3 DEF Holds, Working
    <2>5. /\ SessionAccepted' /\ UNCHANGED <<journal, gate, base>>
          /\ session' \in Graphs \cup {NoGraph} /\ redeclared' \in BOOLEAN
          /\ sessionLock' \in Threads \cup {NoThread} /\ faults' \in 0..MaxFaults
        BY <1>2, <2>2 DEF IInv, TypeOK, SessionAccepted, journal
    <2> QED
        BY <2>2, <2>3, <2>4, <2>5, CallStep
<1>5. CASE MayAdvance(t, target) /\ PublishRecord(t, tx, target, after)
    <2> DEFINE c == [calls[t] EXCEPT !.pc = "publish", !.tx = tx, !.next = target,
                                     !.after = after]
    <2>1. /\ records' = records \cup {<<tx, target>>} /\ Set(t, c)
          /\ target = head[tx] + 1
        BY <1>5 DEF MayAdvance, PublishRecord
    <2>2. /\ c \in Calls /\ c.pc = "publish" /\ c.tx = tx /\ c.next = target
          /\ c.after = after /\ c.todo = calls[t].todo /\ c.found = calls[t].found
        BY <1>3 DEF Calls
    <2> HIDE DEF c
    <2>3. Holds(c)
        BY <1>2, <1>3, <2>2 DEF Holds, Working, Accepted
    <2>4. calls' \in [Threads -> Calls]
        BY <2>1, <2>2, SetCall DEF IInv
    <2>5. <<tx, target>> \in Transactions \X (1..3)
        BY <1>1, <1>3
    <2>6. TypeOK'
        BY <1>2, <2>1, <2>4, <2>5 DEF IInv, TypeOK
    <2> QED
        BY <1>2, <1>3, <2>1, <2>2, <2>3, <2>6, RecordStep
<1> QED
    BY <1>1, <1>4, <1>5 DEF Advance

\* revise_graph: the gate only moves on, by one revision.
LEMMA CommitPopulationStep ==
    ASSUME IInv, NEW t \in Threads, CommitPopulation(t)
    PROVE  /\ IInv'
           /\ gate' = calls[t].tx /\ calls[t].tx \in claims
           /\ gate \in {calls[t].tx, Base(calls[t].tx)}
<1> DEFINE tx == calls[t].tx
           c == [calls[t] EXCEPT !.pc = "commit"]
<1>1. /\ UNCHANGED <<journal, session, redeclared, sessionLock, base, faults>>
      /\ calls[t].pc = "population"
      /\ gate \in {tx, Base(tx)} /\ gate' = tx
      /\ Set(t, c)
    BY DEF CommitPopulation, At, Goto
<1>2. /\ calls[t] \in Calls /\ Holds(calls[t])
      /\ tx \in Transactions /\ tx \in Graphs /\ tx \in claims /\ gate \in Graphs
    BY <1>1, CallFields DEF Holds, Working, IInv, TypeOK
<1>3. IsPrefix(gate, gate') /\ IsPrefix(tx, gate') /\ gate' \in Graphs
    BY <1>1, <1>2, PrefixOrder, BaseOfTransaction
<1>4. \A g \in Graphs : IsPrefix(g, gate) => IsPrefix(g, gate')
    BY <1>2, <1>3, PrefixOrder
<1>5. /\ c \in Calls /\ c.pc = "commit" /\ c.tx = tx
      /\ c.todo = calls[t].todo /\ c.found = calls[t].found
    BY <1>2 DEF Calls
<1> HIDE DEF c
<1>6. /\ calls' \in [Threads -> Calls]
      /\ calls'[t] = c /\ \A u \in Threads \ {t} : calls'[u] = calls[u]
    BY <1>1, <1>5, SetCall DEF IInv
<1>7. UNCHANGED <<claims, records, head>> /\ claims \subseteq Transactions
    BY <1>1 DEF journal, IInv, TypeOK
<1>8. TypeOK'
    BY <1>1, <1>3, <1>6, <1>7 DEF IInv, TypeOK
<1>9. \A u \in Threads : \A f \in calls[u].found :
          f[1] \in claims /\ (f[2] # 1 => IsPrefix(f[1], gate'))
    <2>1. SUFFICES ASSUME NEW u \in Threads, NEW f \in calls[u].found
                   PROVE  f[1] \in claims /\ (f[2] # 1 => IsPrefix(f[1], gate'))
        OBVIOUS
    <2>2. f[1] \in claims /\ (f[2] # 1 => IsPrefix(f[1], gate))
        BY CallFields DEF Holds
    <2>3. f[1] \in Graphs
        BY <1>7, <2>2 DEF Transactions
    <2> QED
        BY <1>4, <2>2, <2>3
<1>10. Holds(calls[t])' /\ Publishes(calls[t])'
    BY <1>2, <1>3, <1>5, <1>6, <1>7, <1>9 DEF Holds, Publishes, Accepted
<1>11. ASSUME NEW u \in Threads \ {t}
       PROVE  Holds(calls[u])' /\ Publishes(calls[u])'
    <2>1. calls'[u] = calls[u] /\ calls[u].tx \in Graphs /\ Holds(calls[u]) /\ Publishes(calls[u])
        BY <1>6, CallFields
    <2>2. calls[u].pc = "claim" => IsPrefix(Base(calls[u].tx), gate')
        BY <1>4, <2>1, BaseOfTransaction DEF Holds
    <2>3. calls[u].pc \in Accepted => IsPrefix(calls[u].tx, gate')
        BY <1>4, <2>1 DEF Holds
    <2>4. Holds(calls[u])'
        BY <1>7, <1>9, <2>1, <2>2, <2>3 DEF Holds
    <2>5. Publishes(calls[u])'
        BY <1>4, <1>7, <2>1 DEF Publishes
    <2> QED
        BY <2>4, <2>5
<1>12. CallsHold'
    BY <1>10, <1>11 DEF CallsHold
<1>13. OnePublisher'
    BY <1>5, <1>6 DEF IInv, OnePublisher, At
<1>14. Heads'
    BY <1>4, <1>7 DEF IInv, Heads, Transactions
<1>15. Claimed'
    <2>1. \A x \in claims : IsPrefix(Base(x), gate')
        BY <1>4, <1>7, BaseOfTransaction DEF IInv, Claimed
    <2>2. \A n \in 1..Len(gate') : SubSeq(gate', 1, n) \in claims
        <3>1. CASE gate = tx
            BY <1>1, <3>1 DEF IInv, Claimed
        <3>2. CASE gate = Base(tx)
            <4> SUFFICES ASSUME NEW n \in 1..Len(tx)
                         PROVE  SubSeq(tx, 1, n) \in claims
                BY <1>1
            <4>1. SubSeq(tx, 1, n) = IF n = Len(tx) THEN tx ELSE SubSeq(gate, 1, n)
                BY <1>2, <3>2, RevisionsOfBase
            <4>2. Len(tx) \in Nat /\ Len(gate) = Len(tx) - 1
                BY <1>2, <3>2, BaseOfTransaction, TransactionLength
            <4>3. n # Len(tx) => n \in 1..Len(gate)
                BY <4>2
            <4> QED
                BY <1>2, <4>1, <4>3 DEF IInv, Claimed
        <3> QED
            BY <1>1, <3>1, <3>2
    <2>3. \A a, b \in claims : Base(a) = Base(b) => a = b
        BY DEF IInv, Claimed
    <2> QED
        BY <1>7, <2>1, <2>2, <2>3 DEF Claimed
<1>16. SessionAccepted'
    BY <1>1, <1>4 DEF IInv, SessionAccepted
<1> QED
    BY <1>1, <1>2, <1>8, <1>12, <1>13, <1>14, <1>15, <1>16 DEF IInv

\* A step that changes nothing.
LEMMA StutterStep ==
    ASSUME IInv, UNCHANGED vars
    PROVE  IInv'
<1>1. UNCHANGED <<journal, gate, session, redeclared, sessionLock, base, calls, faults>>
    BY DEF vars
<1>2. UNCHANGED <<claims, records, head>>
    BY <1>1 DEF journal
<1>3. TypeOK' /\ SessionAccepted'
    BY <1>1, <1>2 DEF IInv, TypeOK, SessionAccepted
<1> QED
    BY <1>1, <1>3, QuietStep

LEMMA NextInv ==
    ASSUME IInv, [Next]_vars
    PROVE  IInv'
<1>1. CASE Turn \/ Boot
    BY <1>1, TurnStep
<1>2. CASE Crash
    BY <1>2, CrashStep
<1>3. ASSUME NEW t \in Threads, Proceed(t) \/ Fault(t)
      PROVE  IInv'
    <2>1. CASE \/ EnsureRaises(t) \/ InstallRaises(t) \/ ProposeRefused(t) \/ ClaimRefused(t)
               \/ PopulationStale(t) \/ AdvanceRaises(t) \/ Fault(t)
        BY <2>1, RaisingStep
    <2>2. CASE Materialize(t)
        BY <2>2, MaterializeStep
    <2>3. CASE Ensure(t)
        BY <2>3, EnsureStep
    <2>4. CASE Recovered(t)
        BY <2>4, RecoveredStep
    <2>5. CASE Reload(t)
        BY <2>5, ReloadStep
    <2>6. CASE Install(t) \/ Switch(t)
        BY <2>6, InstallStep
    <2>7. CASE Propose(t)
        BY <2>7, ProposeStep
    <2>8. CASE Claim(t)
        BY <2>8, ClaimStep
    <2>9. CASE Prepare(t)
        BY <2>9, PrepareStep
    <2>10. CASE CommitPopulation(t)
        BY <2>10, CommitPopulationStep
    <2>11. CASE PopulationCommitted(t) \/ ExecutionCommitted(t)
        BY <2>11, AdvanceStep
    <2>12. CASE PublishHead(t)
        BY <2>12, PublishHeadStep
    <2>13. CASE Done(t)
        BY <2>13, DoneStep
    <2> QED
        BY <1>3, <2>1, <2>2, <2>3, <2>4, <2>5, <2>6, <2>7, <2>8, <2>9, <2>10, <2>11, <2>12, <2>13
        DEF Proceed, Recover, Revise, Commit
<1>4. CASE UNCHANGED vars
    BY <1>4, StutterStep
<1> QED
    BY <1>1, <1>2, <1>3, <1>4 DEF Next

LEMMA Invariant == Spec => []IInv
<1>1. Init => IInv
    BY InitInv
<1>2. IInv /\ [Next]_vars => IInv'
    BY NextInv
<1> QED
    BY <1>1, <1>2, PTL DEF Spec

-------------------------------------------------------------------------------
(* What the journal promises *)

\* No call, no recovery and no crash takes a field out of its range: no graph
\* grows beyond the revision budget or uses a trigger twice
\* (validate_grounded_execution_graph_revision).
THEOREM TypeCorrect == Spec => []TypeOK
<1>1. IInv => TypeOK
    BY DEF IInv
<1> QED
    BY <1>1, Invariant, PTL

\* Every revision the gate accepted is the one claim of its base (prepare
\* before revise_graph; _claim_base).
THEOREM GateIsInJournal == Spec => []GateIsClaimed
<1>1. ASSUME IInv
      PROVE  GateIsClaimed
    <2> SUFFICES ASSUME NEW n \in 1..Len(gate),
                        NEW tx \in claims \cup {SubSeq(gate, 1, n)},
                        Base(tx) = SubSeq(gate, 1, n - 1)
                 PROVE  tx = SubSeq(gate, 1, n) /\ tx \in claims
        BY DEF GateIsClaimed
    <2>1. SubSeq(gate, 1, n) \in claims
        BY <1>1 DEF IInv, Claimed
    <2>2. Base(SubSeq(gate, 1, n)) = SubSeq(gate, 1, n - 1)
        BY <1>1, RevisionChain DEF IInv, TypeOK
    <2> QED
        BY <1>1, <2>1, <2>2 DEF IInv, Claimed
<1> QED
    BY <1>1, Invariant, PTL

\* Neither the session nor a head of the journal is ahead of the gate
\* (revise_graph comes before advance and before the session is switched).
THEOREM SessionIsNotAhead == Spec => []SessionNotAhead
<1>1. IInv => SessionNotAhead
    BY DEF IInv, TypeOK, SessionAccepted, Heads, SessionNotAhead
<1> QED
    BY <1>1, Invariant, PTL

\* A head goes through the statuses one by one, each on disk before it is named
\* (_publish_record_locked).
THEOREM HeadsAdvance == Spec => HeadAdvances
<1> DEFINE Step ==
        \A tx \in Transactions :
            /\ head'[tx] \in {head[tx], head[tx] + 1}
            /\ head'[tx] # 0 => <<tx, head'[tx]>> \in records'
<1>1. ASSUME IInv, [Next]_vars
      PROVE  [Step]_vars
    <2>1. Heads'
        BY <1>1, NextInv DEF IInv
    <2>2. head' = head \/ \E t \in Threads : PublishHead(t)
        BY <1>1 DEF Next, vars, journal, Turn, Boot, Crash, Proceed, Fault, Recover, Revise, Commit,
           Materialize, Ensure, EnsureRaises, Recovered, Reload, Install, InstallRaises, Propose,
           ProposeRefused, Claim, ClaimRefused, Prepare, Switch, CommitPopulation,
           PopulationStale, PopulationCommitted, ExecutionCommitted, Advance, AdvanceRaises, Done
    <2>3. ASSUME NEW tx \in Transactions
          PROVE  head'[tx] \in {head[tx], head[tx] + 1}
        <3>1. CASE head' = head
            BY <3>1
        <3>2. ASSUME NEW t \in Threads, PublishHead(t)
              PROVE  head'[tx] \in {head[tx], head[tx] + 1}
            BY <1>1, <3>2, PublishHeadStep DEF IInv, TypeOK
        <3> QED
            BY <2>2, <3>1, <3>2
    <2> QED
        BY <2>1, <2>3 DEF Heads
<1> QED
    BY <1>1, Invariant, PTL DEF Spec, HeadAdvances
===============================================================================
