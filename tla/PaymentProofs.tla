--------------------------- MODULE PaymentProofs ---------------------------
(***************************************************************************)
(* The proof that the bridge pays for nothing that was not executed, for   *)
(* every number of scripts, requests, blocks, sessions and chains.  What a *)
(* session has paid for a payload, what it may still pay in the rest of    *)
(* the block it reads, and what waits for it in the blocks announced to    *)
(* it, never exceed together what the chains earned: the withdrawals they  *)
(* executed and the transfers they accepted.                               *)
(***************************************************************************)
EXTENDS IgnotoSystemProofs
-----------------------------------------------------------------------------
(* Counting events and requests. *)

SeenEvents == {Seen(e) : e \in EventSet}

Pays(e, p) == Bridge!Payable(e) /\ Bridge!Payload(e) = p
IsTest(p) == p = <<0, "transferred-event-test">>

\* Events of a block, from a position on, that pay p.
Count(b, from, p) == Cardinality({n \in DOMAIN b : n >= from /\ Pays(b[n], p)})

\* Those of a chain, and those of its blocks that wait in a queue.
Counts(c, p) == [n \in DOMAIN c |-> Count(c[n], 1, p)]
OnChain(c, p) == SumOver(Counts(c, p), DOMAIN c)
Waiting(c, q) == {n \in DOMAIN c : \E i \in DOMAIN q : q[i] = n}
Ahead(c, q, p) == SumOver(Counts(c, p), Waiting(c, q))

\* Requests of a session for p.
Orders(ps, s, p) == {j \in DOMAIN ps : ps[j].session = s /\ ps[j].payload = p}
Posted(ps, s, p) == Cardinality(Orders(ps, s, p))

\* A block's events that pay p.
LEMMA CountFinite ==
  ASSUME NEW X, NEW b \in Seq(X), NEW from, NEW p
  PROVE  /\ IsFiniteSet({n \in DOMAIN b : n >= from /\ Pays(b[n], p)})
         /\ Count(b, from, p) \in Nat
<1> DEFINE C == {n \in DOMAIN b : n >= from /\ Pays(b[n], p)}
<1>1. DOMAIN b = 1 .. Len(b) /\ Len(b) \in Nat
  OBVIOUS
<1>2. IsFiniteSet(1 .. Len(b))
  BY <1>1, FS_Interval
<1>3. IsFiniteSet(C)
  <2>1. C \subseteq 1 .. Len(b)
    BY <1>1
  <2> HIDE DEF C
  <2> QED BY <1>2, <2>1, FS_Subset
<1>4. Cardinality(C) \in Nat
  <2> HIDE DEF C
  <2> QED BY <1>3, FS_CardinalityType
<1> QED BY <1>3, <1>4 DEF Count

\* One position further.
LEMMA CountStep ==
  ASSUME NEW X, NEW b \in Seq(X), NEW from \in 1 .. Len(b), NEW p
  PROVE  Count(b, from, p) = Count(b, from + 1, p) + (IF Pays(b[from], p) THEN 1 ELSE 0)
<1> DEFINE C == {n \in DOMAIN b : n >= from /\ Pays(b[n], p)}
           D == {n \in DOMAIN b : n >= from + 1 /\ Pays(b[n], p)}
<1>1. DOMAIN b = 1 .. Len(b) /\ Len(b) \in Nat
  OBVIOUS
<1>2. C = (IF Pays(b[from], p) THEN D \cup {from} ELSE D) /\ from \notin D
  BY <1>1
<1>3. IsFiniteSet(D) /\ Cardinality(D) \in Nat
  BY CountFinite DEF Count
<1> HIDE DEF C, D
<1>4. Cardinality(D \cup {from}) = Cardinality(D) + 1
  BY <1>2, <1>3, FS_AddElement
<1>5. Cardinality(C) = Cardinality(D) + (IF Pays(b[from], p) THEN 1 ELSE 0)
  <2>1. CASE Pays(b[from], p)
    BY <1>2, <1>4, <2>1
  <2>2. CASE ~Pays(b[from], p)
    BY <1>2, <1>3, <2>2
  <2> QED BY <2>1, <2>2
<1> QED BY <1>5 DEF Count, C, D

\* Nothing in an empty block.
LEMMA CountNone ==
  ASSUME NEW from, NEW p
  PROVE  Count(<<>>, from, p) = 0
<1>1. {n \in DOMAIN <<>> : n >= from /\ Pays(<<>>[n], p)} = {}
  OBVIOUS
<1> QED BY <1>1, FS_EmptySet DEF Count

\* What waits is a part of the chain.
LEMMA WaitingFinite ==
  ASSUME NEW X, NEW c \in Seq(Seq(X)), NEW q, NEW p
  PROVE  /\ IsFiniteSet(DOMAIN c) /\ IsFiniteSet(Waiting(c, q))
         /\ Waiting(c, q) \subseteq DOMAIN c
         /\ \A n \in DOMAIN c : Counts(c, p)[n] = Count(c[n], 1, p) /\ Counts(c, p)[n] \in Nat
         /\ OnChain(c, p) \in Nat /\ Ahead(c, q, p) \in Nat
<1>1. DOMAIN c = 1 .. Len(c) /\ Len(c) \in Nat /\ \A n \in DOMAIN c : c[n] \in Seq(X)
  OBVIOUS
<1>2. IsFiniteSet(DOMAIN c)
  BY <1>1, FS_Interval
<1>3. Waiting(c, q) \subseteq DOMAIN c
  BY DEF Waiting
<1>4. IsFiniteSet(Waiting(c, q))
  BY <1>2, <1>3, FS_Subset
<1>5. \A n \in DOMAIN c : Counts(c, p)[n] = Count(c[n], 1, p) /\ Counts(c, p)[n] \in Nat
  BY <1>1, CountFinite DEF Counts
<1>6. OnChain(c, p) \in Nat
  BY <1>2, <1>5, SumNatural DEF OnChain
<1>7. Ahead(c, q, p) \in Nat
  BY <1>3, <1>4, <1>5, SumNatural DEF Ahead
<1> QED BY <1>2, <1>3, <1>4, <1>5, <1>6, <1>7

\* The first of the queue is taken out.
LEMMA AheadTail ==
  ASSUME NEW X, NEW c \in Seq(Seq(X)), NEW q \in Seq(Nat \ {0}), q # <<>>, NEW p,
         \A i, j \in DOMAIN q : q[i] = q[j] => i = j
  PROVE  Ahead(c, q, p) =
           Ahead(c, Tail(q), p) + (IF Head(q) <= Len(c) THEN Count(c[Head(q)], 1, p) ELSE 0)
<1> DEFINE h == Head(q)
           W == Waiting(c, q)
           V == Waiting(c, Tail(q))
<1>1. /\ DOMAIN q = 1 .. Len(q) /\ Len(q) \in Nat \ {0} /\ h = q[1] /\ h \in Nat \ {0}
      /\ DOMAIN Tail(q) = 1 .. Len(q) - 1
      /\ \A i \in 1 .. Len(q) - 1 : Tail(q)[i] = q[i + 1]
      /\ DOMAIN c = 1 .. Len(c) /\ Len(c) \in Nat
  OBVIOUS
<1>2. V = W \ {h}
  <2>1. ASSUME NEW n \in V PROVE n \in W \ {h}
    <3>1. PICK i \in 1 .. Len(q) - 1 : q[i + 1] = n
      BY <1>1 DEF Waiting
    <3>2. i + 1 \in DOMAIN q /\ i + 1 # 1 /\ 1 \in DOMAIN q
      BY <1>1
    <3> QED BY <1>1, <3>1, <3>2 DEF Waiting
  <2>2. ASSUME NEW n \in W \ {h} PROVE n \in V
    <3>1. PICK i \in DOMAIN q : q[i] = n
      BY DEF Waiting
    <3>2. i # 1
      BY <1>1, <3>1
    <3>3. i - 1 \in 1 .. Len(q) - 1 /\ q[(i - 1) + 1] = n
      BY <1>1, <3>1, <3>2
    <3>4. Tail(q)[i - 1] = n
      BY <1>1, <3>3
    <3> QED BY <1>1, <3>3, <3>4 DEF Waiting
  <2> QED BY <2>1, <2>2
<1>3. h \in W <=> h <= Len(c)
  <2>1. 1 \in DOMAIN q /\ q[1] = h
    BY <1>1
  <2>2. h \in W <=> h \in DOMAIN c
    BY <2>1 DEF Waiting
  <2> QED BY <1>1, <2>2
<1>4. /\ IsFiniteSet(W) /\ W \subseteq DOMAIN c
      /\ \A n \in DOMAIN c : Counts(c, p)[n] = Count(c[n], 1, p) /\ Counts(c, p)[n] \in Nat
      /\ Ahead(c, q, p) \in Nat /\ Ahead(c, Tail(q), p) \in Nat
  BY WaitingFinite
<1> HIDE DEF h, W, V
<1>5. CASE h \in W
  <2>1. \A n \in W : Counts(c, p)[n] \in Int
    BY <1>4
  <2>2. SumOver(Counts(c, p), W) = Counts(c, p)[h] + SumOver(Counts(c, p), W \ {h})
    BY <1>4, <1>5, <2>1, SumTake
  <2>3. Counts(c, p)[h] = Count(c[h], 1, p) /\ Counts(c, p)[h] \in Nat
    BY <1>4, <1>5
  <2>4. Ahead(c, q, p) = Counts(c, p)[h] + Ahead(c, Tail(q), p)
    BY <1>2, <2>2 DEF Ahead, W, V
  <2> QED BY <1>3, <1>4, <1>5, <2>3, <2>4 DEF h
<1>6. CASE h \notin W
  <2>1. V = W
    BY <1>2, <1>6
  <2>2. Ahead(c, q, p) = Ahead(c, Tail(q), p)
    BY <2>1 DEF Ahead, W, V
  <2> QED BY <1>3, <1>4, <1>6, <2>2 DEF h
<1> QED BY <1>5, <1>6

\* An empty queue, or an empty chain.
LEMMA AheadNone ==
  ASSUME NEW c, NEW q, NEW p
  PROVE  Ahead(c, <<>>, p) = 0 /\ Ahead(<<>>, q, p) = 0 /\ OnChain(<<>>, p) = 0
<1>1. Waiting(c, <<>>) = {} /\ Waiting(<<>>, q) = {} /\ DOMAIN <<>> = {}
  BY DEF Waiting
<1> QED BY <1>1, SumEmpty DEF Ahead, OnChain

\* A subscription's first notice.
LEMMA AheadOne ==
  ASSUME NEW X, NEW c \in Seq(Seq(X)), c # <<>>, NEW p
  PROVE  Ahead(c, <<Len(c)>>, p) <= OnChain(c, p)
<1> DEFINE n == Len(c)
           f == Counts(c, p)
<1>1. n \in DOMAIN c
  OBVIOUS
<1>2. Waiting(c, <<n>>) = {n}
  BY <1>1 DEF Waiting
<1>3. IsFiniteSet(DOMAIN c) /\ \A m \in DOMAIN c : f[m] \in Nat
  BY WaitingFinite
<1> HIDE DEF n, f
<1>4. f[n] <= SumOver(f, DOMAIN c)
  BY <1>1, <1>3, SumPart
<1>5. SumOver(f, {n}) = f[n] * 1
  <2>1. IsFiniteSet({n}) /\ Cardinality({n}) = 1
    BY FS_Singleton
  <2>2. f[n] \in Int
    BY <1>1, <1>3
  <2>3. SumOver(f, {n}) = f[n] * Cardinality({n})
    BY <2>1, <2>2, SumConstant
  <2> QED BY <2>1, <2>3
<1>6. f[n] * 1 = f[n]
  BY <1>1, <1>3
<1> QED BY <1>2, <1>4, <1>5, <1>6 DEF Ahead, OnChain, n, f

\* A block more on the chain, announced or not.
LEMMA AheadImport ==
  ASSUME NEW X, NEW c \in Seq(Seq(X)), NEW b \in Seq(X), NEW q \in Seq(Nat \ {0}), NEW r, NEW p,
         r = q \/ r = Append(q, Len(c) + 1)
  PROVE  /\ OnChain(Append(c, b), p) = OnChain(c, p) + Count(b, 1, p)
         /\ Ahead(Append(c, b), r, p) <= Ahead(c, q, p) + Count(b, 1, p)
<1> DEFINE n == Len(c)
           d == Append(c, b)
           f == Counts(c, p)
           g == Counts(d, p)
           W == Waiting(c, q)
           V == Waiting(d, r)
<1>1. /\ n \in Nat /\ DOMAIN c = 1..n /\ DOMAIN d = 1 .. n + 1 /\ d \in Seq(Seq(X))
      /\ d[n + 1] = b /\ \A i \in 1..n : d[i] = c[i]
  OBVIOUS
<1>2. /\ IsFiniteSet(W) /\ W \subseteq DOMAIN c
      /\ \A i \in DOMAIN c : f[i] = Count(c[i], 1, p) /\ f[i] \in Nat
      /\ Ahead(c, q, p) \in Nat
  BY WaitingFinite
<1>3. \A i \in DOMAIN d : g[i] = Count(d[i], 1, p) /\ g[i] \in Nat
  BY <1>1, WaitingFinite
<1>4. V = W \/ V = W \cup {n + 1}
  <2>1. /\ DOMAIN q = 1 .. Len(q) /\ Len(q) \in Nat
        /\ \A i \in DOMAIN q : q[i] = Append(q, n + 1)[i] /\ i \in DOMAIN Append(q, n + 1)
        /\ \A i \in DOMAIN Append(q, n + 1) : i \in DOMAIN q \/ Append(q, n + 1)[i] = n + 1
    OBVIOUS
  <2>2. ASSUME NEW m \in 1..n
        PROVE  m \in V <=> m \in W
    <3>1. CASE r = q
      BY <1>1, <3>1 DEF Waiting
    <3>2. CASE r = Append(q, n + 1)
      <4>1. (\E i \in DOMAIN r : r[i] = m) <=> \E i \in DOMAIN q : q[i] = m
        <5>1. m # n + 1
          BY <1>1
        <5> HIDE DEF n
        <5> QED BY <2>1, <3>2, <5>1
      <4>2. m \in DOMAIN d /\ m \in DOMAIN c
        BY <1>1
      <4> HIDE DEF n, d
      <4> QED BY <4>1, <4>2 DEF Waiting
    <3> QED BY <3>1, <3>2
  <2>3. V \subseteq 1 .. n + 1 /\ W \subseteq 1..n
    BY <1>1 DEF Waiting
  <2> HIDE DEF V, W, n
  <2>4. \A m \in 1 .. n + 1 : m \in 1..n \/ m = n + 1
    BY <1>1
  <2> QED BY <2>2, <2>3, <2>4
<1> HIDE DEF V, W, n, d, f, g
<1>5. (\A i \in 1..n : f[i] = g[i] /\ f[i] \in Int) /\ g[n + 1] = Count(b, 1, p) /\ g[n + 1] \in Nat
  <2>1. n + 1 \in DOMAIN d /\ \A i \in 1..n : i \in DOMAIN c /\ i \in DOMAIN d /\ d[i] = c[i]
    BY <1>1
  <2>2. g[n + 1] = Count(b, 1, p) /\ g[n + 1] \in Nat
    BY <1>1, <1>3, <2>1
  <2> QED BY <1>2, <1>3, <2>1, <2>2
<1>6. OnChain(d, p) = OnChain(c, p) + Count(b, 1, p)
  <2>1. SumOver(g, 1 .. n + 1) = SumOver(f, 1..n) + g[n + 1]
    <3>1. g[n + 1] \in Int
      BY <1>5
    <3> QED BY <1>1, <1>5, <3>1, SumNext
  <2> QED BY <1>1, <1>5, <2>1 DEF OnChain, f, g
<1>7. SumOver(g, W) = SumOver(f, W)
  BY <1>1, <1>2, <1>5, SumSame
<1>8. CASE V = W
  BY <1>2, <1>5, <1>6, <1>7, <1>8 DEF Ahead, f, g, V, W, d, n
<1>9. CASE V = W \cup {n + 1}
  <2>1. n + 1 \notin W /\ n + 1 \in V /\ V \ {n + 1} = W
    BY <1>1, <1>2, <1>9
  <2>2. IsFiniteSet(V) /\ \A i \in V : g[i] \in Int
    <3>1. IsFiniteSet(V)
      BY <1>2, <1>9, FS_AddElement
    <3> QED BY <1>1, <1>2, <1>3, <1>9, <3>1
  <2>3. SumOver(g, V) = g[n + 1] + SumOver(g, V \ {n + 1})
    BY <2>1, <2>2, SumTake
  <2>4. SumOver(g, V) = Count(b, 1, p) + SumOver(f, W)
    BY <1>5, <1>7, <2>1, <2>3
  <2>5. Ahead(d, r, p) = SumOver(g, V) /\ Ahead(c, q, p) = SumOver(f, W)
    BY DEF Ahead, f, g, V, W
  <2> QED BY <1>2, <1>5, <1>6, <2>4, <2>5 DEF d
<1> QED BY <1>4, <1>8, <1>9

\* There are finitely many requests.
LEMMA PostedFinite ==
  ASSUME NEW X, NEW ps \in Seq(X), NEW s, NEW p
  PROVE  IsFiniteSet(Orders(ps, s, p)) /\ Posted(ps, s, p) \in Nat
<1> DEFINE P == Orders(ps, s, p)
<1>1. DOMAIN ps = 1 .. Len(ps) /\ Len(ps) \in Nat
  OBVIOUS
<1>2. IsFiniteSet(1 .. Len(ps)) /\ P \subseteq 1 .. Len(ps)
  BY <1>1, FS_Interval DEF Orders
<1> HIDE DEF P
<1>3. IsFiniteSet(P)
  BY <1>2, FS_Subset
<1>4. Cardinality(P) \in Nat
  BY <1>3, FS_CardinalityType
<1> QED BY <1>3, <1>4 DEF P, Posted

\* One request more.
LEMMA PostedAppend ==
  ASSUME NEW X, NEW ps \in Seq(X), NEW r \in X, NEW s, NEW p
  PROVE  Posted(Append(ps, r), s, p)
           = Posted(ps, s, p) + (IF r.session = s /\ r.payload = p THEN 1 ELSE 0)
<1> DEFINE n == Len(ps)
           qs == Append(ps, r)
           P == Orders(ps, s, p)
           Q == Orders(qs, s, p)
<1>1. /\ n \in Nat /\ DOMAIN ps = 1..n /\ DOMAIN qs = 1 .. n + 1
      /\ qs[n + 1] = r /\ \A i \in 1..n : qs[i] = ps[i]
  OBVIOUS
<1> HIDE DEF qs
<1>2. /\ Q = (IF r.session = s /\ r.payload = p THEN P \cup {n + 1} ELSE P)
      /\ n + 1 \notin P
  <2>1. \A m \in 1 .. n + 1 : m \in 1..n \/ m = n + 1
    BY <1>1
  <2> QED BY <1>1, <2>1 DEF Orders
<1>3. IsFiniteSet(P)
  BY PostedFinite
<1> HIDE DEF P, Q
<1>4. Cardinality(P \cup {n + 1}) = Cardinality(P) + 1 /\ Cardinality(P) \in Nat
  BY <1>2, <1>3, FS_AddElement, FS_CardinalityType
<1>5. Cardinality(Q) = Cardinality(P) + (IF r.session = s /\ r.payload = p THEN 1 ELSE 0)
  BY <1>2, <1>4
<1> QED BY <1>5 DEF Posted, P, Q, qs
-----------------------------------------------------------------------------
\* What a block pays, by its events, and by its extrinsics.
Withdrawn(b, p) ==
  {n \in DOMAIN b : b[n].kind = "ShieldedWithdraw" /\ p = <<b[n].amount, b[n].external_address>>}
Withdraws(x, p) == x.kind = "shielded_withdraw" /\ p = <<x.args.amount, x.args.address>>
Dispatched(log, from, to, p) == {i \in from + 1 .. to : Withdraws(log[i].xt, p)}
BlockPays(p) ==
  engine = "proposing" =>
    Cardinality(Withdrawn(events, p))
      <= Cardinality(Dispatched(executed, Len(executed) - used, Len(executed), p))

\* Withdrawals that a block reports.
LEMMA WithdrawnFinite ==
  ASSUME NEW X, NEW b \in Seq(X), NEW p
  PROVE  /\ IsFiniteSet(Withdrawn(b, p)) /\ Withdrawn(b, p) \subseteq 1 .. Len(b)
         /\ Cardinality(Withdrawn(b, p)) \in Nat
<1>1. Withdrawn(b, p) \subseteq 1 .. Len(b)
  BY DEF Withdrawn
<1>2. IsFiniteSet(1 .. Len(b))
  BY FS_Interval
<1>3. IsFiniteSet(Withdrawn(b, p))
  BY <1>1, <1>2, FS_Subset
<1> QED BY <1>1, <1>3, FS_CardinalityType

\* Withdrawals that a log holds.
LEMMA DispatchedFinite ==
  ASSUME NEW log, NEW from \in Nat, NEW to \in Nat, NEW p
  PROVE  /\ IsFiniteSet(Dispatched(log, from, to, p))
         /\ Cardinality(Dispatched(log, from, to, p)) \in Nat
<1>1. Dispatched(log, from, to, p) \subseteq from + 1 .. to
  BY DEF Dispatched
<1>2. IsFiniteSet(from + 1 .. to)
  BY FS_Interval
<1>3. IsFiniteSet(Dispatched(log, from, to, p))
  BY <1>1, <1>2, FS_Subset
<1> QED BY <1>3, FS_CardinalityType

\* A call of the pallet adds an event to the block if it is executed.
LEMMA CallCounts ==
  ASSUME TypeOK, HistoryOK, NEW x \in Extrinsics, apply_extrinsic(x), NEW p
  PROVE  /\ Len(accepted') - Cardinality(TransferEvents') = Len(accepted) - Cardinality(TransferEvents)
         /\ Withdraws(x, p) => Cardinality(Withdrawn(events', p)) <= Cardinality(Withdrawn(events, p)) + 1
         /\ ~Withdraws(x, p) => Cardinality(Withdrawn(events', p)) = Cardinality(Withdrawn(events, p))
<1> DEFINE n == Len(events)
<1>1. /\ events \in Seq(EventSet) /\ n \in Nat /\ DOMAIN events = 1..n
      /\ accepted \in Seq(Calls) /\ Len(accepted) \in Nat
      /\ IsFiniteSet(TransferEvents) /\ Cardinality(TransferEvents) \in Nat
      /\ TransferEvents \subseteq 1..n
      /\ IsFiniteSet(Withdrawn(events, p)) /\ Cardinality(Withdrawn(events, p)) \in Nat
      /\ Withdrawn(events, p) \subseteq 1..n
  BY TransferPositions, WithdrawnFinite, FS_CardinalityType DEF TypeOK
<1>2. ASSUME UNCHANGED <<events, accepted>>
      PROVE  TransferEvents' = TransferEvents /\ Withdrawn(events', p) = Withdrawn(events, p)
  BY <1>2 DEF TransferEvents, Withdrawn
<1>3. ASSUME NEW e \in EventSet, events' = Append(events, e)
      PROVE  /\ TransferEvents' = IF e.kind = "Transferred" THEN TransferEvents \cup {n + 1}
                                  ELSE TransferEvents
             /\ Withdrawn(events', p) = IF e.kind = "ShieldedWithdraw"
                                     /\ p = <<e.amount, e.external_address>>
                                THEN Withdrawn(events, p) \cup {n + 1} ELSE Withdrawn(events, p)
             /\ n + 1 \notin TransferEvents /\ n + 1 \notin Withdrawn(events, p)
  <2>1. /\ DOMAIN events' = 1 .. n + 1 /\ events'[n + 1] = e
        /\ \A m \in 1..n : events'[m] = events[m]
    BY <1>1, <1>3, AppendProperties
  <2> QED BY <1>1, <2>1 DEF TransferEvents, Withdrawn
<1>4. ASSUME NEW c \in Calls, AcceptTransfer(c)
      PROVE  /\ Len(accepted') - Cardinality(TransferEvents')
                  = Len(accepted) - Cardinality(TransferEvents)
             /\ Withdrawn(events', p) = Withdrawn(events, p)
  <2>1. /\ Transferred(c) \in EventSet /\ events' = Append(events, Transferred(c))
        /\ Transferred(c).kind = "Transferred" /\ accepted' = Append(accepted, c)
    BY <1>4 DEF AcceptTransfer, EventSet, Transferred
  <2>2. Len(accepted') = Len(accepted) + 1
    BY <1>1, <2>1, AppendProperties
  <2>3. /\ TransferEvents' = TransferEvents \cup {n + 1} /\ n + 1 \notin TransferEvents
        /\ Withdrawn(events', p) = Withdrawn(events, p)
    BY <1>3, <2>1
  <2>4. Cardinality(TransferEvents') = Cardinality(TransferEvents) + 1
    BY <1>1, <2>3, FS_AddElement
  <2> QED BY <1>1, <2>2, <2>3, <2>4
<1>5. ASSUME NEW w \in Withdrawals, events' = Append(events, ShieldedWithdraw(w)),
             accepted' = accepted
      PROVE  /\ Len(accepted') - Cardinality(TransferEvents')
                  = Len(accepted) - Cardinality(TransferEvents)
             /\ IF p = <<w.amount, w.address>>
                THEN Cardinality(Withdrawn(events', p)) = Cardinality(Withdrawn(events, p)) + 1
                ELSE Withdrawn(events', p) = Withdrawn(events, p)
  <2> DEFINE e == ShieldedWithdraw(w)
  <2>1. /\ e \in EventSet /\ e.kind = "ShieldedWithdraw" /\ e.amount = w.amount
        /\ e.external_address = w.address
    BY DEF EventSet, ShieldedWithdraw
  <2> HIDE DEF e
  <2>2. /\ TransferEvents' = TransferEvents /\ n + 1 \notin Withdrawn(events, p)
        /\ Withdrawn(events', p) = IF p = <<w.amount, w.address>> THEN Withdrawn(events, p) \cup {n + 1}
                           ELSE Withdrawn(events, p)
    BY <1>3, <1>5, <2>1 DEF e
  <2>3. p = <<w.amount, w.address>>
          => Cardinality(Withdrawn(events', p)) = Cardinality(Withdrawn(events, p)) + 1
    BY <1>1, <2>2, FS_AddElement
  <2> QED BY <1>5, <2>2, <2>3
<1>6. CASE x.kind = "transfer_shielded" /\ transfer_shielded(x.args)
  <2>1. x.args \in Calls /\ ~Withdraws(x, p)
    BY <1>6, RuntimeAssumption DEF Withdraws
  <2> QED BY <1>2, <1>4, <1>6, <2>1 DEF transfer_shielded, RejectUnproven, Reject
<1>7. CASE x.kind = "shielded_withdraw" /\ shielded_withdraw(x.args)
  <2>1. x.args \in Withdrawals /\ x.args.origin = "signed"
    BY <1>7, RuntimeAssumption
  <2>2. events' = Append(events, ShieldedWithdraw(x.args)) /\ accepted' = accepted
    BY <1>7, <2>1 DEF shielded_withdraw
  <2> QED BY <1>1, <1>5, <1>7, <2>1, <2>2 DEF Withdraws
<1>8. CASE x.kind = "transfer_allow_death" /\ UNCHANGED vars
  <2>1. ~Withdraws(x, p) /\ UNCHANGED <<events, accepted>>
    BY <1>8 DEF Withdraws, vars
  <2> QED BY <1>2, <2>1
<1> QED BY <1>6, <1>7, <1>8 DEF apply_extrinsic, Dispatch

\* What the chain holds is not touched by the block under construction.
LEMMA ImportedStays ==
  ASSUME ChainInv,
         \/ \E x \in Extrinsics : PushExtrinsic(x)
         \/ StartBlock /\ number < LastBlock
  PROVE  Imported' = Imported
<1>1. executed \in Seq([xt : Extrinsics, life : Nat]) /\ used \in Nat /\ used <= Len(executed)
  BY RuntimeAssumption DEF ChainInv, RuntimeTypes, HistoryOK
<1>2. ASSUME NEW x \in Extrinsics, PushExtrinsic(x)
      PROVE  Imported' = Imported
  <2>1. /\ engine = "proposing" /\ engine' = engine /\ used' = used + 1
        /\ executed' = Append(executed, [xt |-> x, life |-> life[x.signer]])
    BY <1>2 DEF PushExtrinsic, Offered, apply_extrinsic
  <2>2. Len(executed') = Len(executed) + 1
    BY <1>1, <2>1
  <2>3. SubSeq(executed', 1, Len(executed') - used') = SubSeq(executed, 1, Len(executed) - used)
    <3> DEFINE m == Len(executed) - used
    <3>1. m \in Nat /\ m <= Len(executed) /\ Len(executed') - used' = m
      BY <1>1, <2>1, <2>2
    <3> HIDE DEF m
    <3>2. SubSeq(executed', 1, m) = SubSeq(executed, 1, m)
      BY <1>1, <2>1, <3>1
    <3> QED BY <3>1, <3>2 DEF m
  <2>4. Len(accepted') - Cardinality(TransferEvents') = Len(accepted) - Cardinality(TransferEvents)
    BY <1>2, CallCounts DEF PushExtrinsic, ChainInv, RuntimeTypes
  <2> QED BY <2>1, <2>3, <2>4 DEF Imported
<1>3. ASSUME StartBlock, number < LastBlock
      PROVE  Imported' = Imported
  <2>1. /\ engine = "idle" /\ engine' = "proposing" /\ used' = 0 /\ events' = <<>>
        /\ executed' = executed /\ accepted' = accepted
    BY <1>3 DEF StartBlock, open_block, initialize_block
  <2>2. TransferEvents' = {}
    BY <2>1 DEF TransferEvents
  <2>3. Cardinality(TransferEvents') = 0
    BY <2>2, FS_EmptySet
  <2> QED BY <1>1, <2>1, <2>3 DEF Imported
<1> QED BY <1>2, <1>3

\* The extrinsics of a block that is being built give at least its events.
LEMMA BlockKeepsPace ==
  ASSUME ChainInv, NEW p, BlockPays(p), [SystemNext]_systemVars
  PROVE  BlockPays(p)'
<1> DEFINE m == Len(executed) - used
<1>0. /\ executed \in Seq([xt : Extrinsics, life : Nat]) /\ used \in Nat /\ used <= Len(executed)
      /\ m \in Nat /\ Len(executed) \in Nat /\ HistoryOK /\ TypeOK
  BY RuntimeAssumption DEF ChainInv, RuntimeTypes, HistoryOK
<1>1. ASSUME NEW x \in Extrinsics, PushExtrinsic(x)
      PROVE  BlockPays(p)'
  <2> DEFINE n == Len(executed)
             D == Dispatched(executed, m, n, p)
             E == {i \in m + 1 .. n + 1 : Withdraws(executed'[i].xt, p)}
  <2>1. /\ engine = "proposing" /\ used' = used + 1
        /\ executed' = Append(executed, [xt |-> x, life |-> life[x.signer]])
    BY <1>1 DEF PushExtrinsic, Offered, apply_extrinsic
  <2>2. /\ Len(executed') = n + 1 /\ executed'[n + 1].xt = x
        /\ \A i \in 1..n : executed'[i] = executed[i]
    BY <1>0, <2>1
  <2>3. Len(executed') - used' = m
    BY <1>0, <2>1, <2>2
  <2>4. Dispatched(executed', Len(executed') - used', Len(executed'), p) = E
    BY <2>2, <2>3 DEF Dispatched
  <2>5. /\ IsFiniteSet(D) /\ Cardinality(D) \in Nat
        /\ Cardinality(Withdrawn(events, p)) <= Cardinality(D)
    BY <1>0, <2>1, DispatchedFinite DEF BlockPays
  <2>6. n + 1 \notin D /\ E = IF Withdraws(x, p) THEN D \cup {n + 1} ELSE D
    BY <1>0, <2>2 DEF Dispatched
  <2>7. Cardinality(E) = IF Withdraws(x, p) THEN Cardinality(D) + 1 ELSE Cardinality(D)
    BY <2>5, <2>6, FS_AddElement
  <2>8. Cardinality(Withdrawn(events, p)) \in Nat /\ Cardinality(Withdrawn(events', p)) \in Nat
    <3>1. TypeOK'
      BY ChainInductive DEF ChainInv
    <3>2. events \in Seq(EventSet) /\ events' \in Seq(EventSet)
      BY <1>0, <3>1 DEF TypeOK
    <3> QED BY <3>2, WithdrawnFinite
  <2>9. Cardinality(Withdrawn(events', p)) <= Cardinality(E)
    <3> HIDE DEF D, E
    <3> QED BY <1>0, <1>1, <2>5, <2>7, <2>8, CallCounts DEF PushExtrinsic
  <2> QED BY <2>4, <2>9 DEF BlockPays
<1>2. ASSUME StartBlock
      PROVE  BlockPays(p)'
  <2>1. events' = <<>> /\ used' = 0 /\ executed' = executed
    BY <1>2 DEF StartBlock, open_block
  <2>2. Withdrawn(events', p) = {}
    BY <2>1 DEF Withdrawn
  <2>3. Cardinality(Withdrawn(events', p)) = 0
    BY <2>2, FS_EmptySet
  <2>4. Len(executed') = Len(executed) /\ Len(executed') - used' = Len(executed)
    BY <1>0, <2>1
  <2>5. Cardinality(Dispatched(executed, Len(executed), Len(executed), p)) \in Nat
    BY <1>0, DispatchedFinite
  <2> QED BY <2>1, <2>3, <2>4, <2>5 DEF BlockPays
<1>3. ASSUME engine' = "idle"
      PROVE  BlockPays(p)'
  BY <1>3 DEF BlockPays
<1>4. ASSUME UNCHANGED <<events, executed, used, engine>>
      PROVE  BlockPays(p)'
  BY <1>4 DEF BlockPays, Withdrawn, Dispatched
<1>5. ASSUME NEW s \in Scripts, Run(s) \/ Repost(s) \/ Arrive(s) \/ Fail(s)
      PROVE  BlockPays(p)'
  BY <1>4, <1>5 DEF Run, Repost, Arrive, Fail, Send, author_submitExtrinsic, nodeVars,
                    runtimeVars, vars, headerVars
<1>6. ASSUME NEW x \in Extrinsics, RefuseExtrinsic(x) \/ Revalidate(x)
      PROVE  BlockPays(p)'
  BY <1>4, <1>6 DEF RefuseExtrinsic, Revalidate, runtimeVars, vars, headerVars
<1>7. ASSUME TimerFires \/ BridgeMoves \/ UNCHANGED systemVars
      PROVE  BlockPays(p)'
  BY <1>4, <1>7 DEF TimerFires, BridgeMoves, systemVars, nodeVars, runtimeVars, vars, headerVars
<1>8. ASSUME SealBlock \/ Restart
      PROVE  BlockPays(p)'
  BY <1>3, <1>8 DEF SealBlock, Restart
<1> QED BY <1>1, <1>2, <1>5, <1>6, <1>7, <1>8 DEF SystemNext, NodeStep, SealAndAnnounce

\* What a log earned, by the extrinsics up to some position.
LEMMA LogEarned ==
  ASSUME NEW X, NEW log \in Seq(X), NEW m \in 0 .. Len(log), NEW t, NEW p
  PROVE  EarnedBy([executed |-> SubSeq(log, 1, m), transfers |-> t], p)
           = Cardinality(Dispatched(log, 0, m, p)) + (IF IsTest(p) THEN t ELSE 0)
<1> DEFINE part == SubSeq(log, 1, m)
           c == [executed |-> part, transfers |-> t]
<1>1. DOMAIN part = 1..m /\ \A i \in 1..m : part[i] = log[i]
  OBVIOUS
<1> HIDE DEF part
<1>2. c.executed = part /\ c.transfers = t
  OBVIOUS
<1> HIDE DEF c
<1>3. {i \in DOMAIN part : /\ part[i].xt.kind = "shielded_withdraw"
                           /\ p = <<part[i].xt.args.amount, part[i].xt.args.address>>}
        = Dispatched(log, 0, m, p)
  BY <1>1 DEF Withdraws, Dispatched
<1>4. EarnedBy(c, p) = Cardinality(Dispatched(log, 0, m, p)) + (IF IsTest(p) THEN t ELSE 0)
  BY <1>2, <1>3 DEF EarnedBy, IsTest
<1> QED BY <1>4 DEF c, part

\* What the chain earned is a number.
LEMMA ImportedEarned ==
  ASSUME ChainInv, NEW p
  PROVE  LET open == engine = "proposing"
             m == Len(executed) - (IF open THEN used ELSE 0)
             t == Len(accepted) - (IF open THEN Cardinality(TransferEvents) ELSE 0)
         IN  /\ EarnedBy(Imported, p)
                  = Cardinality(Dispatched(executed, 0, m, p)) + (IF IsTest(p) THEN t ELSE 0)
             /\ EarnedBy(Imported, p) \in Int
<1> DEFINE open == engine = "proposing"
           m == Len(executed) - (IF open THEN used ELSE 0)
           t == Len(accepted) - (IF open THEN Cardinality(TransferEvents) ELSE 0)
<1>1. executed \in Seq([xt : Extrinsics, life : Nat]) /\ used \in Nat /\ used <= Len(executed)
  BY RuntimeAssumption DEF ChainInv, RuntimeTypes, HistoryOK
<1>2. m \in 0 .. Len(executed)
  BY <1>1
<1>3. t \in Int
  <2>1. Len(accepted) \in Nat /\ Cardinality(TransferEvents) \in Nat
    BY TransferPositions DEF ChainInv, TypeOK
  <2> QED BY <2>1
<1>4. Imported = [executed |-> SubSeq(executed, 1, m), transfers |-> t]
  BY DEF Imported
<1> HIDE DEF m, t
<1>5. EarnedBy(Imported, p)
        = Cardinality(Dispatched(executed, 0, m, p)) + (IF IsTest(p) THEN t ELSE 0)
  BY <1>1, <1>2, <1>4, LogEarned
<1>6. Cardinality(Dispatched(executed, 0, m, p)) \in Nat
  BY <1>1, <1>2, DispatchedFinite
<1>7. EarnedBy(Imported, p) \in Int
  BY <1>3, <1>5, <1>6
<1> QED BY <1>5, <1>7 DEF m, t

\* The block that is imported, as the bridge will read it.
NewBlock == [i \in DOMAIN events |-> Seen(events[i])]

\* It is a sequence of events.
LEMMA NewBlockTyped ==
  ASSUME ChainInv
  PROVE  NewBlock \in Seq(SeenEvents) /\ DOMAIN NewBlock = DOMAIN events
<1>1. events \in Seq(EventSet) /\ DOMAIN events = 1 .. Len(events) /\ Len(events) \in Nat
  BY DEF ChainInv, TypeOK
<1>2. NewBlock = [i \in 1 .. Len(events) |-> Seen(events[i])]
  BY <1>1 DEF NewBlock
<1>3. \A i \in 1 .. Len(events) : Seen(events[i]) \in SeenEvents
  BY <1>1 DEF SeenEvents
<1> QED BY <1>1, <1>2, <1>3

\* An imported block earns what its events pay, or more.
LEMMA SealEarns ==
  ASSUME ChainInv, NEW p, BlockPays(p), SealBlock
  PROVE  /\ EarnedBy(Imported', p) >= EarnedBy(Imported, p) + Count(NewBlock, 1, p)
         /\ EarnedBy(Imported', p) \in Int /\ EarnedBy(Imported, p) \in Int
         /\ NewBlock \in Seq(SeenEvents) /\ Count(NewBlock, 1, p) \in Nat
<1> DEFINE n == Len(executed)
           m == n - used
           a == Len(accepted)
           e == Cardinality(TransferEvents)
           w == Cardinality(Withdrawn(events, p))
           C == {i \in DOMAIN NewBlock : i >= 1 /\ Pays(NewBlock[i], p)}
<1>1. /\ executed \in Seq([xt : Extrinsics, life : Nat]) /\ used \in Nat /\ used <= n
      /\ n \in Nat /\ m \in 0..n /\ TypeOK
  BY RuntimeAssumption DEF ChainInv, RuntimeTypes, HistoryOK
<1>2. engine = "proposing" /\ engine' = "idle" /\ executed' = executed /\ accepted' = accepted
  BY DEF SealBlock, runtimeVars, vars
<1>3. /\ events \in Seq(EventSet) /\ DOMAIN events = 1 .. Len(events) /\ Len(events) \in Nat
      /\ a \in Nat /\ e \in Nat /\ IsFiniteSet(TransferEvents)
      /\ IsFiniteSet(Withdrawn(events, p)) /\ w \in Nat
  BY <1>1, TransferPositions, WithdrawnFinite DEF TypeOK
<1>4. /\ EarnedBy(Imported, p)
           = Cardinality(Dispatched(executed, 0, m, p)) + (IF IsTest(p) THEN a - e ELSE 0)
      /\ EarnedBy(Imported, p) \in Int
  BY <1>2, ImportedEarned
<1>5. EarnedBy(Imported', p)
        = Cardinality(Dispatched(executed, 0, n, p)) + (IF IsTest(p) THEN a ELSE 0)
  <2>1. Imported' = [executed |-> SubSeq(executed, 1, n), transfers |-> a]
    BY <1>1, <1>2, <1>3 DEF Imported
  <2>2. n \in 0 .. Len(executed)
    BY <1>1
  <2> HIDE DEF n, a
  <2> QED BY <1>1, <2>1, <2>2, LogEarned
<1>6. Cardinality(Dispatched(executed, 0, n, p))
        = Cardinality(Dispatched(executed, 0, m, p)) + Cardinality(Dispatched(executed, m, n, p))
  <2> DEFINE L == Dispatched(executed, 0, m, p)
             R == Dispatched(executed, m, n, p)
  <2>1. Dispatched(executed, 0, n, p) = L \cup R /\ L \cap R = {}
    BY <1>1 DEF Dispatched
  <2>2. /\ IsFiniteSet(L) /\ IsFiniteSet(R) /\ Cardinality(L) \in Nat /\ Cardinality(R) \in Nat
    BY <1>1, DispatchedFinite
  <2>3. Cardinality({}) = 0
    BY FS_EmptySet
  <2> HIDE DEF L, R
  <2>4. Cardinality(L \cup R) = Cardinality(L) + Cardinality(R) - Cardinality(L \cap R)
    BY <2>2, FS_Union
  <2>5. Cardinality(L \cap R) = 0
    BY <2>1, <2>3
  <2>6. Cardinality(L \cup R) = Cardinality(L) + Cardinality(R)
    BY <2>2, <2>4, <2>5
  <2> QED BY <2>1, <2>6 DEF L, R
<1>7. w <= Cardinality(Dispatched(executed, m, n, p))
  BY <1>2 DEF BlockPays
<1>8. NewBlock \in Seq(SeenEvents) /\ DOMAIN NewBlock = DOMAIN events
  BY NewBlockTyped
<1>9. C \subseteq Withdrawn(events, p) \cup (IF IsTest(p) THEN TransferEvents ELSE {})
  <2> SUFFICES ASSUME NEW i \in C
               PROVE  \/ i \in Withdrawn(events, p)
                      \/ IsTest(p) /\ i \in TransferEvents
    OBVIOUS
  <2>1. i \in DOMAIN events /\ NewBlock[i] = Seen(events[i]) /\ Pays(Seen(events[i]), p)
    BY <1>8 DEF NewBlock
  <2>2. CASE events[i].kind = "Transferred"
    <3>1. Seen(events[i]).kind = "Transferred"
      BY <2>2 DEF Seen
    <3>2. p = <<0, "transferred-event-test">>
      BY <2>1, <3>1 DEF Pays, Bridge!Payload
    <3> QED BY <2>1, <2>2, <3>2 DEF IsTest, TransferEvents
  <2>3. CASE events[i].kind # "Transferred"
    <3>1. Seen(events[i]) = [kind |-> events[i].kind, amount |-> events[i].amount,
                             address |-> events[i].external_address]
      BY <2>3 DEF Seen
    <3>2. /\ Seen(events[i]).kind = events[i].kind /\ Seen(events[i]).amount = events[i].amount
          /\ Seen(events[i]).address = events[i].external_address
      BY <3>1
    <3>3. events[i].kind = "ShieldedWithdraw" /\ p = <<events[i].amount, events[i].external_address>>
      BY <2>1, <2>3, <3>2 DEF Pays, Bridge!Payable, Bridge!Payload
    <3> QED BY <2>1, <3>3 DEF Withdrawn
  <2> QED BY <2>2, <2>3
<1>10. Cardinality(C) \in Nat
  BY <1>8, CountFinite DEF Count
<1> HIDE DEF C
<1>11. Cardinality(C) <= w + (IF IsTest(p) THEN e ELSE 0)
  <2> DEFINE W == Withdrawn(events, p)
             T == TransferEvents
  <2>1. CASE IsTest(p)
    <3>1. C \subseteq W \cup T
      BY <1>9, <2>1
    <3> HIDE DEF W, T
    <3>2. IsFiniteSet(W) /\ IsFiniteSet(T)
      BY <1>3 DEF W, T
    <3>3. /\ IsFiniteSet(W \cup T)
          /\ Cardinality(W \cup T) = Cardinality(W) + Cardinality(T) - Cardinality(W \cap T)
      BY <3>2, FS_Union
    <3>4. Cardinality(C) <= Cardinality(W \cup T)
      BY <3>1, <3>3, FS_Subset
    <3>5. IsFiniteSet(W \cap T)
      BY <3>2, FS_Subset
    <3>6. Cardinality(W \cap T) \in Nat /\ Cardinality(W) \in Nat /\ Cardinality(T) \in Nat
      BY <3>2, <3>5, FS_CardinalityType
    <3>7. Cardinality(C) <= Cardinality(W) + Cardinality(T)
      BY <1>10, <3>3, <3>4, <3>6
    <3> QED BY <2>1, <3>7 DEF W, T
  <2>2. CASE ~IsTest(p)
    <3>1. C \subseteq W
      BY <1>9, <2>2
    <3> HIDE DEF W
    <3>2. Cardinality(C) <= Cardinality(W)
      BY <1>3, <3>1, FS_Subset DEF W
    <3> QED BY <1>3, <1>10, <2>2, <3>2 DEF W
  <2> QED BY <2>1, <2>2
<1>12. Count(NewBlock, 1, p) = Cardinality(C)
  BY DEF Count, C
<1>13. /\ Cardinality(Dispatched(executed, 0, m, p)) \in Nat
       /\ Cardinality(Dispatched(executed, m, n, p)) \in Nat
  BY <1>1, DispatchedFinite
<1> HIDE DEF n, m, a, e, w
<1>14. /\ EarnedBy(Imported', p) >= EarnedBy(Imported, p) + Cardinality(C)
       /\ EarnedBy(Imported', p) \in Int
  BY <1>3, <1>4, <1>5, <1>6, <1>7, <1>10, <1>11, <1>13
<1> QED BY <1>4, <1>8, <1>10, <1>12, <1>14
-----------------------------------------------------------------------------
(* The state of the bridge. *)

Request == [session : Nat, pos : Nat \X Nat, payload : {Bridge!Payload(e) : e \in SeenEvents},
            result : Bridge!Replies \cup {"sent"}]

\* Numbers in the queue differ; while the subscription lives, they are numbers of
\* blocks of the present chain.
QueueTyped ==
  /\ heads \in Seq(Nat \ {0}) /\ \A i, j \in DOMAIN heads : heads[i] = heads[j] => i = j
  /\ link = "up" => \A i \in DOMAIN heads : heads[i] <= Len(chain)
CursorTyped ==
  /\ block \in Nat /\ batch \in Seq(SeenEvents) /\ k \in Nat /\ reply \in Bridge!Replies
  /\ bridge = "stopped" => batch = <<>>
  /\ bridge \in {"events", "paying"} => k >= 1
PostsTyped ==
  /\ session \in Nat /\ posts \in Seq(Request)
  /\ \A i \in DOMAIN posts : posts[i].session <= session
BridgeTyped == chain \in Seq(Seq(SeenEvents)) /\ QueueTyped /\ CursorTyped /\ PostsTyped

\* The queue advances.
LEMMA TailTyped ==
  ASSUME QueueTyped, heads # <<>>, heads' = Tail(heads), UNCHANGED <<chain, link>>
  PROVE  QueueTyped'
<1>1. /\ DOMAIN heads = 1 .. Len(heads) /\ Len(heads) \in Nat \ {0}
      /\ heads' \in Seq(Nat \ {0}) /\ DOMAIN heads' = 1 .. Len(heads) - 1
      /\ \A i \in 1 .. Len(heads) - 1 : heads'[i] = heads[i + 1]
  BY DEF QueueTyped
<1>2. \A i \in DOMAIN heads' : i + 1 \in DOMAIN heads /\ heads'[i] = heads[i + 1] /\ i \in Nat
  BY <1>1
<1> QED BY <1>1, <1>2 DEF QueueTyped

\* A request is sent.
LEMMA SendFacts ==
  ASSUME BridgeTyped, Bridge!SendPayment
  PROVE  \E r \in Request :
           /\ posts' = Append(posts, r) /\ r.session = session
           /\ r.payload = Bridge!Payload(batch[k]) /\ Bridge!Payable(batch[k])
           /\ k \in DOMAIN batch /\ bridge = "events" /\ bridge' = "paying"
           /\ UNCHANGED <<chain, link, session, heads, block, batch, k>>
           /\ reply' \in Bridge!Replies
<1> DEFINE r == [session |-> session, pos |-> <<block, k>>,
                 payload |-> Bridge!Payload(batch[k]), result |-> "sent"]
<1>1. /\ bridge = "events" /\ k <= Len(batch) /\ Bridge!Payable(batch[k])
      /\ posts' = Append(posts, r) /\ bridge' = "paying" /\ reply' \in Bridge!Replies
      /\ UNCHANGED <<chain, link, session, heads, block, batch, k>>
  BY DEF Bridge!SendPayment, Bridge!Event, Bridge!conn
<1>2. k \in DOMAIN batch /\ batch[k] \in SeenEvents /\ session \in Nat /\ block \in Nat /\ k \in Nat
  BY <1>1 DEF BridgeTyped, CursorTyped, PostsTyped
<1>3. r \in Request /\ r.session = session /\ r.payload = Bridge!Payload(batch[k])
  <2>1. Bridge!Payload(batch[k]) \in {Bridge!Payload(e) : e \in SeenEvents}
    BY <1>2
  <2>2. <<block, k>> \in Nat \X Nat
    BY <1>2
  <2> QED BY <1>2, <2>1, <2>2 DEF Request
<1> QED BY <1>1, <1>2, <1>3

\* A request returns: who asked for what does not change.
LEMMA ReturnFacts ==
  ASSUME BridgeTyped, Bridge!PaymentReturns
  PROVE  /\ posts' \in Seq(Request) /\ DOMAIN posts' = DOMAIN posts
         /\ \A i \in DOMAIN posts : /\ posts'[i].session = posts[i].session
                                    /\ posts'[i].payload = posts[i].payload
<1> DEFINE n == Len(posts)
<1>1. posts' = [posts EXCEPT ![n].result = reply] /\ reply \in Bridge!Replies
  <2>1. reply \in Bridge!Replies
    BY DEF BridgeTyped, CursorTyped
  <2> QED BY <2>1 DEF Bridge!PaymentReturns
<1>2. posts \in Seq(Request) /\ n \in Nat /\ DOMAIN posts = 1..n
  BY DEF BridgeTyped, PostsTyped
<1>3. DOMAIN posts' = DOMAIN posts
  BY <1>1, <1>2
<1>4. ASSUME NEW i \in 1..n
      PROVE  /\ posts'[i] \in Request /\ posts'[i].session = posts[i].session
             /\ posts'[i].payload = posts[i].payload
  <2>1. posts[i] \in Request
    BY <1>2
  <2>2. CASE i # n
    <3>1. posts'[i] = posts[i]
      BY <1>1, <1>2, <2>2
    <3> QED BY <2>1, <3>1
  <2>3. CASE i = n
    <3>1. posts'[i] = [posts[i] EXCEPT !.result = reply]
      BY <1>1, <1>2, <2>3
    <3> HIDE DEF n
    <3> QED BY <1>1, <2>1, <3>1 DEF Request
  <2> QED BY <2>2, <2>3
<1>5. posts' \in Seq(Request)
  <2>1. posts' = [i \in 1..n |-> posts'[i]]
    BY <1>1, <1>2
  <2> DEFINE e(i) == posts'[i]
  <2>2. \A i \in 1..n : e(i) \in Request
    BY <1>4
  <2>3. posts' = [i \in 1..n |-> e(i)]
    BY <2>1
  <2> HIDE DEF e, n
  <2> QED BY <1>2, <2>2, <2>3
<1> QED BY <1>2, <1>3, <1>4, <1>5

\* Every step of the bridge keeps its types.
LEMMA BridgeMovesTyped ==
  ASSUME BridgeTyped, BridgeMoves
  PROVE  BridgeTyped'
<1> USE DEF BridgeTyped
<1>1. CASE Bridge!Listen
  <2>1. /\ link' = "up" /\ session' = session + 1 /\ bridge' = "listening"
        /\ heads' = <<>> \/ (chain # <<>> /\ heads' = <<Len(chain)>>)
        /\ UNCHANGED <<chain, block, batch, k, reply, posts>>
    BY <1>1 DEF Bridge!Listen, Bridge!Connect, Bridge!Backlog, Bridge!cursor
  <2>2. QueueTyped'
    <3>1. chain \in Seq(Seq(SeenEvents)) /\ chain' = chain
      BY <2>1
    <3>2. CASE heads' = <<>>
      BY <3>2 DEF QueueTyped
    <3>3. CASE chain # <<>> /\ heads' = <<Len(chain)>>
      <4>1. Len(chain) \in Nat \ {0}
        BY <3>1, <3>3
      <4> QED BY <3>1, <3>3, <4>1 DEF QueueTyped
    <3> QED BY <2>1, <3>2, <3>3
  <2>3. CursorTyped'
    BY <2>1 DEF CursorTyped
  <2>4. PostsTyped'
    <3>1. \A i \in DOMAIN posts : posts[i].session \in Nat
      <4>1. \A i \in DOMAIN posts : posts[i] \in Request
        BY DEF PostsTyped
      <4> QED BY <4>1 DEF Request
    <3> QED BY <2>1, <3>1 DEF PostsTyped
  <2> QED BY <2>1, <2>2, <2>3, <2>4
<1>2. ASSUME UNCHANGED <<chain, session, posts>>, QueueTyped', CursorTyped'
      PROVE  BridgeTyped'
  BY <1>2 DEF PostsTyped
<1>3. ASSUME Bridge!Stop
      PROVE  /\ QueueTyped' /\ CursorTyped'
             /\ heads' = <<>> /\ batch' = <<>>
  <2>1. /\ bridge' = "stopped" /\ link' = "down" /\ heads' = <<>>
        /\ block' = 0 /\ batch' = <<>> /\ k' = 0 /\ reply' = "200"
    BY <1>3 DEF Bridge!Stop, Bridge!Return
  <2> QED BY <2>1 DEF QueueTyped, CursorTyped, Bridge!Replies
<1>4. CASE Bridge!ReadBlock
  <2>1. /\ heads # <<>> /\ Head(heads) <= Len(chain) /\ bridge' = "events" /\ k' = 1
        /\ block' = Head(heads) /\ batch' = chain[Head(heads)] /\ heads' = Tail(heads)
        /\ UNCHANGED <<chain, link, session, reply, posts>>
    BY <1>4 DEF Bridge!ReadBlock, Bridge!conn, Bridge!history
  <2>2. Head(heads) \in Nat \ {0} /\ chain \in Seq(Seq(SeenEvents))
    BY <2>1 DEF QueueTyped
  <2>3. chain[Head(heads)] \in Seq(SeenEvents)
    <3>1. Head(heads) \in 1 .. Len(chain)
      BY <2>1, <2>2
    <3> QED BY <2>2, <3>1
  <2>4. CursorTyped'
    BY <2>1, <2>2, <2>3 DEF CursorTyped
  <2> QED BY <1>2, <2>1, <2>4, TailTyped
<1>5. CASE Bridge!SkipBlock
  <2>1. /\ heads # <<>> /\ heads' = Tail(heads)
        /\ UNCHANGED <<chain, link, bridge, session, block, batch, k, reply, posts>>
    BY <1>5 DEF Bridge!SkipBlock, Bridge!conn, Bridge!cursor
  <2>2. CursorTyped'
    BY <2>1 DEF CursorTyped
  <2> QED BY <1>2, <2>1, <2>2, TailTyped
<1>6. CASE Bridge!IgnoreEvent
  <2>1. /\ bridge = "events" /\ k' = k + 1
        /\ UNCHANGED <<chain, link, bridge, session, heads, block, batch, reply, posts>>
    BY <1>6 DEF Bridge!IgnoreEvent, Bridge!After, Bridge!conn, Bridge!history
  <2>2. CursorTyped' /\ QueueTyped'
    BY <2>1 DEF CursorTyped, QueueTyped
  <2> QED BY <1>2, <2>1, <2>2
<1>7. CASE Bridge!SendPayment
  <2>1. PICK r \in Request :
          /\ posts' = Append(posts, r) /\ r.session = session
          /\ k \in DOMAIN batch /\ bridge = "events" /\ bridge' = "paying"
          /\ UNCHANGED <<chain, link, session, heads, block, batch, k>>
          /\ reply' \in Bridge!Replies
    BY <1>7, SendFacts
  <2>2. CursorTyped' /\ QueueTyped'
    BY <2>1 DEF CursorTyped, QueueTyped
  <2>3. PostsTyped'
    <3>1. /\ posts' \in Seq(Request)
          /\ \A i \in DOMAIN posts' : (i \in DOMAIN posts /\ posts'[i] = posts[i]) \/ posts'[i] = r
      BY <2>1 DEF PostsTyped
    <3>2. session \in Nat /\ \A i \in DOMAIN posts : posts[i].session <= session
      BY DEF PostsTyped
    <3> QED BY <2>1, <3>1, <3>2 DEF PostsTyped
  <2> QED BY <2>1, <2>2, <2>3
<1>8. CASE Bridge!PaymentReturns
  <2>1. bridge = "paying" /\ UNCHANGED <<chain, session>>
    BY <1>8 DEF Bridge!PaymentReturns
  <2>2. PostsTyped'
    BY <1>8, <2>1, ReturnFacts DEF PostsTyped
  <2>3. QueueTyped' /\ CursorTyped'
    <3>1. CASE Bridge!Stop
      BY <1>3, <3>1
    <3>2. CASE ~Bridge!Stop
      <4>1. /\ bridge' = "events" /\ k' = k + 1 /\ reply' = "200"
            /\ UNCHANGED <<link, heads, block, batch>>
        BY <1>8, <3>2 DEF Bridge!PaymentReturns, Bridge!After
      <4> QED BY <2>1, <4>1 DEF QueueTyped, CursorTyped, Bridge!Replies
    <3> QED BY <3>1, <3>2
  <2> QED BY <2>1, <2>2, <2>3
<1>9. CASE Bridge!FinishBlock
  <2>1. /\ bridge' = "listening" /\ block' = 0 /\ batch' = <<>> /\ k' = 0 /\ reply' = "200"
        /\ UNCHANGED <<chain, link, session, heads, posts>>
    BY <1>9 DEF Bridge!FinishBlock, Bridge!Return, Bridge!conn, Bridge!history
  <2>2. CursorTyped' /\ QueueTyped'
    BY <2>1 DEF CursorTyped, QueueTyped, Bridge!Replies
  <2> QED BY <1>2, <2>1, <2>2
<1>10. CASE Bridge!ListenerError
  BY <1>2, <1>3, <1>10 DEF Bridge!ListenerError
<1>11. CASE Bridge!Reconnect
  <2>1. link' = "deaf" /\ UNCHANGED <<chain, bridge, session, heads, block, batch, k, reply, posts>>
    BY <1>11 DEF Bridge!Reconnect, Bridge!cursor, Bridge!history
  <2>2. CursorTyped' /\ QueueTyped'
    BY <2>1 DEF CursorTyped, QueueTyped
  <2> QED BY <1>2, <2>1, <2>2
<1> QED BY <1>1, <1>4, <1>5, <1>6, <1>7, <1>8, <1>9, <1>10, <1>11
        DEF BridgeMoves, Bridge!BridgeStep
-----------------------------------------------------------------------------
(* The bound on payments. *)

\* The first position of the block that has not been paid.
Place == IF bridge = "paying" THEN k + 1 ELSE k

\* No session has paid p more than e times, and the running one will not.
Bounded(p, e) ==
  /\ \A s : Posted(posts, s, p) <= e
  /\ Posted(posts, session, p) + Count(batch, Place, p) + Ahead(chain, heads, p) <= e

\* The quantities are numbers.
LEMMA BoundedTypes ==
  ASSUME NEW cs \in Seq(Seq(SeenEvents)), NEW ps \in Seq(Request), NEW b \in Seq(SeenEvents),
         NEW q, NEW s, NEW from, NEW p
  PROVE  Posted(ps, s, p) \in Nat /\ Count(b, from, p) \in Nat /\ Ahead(cs, q, p) \in Nat
<1>1. Posted(ps, s, p) \in Nat
  BY PostedFinite
<1>2. Count(b, from, p) \in Nat
  BY CountFinite
<1>3. Ahead(cs, q, p) \in Nat
  BY WaitingFinite
<1> QED BY <1>1, <1>2, <1>3

\* The bridge earns nothing, and pays what it has read or will read.
LEMMA BridgeMovesBounded ==
  ASSUME BridgeTyped, BridgeMoves, NEW p, NEW e \in Nat, Bounded(p, e), OnChain(chain, p) <= e
  PROVE  Bounded(p, e)'
<1> DEFINE Made == Posted(posts, session, p)
           Rest == Count(batch, Place, p)
           Left == Ahead(chain, heads, p)
<1>1. /\ chain \in Seq(Seq(SeenEvents)) /\ posts \in Seq(Request) /\ batch \in Seq(SeenEvents)
      /\ chain' \in Seq(Seq(SeenEvents)) /\ posts' \in Seq(Request) /\ batch' \in Seq(SeenEvents)
      /\ session \in Nat /\ k \in Nat /\ k' \in Nat /\ heads \in Seq(Nat \ {0})
      /\ \A i, j \in DOMAIN heads : heads[i] = heads[j] => i = j
  BY BridgeMovesTyped DEF BridgeTyped, CursorTyped, PostsTyped, QueueTyped
<1>2. Made \in Nat /\ Rest \in Nat /\ Left \in Nat /\ Made + Rest + Left <= e
  BY <1>1, BoundedTypes DEF Bounded
<1>3. Made' \in Nat /\ Rest' \in Nat /\ Left' \in Nat
  BY <1>1, BoundedTypes
<1>4. PICK made \in Nat, rest \in Nat, left \in Nat :
         made = Made' /\ rest = Rest' /\ left = Left'
  <2> HIDE DEF Made, Rest, Left
  <2> QED BY <1>3
<1>5. \A s : Posted(posts, s, p) <= e
  BY DEF Bounded
<1>6. ASSUME Made' + Rest' + Left' <= e,
             \A s : s # session' => Posted(posts', s, p) <= e
      PROVE  Bounded(p, e)'
  <2>1. Made' <= e
    <3> HIDE DEF Made, Rest, Left
    <3>1. made + rest + left <= e
      BY <1>6, <1>4
    <3>2. made <= e
      BY <3>1
    <3> QED BY <1>4, <3>2
  <2>2. \A s : Posted(posts', s, p) <= e
    BY <1>6, <2>1
  <2> QED BY <1>6, <2>2 DEF Bounded
<1>7. ASSUME UNCHANGED <<posts, session>>, Rest' + Left' <= Rest + Left
      PROVE  Bounded(p, e)'
  <2>1. Made' = Made
    BY <1>7
  <2>2. Made' + Rest' + Left' <= e
    <3> HIDE DEF Made, Rest, Left
    <3>1. rest + left <= Rest + Left /\ made = Made
      BY <1>7, <1>4, <2>1
    <3>2. made + rest + left <= e
      BY <1>2, <3>1
    <3> QED BY <1>4, <3>2
  <2> QED BY <1>5, <1>6, <1>7, <2>2
<1>8. ASSUME Bridge!Stop
      PROVE  Rest' = 0 /\ Left' = 0
  <2>1. heads' = <<>> /\ batch' = <<>>
    BY <1>8 DEF Bridge!Stop, Bridge!Return
  <2> QED BY <2>1, CountNone, AheadNone
<1>9. CASE Bridge!Listen
  <2>1. /\ bridge = "stopped" /\ session' = session + 1
        /\ heads' = <<>> \/ (chain # <<>> /\ heads' = <<Len(chain)>>)
        /\ UNCHANGED <<chain, batch, posts>>
    BY <1>9 DEF Bridge!Listen, Bridge!Connect, Bridge!Backlog, Bridge!cursor
  <2>2. Rest' = 0
    <3>1. batch' = <<>>
      BY <2>1 DEF BridgeTyped, CursorTyped
    <3> QED BY <3>1, CountNone
  <2>3. Left' <= OnChain(chain, p)
    <3>1. OnChain(chain, p) \in Nat
      BY <1>1, WaitingFinite
    <3>2. CASE heads' = <<>>
      BY <2>1, <3>1, <3>2, AheadNone
    <3>3. CASE chain # <<>> /\ heads' = <<Len(chain)>>
      BY <1>1, <2>1, <3>3, AheadOne
    <3> QED BY <2>1, <3>2, <3>3
  <2>4. Made' = 0
    <3>1. \A j \in DOMAIN posts : posts[j].session # session'
      <4>1. \A j \in DOMAIN posts : posts[j].session \in Nat /\ posts[j].session <= session
        <5>1. \A j \in DOMAIN posts : posts[j] \in Request
          BY <1>1
        <5> QED BY <5>1 DEF BridgeTyped, PostsTyped, Request
      <4> QED BY <1>1, <2>1, <4>1
    <3>2. Orders(posts', session', p) = {}
      BY <2>1, <3>1 DEF Orders
    <3> QED BY <3>2, FS_EmptySet DEF Posted
  <2>5. OnChain(chain, p) \in Nat
    BY <1>1, WaitingFinite
  <2>6. Made' + Rest' + Left' <= e
    <3> HIDE DEF Made, Rest, Left
    <3>1. rest = 0 /\ left <= OnChain(chain, p) /\ made = 0
      BY <1>4, <2>2, <2>3, <2>4
    <3>2. made + rest + left <= e
      BY <2>5, <3>1
    <3> QED BY <1>4, <3>2
  <2> QED BY <1>5, <1>6, <2>1, <2>6
<1>10. CASE Bridge!ReadBlock
  <2>1. /\ heads # <<>> /\ Head(heads) <= Len(chain) /\ bridge' = "events" /\ k' = 1
        /\ batch' = chain[Head(heads)] /\ heads' = Tail(heads)
        /\ UNCHANGED <<chain, session, posts>>
    BY <1>10 DEF Bridge!ReadBlock, Bridge!conn, Bridge!history
  <2>2. Left = Left' + Count(chain[Head(heads)], 1, p)
    BY <1>1, <2>1, AheadTail
  <2>3. Rest' = Count(chain[Head(heads)], 1, p)
    BY <2>1 DEF Place
  <2>4. Rest' + Left' <= Rest + Left
    <3> HIDE DEF Rest, Left
    <3> QED BY <1>2, <1>3, <2>2, <2>3
  <2> QED BY <1>7, <2>1, <2>4
<1>11. CASE Bridge!SkipBlock
  <2>1. /\ heads # <<>> /\ heads' = Tail(heads)
        /\ UNCHANGED <<chain, bridge, session, batch, k, posts>>
    BY <1>11 DEF Bridge!SkipBlock, Bridge!conn, Bridge!cursor
  <2>2. Head(heads) \in Nat \ {0}
    BY <1>1, <2>1
  <2>3. Left = Left' + (IF Head(heads) <= Len(chain) THEN Count(chain[Head(heads)], 1, p) ELSE 0)
    BY <1>1, <2>1, AheadTail
  <2>4. Head(heads) <= Len(chain) => Count(chain[Head(heads)], 1, p) \in Nat
    <3> SUFFICES ASSUME Head(heads) <= Len(chain)
                 PROVE  Count(chain[Head(heads)], 1, p) \in Nat
      OBVIOUS
    <3>1. chain[Head(heads)] \in Seq(SeenEvents)
      <4>1. Head(heads) \in 1 .. Len(chain)
        BY <1>1, <2>2
      <4> QED BY <1>1, <4>1
    <3> QED BY <3>1, CountFinite
  <2>5. Rest' = Rest
    BY <2>1 DEF Place
  <2>6. Rest' + Left' <= Rest + Left
    <3> HIDE DEF Rest, Left
    <3> QED BY <1>2, <1>3, <2>3, <2>4, <2>5
  <2> QED BY <1>7, <2>1, <2>6
<1>12. CASE Bridge!IgnoreEvent
  <2>1. /\ bridge = "events" /\ k <= Len(batch) /\ k' = k + 1
        /\ UNCHANGED <<chain, bridge, session, heads, batch, posts>>
    BY <1>12 DEF Bridge!IgnoreEvent, Bridge!After, Bridge!conn, Bridge!history
  <2>2. k \in 1 .. Len(batch)
    BY <1>1, <2>1 DEF BridgeTyped, CursorTyped
  <2>3. Rest = Count(batch, k, p) /\ Rest' = Count(batch, k + 1, p) /\ Left' = Left
    BY <2>1 DEF Place
  <2>4. Count(batch, k, p) = Count(batch, k + 1, p) + (IF Pays(batch[k], p) THEN 1 ELSE 0)
    BY <1>1, <2>2, CountStep
  <2>5. Rest' + Left' <= Rest + Left
    <3> HIDE DEF Rest, Left
    <3> QED BY <1>2, <1>3, <2>3, <2>4
  <2> QED BY <1>7, <2>1, <2>5
<1>13. CASE Bridge!SendPayment
  <2>1. PICK r \in Request :
          /\ posts' = Append(posts, r) /\ r.session = session
          /\ r.payload = Bridge!Payload(batch[k]) /\ Bridge!Payable(batch[k])
          /\ k \in DOMAIN batch /\ bridge = "events" /\ bridge' = "paying"
          /\ UNCHANGED <<chain, link, session, heads, block, batch, k>>
          /\ reply' \in Bridge!Replies
    BY <1>13, SendFacts
  <2>2. k \in 1 .. Len(batch)
    BY <1>1, <2>1
  <2>3. Rest = Count(batch, k, p) /\ Rest' = Count(batch, k + 1, p) /\ Left' = Left
    BY <2>1 DEF Place
  <2>4. Rest = Rest' + (IF Pays(batch[k], p) THEN 1 ELSE 0)
    BY <1>1, <2>2, <2>3, CountStep
  <2>5. Pays(batch[k], p) <=> r.payload = p
    BY <2>1 DEF Pays
  <2>6. \A s : Posted(posts', s, p)
               = Posted(posts, s, p) + (IF r.session = s /\ r.payload = p THEN 1 ELSE 0)
    BY <1>1, <2>1, PostedAppend
  <2>7. Made' = Made + (IF r.payload = p THEN 1 ELSE 0)
    BY <2>1, <2>6
  <2>8. Made' + Rest' + Left' <= e
    <3> HIDE DEF Made, Rest, Left
    <3> QED BY <1>2, <1>3, <2>3, <2>4, <2>5, <2>7
  <2>9. ASSUME NEW s, s # session'
        PROVE  Posted(posts', s, p) <= e
    <3>1. Posted(posts, s, p) \in Nat /\ Posted(posts, s, p) <= e
      BY <1>1, <1>5, PostedFinite
    <3>2. Posted(posts', s, p) = Posted(posts, s, p) + 0
      BY <2>1, <2>6, <2>9
    <3> QED BY <3>1, <3>2
  <2> QED BY <1>6, <2>8, <2>9
<1>14. CASE Bridge!PaymentReturns
  <2>1. \A s : Posted(posts', s, p) = Posted(posts, s, p)
    <3>1. \A s : Orders(posts', s, p) = Orders(posts, s, p)
      BY <1>14, ReturnFacts DEF Orders
    <3> QED BY <3>1 DEF Posted
  <2>2. session' = session /\ chain' = chain /\ bridge = "paying"
    BY <1>14 DEF Bridge!PaymentReturns
  <2>3. Rest' + Left' <= Rest + Left
    <3>1. CASE Bridge!Stop
      <4>1. Rest' = 0 /\ Left' = 0
        BY <1>8, <3>1
      <4> HIDE DEF Rest, Left
      <4> QED BY <1>2, <4>1
    <3>2. CASE ~Bridge!Stop
      <4>1. bridge' = "events" /\ k' = k + 1 /\ UNCHANGED <<heads, batch>>
        BY <1>14, <3>2 DEF Bridge!PaymentReturns, Bridge!After
      <4>2. Rest' = Rest /\ Left' = Left
        BY <2>2, <4>1 DEF Place
      <4> HIDE DEF Rest, Left
      <4> QED BY <1>2, <4>2
    <3> QED BY <3>1, <3>2
  <2>4. Made' = Made
    BY <2>1, <2>2
  <2>5. Made' + Rest' + Left' <= e
    <3> HIDE DEF Made, Rest, Left
    <3>1. rest + left <= Rest + Left /\ made = Made
      BY <1>4, <2>3, <2>4
    <3>2. made + rest + left <= e
      BY <1>2, <3>1
    <3> QED BY <1>4, <3>2
  <2> QED BY <1>5, <1>6, <2>1, <2>5
<1>15. CASE Bridge!FinishBlock
  <2>1. batch' = <<>> /\ UNCHANGED <<chain, session, heads, posts>>
    BY <1>15 DEF Bridge!FinishBlock, Bridge!Return, Bridge!conn, Bridge!history
  <2>2. Rest' = 0 /\ Left' = Left
    BY <2>1, CountNone
  <2>3. Rest' + Left' <= Rest + Left
    <3> HIDE DEF Rest, Left
    <3> QED BY <1>2, <2>2
  <2> QED BY <1>7, <2>1, <2>3
<1>16. CASE Bridge!ListenerError
  <2>1. Bridge!Stop /\ UNCHANGED <<session, posts>>
    BY <1>16 DEF Bridge!ListenerError
  <2>2. Rest' = 0 /\ Left' = 0
    BY <1>8, <2>1
  <2>3. Rest' + Left' <= Rest + Left
    <3> HIDE DEF Rest, Left
    <3> QED BY <1>2, <2>2
  <2> QED BY <1>7, <2>1, <2>3
<1>17. CASE Bridge!Reconnect
  <2>1. UNCHANGED <<chain, bridge, session, heads, batch, k, posts>>
    BY <1>17 DEF Bridge!Reconnect, Bridge!cursor, Bridge!history
  <2> QED BY <2>1 DEF Bounded, Place
<1> QED BY <1>9, <1>10, <1>11, <1>12, <1>13, <1>14, <1>15, <1>16, <1>17
        DEF BridgeMoves, Bridge!BridgeStep

\* The logs of the chains that are gone.
Logged == past \in Seq(Logs)

\* A restart adds one.
LEMMA LoggedInductive ==
  /\ SystemInit => Logged
  /\ ChainInv /\ Logged /\ [SystemNext]_systemVars => Logged'
<1>1. SystemInit => Logged
  BY DEF SystemInit, Logged
<1>2. ASSUME ChainInv, Logged, [SystemNext]_systemVars
      PROVE  Logged'
  <2>1. CASE Restart
    <3>1. past' = Append(past, Imported) /\ Imported \in Logs
      BY <1>2, <2>1, ImportedLogged DEF Restart
    <3> HIDE DEF Logs
    <3> QED BY <1>2, <3>1 DEF Logged
  <2>2. CASE UNCHANGED <<past, incarnation>>
    BY <1>2, <2>2 DEF Logged
  <2> QED BY <1>2, <2>1, <2>2, SystemStepIsRuntimeStep DEF ChainInv
<1> QED BY <1>1, <1>2

\* What the chains that are gone earned, and the present one with them.
Gone(p) == SumOver([c \in DOMAIN past |-> EarnedBy(past[c], p)], DOMAIN past)
Budget(p) == Gone(p) + EarnedBy(Imported, p)

PaidFor(p) ==
  /\ BlockPays(p)
  /\ \A c \in DOMAIN past : EarnedBy(past[c], p) \in Nat
  /\ OnChain(chain, p) <= EarnedBy(Imported, p)
  /\ Bounded(p, Budget(p))

\* What was earned is a number, and is the budget.
LEMMA BudgetEarned ==
  ASSUME ChainInv, Logged, BridgeTyped, NEW p, PaidFor(p)
  PROVE  /\ OnChain(chain, p) \in Nat /\ EarnedBy(Imported, p) \in Nat /\ Gone(p) \in Nat
         /\ Budget(p) \in Nat /\ Earned(p) = Budget(p)
<1> DEFINE n == Len(past)
           f == [c \in DOMAIN past |-> EarnedBy(past[c], p)]
           g == [c \in DOMAIN Chains |-> EarnedBy(Chains[c], p)]
<1>1. n \in Nat /\ DOMAIN past = 1..n
  BY DEF Logged
<1>2. /\ DOMAIN Chains = 1 .. n + 1 /\ Chains[n + 1] = Imported
      /\ \A c \in 1..n : Chains[c] = past[c]
  <2>1. past \in Seq(Logs) /\ Chains = Append(past, Imported)
    BY DEF Logged, Chains
  <2> HIDE DEF n
  <2> QED BY <2>1 DEF n
<1>3. OnChain(chain, p) \in Nat
  BY WaitingFinite DEF BridgeTyped
<1>4. EarnedBy(Imported, p) \in Nat
  <2>1. EarnedBy(Imported, p) \in Int /\ OnChain(chain, p) <= EarnedBy(Imported, p)
    BY ImportedEarned DEF PaidFor
  <2> QED BY <1>3, <2>1
<1>5. \A c \in 1..n : f[c] = EarnedBy(past[c], p) /\ f[c] \in Nat
  BY <1>1 DEF PaidFor
<1>6. DOMAIN g = 1 .. n + 1 /\ \A c \in 1 .. n + 1 : g[c] = EarnedBy(Chains[c], p)
  BY <1>2
<1> HIDE DEF f, g, n
<1>7. Gone(p) = SumOver(f, 1..n) /\ Gone(p) \in Nat
  <2>1. IsFiniteSet(1..n)
    BY <1>1, FS_Interval
  <2>2. SumOver(f, 1..n) \in Nat
    BY <1>5, <2>1, SumNatural
  <2> QED BY <1>1, <2>2 DEF Gone, f
<1>8. g[n + 1] = EarnedBy(Imported, p) /\ \A c \in 1..n : f[c] = g[c] /\ f[c] \in Int
  <2>1. n + 1 \in 1 .. n + 1 /\ \A c \in 1..n : c \in 1 .. n + 1
    BY <1>1
  <2> QED BY <1>2, <1>5, <1>6, <2>1
<1>9. SumOver(g, 1 .. n + 1) = SumOver(f, 1..n) + g[n + 1]
  <2>1. g[n + 1] \in Int
    BY <1>4, <1>8
  <2> QED BY <1>1, <1>8, <2>1, SumNext
<1>10. Earned(p) = SumOver(g, 1 .. n + 1)
  BY <1>6 DEF Earned, Total, SumOver, g
<1>11. Earned(p) = Budget(p)
  BY <1>7, <1>8, <1>9, <1>10 DEF Budget
<1>12. Budget(p) \in Nat
  BY <1>4, <1>7 DEF Budget
<1> QED BY <1>3, <1>4, <1>7, <1>11, <1>12

\* An empty chain earned nothing.
LEMMA NothingEarned ==
  ASSUME NEW p
  PROVE  EarnedBy([executed |-> SubSeq(<<>>, 1, 0), transfers |-> 0], p) = 0
<1>1. <<>> \in Seq({}) /\ 0 \in 0 .. Len(<<>>)
  OBVIOUS
<1>2. EarnedBy([executed |-> SubSeq(<<>>, 1, 0), transfers |-> 0], p)
        = Cardinality(Dispatched(<<>>, 0, 0, p)) + (IF IsTest(p) THEN 0 ELSE 0)
  BY <1>1, LogEarned
<1>3. Dispatched(<<>>, 0, 0, p) = {}
  BY DEF Dispatched
<1>4. Cardinality(Dispatched(<<>>, 0, 0, p)) = 0
  BY <1>3, FS_EmptySet
<1> QED BY <1>2, <1>4

\* The first node starts with nothing to pay.
LEMMA PaidInitially ==
  ASSUME SystemInit, NEW p
  PROVE  PaidFor(p)
<1>1. /\ engine = "idle" /\ executed = <<>> /\ accepted = <<>> /\ past = <<>>
      /\ chain = <<>> /\ bridge = "stopped" /\ batch = <<>> /\ heads = <<>> /\ posts = <<>>
  BY DEF SystemInit, NodeInit, RuntimeInit, Init, Bridge!Init
<1>2. EarnedBy(Imported, p) = 0
  <2>1. Imported = [executed |-> SubSeq(<<>>, 1, 0), transfers |-> 0]
    BY <1>1 DEF Imported
  <2> QED BY <2>1, NothingEarned
<1>3. Gone(p) = 0
  <2>1. DOMAIN past = {}
    BY <1>1
  <2> QED BY <2>1, SumEmpty DEF Gone
<1>4. \A s : Posted(posts, s, p) = 0
  <2>1. \A s : Orders(posts, s, p) = {}
    BY <1>1 DEF Orders
  <2> QED BY <2>1, FS_EmptySet DEF Posted
<1>5. OnChain(chain, p) = 0 /\ Ahead(chain, heads, p) = 0 /\ Count(batch, Place, p) = 0
  BY <1>1, AheadNone, CountNone
<1>6. Budget(p) = 0
  BY <1>2, <1>3 DEF Budget
<1>7. Bounded(p, Budget(p))
  BY <1>4, <1>5, <1>6 DEF Bounded
<1>8. \A c \in DOMAIN past : EarnedBy(past[c], p) \in Nat
  BY <1>1
<1> QED BY <1>1, <1>2, <1>5, <1>7, <1>8 DEF PaidFor, BlockPays

\* Types of the bridge, whoever moves.
LEMMA BridgeTypesInductive ==
  /\ SystemInit => BridgeTyped
  /\ ChainInv /\ BridgeTyped /\ [SystemNext]_systemVars => BridgeTyped'
<1>1. ASSUME SystemInit
      PROVE  BridgeTyped
  <2>1. /\ chain = <<>> /\ link = "down" /\ bridge = "stopped" /\ session = 0 /\ heads = <<>>
        /\ block = 0 /\ batch = <<>> /\ k = 0 /\ reply = "200" /\ posts = <<>>
    BY <1>1 DEF SystemInit, Bridge!Init
  <2> QED BY <2>1 DEF BridgeTyped, QueueTyped, CursorTyped, PostsTyped, Bridge!Replies
<1>2. ASSUME ChainInv, BridgeTyped, [SystemNext]_systemVars
      PROVE  BridgeTyped'
  <2>1. ASSUME UNCHANGED bridgeVars
        PROVE  BridgeTyped'
    BY <1>2, <2>1 DEF bridgeVars, sessionVars, BridgeTyped, QueueTyped, CursorTyped, PostsTyped
  <2>2. CASE SealAndAnnounce
    <3>1. /\ chain' = Append(chain, NewBlock)
          /\ heads' = IF bridge # "stopped" /\ link = "up" THEN Append(heads, Len(chain) + 1)
                      ELSE heads
          /\ UNCHANGED <<link, bridge, session, block, batch, k, reply, posts>>
      BY <2>2 DEF SealAndAnnounce, NewBlock, Bridge!ImportBlock, Bridge!Announce, Bridge!cursor,
                  Bridge!history
    <3>2. NewBlock \in Seq(SeenEvents)
      BY <1>2, NewBlockTyped
    <3>3. /\ chain' \in Seq(Seq(SeenEvents)) /\ Len(chain') = Len(chain) + 1 /\ Len(chain) \in Nat
      <4>1. chain \in Seq(Seq(SeenEvents))
        BY <1>2 DEF BridgeTyped
      <4> HIDE DEF NewBlock
      <4> QED BY <3>1, <3>2, <4>1
    <3>4. QueueTyped'
      <4>1. CASE heads' = heads
        BY <1>2, <3>1, <3>3, <4>1 DEF BridgeTyped, QueueTyped
      <4>2. CASE link = "up" /\ heads' = Append(heads, Len(chain) + 1)
        <5>1. /\ heads \in Seq(Nat \ {0}) /\ \A i, j \in DOMAIN heads : heads[i] = heads[j] => i = j
              /\ \A i \in DOMAIN heads : heads[i] <= Len(chain)
          BY <1>2, <4>2 DEF BridgeTyped, QueueTyped
        <5>2. Len(chain) + 1 \in Nat \ {0}
          BY <3>3
        <5>3. /\ heads' \in Seq(Nat \ {0}) /\ DOMAIN heads' = 1 .. Len(heads) + 1
              /\ heads'[Len(heads) + 1] = Len(chain) + 1 /\ DOMAIN heads = 1 .. Len(heads)
              /\ \A i \in 1 .. Len(heads) : heads'[i] = heads[i]
              /\ Len(heads) \in Nat
          BY <4>2, <5>1, <5>2
        <5>4. \A i \in DOMAIN heads' :
                \/ i \in DOMAIN heads /\ heads'[i] = heads[i] /\ heads'[i] \in Nat
                \/ i = Len(heads) + 1 /\ heads'[i] = Len(chain) + 1
          BY <5>1, <5>3
        <5>5. \A i \in DOMAIN heads' : heads'[i] <= Len(chain')
          BY <3>3, <5>1, <5>4
        <5>6. \A i, j \in DOMAIN heads' : heads'[i] = heads'[j] => i = j
          BY <3>3, <5>1, <5>4
        <5> QED BY <5>3, <5>5, <5>6 DEF QueueTyped
      <4> QED BY <3>1, <4>1, <4>2
    <3>5. CursorTyped' /\ PostsTyped'
      BY <1>2, <3>1 DEF BridgeTyped, CursorTyped, PostsTyped
    <3> QED BY <3>3, <3>4, <3>5 DEF BridgeTyped
  <2>3. CASE Restart
    <3>1. chain' = <<>> /\ link' = "down" /\ UNCHANGED sessionVars
      BY <2>3 DEF Restart
    <3> QED BY <1>2, <3>1 DEF sessionVars, BridgeTyped, QueueTyped, CursorTyped, PostsTyped
  <2>4. CASE BridgeMoves
    BY <1>2, <2>4, BridgeMovesTyped
  <2>5. ASSUME NEW s \in Scripts, Run(s) \/ Repost(s) \/ Arrive(s) \/ Fail(s)
        PROVE  UNCHANGED bridgeVars
    BY <2>5 DEF Run, Repost, Arrive, Fail, Send
  <2> QED BY <1>2, <2>1, <2>2, <2>3, <2>4, <2>5 DEF SystemNext, NodeStep, systemVars
<1> QED BY <1>1, <1>2

\* A step that leaves the bridge, the log of the chain and its past alone.
LEMMA PaidStays ==
  ASSUME NEW p, PaidFor(p), BlockPays(p)', Imported' = Imported,
         UNCHANGED <<past, chain, bridge, session, heads, batch, k, posts>>
  PROVE  PaidFor(p)'
<1>1. Budget(p)' = Budget(p) /\ Place' = Place
  BY DEF Budget, Gone, Place
<1>2. Bounded(p, Budget(p))'
  BY <1>1 DEF PaidFor, Bounded
<1> QED BY <1>2 DEF PaidFor

\* An imported block is earned before it is paid for.
LEMMA PaidAfterSeal ==
  ASSUME ChainInv, Logged, BridgeTyped, NEW p, PaidFor(p), SealAndAnnounce
  PROVE  PaidFor(p)'
<1> DEFINE c == Count(NewBlock, 1, p)
           Made == Posted(posts, session, p)
           Rest == Count(batch, Place, p)
           Left == Ahead(chain, heads, p)
<1>1. /\ SealBlock /\ engine' = "idle" /\ past' = past
      /\ chain' = Append(chain, NewBlock)
      /\ heads' = heads \/ heads' = Append(heads, Len(chain) + 1)
      /\ UNCHANGED <<link, bridge, session, block, batch, k, reply, posts>>
  BY DEF SealAndAnnounce, historyVars, SealBlock, NewBlock, Bridge!ImportBlock, Bridge!Announce, Bridge!cursor,
         Bridge!history
<1>2. /\ EarnedBy(Imported', p) >= EarnedBy(Imported, p) + c
      /\ EarnedBy(Imported', p) \in Int /\ EarnedBy(Imported, p) \in Int
      /\ NewBlock \in Seq(SeenEvents) /\ c \in Nat
  BY <1>1, SealEarns DEF PaidFor
<1>3. /\ chain \in Seq(Seq(SeenEvents)) /\ heads \in Seq(Nat \ {0}) /\ posts \in Seq(Request)
      /\ batch \in Seq(SeenEvents)
  BY DEF BridgeTyped, QueueTyped, CursorTyped, PostsTyped
<1>4. /\ OnChain(chain', p) = OnChain(chain, p) + c
      /\ Ahead(chain', heads', p) <= Left + c
  <2> HIDE DEF NewBlock
  <2> QED BY <1>1, <1>2, <1>3, AheadImport
<1>5. /\ OnChain(chain, p) \in Nat /\ EarnedBy(Imported, p) \in Nat /\ Gone(p) \in Nat
      /\ Budget(p) \in Nat
  BY BudgetEarned
<1>6. PICK f \in Int : f = EarnedBy(Imported', p)
  BY <1>2
<1>7. Budget(p)' = Gone(p) + f
  BY <1>1, <1>6 DEF Budget, Gone
<1>8. Budget(p) = Gone(p) + EarnedBy(Imported, p) /\ OnChain(chain, p) <= EarnedBy(Imported, p)
  BY DEF Budget, PaidFor
<1>9. Made \in Nat /\ Rest \in Nat /\ Left \in Nat /\ Made + Rest + Left <= Budget(p)
  BY <1>3, BoundedTypes DEF PaidFor, Bounded
<1>10. PICK left \in Nat : left = Ahead(chain', heads', p)
  <2>1. chain' \in Seq(Seq(SeenEvents))
    <3> HIDE DEF NewBlock
    <3> QED BY <1>1, <1>2, <1>3
  <2>2. Ahead(chain', heads', p) \in Nat
    BY <2>1, WaitingFinite
  <2> QED BY <2>2
<1>11. Made' = Made /\ Rest' = Rest
  BY <1>1 DEF Place
<1>12. \A s : Posted(posts, s, p) \in Nat /\ Posted(posts, s, p) <= Budget(p)
  BY <1>3, PostedFinite DEF PaidFor, Bounded
<1> HIDE DEF c, Made, Rest, Left
<1>13. Made + Rest + left <= Gone(p) + f
  BY <1>2, <1>4, <1>5, <1>6, <1>8, <1>9, <1>10
<1>14. ASSUME NEW s
       PROVE  Posted(posts, s, p) <= Gone(p) + f
  BY <1>2, <1>5, <1>6, <1>8, <1>12
<1>15. OnChain(chain, p) + c <= f
  BY <1>2, <1>5, <1>6, <1>8
<1>16. OnChain(chain', p) <= EarnedBy(Imported', p)
  BY <1>4, <1>6, <1>15
<1>17. Bounded(p, Budget(p))'
  <2>1. Posted(posts', session', p) + Count(batch', Place', p) + Ahead(chain', heads', p) <= Gone(p) + f
    BY <1>10, <1>11, <1>13 DEF Made, Rest
  <2>2. \A s : Posted(posts', s, p) <= Gone(p) + f
    BY <1>1, <1>14
  <2> QED BY <1>7, <2>1, <2>2 DEF Bounded
<1>18. \A d \in DOMAIN past' : EarnedBy(past'[d], p) \in Nat
  BY <1>1 DEF PaidFor
<1> QED BY <1>1, <1>16, <1>17, <1>18 DEF PaidFor, BlockPays

\* A restart loses no earnings.
LEMMA PaidAfterRestart ==
  ASSUME ChainInv, Logged, BridgeTyped, NEW p, PaidFor(p), Restart
  PROVE  PaidFor(p)'
<1> DEFINE n == Len(past)
           f == [c \in DOMAIN past |-> EarnedBy(past[c], p)]
           g == [c \in DOMAIN past' |-> EarnedBy(past'[c], p)]
<1>1. /\ engine' = "idle" /\ executed' = <<>> /\ accepted' = <<>> /\ chain' = <<>>
      /\ past' = Append(past, Imported)
      /\ UNCHANGED <<bridge, session, heads, batch, k, posts>>
  BY DEF Restart, NewChain, sessionVars
<1>2. EarnedBy(Imported', p) = 0
  <2>1. Imported' = [executed |-> SubSeq(<<>>, 1, 0), transfers |-> 0]
    BY <1>1 DEF Imported
  <2> QED BY <2>1, NothingEarned
<1>3. /\ EarnedBy(Imported, p) \in Nat /\ Gone(p) \in Nat /\ Budget(p) \in Nat
  BY BudgetEarned
<1>4. /\ n \in Nat /\ DOMAIN past = 1..n /\ DOMAIN past' = 1 .. n + 1
      /\ past'[n + 1] = Imported /\ \A c \in 1..n : past'[c] = past[c]
  <2>1. past \in Seq(Logs)
    BY DEF Logged
  <2> QED BY <1>1, <2>1
<1>5. \A c \in 1..n : EarnedBy(past[c], p) \in Nat
  BY <1>4 DEF PaidFor
<1> HIDE DEF n
<1>6. ASSUME NEW c \in DOMAIN past'
      PROVE  EarnedBy(past'[c], p) \in Nat
  <2>1. c \in 1..n \/ c = n + 1
    BY <1>4
  <2> QED BY <1>3, <1>4, <1>5, <2>1
<1>7. Gone(p)' = Gone(p) + EarnedBy(Imported, p)
  <2>1. \A c \in 1..n : f[c] = EarnedBy(past[c], p) /\ g[c] = EarnedBy(past[c], p)
    <3>1. \A c \in 1..n : c \in DOMAIN past /\ c \in DOMAIN past' /\ past'[c] = past[c]
      BY <1>4
    <3> QED BY <3>1
  <2>2. g[n + 1] = EarnedBy(Imported, p)
    <3>1. n + 1 \in DOMAIN past'
      BY <1>4
    <3> QED BY <1>4, <3>1
  <2> HIDE DEF f, g
  <2>3. g[n + 1] \in Int /\ \A c \in 1..n : f[c] = g[c] /\ f[c] \in Int
    BY <1>3, <1>5, <2>1, <2>2
  <2>4. SumOver(g, 1 .. n + 1) = SumOver(f, 1..n) + g[n + 1]
    BY <1>4, <2>3, SumNext
  <2> QED BY <1>4, <2>2, <2>4 DEF Gone, f, g
<1>8. Budget(p)' = Budget(p)
  <2>1. Budget(p)' = Gone(p)' + EarnedBy(Imported', p)
    BY DEF Budget
  <2>2. Budget(p)' = (Gone(p) + EarnedBy(Imported, p)) + 0
    BY <1>2, <1>7, <2>1
  <2>3. (Gone(p) + EarnedBy(Imported, p)) + 0 = Gone(p) + EarnedBy(Imported, p)
    BY <1>3
  <2> QED BY <2>2, <2>3 DEF Budget
<1>9. OnChain(chain', p) = 0 /\ Ahead(chain', heads', p) = 0
  BY <1>1, AheadNone
<1>10. Bounded(p, Budget(p))'
  <2> DEFINE Made == Posted(posts, session, p)
             Rest == Count(batch, Place, p)
             Left == Ahead(chain, heads, p)
  <2>1. Made \in Nat /\ Rest \in Nat /\ Left \in Nat /\ Made + Rest + Left <= Budget(p)
    BY BoundedTypes DEF BridgeTyped, QueueTyped, CursorTyped, PostsTyped, PaidFor, Bounded
  <2>2. Made' = Made /\ Rest' = Rest /\ Left' = 0
    BY <1>1, <1>9 DEF Place
  <2>3. Made + Rest + 0 <= Budget(p)
    <3> HIDE DEF Made, Rest, Left
    <3> QED BY <1>3, <2>1
  <2>4. \A s : Posted(posts', s, p) <= Budget(p)
    BY <1>1 DEF PaidFor, Bounded
  <2> QED BY <1>8, <2>2, <2>3, <2>4 DEF Bounded
<1> QED BY <1>1, <1>2, <1>6, <1>9, <1>10 DEF PaidFor, BlockPays

\* By induction, every payload's payments stay within its earnings.
LEMMA PaidInductive ==
  ASSUME ChainInv, Logged, BridgeTyped, NEW p, PaidFor(p), [SystemNext]_systemVars
  PROVE  PaidFor(p)'
<1>1. BlockPays(p)'
  BY BlockKeepsPace DEF PaidFor
<1>2. ASSUME UNCHANGED <<events, executed, used, engine, accepted>>, UNCHANGED <<past, bridgeVars>>
      PROVE  PaidFor(p)'
  <2>1. Imported' = Imported
    BY <1>2 DEF Imported, TransferEvents
  <2> QED BY <1>1, <1>2, <2>1, PaidStays DEF bridgeVars, sessionVars
<1>3. ASSUME NEW s \in Scripts, Run(s) \/ Repost(s) \/ Arrive(s) \/ Fail(s)
      PROVE  PaidFor(p)'
  BY <1>2, <1>3 DEF Run, Repost, Arrive, Fail, Send, author_submitExtrinsic, nodeVars,
                    runtimeVars, vars, headerVars, historyVars
<1>4. ASSUME NodeStep
      PROVE  PaidFor(p)'
  <2>1. UNCHANGED <<past, bridgeVars>>
    BY <1>4 DEF NodeStep, historyVars
  <2>2. ASSUME (\E x \in Extrinsics : PushExtrinsic(x)) \/ (StartBlock /\ number < LastBlock)
        PROVE  PaidFor(p)'
    <3>1. Imported' = Imported
      BY <2>2, ImportedStays
    <3> QED BY <1>1, <2>1, <3>1, PaidStays DEF bridgeVars, sessionVars
  <2>3. ASSUME NEW x \in Extrinsics, RefuseExtrinsic(x) \/ Revalidate(x)
        PROVE  PaidFor(p)'
    BY <1>2, <2>1, <2>3 DEF RefuseExtrinsic, Revalidate, runtimeVars, vars, headerVars
  <2>4. ASSUME TimerFires
        PROVE  PaidFor(p)'
    BY <1>2, <2>1, <2>4 DEF TimerFires, runtimeVars, vars, headerVars
  <2> QED BY <1>4, <2>2, <2>3, <2>4 DEF NodeStep
<1>5. ASSUME BridgeMoves
      PROVE  PaidFor(p)'
  <2>1. UNCHANGED <<events, executed, used, engine, accepted, past>> /\ chain' = chain
    BY <1>5 DEF BridgeMoves, nodeVars, runtimeVars, vars, headerVars, historyVars,
                Bridge!BridgeStep, Bridge!Listen,
                Bridge!ReadBlock, Bridge!SkipBlock, Bridge!IgnoreEvent, Bridge!SendPayment,
                Bridge!PaymentReturns, Bridge!FinishBlock, Bridge!ListenerError, Bridge!Reconnect,
                Bridge!conn
  <2>2. Imported' = Imported
    BY <2>1 DEF Imported, TransferEvents
  <2>3. Budget(p)' = Budget(p)
    BY <2>1, <2>2 DEF Budget, Gone
  <2>4. OnChain(chain, p) <= Budget(p) /\ Budget(p) \in Nat
    <3>1. /\ OnChain(chain, p) \in Nat /\ EarnedBy(Imported, p) \in Nat /\ Gone(p) \in Nat
          /\ Budget(p) \in Nat /\ OnChain(chain, p) <= EarnedBy(Imported, p)
      BY BudgetEarned DEF PaidFor
    <3> QED BY <3>1 DEF Budget
  <2>5. PICK e \in Nat : e = Budget(p)
    BY <2>4
  <2>6. Bounded(p, e)'
    <3>1. Bounded(p, e)
      BY <2>5 DEF PaidFor, Bounded
    <3> QED BY <1>5, <2>4, <2>5, <3>1, BridgeMovesBounded
  <2>7. Bounded(p, Budget(p))'
    BY <2>3, <2>5, <2>6 DEF Bounded
  <2> QED BY <1>1, <2>1, <2>2, <2>7 DEF PaidFor
<1>6. CASE UNCHANGED systemVars
  BY <1>2, <1>6 DEF systemVars, historyVars, nodeVars, runtimeVars, vars, headerVars
<1> QED BY <1>3, <1>4, <1>5, <1>6, PaidAfterSeal, PaidAfterRestart DEF SystemNext

\* Whatever is dropped, repeated or restarted, no session of the bridge pays more
\* often than withdrawals of the same amount and address were executed, on all
\* chains together (bridge.py:79-84; lib.rs of the pallet, shielded_withdraw): a
\* block is executed before it is announced, read once for each notice, and every
\* notice names a block of its own.
THEOREM PaymentsExecuted == SystemSpec => []PaymentsAreExecuted
<1> DEFINE Inv == ChainInv /\ Logged /\ BridgeTyped /\ \A p : PaidFor(p)
<1>1. SystemInit => Inv
  BY ChainInductive, LoggedInductive, BridgeTypesInductive, PaidInitially
<1>2. Inv /\ [SystemNext]_systemVars => Inv'
  <2> SUFFICES ASSUME Inv, [SystemNext]_systemVars
               PROVE  Inv'
    OBVIOUS
  <2>1. ChainInv' /\ Logged' /\ BridgeTyped'
    BY ChainInductive, LoggedInductive, BridgeTypesInductive
  <2>2. \A p : PaidFor(p)'
    BY PaidInductive
  <2> QED BY <2>1, <2>2
<1>3. Inv => PaymentsAreExecuted
  <2> SUFFICES ASSUME Inv, NEW i \in DOMAIN posts
               PROVE  Posted(posts, posts[i].session, posts[i].payload) <= Earned(posts[i].payload)
    BY DEF PaymentsAreExecuted, Posted, Orders
  <2>1. PICK p : p = posts[i].payload
    OBVIOUS
  <2>2. Earned(p) = Budget(p)
    BY BudgetEarned
  <2>3. Posted(posts, posts[i].session, p) <= Budget(p)
    BY DEF PaidFor, Bounded
  <2> QED BY <2>1, <2>2, <2>3
<1> HIDE DEF Inv
<1> QED BY <1>1, <1>2, <1>3, PTL DEF SystemSpec
=============================================================================
