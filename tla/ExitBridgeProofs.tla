-------------------------- MODULE ExitBridgeProofs --------------------------
(***************************************************************************)
(* Proofs about the exit bridge, for any number of blocks and sessions and *)
(* any events: the types, the order of the payments, fail-close, what may  *)
(* be paid twice and that nothing is passed over.  The invariant relates   *)
(* the queue, the cursor and the requests through a frontier f: the first  *)
(* block the running session has not taken from its queue.                 *)
(***************************************************************************)
EXTENDS ExitBridge, TLAPS

\* What Tail and Append do, element by element.
LEMMA TailFacts ==
  ASSUME NEW S, NEW q \in Seq(S), q # <<>>
  PROVE  /\ Tail(q) \in Seq(S) /\ Len(Tail(q)) = Len(q) - 1 /\ Len(q) \in Nat \ {0}
         /\ Head(q) = q[1] /\ q[1] \in S
         /\ \A i \in 1 .. Len(q) - 1 : Tail(q)[i] = q[i + 1]
OBVIOUS

\* What appending does to a sequence.
LEMMA AppendFacts ==
  ASSUME NEW S, NEW q \in Seq(S), NEW x \in S
  PROVE  /\ Append(q, x) \in Seq(S) /\ Len(Append(q, x)) = Len(q) + 1 /\ Len(q) \in Nat
         /\ Append(q, x)[Len(q) + 1] = x
         /\ \A i \in 1 .. Len(q) : Append(q, x)[i] = q[i] /\ q[i] \in S
OBVIOUS
-----------------------------------------------------------------------------
Payloads == {Payload(events[n]) : events \in Blocks, n \in Nat}
Posts == [session : Nat, pos : Nat \X Nat, payload : Payloads,
          result : Replies \cup {"sent"}]

ConnOK == chain \in Seq(Blocks) /\ link \in {"up", "down", "deaf", "mute"}
ProcessOK ==
  /\ bridge \in {"stopped", "listening", "events", "paying"}
  /\ session \in 0..MaxSessions /\ (bridge # "stopped" => session > 0)
  /\ heads \in Seq(1 .. Len(chain))
CursorOK ==
  /\ block \in 0 .. Len(chain) /\ reply \in Replies /\ k \in Nat
  /\ block > 0 <=> bridge \in {"events", "paying"}
  /\ block > 0 => batch = chain[block] /\ k \in 1 .. Len(batch) + 1
  /\ bridge = "paying" => k <= Len(batch)
HistoryOK ==
  /\ first \in Seq(Nat) /\ Len(first) = session
  /\ \A s \in 1..session : first[s] <= Len(chain) + 1
  /\ skipped \subseteq 1 .. Len(chain)
  /\ posts \in Seq(Posts) /\ (bridge = "paying" => posts # <<>>)
  /\ \A i \in 1 .. Len(posts) : /\ posts[i].session \in 1..session
                                /\ posts[i].pos[1] <= Len(chain)

Types == ConnOK /\ ProcessOK /\ CursorOK /\ HistoryOK

\* The process ends, of itself or not.
Ends == Stop /\ UNCHANGED <<chain, session, first, posts>>

\* A block is imported: it is announced to whoever is subscribed.
LEMMA ImportFacts ==
  ASSUME Types, NEW events \in Blocks, ImportBlock(events)
  PROVE  /\ chain' \in Seq(Blocks) /\ Len(chain') = Len(chain) + 1 /\ Len(chain) \in Nat
         /\ \A b \in 1 .. Len(chain) : chain'[b] = chain[b]
         /\ heads' \in Seq(1 .. Len(chain'))
         /\ IF bridge # "stopped" /\ link = "up"
            THEN /\ Len(heads') = Len(heads) + 1
                 /\ heads'[Len(heads) + 1] = Len(chain) + 1
                 /\ \A i \in 1 .. Len(heads) : heads'[i] = heads[i]
            ELSE heads' = heads
         /\ Len(heads) \in Nat
         /\ UNCHANGED <<link, bridge, session, cursor, history>>
<1>1. /\ chain' \in Seq(Blocks) /\ Len(chain') = Len(chain) + 1 /\ Len(chain) \in Nat
      /\ \A b \in 1 .. Len(chain) : chain'[b] = chain[b]
  BY AppendFacts DEF Types, ConnOK, ImportBlock
<1>2. heads \in Seq(1 .. Len(chain'))
  <2>1. heads \in Seq(1 .. Len(chain))
    BY DEF Types, ProcessOK
  <2> QED BY <1>1, <2>1
<1>3. Len(chain) + 1 \in 1 .. Len(chain')
  BY <1>1
<1>4. CASE bridge # "stopped" /\ link = "up"
  <2>1. heads' = Append(heads, Len(chain) + 1)
    BY <1>4 DEF ImportBlock, Announce
  <2> DEFINE S == 1 .. Len(chain')
             x == Len(chain) + 1
  <2>2. heads \in Seq(S) /\ x \in S /\ heads' = Append(heads, x)
    BY <1>2, <1>3, <2>1
  <2> HIDE DEF S, x
  <2>3. /\ heads' \in Seq(S) /\ Len(heads') = Len(heads) + 1 /\ Len(heads) \in Nat
        /\ heads'[Len(heads) + 1] = x
        /\ \A i \in 1 .. Len(heads) : heads'[i] = heads[i]
    BY <2>2, AppendFacts
  <2> QED BY <1>1, <1>4, <2>3 DEF S, x, ImportBlock
<1>5. CASE ~(bridge # "stopped" /\ link = "up")
  <2>1. heads' = heads
    BY <1>5 DEF ImportBlock
  <2>2. Len(heads) \in Nat
    BY <1>2
  <2> QED BY <1>1, <1>2, <1>5, <2>1, <2>2 DEF ImportBlock
<1> QED BY <1>4, <1>5

\* A request returns: only the result of the last post changes.
LEMMA ReturnFacts ==
  ASSUME Types, PaymentReturns
  PROVE  /\ posts' \in Seq(Posts) /\ Len(posts') = Len(posts) /\ Len(posts) \in Nat \ {0}
         /\ \A i \in 1 .. Len(posts) :
              /\ posts'[i].session = posts[i].session /\ posts'[i].pos = posts[i].pos
              /\ posts'[i].payload = posts[i].payload
         /\ \A i \in 1 .. Len(posts) - 1 : posts'[i].result = posts[i].result
         /\ posts'[Len(posts)].result = reply
<1> DEFINE n == Len(posts)
           p == posts[n]
           q == [p EXCEPT !.result = reply]
<1>1. posts \in Seq(Posts) /\ n \in Nat \ {0} /\ p \in Posts
  BY DEF Types, HistoryOK, PaymentReturns
<1>2. reply \in Replies
  BY DEF Types, CursorOK
<1>3. /\ q \in Posts /\ q.result = reply /\ q.session = p.session /\ q.pos = p.pos
      /\ q.payload = p.payload
  BY <1>1, <1>2 DEF Posts
<1> HIDE DEF q
<1>4. posts' = [posts EXCEPT ![n] = q]
  BY DEF PaymentReturns, q
<1>5. /\ posts' \in Seq(Posts) /\ Len(posts') = n /\ posts'[n] = q
      /\ \A i \in 1 .. n - 1 : posts'[i] = posts[i]
  BY <1>1, <1>3, <1>4
<1> QED BY <1>1, <1>3, <1>5
-----------------------------------------------------------------------------
\* How each action keeps the types.
LEMMA ImportKeepsTypes ==
  ASSUME Types, NEW events \in Blocks, ImportBlock(events)
  PROVE  Types'
<1>1. /\ chain' \in Seq(Blocks) /\ Len(chain') = Len(chain) + 1 /\ Len(chain) \in Nat
      /\ \A b \in 1 .. Len(chain) : chain'[b] = chain[b]
      /\ heads' \in Seq(1 .. Len(chain'))
      /\ UNCHANGED <<link, bridge, session, cursor, history>>
  BY ImportFacts
<1>2. ConnOK' /\ ProcessOK'
  BY <1>1 DEF Types, ConnOK, ProcessOK
<1>3. CursorOK'
  BY <1>1 DEF Types, CursorOK, cursor
<1>4. HistoryOK'
  <2>1. UNCHANGED <<first, skipped, posts, session, bridge>>
    BY <1>1 DEF history
  <2>2. /\ first \in Seq(Nat) /\ Len(first) = session /\ session \in Nat
        /\ \A s \in 1..session : first[s] <= Len(chain) + 1 /\ first[s] \in Nat
    BY BridgeAssumption DEF Types, HistoryOK, ProcessOK
  <2>3. \A s \in 1..session : first[s] <= Len(chain') + 1
    <3>1. Len(chain') = Len(chain) + 1 /\ Len(chain) \in Nat
      BY <1>1
    <3> QED BY <2>2, <3>1
  <2>4. /\ posts \in Seq(Posts) /\ skipped \subseteq 1 .. Len(chain)
        /\ \A i \in 1 .. Len(posts) : /\ posts[i].session \in 1..session
                                      /\ posts[i].pos[1] <= Len(chain)
    BY DEF Types, HistoryOK
  <2>5. \A i \in 1 .. Len(posts) : posts[i].pos[1] <= Len(chain')
    <3> SUFFICES ASSUME NEW i \in 1 .. Len(posts)
                 PROVE  posts[i].pos[1] <= Len(chain')
      OBVIOUS
    <3>1. posts[i] \in Posts
      BY <2>4
    <3>2. posts[i].pos[1] \in Nat
      BY <3>1 DEF Posts
    <3> QED BY <1>1, <2>4, <3>2
  <2>6. skipped \subseteq 1 .. Len(chain')
    BY <1>1, <2>4
  <2> QED BY <2>1, <2>2, <2>3, <2>4, <2>5, <2>6 DEF Types, HistoryOK
<1> QED BY <1>2, <1>3, <1>4 DEF Types

\* The end of a session keeps the types, whatever it writes into the history,
LEMMA EndKeepsTypes ==
  ASSUME Types, Stop, UNCHANGED <<chain, session, first>>,
         posts' \in Seq(Posts), Len(posts') = Len(posts),
         \A i \in 1 .. Len(posts) : /\ posts'[i].session = posts[i].session
                                    /\ posts'[i].pos = posts[i].pos
  PROVE  Types'
<1>1. ConnOK' /\ ProcessOK'
  BY DEF Types, ConnOK, ProcessOK, Stop
<1>2. CursorOK'
  BY DEF Types, ConnOK, CursorOK, Stop, Return, Replies
<1>3. HistoryOK'
  BY DEF Types, HistoryOK, Stop
<1> QED BY <1>1, <1>2, <1>3 DEF Types

\* and so do a new session,
LEMMA ListenKeepsTypes ==
  ASSUME Types, Listen
  PROVE  Types'
<1> USE BridgeAssumption
<1>1. Len(chain) \in Nat /\ session \in Nat /\ session' = session + 1 /\ bridge = "stopped"
  BY DEF Types, ConnOK, ProcessOK, Listen, Connect
<1>2. PICK q \in Backlog :
        /\ heads' = q
        /\ first' = Append(first, IF q = <<>> THEN Len(chain) + 1 ELSE Len(chain))
  BY DEF Listen
<1> DEFINE f == IF q = <<>> THEN Len(chain) + 1 ELSE Len(chain)
<1>3. f \in Nat /\ f <= Len(chain) + 1 /\ first' = Append(first, f)
  BY <1>1, <1>2
<1>4. heads' \in Seq(1 .. Len(chain))
  <2>1. q = <<>> \/ (chain # <<>> /\ q = <<Len(chain)>>)
    BY DEF Backlog
  <2>2. chain # <<>> => Len(chain) \in 1 .. Len(chain)
    BY DEF Types, ConnOK
  <2>3. CASE q = <<>>
    BY <1>2, <2>3
  <2>4. CASE chain # <<>> /\ q = <<Len(chain)>>
    BY <1>2, <2>2, <2>4
  <2> QED BY <2>1, <2>3, <2>4
<1> HIDE DEF f
<1>5. ConnOK' /\ ProcessOK'
  BY <1>1, <1>4 DEF Types, ConnOK, ProcessOK, Listen, Connect
<1>6. CursorOK'
  BY <1>1 DEF Types, CursorOK, Listen, cursor
<1>7. /\ first' \in Seq(Nat) /\ Len(first') = session'
      /\ \A s \in 1..session' : first'[s] <= Len(chain') + 1
  <2>1. first \in Seq(Nat) /\ Len(first) = session /\ chain' = chain
        /\ \A s \in 1..session : first[s] <= Len(chain) + 1
    BY DEF Types, HistoryOK, Listen
  <2>2. /\ first' \in Seq(Nat) /\ Len(first') = session + 1 /\ first'[session + 1] = f
        /\ \A s \in 1 .. session : first'[s] = first[s]
    BY <1>3, <2>1, AppendFacts
  <2> QED BY <1>1, <1>3, <2>1, <2>2
<1>8. HistoryOK'
  BY <1>1, <1>7 DEF Types, HistoryOK, Listen
<1> QED BY <1>5, <1>6, <1>8 DEF Types

\* a block that is read,
LEMMA ReadKeepsTypes ==
  ASSUME Types, ReadBlock
  PROVE  Types'
<1>1. heads \in Seq(1 .. Len(chain)) /\ heads # <<>> /\ Len(chain) \in Nat
  BY DEF Types, ConnOK, ProcessOK, ReadBlock
<1>2. Tail(heads) \in Seq(1 .. Len(chain)) /\ Head(heads) \in 1 .. Len(chain)
  BY <1>1
<1>3. ConnOK' /\ ProcessOK'
  BY <1>2 DEF Types, ConnOK, ProcessOK, ReadBlock, conn
<1>4. CursorOK'
  <2>1. chain[Head(heads)] \in Blocks
    BY <1>2 DEF Types, ConnOK
  <2>2. Len(batch') \in Nat
    BY <2>1, BridgeAssumption DEF ReadBlock
  <2> QED BY <1>1, <1>2, <2>2 DEF Types, CursorOK, ReadBlock, conn
<1>5. HistoryOK'
  BY DEF Types, HistoryOK, ReadBlock, conn, history
<1> QED BY <1>3, <1>4, <1>5 DEF Types

\* a block that is not,
LEMMA SkipKeepsTypes ==
  ASSUME Types, SkipBlock
  PROVE  Types'
<1>1. heads \in Seq(1 .. Len(chain)) /\ heads # <<>> /\ Len(chain) \in Nat
  BY DEF Types, ConnOK, ProcessOK, SkipBlock
<1>2. Tail(heads) \in Seq(1 .. Len(chain)) /\ Head(heads) \in 1 .. Len(chain)
  BY <1>1
<1>3. ConnOK' /\ ProcessOK'
  BY <1>2 DEF Types, ConnOK, ProcessOK, SkipBlock, conn
<1>4. CursorOK'
  BY DEF Types, CursorOK, SkipBlock, conn, cursor
<1>5. HistoryOK'
  BY <1>2 DEF Types, HistoryOK, SkipBlock, conn
<1> QED BY <1>3, <1>4, <1>5 DEF Types

\* a payment that is sent
LEMMA SendKeepsTypes ==
  ASSUME Types, SendPayment
  PROVE  Types'
<1> DEFINE post == [session |-> session, pos |-> <<block, k>>,
                    payload |-> Payload(Event), result |-> "sent"]
<1>1. /\ block \in 1 .. Len(chain) /\ k \in 1 .. Len(batch) /\ batch = chain[block]
      /\ batch \in Blocks /\ Len(batch) \in Nat /\ Len(chain) \in Nat
  BY BridgeAssumption DEF Types, ConnOK, CursorOK, SendPayment
<1>2. session \in 1..session /\ session \in Nat
  BY BridgeAssumption DEF Types, ProcessOK, SendPayment
<1>3. Payload(Event) \in Payloads
  BY <1>1 DEF Payloads, Event
<1>4. post \in Posts /\ post.session = session /\ post.pos = <<block, k>>
  BY <1>1, <1>2, <1>3 DEF Posts
<1>5. posts \in Seq(Posts) /\ posts' = Append(posts, post)
  BY DEF Types, HistoryOK, SendPayment
<1> HIDE DEF post
<1>6. /\ posts' \in Seq(Posts) /\ Len(posts') = Len(posts) + 1 /\ Len(posts) \in Nat
      /\ posts'[Len(posts) + 1] = post
      /\ \A i \in 1 .. Len(posts) : posts'[i] = posts[i]
  BY <1>4, <1>5, AppendFacts
<1>7. ConnOK' /\ ProcessOK'
  BY DEF Types, ConnOK, ProcessOK, SendPayment, conn
<1>8. CursorOK'
  BY <1>1 DEF Types, CursorOK, SendPayment, conn
<1>9. HistoryOK'
  <2>1. \A i \in 1 .. Len(posts') : /\ posts'[i].session \in 1..session
                                    /\ posts'[i].pos[1] <= Len(chain)
    <3> SUFFICES ASSUME NEW i \in 1 .. Len(posts) + 1
                 PROVE  /\ posts'[i].session \in 1..session
                        /\ posts'[i].pos[1] <= Len(chain)
      BY <1>6
    <3>1. CASE i = Len(posts) + 1
      BY <1>1, <1>2, <1>4, <1>6, <3>1
    <3>2. CASE i \in 1 .. Len(posts)
      BY <1>6, <3>2 DEF Types, HistoryOK
    <3> QED BY <1>6, <3>1, <3>2
  <2> QED BY <1>6, <2>1 DEF Types, HistoryOK, SendPayment, conn
<1> QED BY <1>7, <1>8, <1>9 DEF Types

\* and one that returns.
LEMMA ReturnKeepsTypes ==
  ASSUME Types, PaymentReturns
  PROVE  Types'
<1>1. /\ posts' \in Seq(Posts) /\ Len(posts') = Len(posts) /\ Len(posts) \in Nat \ {0}
      /\ \A i \in 1 .. Len(posts) : /\ posts'[i].session = posts[i].session
                                    /\ posts'[i].pos = posts[i].pos
  BY ReturnFacts
<1>2. CASE Fatal(reply)
  BY <1>1, <1>2, EndKeepsTypes DEF PaymentReturns
<1>3. CASE ~Fatal(reply)
  <2>1. ConnOK' /\ ProcessOK'
    BY <1>3 DEF Types, ConnOK, ProcessOK, PaymentReturns
  <2>2. CursorOK'
    <3>1. /\ block \in 1 .. Len(chain) /\ k \in 1 .. Len(batch) /\ batch = chain[block]
          /\ batch \in Blocks /\ Len(batch) \in Nat /\ Len(chain) \in Nat
      BY BridgeAssumption DEF Types, ConnOK, CursorOK, PaymentReturns
    <3> QED BY <1>3, <3>1 DEF Types, CursorOK, PaymentReturns, After, Replies
  <2>3. HistoryOK'
    BY <1>1, <1>3 DEF Types, HistoryOK, PaymentReturns
  <2> QED BY <2>1, <2>2, <2>3 DEF Types
<1> QED BY <1>2, <1>3

\* The types are an inductive invariant.
LEMMA TypesInductive ==
  ASSUME Types, [Next]_vars
  PROVE  Types'
<1>1. CASE \E events \in Blocks : ImportBlock(events)
  BY <1>1, ImportKeepsTypes
<1>2. CASE LoseLink \/ Hang \/ Reconnect
  <2>1. ConnOK' /\ ProcessOK'
    BY <1>2 DEF Types, ConnOK, ProcessOK, LoseLink, Hang, Reconnect
  <2>2. CursorOK' /\ HistoryOK'
    BY <1>2 DEF Types, CursorOK, HistoryOK, LoseLink, Hang, Reconnect, cursor, history
  <2> QED BY <2>1, <2>2 DEF Types
<1>3. CASE Listen
  BY <1>3, ListenKeepsTypes
<1>4. CASE Crash \/ ListenerError
  <2>1. posts \in Seq(Posts)
    BY DEF Types, HistoryOK
  <2> QED BY <1>4, <2>1, EndKeepsTypes DEF Crash, ListenerError
<1>5. CASE ReadBlock
  BY <1>5, ReadKeepsTypes
<1>6. CASE SkipBlock
  BY <1>6, SkipKeepsTypes
<1>7. CASE IgnoreEvent
  <2>1. /\ block \in 1 .. Len(chain) /\ k \in 1 .. Len(batch) /\ batch = chain[block]
        /\ batch \in Blocks /\ Len(batch) \in Nat /\ Len(chain) \in Nat
    BY <1>7, BridgeAssumption DEF Types, ConnOK, CursorOK, IgnoreEvent
  <2>2. ConnOK' /\ ProcessOK' /\ HistoryOK'
    BY <1>7 DEF Types, ConnOK, ProcessOK, HistoryOK, IgnoreEvent, conn, history
  <2>3. CursorOK'
    BY <1>7, <2>1 DEF Types, CursorOK, IgnoreEvent, conn, After
  <2> QED BY <2>2, <2>3 DEF Types
<1>8. CASE SendPayment
  BY <1>8, SendKeepsTypes
<1>9. CASE PaymentReturns
  BY <1>9, ReturnKeepsTypes
<1>10. CASE FinishBlock
  <2>1. ConnOK' /\ ProcessOK' /\ HistoryOK'
    BY <1>10 DEF Types, ConnOK, ProcessOK, HistoryOK, FinishBlock, conn, history
  <2>2. CursorOK'
    BY <1>10 DEF Types, ConnOK, CursorOK, FinishBlock, Return, conn, Replies
  <2> QED BY <2>1, <2>2 DEF Types
<1>11. CASE UNCHANGED vars
  BY <1>11 DEF Types, ConnOK, ProcessOK, CursorOK, HistoryOK, vars, conn, cursor, history
<1> QED BY <1>1, <1>2, <1>3, <1>4, <1>5, <1>6, <1>7, <1>8, <1>9, <1>10, <1>11
        DEF Next, BridgeStep

\* The types, by induction.
LEMMA TypesInvariant == Spec => []Types
<1>1. Init => Types
  BY BridgeAssumption DEF Init, Types, ConnOK, ProcessOK, CursorOK, HistoryOK, Replies
<1> QED BY <1>1, TypesInductive, PTL DEF Spec

\* The cursor of the handler (bridge.py:77-84) points into a block of the chain, and
\* every announced block exists.
THEOREM BridgeTypeCorrect == Spec => []TypeOK
<1>1. Types => TypeOK
  <2> SUFFICES ASSUME Types PROVE TypeOK
    OBVIOUS
  <2>1. /\ chain \in Seq(Blocks) /\ link \in {"up", "down", "deaf", "mute"}
        /\ bridge \in {"stopped", "listening", "events", "paying"}
        /\ session \in 0..MaxSessions /\ heads \in Seq(1 .. Len(chain))
    BY DEF Types, ConnOK, ProcessOK
  <2>2. /\ block \in 0 .. Len(chain) /\ reply \in Replies
        /\ block > 0 => batch = chain[block] /\ k \in 1 .. Len(batch) + 1
    BY DEF Types, CursorOK
  <2>3. /\ Len(first) = session /\ skipped \subseteq 1 .. Len(chain)
        /\ posts \in Seq(Posts)
        /\ \A i \in 1 .. Len(posts) : posts[i].session \in 1..session
    BY DEF Types, HistoryOK
  <2>4. \A i \in DOMAIN posts : /\ posts[i].session \in 1..session
                                /\ posts[i].result \in Replies \cup {"sent"}
    <3>1. DOMAIN posts = 1 .. Len(posts) /\ \A i \in 1 .. Len(posts) : posts[i] \in Posts
      BY <2>3
    <3>2. \A p \in Posts : p.result \in Replies \cup {"sent"}
      BY DEF Posts
    <3> QED BY <2>3, <3>1, <3>2
  <2> QED BY <2>1, <2>2, <2>3, <2>4 DEF TypeOK
<1> QED BY <1>1, TypesInvariant, PTL
-----------------------------------------------------------------------------
(* A running session: every block before f has been taken from the queue,  *)
(* the queue holds the blocks from f on.                                   *)

Queue(f) ==
  /\ 0 < first[session] /\ first[session] <= f
  /\ f + Len(heads) <= Len(chain) + 1
  /\ \A i \in 1 .. Len(heads) : heads[i] = f + i - 1
  /\ link = "up" => f + Len(heads) = Len(chain) + 1
  /\ block > 0 => f = block + 1 /\ first[session] <= block

\* The requests of the session lie behind the cursor, and all but the one under
\* way were answered.
Behind(f) ==
  /\ \A i \in 1 .. Len(posts) : posts[i].session = session =>
       /\ posts[i].pos[1] < f
       /\ (bridge = "events" \/ (bridge = "paying" /\ i < Len(posts)))
            => Before(posts[i].pos, <<block, k>>)
       /\ (bridge # "paying" \/ i < Len(posts)) => posts[i].result \in {"200", "status"}
  /\ bridge = "paying" => /\ posts[Len(posts)].session = session
                          /\ posts[Len(posts)].pos = <<block, k>>

Paid(b, n) == \E i \in 1 .. Len(posts) :
                posts[i].session = session /\ posts[i].pos = <<b, n>>

Passed(b, n) == b = block => n < k \/ (n = k /\ bridge = "paying")

\* Every payable event the session has passed is paid for.
Done(f) ==
  \A b \in first[session] .. f - 1 :
    b \in skipped \/
      \A n \in 1 .. Len(chain[b]) : Passed(b, n) /\ Payable(chain[b][n]) => Paid(b, n)

Running == bridge # "stopped" => \E f \in Nat : Queue(f) /\ Behind(f) /\ Done(f)

\* The numbers the invariants are about.
LEMMA Numbers ==
  ASSUME Types
  PROVE  /\ session \in Nat /\ Len(chain) \in Nat /\ Len(heads) \in Nat /\ Len(posts) \in Nat
         /\ block \in Nat /\ k \in Nat
         /\ (bridge # "stopped" => first[session] \in Nat)
         /\ \A s \in 1..session : first[s] \in Nat
         /\ \A i \in 1 .. Len(posts) : /\ posts[i].pos \in Nat \X Nat
                                       /\ posts[i].pos[1] \in Nat /\ posts[i].pos[2] \in Nat
                                       /\ posts[i].session \in Nat
                                       /\ posts[i].session <= session
<1>1. session \in Nat /\ Len(chain) \in Nat /\ Len(heads) \in Nat /\ block \in Nat /\ k \in Nat
  BY BridgeAssumption DEF Types, ConnOK, ProcessOK, CursorOK
<1>2. /\ posts \in Seq(Posts) /\ Len(posts) \in Nat
      /\ \A i \in 1 .. Len(posts) : posts[i].session \in 1..session
  BY DEF Types, HistoryOK
<1>3. \A s \in 1..session : first[s] \in Nat
  BY <1>1 DEF Types, HistoryOK
<1>4. bridge # "stopped" => session \in 1..session
  BY <1>1 DEF Types, ProcessOK
<1>5. \A p \in Posts : p.pos \in Nat \X Nat /\ p.pos[1] \in Nat /\ p.pos[2] \in Nat
  BY DEF Posts
<1>6. \A i \in 1 .. Len(posts) : posts[i] \in Posts
  BY <1>2
<1> QED BY <1>1, <1>2, <1>3, <1>4, <1>5, <1>6

\* What is before the cursor, or at it, is before the next event and before any event
\* of a later block.
LEMMA CursorMoves ==
  ASSUME Types, NEW i \in 1 .. Len(posts), NEW b \in Nat, NEW n \in Nat
  PROVE  /\ Before(posts[i].pos, <<b, n>>) => Before(posts[i].pos, <<b, n + 1>>)
         /\ posts[i].pos = <<b, n>> => Before(posts[i].pos, <<b, n + 1>>)
         /\ posts[i].pos[1] < b => Before(posts[i].pos, <<b, n>>)
<1>1. posts[i].pos[1] \in Nat /\ posts[i].pos[2] \in Nat
  BY Numbers
<1> DEFINE p == posts[i].pos
<1>2. p[1] \in Nat /\ p[2] \in Nat
  BY <1>1
<1> HIDE DEF p
<1>3. /\ Before(p, <<b, n>>) => Before(p, <<b, n + 1>>)
      /\ p = <<b, n>> => Before(p, <<b, n + 1>>)
      /\ p[1] < b => Before(p, <<b, n>>)
  BY <1>2 DEF Before
<1> QED BY <1>3 DEF p

\* A new block, announced or not, keeps the invariant of a running session.
LEMMA ImportRuns ==
  ASSUME Types, Running, NEW events \in Blocks, ImportBlock(events)
  PROVE  Running'
<1> SUFFICES ASSUME bridge # "stopped" PROVE Running'
  BY DEF ImportBlock, Running
<1>1. PICK f \in Nat : Queue(f) /\ Behind(f) /\ Done(f)
  BY DEF Running
<1>2. /\ Len(chain') = Len(chain) + 1
      /\ \A b \in 1 .. Len(chain) : chain'[b] = chain[b]
      /\ UNCHANGED <<link, bridge, session, cursor, history>>
  BY ImportFacts
<1>3. IF link = "up"
      THEN /\ Len(heads') = Len(heads) + 1
           /\ heads'[Len(heads) + 1] = Len(chain) + 1
           /\ \A i \in 1 .. Len(heads) : heads'[i] = heads[i]
      ELSE heads' = heads
  BY ImportFacts
<1>4. UNCHANGED <<link, bridge, session, block, batch, k, first, skipped, posts>>
  BY <1>2 DEF cursor, history
<1>5. Queue(f)'
  <2>1. CASE link = "up"
    <3>1. f + Len(heads) = Len(chain) + 1
      BY <1>1, <2>1 DEF Queue
    <3>2. \A i \in 1 .. Len(heads) + 1 : heads'[i] = f + i - 1
      <4> SUFFICES ASSUME NEW i \in 1 .. Len(heads) + 1 PROVE heads'[i] = f + i - 1
        OBVIOUS
      <4>1. CASE i = Len(heads) + 1
        BY <1>3, <2>1, <3>1, <4>1, Numbers
      <4>2. CASE i \in 1 .. Len(heads)
        <5>1. heads'[i] = heads[i]
          BY <1>3, <2>1, <4>2
        <5>2. heads[i] = f + i - 1
          BY <1>1, <4>2 DEF Queue
        <5> QED BY <5>1, <5>2
      <4>3. Len(heads) \in Nat
        BY Numbers
      <4> QED BY <4>1, <4>2, <4>3
    <3>3. Len(heads') = Len(heads) + 1 /\ Len(chain') = Len(chain) + 1
      BY <1>2, <1>3, <2>1
    <3> QED BY <1>1, <1>4, <3>1, <3>2, <3>3, Numbers DEF Queue
  <2>2. CASE link # "up"
    <3>1. heads' = heads /\ Len(chain') = Len(chain) + 1
      BY <1>2, <1>3, <2>2
    <3> QED BY <1>1, <1>4, <2>2, <3>1, Numbers DEF Queue
  <2> QED BY <2>1, <2>2
<1>6. Behind(f)'
  BY <1>1, <1>4 DEF Behind, Before
<1>7. Done(f)'
  <2>1. f - 1 <= Len(chain) /\ first[session] \in Nat /\ 0 < first[session]
    BY <1>1, Numbers DEF Queue
  <2>2. \A b \in first[session] .. f - 1 : chain'[b] = chain[b]
    BY <1>2, <2>1, Numbers
  <2> QED BY <1>1, <1>4, <2>2 DEF Done, Passed, Paid
<1> QED BY <1>5, <1>6, <1>7 DEF Running

\* A session starts with nothing behind it.
LEMMA ListenRuns ==
  ASSUME Types, Types', Listen
  PROVE  Running'
<1>1. PICK q \in Backlog :
        /\ heads' = q
        /\ first' = Append(first, IF q = <<>> THEN Len(chain) + 1 ELSE Len(chain))
  BY DEF Listen
<1>2. /\ q = <<>> \/ (chain # <<>> /\ q = <<Len(chain)>>)
      /\ chain # <<>> => Len(chain) > 0
  BY DEF Backlog, Types, ConnOK
<1>3. PICK f \in Nat : f = IF q = <<>> THEN Len(chain) + 1 ELSE Len(chain)
  BY Numbers
<1>4. /\ f > 0 /\ f + Len(q) = Len(chain) + 1 /\ Len(q) \in Nat
      /\ \A i \in 1 .. Len(q) : q[i] = f + i - 1
  <2>1. CASE q = <<>>
    BY <1>3, <2>1, Numbers
  <2>2. CASE q # <<>>
    <3>1. Len(chain) > 0 /\ q = <<Len(chain)>> /\ f = Len(chain)
      BY <1>2, <1>3, <2>2
    <3>2. Len(q) = 1 /\ q[1] = f
      BY <3>1
    <3> QED BY <3>1, <3>2, Numbers
  <2> QED BY <2>1, <2>2
<1>5. f = first'[session']
  <2>1. first \in Seq(Nat) /\ Len(first) = session /\ session' = session + 1
    BY DEF Types, HistoryOK, Listen, Connect
  <2>2. first' = Append(first, f)
    BY <1>1, <1>3
  <2> QED BY <2>1, <2>2
<1>6. /\ block' = 0 /\ chain' = chain /\ bridge' = "listening" /\ posts' = posts
      /\ session' = session + 1
  BY DEF Listen, Connect, cursor, Types, CursorOK
<1>7. Queue(f)'
  <2>1. heads' = q /\ first'[session'] = f /\ Len(chain') = Len(chain)
    BY <1>1, <1>5, <1>6
  <2>2. f <= f /\ f + Len(q) <= Len(chain) + 1
    BY <1>4, Numbers
  <2> QED BY <1>4, <1>6, <2>1, <2>2 DEF Queue
<1>8. Behind(f)'
  BY <1>6, Numbers DEF Behind
<1>9. Done(f)'
  BY <1>5 DEF Done
<1> QED BY <1>7, <1>8, <1>9 DEF Running

\* The notice at the head of the queue is handled or given up.
LEMMA ReadRuns ==
  ASSUME Types, Running, ReadBlock
  PROVE  Running'
<1>1. PICK f \in Nat : Queue(f) /\ Behind(f) /\ Done(f)
  BY DEF Running, ReadBlock
<1>2. heads \in Seq(1 .. Len(chain)) /\ heads # <<>> /\ bridge = "listening"
  BY DEF Types, ProcessOK, ReadBlock
<1>3. /\ Len(Tail(heads)) = Len(heads) - 1 /\ Len(heads) \in Nat \ {0}
      /\ Head(heads) = f /\ f > 0
      /\ \A i \in 1 .. Len(heads) - 1 : Tail(heads)[i] = f + 1 + i - 1
  <2>1. /\ Len(Tail(heads)) = Len(heads) - 1 /\ Len(heads) \in Nat \ {0}
        /\ Head(heads) = heads[1] /\ heads[1] \in 1 .. Len(chain)
        /\ \A i \in 1 .. Len(heads) - 1 : Tail(heads)[i] = heads[i + 1]
    BY <1>2, TailFacts
  <2>2. \A i \in 1 .. Len(heads) : heads[i] = f + i - 1
    BY <1>1 DEF Queue
  <2>3. heads[1] = f
    BY <2>1, <2>2
  <2>4. \A i \in 1 .. Len(heads) - 1 : heads[i + 1] = f + 1 + i - 1
    BY <2>1, <2>2
  <2> QED BY <2>1, <2>3, <2>4
<1>4. /\ bridge' = "events" /\ block' = f /\ k' = 1 /\ heads' = Tail(heads) /\ block = 0
      /\ UNCHANGED <<chain, link, session, first, skipped, posts>>
  BY <1>2, <1>3 DEF ReadBlock, conn, history, Types, CursorOK
<1>5. Queue(f + 1)'
  <2>1. Len(heads') = Len(heads) - 1 /\ \A i \in 1 .. Len(heads') : heads'[i] = f + 1 + i - 1
    BY <1>3, <1>4
  <2>2. f + 1 + Len(heads') = f + Len(heads)
    BY <1>3, <2>1
  <2>3. 0 < first[session] /\ first[session] <= f /\ first[session] \in Nat
    BY <1>1, <1>2, Numbers DEF Queue
  <2>4. /\ f + Len(heads) <= Len(chain) + 1
        /\ link = "up" => f + Len(heads) = Len(chain) + 1
    BY <1>1 DEF Queue
  <2>5. block' > 0 => f + 1 = block' + 1 /\ first[session] <= block'
    BY <1>3, <1>4, <2>3
  <2>6. /\ f + 1 + Len(heads') <= Len(chain') + 1
        /\ link' = "up" => f + 1 + Len(heads') = Len(chain') + 1
    BY <1>4, <2>2, <2>4
  <2>7. 0 < first'[session'] /\ first'[session'] <= f + 1
    BY <1>4, <2>3
  <2>8. first'[session'] = first[session]
    BY <1>4
  <2> QED BY <2>1, <2>5, <2>6, <2>7, <2>8 DEF Queue
<1>6. Behind(f + 1)'
  <2>1. \A i \in 1 .. Len(posts) : posts[i].session = session =>
          posts[i].pos[1] < f /\ posts[i].result \in {"200", "status"}
    BY <1>1, <1>2 DEF Behind
  <2>2. \A i \in 1 .. Len(posts) : posts[i].session = session =>
          Before(posts[i].pos, <<f, 1>>) /\ posts[i].pos[1] < f + 1
    <3> SUFFICES ASSUME NEW i \in 1 .. Len(posts), posts[i].session = session
                 PROVE  Before(posts[i].pos, <<f, 1>>) /\ posts[i].pos[1] < f + 1
      OBVIOUS
    <3>1. posts[i].pos[1] < f /\ posts[i].pos[1] \in Nat
      BY <2>1, Numbers
    <3>2. Before(posts[i].pos, <<f, 1>>)
      BY <3>1, CursorMoves
    <3> QED BY <3>1, <3>2
  <2> QED BY <1>4, <2>1, <2>2 DEF Behind
<1>7. Done(f + 1)'
  <2> SUFFICES ASSUME NEW b \in first[session] .. f, b \notin skipped,
                      NEW n \in 1 .. Len(chain[b]), Passed(b, n)', Payable(chain[b][n])
               PROVE  Paid(b, n)'
    BY <1>4 DEF Done
  <2>1. b # f
    BY <1>4 DEF Passed
  <2>2. first[session] \in Nat /\ 0 < first[session]
    BY <1>1, <1>2, Numbers DEF Queue
  <2>3. b \in first[session] .. f - 1 /\ b # block
    BY <1>4, <2>1, <2>2
  <2>4. Paid(b, n)
    BY <1>1, <2>3 DEF Done, Passed
  <2> QED BY <1>4, <2>4 DEF Paid
<1> QED BY <1>5, <1>6, <1>7 DEF Running

\* A block that could not be read is behind the frontier.
LEMMA SkipRuns ==
  ASSUME Types, Running, SkipBlock
  PROVE  Running'
<1>1. PICK f \in Nat : Queue(f) /\ Behind(f) /\ Done(f)
  BY DEF Running, SkipBlock
<1>2. heads \in Seq(1 .. Len(chain)) /\ heads # <<>> /\ bridge = "listening"
  BY DEF Types, ProcessOK, SkipBlock
<1>3. /\ Len(Tail(heads)) = Len(heads) - 1 /\ Len(heads) \in Nat \ {0}
      /\ Head(heads) = f /\ f > 0
      /\ \A i \in 1 .. Len(heads) - 1 : Tail(heads)[i] = f + 1 + i - 1
  <2>1. /\ Len(Tail(heads)) = Len(heads) - 1 /\ Len(heads) \in Nat \ {0}
        /\ Head(heads) = heads[1] /\ heads[1] \in 1 .. Len(chain)
        /\ \A i \in 1 .. Len(heads) - 1 : Tail(heads)[i] = heads[i + 1]
    BY <1>2, TailFacts
  <2>2. \A i \in 1 .. Len(heads) : heads[i] = f + i - 1
    BY <1>1 DEF Queue
  <2>3. heads[1] = f
    BY <2>1, <2>2
  <2>4. \A i \in 1 .. Len(heads) - 1 : heads[i + 1] = f + 1 + i - 1
    BY <2>1, <2>2
  <2> QED BY <2>1, <2>3, <2>4
<1>4. /\ heads' = Tail(heads) /\ skipped' = skipped \cup {f} /\ block = 0
      /\ UNCHANGED <<chain, link, bridge, session, block, k, first, posts>>
  BY <1>2, <1>3 DEF SkipBlock, conn, cursor, Types, CursorOK
<1>5. Queue(f + 1)'
  <2>1. Len(heads') = Len(heads) - 1 /\ \A i \in 1 .. Len(heads') : heads'[i] = f + 1 + i - 1
    BY <1>3, <1>4
  <2>2. f + 1 + Len(heads') = f + Len(heads)
    BY <1>3, <2>1
  <2>3. 0 < first[session] /\ first[session] <= f /\ first[session] \in Nat
    BY <1>1, <1>2, Numbers DEF Queue
  <2>4. /\ f + Len(heads) <= Len(chain) + 1
        /\ link = "up" => f + Len(heads) = Len(chain) + 1
    BY <1>1 DEF Queue
  <2>5. block' > 0 => f + 1 = block' + 1 /\ first[session] <= block'
    BY <1>3, <1>4, <2>3
  <2>6. /\ f + 1 + Len(heads') <= Len(chain') + 1
        /\ link' = "up" => f + 1 + Len(heads') = Len(chain') + 1
    BY <1>4, <2>2, <2>4
  <2>7. 0 < first'[session'] /\ first'[session'] <= f + 1
    BY <1>4, <2>3
  <2>8. first'[session'] = first[session]
    BY <1>4
  <2> QED BY <2>1, <2>5, <2>6, <2>7, <2>8 DEF Queue
<1>6. Behind(f + 1)'
  BY <1>1, <1>2, <1>4, Numbers DEF Behind
<1>7. Done(f + 1)'
  <2> SUFFICES ASSUME NEW b \in first[session] .. f, b \notin skipped',
                      NEW n \in 1 .. Len(chain[b]), Passed(b, n)', Payable(chain[b][n])
               PROVE  Paid(b, n)'
    BY <1>4 DEF Done
  <2>1. b \in first[session] .. f - 1 /\ b \notin skipped
    <3>1. first[session] \in Nat /\ b # f /\ b \notin skipped
      BY <1>2, <1>4, Numbers
    <3> QED BY <3>1
  <2>2. Passed(b, n)
    BY <1>4 DEF Passed
  <2>3. Paid(b, n)
    BY <1>1, <2>1, <2>2 DEF Done
  <2> QED BY <1>4, <2>3 DEF Paid
<1> QED BY <1>5, <1>6, <1>7 DEF Running
-----------------------------------------------------------------------------
(* Inside a block. *)

\* An event that needs no payment is passed.
LEMMA IgnoreRuns ==
  ASSUME Types, Running, IgnoreEvent
  PROVE  Running'
<1>1. PICK f \in Nat : Queue(f) /\ Behind(f) /\ Done(f)
  BY DEF Running, IgnoreEvent
<1>2. /\ bridge = "events" /\ k' = k + 1 /\ ~Payable(batch[k]) /\ batch = chain[block]
      /\ UNCHANGED <<chain, link, bridge, session, heads, block, first, skipped, posts>>
  BY DEF IgnoreEvent, After, Event, conn, history, Types, CursorOK
<1>3. Queue(f)'
  BY <1>1, <1>2 DEF Queue
<1>4. Behind(f)'
  <2>1. \A i \in 1 .. Len(posts) : posts[i].session = session =>
          /\ posts[i].pos[1] < f /\ posts[i].result \in {"200", "status"}
          /\ Before(posts[i].pos, <<block, k>>)
    BY <1>1, <1>2 DEF Behind
  <2>2. \A i \in 1 .. Len(posts) : posts[i].session = session =>
          Before(posts[i].pos, <<block, k + 1>>)
    BY <2>1, CursorMoves, Numbers
  <2> QED BY <1>2, <2>1, <2>2 DEF Behind
<1>5. Done(f)'
  <2> SUFFICES ASSUME NEW b \in first[session] .. f - 1, b \notin skipped,
                      NEW n \in 1 .. Len(chain[b]), Passed(b, n)', Payable(chain[b][n])
               PROVE  Paid(b, n)'
    BY <1>2 DEF Done
  <2>1. b = block => n # k
    BY <1>2
  <2>2. Passed(b, n)
    BY <1>2, <2>1, Numbers DEF Passed
  <2>3. Paid(b, n)
    BY <1>1, <2>2 DEF Done
  <2> QED BY <1>2, <2>3 DEF Paid
<1> QED BY <1>3, <1>4, <1>5 DEF Running

\* The request under way is the one at the cursor.
LEMMA SendRuns ==
  ASSUME Types, Running, SendPayment
  PROVE  Running'
<1> DEFINE post == [session |-> session, pos |-> <<block, k>>,
                    payload |-> Payload(Event), result |-> "sent"]
<1>1. PICK f \in Nat : Queue(f) /\ Behind(f) /\ Done(f)
  BY DEF Running, SendPayment
<1>2. /\ bridge = "events" /\ bridge' = "paying" /\ posts' = Append(posts, post)
      /\ UNCHANGED <<chain, link, session, heads, block, k, first, skipped>>
  BY DEF SendPayment, conn
<1>3. /\ Len(posts') = Len(posts) + 1 /\ Len(posts) \in Nat
      /\ posts'[Len(posts) + 1].session = session
      /\ posts'[Len(posts) + 1].pos = <<block, k>>
      /\ \A i \in 1 .. Len(posts) : posts'[i] = posts[i]
  BY <1>2 DEF Types, HistoryOK
<1> HIDE DEF post
<1>4. Queue(f)'
  BY <1>1, <1>2 DEF Queue
<1>5. Behind(f)'
  <2>1. block < f
    BY <1>1, <1>2, Numbers DEF Queue, Types, CursorOK
  <2>2. ASSUME NEW i \in 1 .. Len(posts) + 1, posts'[i].session = session
        PROVE  /\ posts'[i].pos[1] < f
               /\ i < Len(posts) + 1 =>
                    /\ Before(posts'[i].pos, <<block, k>>)
                    /\ posts'[i].result \in {"200", "status"}
    <3>1. CASE i = Len(posts) + 1
      BY <1>3, <2>1, <3>1
    <3>2. CASE i \in 1 .. Len(posts)
      <4>1. posts'[i] = posts[i] /\ posts[i].session = session
        BY <1>3, <2>2, <3>2
      <4> QED BY <1>1, <1>2, <3>2, <4>1 DEF Behind
    <3>3. i = Len(posts) + 1 \/ i \in 1 .. Len(posts)
      BY <1>3
    <3> QED BY <3>1, <3>2, <3>3
  <2> QED BY <1>2, <1>3, <2>2 DEF Behind
<1>6. Done(f)'
  <2> SUFFICES ASSUME NEW b \in first[session] .. f - 1, b \notin skipped,
                      NEW n \in 1 .. Len(chain[b]), Passed(b, n)', Payable(chain[b][n])
               PROVE  Paid(b, n)'
    BY <1>2 DEF Done
  <2>1. CASE b = block /\ n = k
    <3>1. Len(posts) + 1 \in 1 .. Len(posts')
      BY <1>3
    <3> QED BY <1>2, <1>3, <2>1, <3>1 DEF Paid
  <2>2. CASE ~(b = block /\ n = k)
    <3>1. Paid(b, n)
      BY <1>1, <1>2, <2>2 DEF Done, Passed
    <3>2. PICK i \in 1 .. Len(posts) : posts[i].session = session /\ posts[i].pos = <<b, n>>
      BY <3>1 DEF Paid
    <3>3. i \in 1 .. Len(posts') /\ posts'[i] = posts[i]
      BY <1>3
    <3> QED BY <1>2, <3>2, <3>3 DEF Paid
  <2> QED BY <2>1, <2>2
<1> QED BY <1>4, <1>5, <1>6 DEF Running

\* A payment that returned is done, or the session is over.
LEMMA ReturnRuns ==
  ASSUME Types, Running, PaymentReturns
  PROVE  Running'
<1> SUFFICES ASSUME bridge' # "stopped" PROVE Running'
  BY DEF Running
<1>1. PICK f \in Nat : Queue(f) /\ Behind(f) /\ Done(f)
  BY DEF Running, PaymentReturns
<1>2. /\ bridge = "paying" /\ bridge' = "events" /\ k' = k + 1
      /\ ~Fatal(reply) /\ reply # "endless"
      /\ UNCHANGED <<chain, link, session, heads, block, first, skipped>>
  BY DEF PaymentReturns, Stop, After
<1>3. /\ Len(posts') = Len(posts) /\ Len(posts) \in Nat \ {0}
      /\ \A i \in 1 .. Len(posts) : /\ posts'[i].session = posts[i].session
                                    /\ posts'[i].pos = posts[i].pos
      /\ \A i \in 1 .. Len(posts) - 1 : posts'[i].result = posts[i].result
      /\ posts'[Len(posts)].result = reply
  BY ReturnFacts
<1>4. reply \in {"200", "status"}
  BY <1>2 DEF Fatal, Types, CursorOK, Replies
<1>5. Queue(f)'
  BY <1>1, <1>2 DEF Queue
<1>6. Behind(f)'
  <2>1. ASSUME NEW i \in 1 .. Len(posts), posts[i].session = session
        PROVE  /\ posts[i].pos[1] < f /\ Before(posts[i].pos, <<block, k + 1>>)
               /\ posts'[i].result \in {"200", "status"}
    <3>1. CASE i = Len(posts)
      <4>1. posts[i].pos[1] < f /\ posts[i].pos = <<block, k>>
        BY <1>1, <1>2, <2>1, <3>1 DEF Behind
      <4>2. posts'[i].result \in {"200", "status"}
        BY <1>3, <1>4, <3>1
      <4> QED BY <4>1, <4>2, CursorMoves, Numbers
    <3>2. CASE i < Len(posts)
      <4>1. posts'[i].result = posts[i].result
        BY <1>3, <3>2
      <4>2. /\ posts[i].pos[1] < f /\ Before(posts[i].pos, <<block, k>>)
            /\ posts[i].result \in {"200", "status"}
        BY <1>1, <1>2, <2>1, <3>2 DEF Behind
      <4> QED BY <4>1, <4>2, CursorMoves, Numbers
    <3> QED BY <1>3, <3>1, <3>2
  <2> QED BY <1>2, <1>3, <2>1 DEF Behind
<1>7. Done(f)'
  <2> SUFFICES ASSUME NEW b \in first[session] .. f - 1, b \notin skipped,
                      NEW n \in 1 .. Len(chain[b]), Passed(b, n)', Payable(chain[b][n])
               PROVE  Paid(b, n)'
    BY <1>2 DEF Done
  <2>1. Passed(b, n)
    BY <1>2, Numbers DEF Passed
  <2>2. Paid(b, n)
    BY <1>1, <2>1 DEF Done
  <2> QED BY <1>2, <1>3, <2>2 DEF Paid
<1> QED BY <1>5, <1>6, <1>7 DEF Running

\* A block that is finished has all its payments.
LEMMA FinishRuns ==
  ASSUME Types, Running, FinishBlock
  PROVE  Running'
<1>1. PICK f \in Nat : Queue(f) /\ Behind(f) /\ Done(f)
  BY DEF Running, FinishBlock
<1>2. /\ bridge = "events" /\ bridge' = "listening" /\ block' = 0 /\ k > Len(batch)
      /\ block > 0 /\ batch = chain[block] /\ Len(batch) \in Nat
      /\ UNCHANGED <<chain, link, session, heads, first, skipped, posts>>
  <2>1. block > 0 /\ batch = chain[block] /\ chain[block] \in Blocks
    BY DEF FinishBlock, Types, CursorOK, ConnOK
  <2> QED BY <2>1, BridgeAssumption DEF FinishBlock, Return, conn, history
<1>3. Queue(f)'
  BY <1>1, <1>2 DEF Queue
<1>4. Behind(f)'
  BY <1>1, <1>2 DEF Behind
<1>5. Done(f)'
  <2> SUFFICES ASSUME NEW b \in first[session] .. f - 1, b \notin skipped,
                      NEW n \in 1 .. Len(chain[b]), Passed(b, n)', Payable(chain[b][n])
               PROVE  Paid(b, n)'
    BY <1>2 DEF Done
  <2>1. Passed(b, n)
    BY <1>2, Numbers DEF Passed
  <2>2. Paid(b, n)
    BY <1>1, <2>1 DEF Done
  <2> QED BY <1>2, <2>2 DEF Paid
<1> QED BY <1>3, <1>4, <1>5 DEF Running

\* All steps together.
LEMMA RunningInductive ==
  ASSUME Types, Types', Running, [Next]_vars
  PROVE  Running'
<1>1. CASE \E events \in Blocks : ImportBlock(events)
  BY <1>1, ImportRuns
<1>2. CASE LoseLink \/ Hang
  <2> SUFFICES ASSUME bridge # "stopped" PROVE Running'
    BY <1>2 DEF LoseLink, Hang
  <2>1. PICK f \in Nat : Queue(f) /\ Behind(f) /\ Done(f)
    BY DEF Running
  <2>2. /\ link' \in {"down", "mute"}
        /\ UNCHANGED <<chain, bridge, session, heads, block, k, first, skipped, posts>>
    BY <1>2 DEF LoseLink, Hang, cursor, history
  <2>3. Queue(f)' /\ Behind(f)' /\ Done(f)'
    BY <2>1, <2>2 DEF Queue, Behind, Done, Passed, Paid
  <2> QED BY <2>3 DEF Running
<1>3. CASE Reconnect
  <2> SUFFICES ASSUME bridge # "stopped" PROVE Running'
    BY <1>3 DEF Reconnect
  <2>1. PICK f \in Nat : Queue(f) /\ Behind(f) /\ Done(f)
    BY DEF Running
  <2>2. link' = "deaf" /\ UNCHANGED <<chain, bridge, session, heads, block, k, first, skipped, posts>>
    BY <1>3 DEF Reconnect, cursor, history
  <2>3. Queue(f)' /\ Behind(f)' /\ Done(f)'
    BY <2>1, <2>2 DEF Queue, Behind, Done, Passed, Paid
  <2> QED BY <2>3 DEF Running
<1>4. CASE Listen
  BY <1>4, ListenRuns
<1>5. CASE Crash \/ ListenerError
  BY <1>5 DEF Crash, ListenerError, Stop, Running
<1>6. CASE ReadBlock
  BY <1>6, ReadRuns
<1>7. CASE SkipBlock
  BY <1>7, SkipRuns
<1>8. CASE IgnoreEvent
  BY <1>8, IgnoreRuns
<1>9. CASE SendPayment
  BY <1>9, SendRuns
<1>10. CASE PaymentReturns
  BY <1>10, ReturnRuns
<1>11. CASE FinishBlock
  BY <1>11, FinishRuns
<1>12. CASE UNCHANGED vars
  <2>1. UNCHANGED <<chain, link, bridge, session, heads, block, k, first, skipped, posts>>
    BY <1>12 DEF vars, conn, cursor, history
  <2>2. ASSUME NEW f \in Nat, Queue(f), Behind(f), Done(f)
        PROVE  Queue(f)' /\ Behind(f)' /\ Done(f)'
    BY <2>1, <2>2 DEF Queue, Behind, Done, Passed, Paid
  <2> QED BY <2>1, <2>2 DEF Running
<1> QED BY <1>1, <1>2, <1>3, <1>4, <1>5, <1>6, <1>7, <1>8, <1>9, <1>10, <1>11, <1>12
        DEF Next, BridgeStep
-----------------------------------------------------------------------------
(* All the requests of all the sessions. *)

\* A session pays within what it was announced; what was paid before a session
\* started is not past its first block.
Sent ==
  /\ OrderedPosts /\ FailClose
  /\ \A i, j \in DOMAIN posts : i < j => posts[i].session <= posts[j].session
  /\ \A i \in DOMAIN posts : first[posts[i].session] <= posts[i].pos[1]
  /\ \A i \in DOMAIN posts : \A s \in 1..session :
       posts[i].session < s => posts[i].pos[1] <= first[s]

\* A new session starts no earlier than the last one's last payment.
LEMMA ListenKeepsSent ==
  ASSUME Types, Types', Sent, Listen
  PROVE  Sent'
<1>1. PICK q \in Backlog :
        first' = Append(first, IF q = <<>> THEN Len(chain) + 1 ELSE Len(chain))
  BY DEF Listen
<1>2. PICK f \in Nat : f = IF q = <<>> THEN Len(chain) + 1 ELSE Len(chain)
  BY Numbers
<1>3. /\ first \in Seq(Nat) /\ Len(first) = session /\ session' = session + 1
      /\ posts' = posts /\ first' = Append(first, f)
  BY <1>1, <1>2 DEF Types, HistoryOK, Listen, Connect
<1>4. first'[session + 1] = f /\ \A s \in 1..session : first'[s] = first[s]
  BY <1>3
<1>5. \A i \in DOMAIN posts :
        posts[i].session \in 1..session /\ posts[i].pos[1] <= f /\ posts[i].pos[1] \in Nat
  <2>1. \A i \in DOMAIN posts : posts[i].session \in 1..session /\ posts[i].pos[1] <= Len(chain)
    BY DEF Types, HistoryOK
  <2>2. DOMAIN posts = 1 .. Len(posts)
    BY DEF Types, HistoryOK
  <2> QED BY <1>2, <2>1, <2>2, Numbers
<1>6. \A s \in 1..session' : s = session + 1 \/ s \in 1..session
  BY <1>3, Numbers
<1>7. OrderedPosts' /\ FailClose'
  BY <1>3 DEF Sent, OrderedPosts, FailClose
<1>8. \A i \in DOMAIN posts : first'[posts[i].session] <= posts[i].pos[1]
  BY <1>4, <1>5 DEF Sent
<1>9. \A i \in DOMAIN posts : \A s \in 1..session' :
        posts[i].session < s => posts[i].pos[1] <= first'[s]
  BY <1>4, <1>5, <1>6 DEF Sent
<1> QED BY <1>3, <1>7, <1>8, <1>9 DEF Sent

\* A payment comes after those of its session.
LEMMA SendKeepsSent ==
  ASSUME Types, Running, Sent, SendPayment
  PROVE  Sent'
<1> DEFINE post == [session |-> session, pos |-> <<block, k>>,
                    payload |-> Payload(Event), result |-> "sent"]
           N == Len(posts) + 1
<1>1. PICK f \in Nat : Queue(f) /\ Behind(f)
  BY DEF Running, SendPayment
<1>2. /\ bridge = "events" /\ posts' = Append(posts, post) /\ posts \in Seq(Posts)
      /\ UNCHANGED <<session, first>> /\ block > 0
  BY DEF SendPayment, Types, HistoryOK, CursorOK
<1>3. /\ DOMAIN posts = 1 .. Len(posts) /\ DOMAIN posts' = 1 .. N /\ Len(posts) \in Nat
      /\ posts'[N].session = session /\ posts'[N].pos = <<block, k>>
      /\ \A i \in DOMAIN posts : posts'[i] = posts[i]
  BY <1>2
<1> HIDE DEF post
<1>4. \A i, j \in DOMAIN posts' :
        /\ i = N \/ i \in DOMAIN posts
        /\ i < j => i \in DOMAIN posts /\ (j = N \/ j \in DOMAIN posts)
  BY <1>3
<1>5. \A i \in DOMAIN posts : posts[i].session = session =>
        /\ Before(posts[i].pos, <<block, k>>) /\ posts[i].result \in {"200", "status"}
  BY <1>1, <1>2, <1>3 DEF Behind
<1>6. first[session] <= block /\ \A i \in DOMAIN posts : posts[i].session <= session
  BY <1>1, <1>2, <1>3, Numbers DEF Queue
<1>7. OrderedPosts'
  <2> SUFFICES ASSUME NEW i \in DOMAIN posts', NEW j \in DOMAIN posts', i < j,
                      posts'[i].session = posts'[j].session
               PROVE  Before(posts'[i].pos, posts'[j].pos)
    BY DEF OrderedPosts, Before
  <2>1. CASE j = N
    BY <1>3, <1>4, <1>5, <2>1
  <2>2. CASE j \in DOMAIN posts
    BY <1>3, <1>4, <2>2 DEF Sent, OrderedPosts
  <2> QED BY <1>4, <2>1, <2>2
<1>8. FailClose'
  <2> SUFFICES ASSUME NEW i \in DOMAIN posts', NEW j \in DOMAIN posts', i < j,
                      posts'[i].session = posts'[j].session
               PROVE  posts'[i].result \in {"200", "status"}
    BY DEF FailClose
  <2>1. CASE j = N
    BY <1>3, <1>4, <1>5, <2>1
  <2>2. CASE j \in DOMAIN posts
    BY <1>3, <1>4, <2>2 DEF Sent, FailClose
  <2> QED BY <1>4, <2>1, <2>2
<1>9. \A i, j \in DOMAIN posts' : i < j => posts'[i].session <= posts'[j].session
  <2> SUFFICES ASSUME NEW i \in DOMAIN posts', NEW j \in DOMAIN posts', i < j
               PROVE  posts'[i].session <= posts'[j].session
    OBVIOUS
  <2>1. CASE j = N
    BY <1>3, <1>4, <1>6, <2>1
  <2>2. CASE j \in DOMAIN posts
    BY <1>3, <1>4, <2>2 DEF Sent
  <2> QED BY <1>4, <2>1, <2>2
<1>10. /\ \A i \in DOMAIN posts' : first[posts'[i].session] <= posts'[i].pos[1]
       /\ \A i \in DOMAIN posts' : \A s \in 1..session :
            posts'[i].session < s => posts'[i].pos[1] <= first[s]
  <2> SUFFICES ASSUME NEW i \in DOMAIN posts'
               PROVE  /\ first[posts'[i].session] <= posts'[i].pos[1]
                      /\ \A s \in 1..session :
                           posts'[i].session < s => posts'[i].pos[1] <= first[s]
    OBVIOUS
  <2>1. CASE i = N
    BY <1>3, <1>6, <2>1, Numbers
  <2>2. CASE i \in DOMAIN posts
    BY <1>3, <2>2 DEF Sent
  <2> QED BY <1>4, <2>1, <2>2
<1> QED BY <1>2, <1>7, <1>8, <1>9, <1>10 DEF Sent

\* The answer changes no position.
LEMMA ReturnKeepsSent ==
  ASSUME Types, Sent, PaymentReturns
  PROVE  Sent'
<1>1. /\ posts' \in Seq(Posts) /\ Len(posts') = Len(posts) /\ Len(posts) \in Nat \ {0}
      /\ \A i \in 1 .. Len(posts) : /\ posts'[i].session = posts[i].session
                                    /\ posts'[i].pos = posts[i].pos
      /\ \A i \in 1 .. Len(posts) - 1 : posts'[i].result = posts[i].result
  BY ReturnFacts
<1>2. DOMAIN posts = 1 .. Len(posts) /\ DOMAIN posts' = DOMAIN posts
  BY <1>1 DEF Types, HistoryOK
<1>3. UNCHANGED <<session, first>>
  BY DEF PaymentReturns
<1>4. \A i, j \in DOMAIN posts : i < j => posts'[i].result = posts[i].result
  BY <1>1, <1>2
<1>5. OrderedPosts'
  BY <1>1, <1>2 DEF Sent, OrderedPosts, Before
<1>6. FailClose'
  BY <1>1, <1>2, <1>4 DEF Sent, FailClose
<1> QED BY <1>1, <1>2, <1>3, <1>5, <1>6 DEF Sent

\* All steps together.
LEMMA SentInductive ==
  ASSUME Types, Types', Running, Sent, [Next]_vars
  PROVE  Sent'
<1>1. CASE Listen
  BY <1>1, ListenKeepsSent
<1>2. CASE SendPayment
  BY <1>2, SendKeepsSent
<1>3. CASE PaymentReturns
  BY <1>3, ReturnKeepsSent
<1>4. CASE ~(Listen \/ SendPayment \/ PaymentReturns)
  <2>1. UNCHANGED <<session, first, posts>>
    BY <1>4 DEF Next, BridgeStep, ImportBlock, LoseLink, Hang, Reconnect, Crash, ListenerError,
                ReadBlock, SkipBlock, IgnoreEvent, FinishBlock, vars, conn, history
  <2> QED BY <2>1 DEF Sent, OrderedPosts, FailClose
<1> QED BY <1>1, <1>2, <1>3, <1>4

\* The inductive invariant of the bridge.
LEMMA BridgeInvariant == Spec => [](Types /\ Running /\ Sent)
<1>1. Init => Running /\ Sent
  BY DEF Init, Running, Sent, OrderedPosts, FailClose
<1>2. Types /\ Types' /\ (Running /\ Sent) /\ [Next]_vars => (Running /\ Sent)'
  BY RunningInductive, SentInductive
<1> QED BY <1>1, <1>2, TypesInvariant, PTL DEF Spec
-----------------------------------------------------------------------------
\* However blocks, link failures, crashes and restarts interleave, a session pays in
\* chain order and no position twice (bridge.py:83-84).
THEOREM PaymentsInOrder == Spec => []OrderedPosts
<1>1. Sent => OrderedPosts
  BY DEF Sent
<1> QED BY <1>1, BridgeInvariant, PTL

\* A session that gets no answer to a request sends no other (bridge.py:21-26).
THEOREM BridgeFailsClosed == Spec => []FailClose
<1>1. Sent => FailClose
  BY DEF Sent
<1> QED BY <1>1, BridgeInvariant, PTL

\* A running session has paid for every payable event from its first block to its
\* cursor, outside the blocks it could not read (bridge.py:77-84).
THEOREM NothingPassedOver == Spec => []NoSilentSkip
<1>1. Types /\ Running => NoSilentSkip
  <2> SUFFICES ASSUME Types, Running, bridge = "events",
                      NEW b \in first[session] .. block, NEW n \in 1 .. Len(chain[b]),
                      b \notin skipped, Before(<<b, n>>, <<block, k>>),
                      Payable(chain[b][n])
               PROVE  \E i \in DOMAIN posts :
                        posts[i].session = session /\ posts[i].pos = <<b, n>>
    BY DEF NoSilentSkip
  <2>1. PICK f \in Nat : Queue(f) /\ Done(f)
    BY DEF Running
  <2>2. b \in first[session] .. f - 1
    BY <2>1, Numbers DEF Queue, Types, CursorOK
  <2>3. Passed(b, n)
    BY Numbers DEF Passed, Before
  <2>4. Paid(b, n)
    BY <2>1, <2>2, <2>3 DEF Done
  <2>5. DOMAIN posts = 1 .. Len(posts)
    BY DEF Types, HistoryOK
  <2> QED BY <2>4, <2>5 DEF Paid
<1> QED BY <1>1, BridgeInvariant, PTL

\* Nothing on disk remembers what was paid; still only the block a session starts
\* from can be paid for again.
THEOREM RestartsRepeatOneBlock == Spec => []DuplicatesOnlyAtHead
<1>1. Types /\ Sent => DuplicatesOnlyAtHead
  <2> SUFFICES ASSUME Types, Sent, NEW i \in DOMAIN posts, NEW j \in DOMAIN posts,
                      i < j, posts[i].pos = posts[j].pos
               PROVE  /\ posts[i].session < posts[j].session
                      /\ posts[i].pos[1] = first[posts[j].session]
    BY DEF DuplicatesOnlyAtHead
  <2>1. DOMAIN posts = 1 .. Len(posts)
    BY DEF Types, HistoryOK
  <2>2. /\ posts[i].pos[1] \in Nat /\ posts[i].pos[2] \in Nat
        /\ posts[i].session \in Nat /\ posts[j].session \in 1..session
        /\ first[posts[j].session] \in Nat
    BY <2>1, Numbers DEF Types, HistoryOK
  <2>3. ~Before(posts[i].pos, posts[j].pos)
    BY <2>2 DEF Before
  <2>4. posts[i].session # posts[j].session /\ posts[i].session <= posts[j].session
    BY <2>3 DEF Sent, OrderedPosts
  <2>5. posts[i].session < posts[j].session
    BY <2>2, <2>4
  <2>6. /\ posts[i].pos[1] <= first[posts[j].session]
        /\ first[posts[j].session] <= posts[i].pos[1]
    BY <2>2, <2>5 DEF Sent
  <2> QED BY <2>2, <2>5, <2>6
<1> QED BY <1>1, BridgeInvariant, PTL
=============================================================================
