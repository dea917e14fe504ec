----------------------------- MODULE ExitBridge -----------------------------
(***************************************************************************)
(* The exit bridge (bridge-python/src/bridge.py): it subscribes to the     *)
(* block headers of the node, reads the events of each announced block and *)
(* posts a payment for each withdrawal, through Tor, to the exit API.      *)
(*                                                                         *)
(* The node, its websocket and the API are the environment.  The node      *)
(* announces every block it imports while the subscription lives, and may  *)
(* announce its best block once when the subscription starts.  A bridge    *)
(* process is one session: it keeps nothing on disk, and a restart is a    *)
(* new session.  Position <<b, k>> is event k of block b.                  *)
(***************************************************************************)
EXTENDS Integers, Sequences

CONSTANTS
  Blocks,         \* event lists a block may have
  None,           \* an attribute that is absent
  MaxBlocks,      \* bound of the model: blocks imported
  MaxSessions     \* bound of the model: bridge processes started

ASSUME BridgeAssumption ==
  /\ MaxBlocks \in Nat /\ MaxSessions \in Nat
  /\ \A events \in Blocks : Len(events) \in Nat

VARIABLES
  chain,          \* the event lists of the blocks imported
  link,           \* the websocket: "up", "down", "deaf" without a subscription, or
                  \* "mute": open, but nothing comes any more
  bridge,         \* "stopped", "listening", "events" or "paying"
  session,        \* number of the bridge process
  heads,          \* block numbers announced and not yet handled
  block, batch,   \* the block being handled and its events
  k,              \* the event looked at next
  reply,          \* what the API will answer to the request under way
  first,          \* history: first block announced to each session
  skipped,        \* history: blocks whose events this session could not read
  posts           \* history: the requests sent, in order

conn == <<chain, link>>
cursor == <<block, batch, k, reply>>
history == <<first, skipped, posts>>
vars == <<conn, bridge, session, heads, cursor, history>>

\* The last one never ends: a byte now and then satisfies a timeout that is per read.
Replies == {"200", "status", "connection", "silent", "endless"}
-----------------------------------------------------------------------------
(* The node and its websocket. *)

Announce(q, n) == Append(q, n)

ImportBlock(events) ==
  /\ Len(chain) < MaxBlocks
  /\ chain' = Append(chain, events)
  /\ heads' = IF bridge # "stopped" /\ link = "up"
              THEN Announce(heads, Len(chain) + 1) ELSE heads
  /\ UNCHANGED <<link, bridge, session, cursor, history>>

LoseLink ==
  /\ bridge # "stopped" /\ link # "down"
  /\ link' = "down"
  /\ UNCHANGED <<chain, bridge, session, heads, cursor, history>>

\* The node neither answers nor closes.  One that comes back was only slow.
Hang ==
  /\ bridge # "stopped" /\ link \in {"up", "deaf"}
  /\ link' = "mute"
  /\ UNCHANGED <<chain, bridge, session, heads, cursor, history>>

\* SubstrateInterface may reconnect when a request finds the websocket closed;
\* the subscription is not renewed.
Reconnect ==
  /\ bridge = "listening" /\ heads # <<>> /\ link = "down"
  /\ link' = "deaf"
  /\ UNCHANGED <<chain, bridge, session, heads, cursor, history>>

\* What a new subscription delivers at once: the best block, or nothing.
Backlog == {<<>>} \cup (IF chain = <<>> THEN {} ELSE {<<Len(chain)>>})
-----------------------------------------------------------------------------
(* The bridge process. *)

\* A new process with a new websocket.  A failed connect exits at once, which
\* leaves the bridge stopped.
Connect ==
  /\ bridge = "stopped" /\ session < MaxSessions
  /\ link' = "up" /\ session' = session + 1

\* listen(): connect, then subscribe.
Listen ==
  /\ Connect
  /\ bridge' = "listening"
  /\ \E q \in Backlog :
       /\ heads' = q
       /\ first' = Append(first, IF q = <<>> THEN Len(chain) + 1 ELSE Len(chain))
  /\ UNCHANGED <<chain, cursor, skipped, posts>>

\* The locals of the handler go out of scope.
Return == block' = 0 /\ batch' = <<>> /\ k' = 0 /\ reply' = "200"

Stop == bridge' = "stopped" /\ link' = "down" /\ heads' = <<>> /\ skipped' = {} /\ Return

\* subscribe_block_headers raises once the websocket is gone, whether or not
\* notices were still buffered: sys.exit(1).
ListenerError ==
  /\ bridge = "listening" /\ link = "down"
  /\ Stop
  /\ UNCHANGED <<chain, session, first, posts>>

\* The process is killed at any point, a request under way included.
Crash ==
  /\ bridge # "stopped"
  /\ Stop
  /\ UNCHANGED <<chain, session, first, posts>>

\* _block_handler reads the hash and the events of the block with the announced
\* number, once.
ReadBlock ==
  /\ bridge = "listening" /\ heads # <<>> /\ link \in {"up", "deaf"}
  /\ Head(heads) <= Len(chain)
  /\ bridge' = "events" /\ block' = Head(heads) /\ k' = 1
  /\ batch' = chain[Head(heads)]
  /\ heads' = Tail(heads)
  /\ UNCHANGED <<conn, session, reply, history>>

\* No hash, or an RPC failure that is printed and forgotten; no failure comes of a
\* request that waits for ever.
SkipBlock ==
  /\ bridge = "listening" /\ heads # <<>> /\ link # "mute"
  /\ skipped' = skipped \cup {Head(heads)}
  /\ heads' = Tail(heads)
  /\ UNCHANGED <<conn, bridge, session, cursor, first, posts>>

Event == batch[k]

\* kind stands for module_id and event_id together.
Payable(e) ==
  \/ e.kind = "Transferred"
  \/ e.kind = "ShieldedWithdraw" /\ e.amount # None /\ e.address # None

Payload(e) ==
  IF e.kind = "Transferred" THEN <<0, "transferred-event-test">>
  ELSE <<e.amount, e.address>>

\* One event too far.
MutantAfter(n) == n + 2

\* An event is tried again until its payment is accepted.
MutantAgain(n) == n

After(n) == n + 1

\* _process_event for an event that is not paid: other pallets, other events,
\* missing attributes, or an exception while decoding it.
IgnoreEvent ==
  /\ bridge = "events" /\ k <= Len(batch) /\ ~Payable(Event)
  /\ k' = After(k)
  /\ UNCHANGED <<conn, bridge, session, heads, block, batch, reply, history>>

\* send_payment puts the request on the wire; what it will get is not known.
SendPayment ==
  /\ bridge = "events" /\ k <= Len(batch) /\ Payable(Event)
  /\ bridge' = "paying"
  /\ reply' \in Replies
  /\ posts' = Append(posts, [session |-> session, pos |-> <<block, k>>,
                             payload |-> Payload(Event), result |-> "sent"])
  /\ UNCHANGED <<conn, session, heads, block, batch, k, first, skipped>>

\* requests.post is called without a timeout.
MutantGivesUp == FALSE

\* timeout=30
GivesUp == reply = "silent"

\* Only a refused connection ends the process.
MutantFatal(r) == r = "connection"

\* The two except clauses both exit; SystemExit passes "except Exception".
Fatal(r) == r \in {"connection", "silent"}

PaymentReturns ==
  /\ bridge = "paying"
  /\ reply # "endless"
  /\ reply # "silent" \/ GivesUp
  /\ posts' = [posts EXCEPT ![Len(posts)].result = reply]
  /\ IF Fatal(reply) THEN Stop
     ELSE /\ bridge' = "events" /\ k' = After(k) /\ reply' = "200"
          /\ UNCHANGED <<link, heads, block, batch, skipped>>
  /\ UNCHANGED <<chain, session, first>>

FinishBlock ==
  /\ bridge = "events" /\ k > Len(batch)
  /\ bridge' = "listening" /\ Return
  /\ UNCHANGED <<conn, session, heads, history>>
-----------------------------------------------------------------------------
Init ==
  /\ chain = <<>> /\ link = "down"
  /\ bridge = "stopped" /\ session = 0 /\ heads = <<>>
  /\ block = 0 /\ batch = <<>> /\ k = 0 /\ reply = "200"
  /\ first = <<>> /\ skipped = {} /\ posts = <<>>

BridgeStep == ReadBlock \/ SkipBlock \/ IgnoreEvent \/ SendPayment \/ PaymentReturns
              \/ FinishBlock \/ ListenerError

Next ==
  \/ \E events \in Blocks : ImportBlock(events)
  \/ LoseLink \/ Hang \/ Reconnect \/ Listen \/ Crash \/ BridgeStep

\* The running process is single-threaded and takes its next step whenever it has
\* one.  It has none while it waits for a node that is mute (the websocket has no
\* timeout) or for an endless reply; nothing obliges anyone to end that, or to
\* restart the process.
Spec == Init /\ [][Next]_vars /\ WF_vars(BridgeStep)
-----------------------------------------------------------------------------
(* Properties. *)

\* Every component keeps its type; the cursor points into the block or past it.
TypeOK ==
  /\ chain \in Seq(Blocks) /\ link \in {"up", "down", "deaf", "mute"}
  /\ bridge \in {"stopped", "listening", "events", "paying"}
  /\ session \in 0..MaxSessions
  /\ heads \in Seq(1 .. Len(chain))
  /\ block \in 0 .. Len(chain)
  /\ block > 0 => batch = chain[block] /\ k \in 1 .. Len(batch) + 1
  /\ reply \in Replies
  /\ Len(first) = session
  /\ skipped \subseteq 1 .. Len(chain)
  /\ \A i \in DOMAIN posts : /\ posts[i].session \in 1..session
                             /\ posts[i].result \in Replies \cup {"sent"}

Before(p, q) == p[1] < q[1] \/ (p[1] = q[1] /\ p[2] < q[2])

\* A session pays in chain order and no position twice (bridge.py:83-84).
OrderedPosts ==
  \A i, j \in DOMAIN posts :
    i < j /\ posts[i].session = posts[j].session => Before(posts[i].pos, posts[j].pos)

\* "Proxy connection failed (fail-close). Aborting." (bridge.py:22): after a
\* request that got no answer, for whatever reason, its session sends no more.
FailClose ==
  \A i, j \in DOMAIN posts :
    i < j /\ posts[i].session = posts[j].session
      => posts[i].result \in {"200", "status"}

\* A running session has sent a request for every payable event from its first
\* block up to its cursor, except in the blocks it failed to read: notices are
\* handled one by one, none is dropped and no event of a block is passed over.
NoSilentSkip ==
  bridge = "events" =>
    \A b \in first[session] .. block : \A n \in 1 .. Len(chain[b]) :
      /\ b \notin skipped
      /\ Before(<<b, n>>, <<block, k>>)
      /\ Payable(chain[b][n])
      => \E i \in DOMAIN posts :
           posts[i].session = session /\ posts[i].pos = <<b, n>>

\* A withdrawal is paid for twice only across a restart, and only when its block
\* was the best block at the moment the later session subscribed.
DuplicatesOnlyAtHead ==
  \A i, j \in DOMAIN posts :
    i < j /\ posts[i].pos = posts[j].pos =>
      /\ posts[i].session < posts[j].session
      /\ posts[i].pos[1] = first[posts[j].session]

Announced(n) == \E i \in DOMAIN heads : heads[i] = n

\* What the code puts no limit on: reads from the websocket (bridge.py:41, 79, 82),
\* and a response that keeps trickling (16).
Hangs ==
  \/ bridge = "listening" /\ link = "mute"
  \/ bridge = "paying" /\ reply = "endless"

\* An announced block does not stay in the queue: it is handled or given up, or
\* the session ends, unless the bridge hangs in one of those two waits for ever, or
\* again and again.
HeadsAreHandled ==
  \A n \in 1..MaxBlocks : Announced(n) ~> (~Announced(n) \/ []<>Hangs)
=============================================================================
