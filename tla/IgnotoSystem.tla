---------------------------- MODULE IgnotoSystem ----------------------------
(***************************************************************************)
(* The parts together: client scripts (client-node/*.ts) sign extrinsics   *)
(* and send them through the router, or straight, to a node with manual    *)
(* seal; the exit bridge reads what the node imports; and the node is      *)
(* started with --tmp (docker-compose.yml), so that a restart begins a new *)
(* chain while scripts, requests in flight and bridge go on.               *)
(*                                                                         *)
(* Node is extended, ExitBridge instantiated.  Of the router only what it  *)
(* can do to a request is left: lose it, deliver it, lose the answer.      *)
(***************************************************************************)
EXTENDS Node

CONSTANTS
  Scripts,          \* what is run: signer, call, whether the hex is printed, and
                    \* (bound of the model) how many requests it makes
  Period,           \* era of the signatures, in blocks
  MaxSessions,      \* bound of the model: bridge processes
  LastIncarnation,  \* bound of the model: chains begun
  None

\* The blocks' hashes, and the accounts of the keyring.
ASSUME SystemAssumption ==
  /\ Period \in Nat /\ LastIncarnation \in Nat \ {0}
  /\ \A c \in 1..LastIncarnation, n \in 0..LastBlock : BlockHash(c, n) \in Hashes
  /\ \A s \in Scripts : s.signer \in Accounts

VARIABLES
  script,           \* each script: its stage, its extrinsic, its tries
  past,             \* history: what the chains held that are gone
  displaced,        \* history: what submissions have turned out of the pool
  chain, link, bridge, session, heads, block, batch, k, reply, first, skipped, posts

\* The blocks are the node's.
Bridge == INSTANCE ExitBridge WITH Blocks <- {}, MaxBlocks <- LastBlock

sessionVars == <<bridge, session, heads, block, batch, k, reply, first, skipped, posts>>
bridgeVars == <<chain, link, sessionVars>>
historyVars == <<past, displaced>>
systemVars == <<nodeVars, script, historyVars, bridgeVars>>
-----------------------------------------------------------------------------
(* The scripts. *)

\* What the chain holds: not what the block under construction has executed.
Imported ==
  LET open == engine = "proposing"
  IN  [executed |-> SubSeq(executed, 1, Len(executed) - (IF open THEN used ELSE 0)),
       transfers |-> Len(accepted) - (IF open THEN Cardinality(TransferEvents) ELSE 0)]

\* The nonces an account has had in the best block, now or earlier.
NoncesRead(a) ==
  LET e == Imported.executed
  IN  {best.nonce[a]} \cup {e[i].xt.nonce : i \in {j \in DOMAIN e : e[j].xt.signer = a}}

\* signAsync reads the nonce of the best block and the header of the finalized one,
\* which is the best with manual seal.  They are two requests: blocks may be imported
\* between them, and before the extrinsic is sent.
Signable(s) ==
  {[signer |-> s.signer, nonce |-> n, tip |-> 0, version |-> "current",
    birth |-> b, hash |-> HashOf(b), period |-> Period, kind |-> s.kind, args |-> s.args] :
     n \in NoncesRead(s.signer), b \in 0 .. best.number}

Send(s, x) ==
  /\ script[s].tries < s.limit
  /\ script' = [script EXCEPT ![s] = [stage |-> "sent", xt |-> x, at |-> 0,
                                      tries |-> @.tries + 1]]
  /\ UNCHANGED <<nodeVars, historyVars, bridgeVars>>

\* A script runs once; it may be run again when it has failed.
Run(s) ==
  /\ script[s].stage \in {"idle", "failed"}
  /\ \E x \in Signable(s) : Send(s, x)

\* The hex that submit-tx.ts prints may be posted again, whatever came of it.
Repost(s) ==
  /\ s.printed /\ script[s].stage \in {"failed", "told"}
  /\ Send(s, script[s].xt)

Hear(s, stage) ==
  script' = [script EXCEPT ![s].stage = stage,
                           ![s].at = IF stage = "told" THEN incarnation ELSE 0]

\* The request arrives at a node of any incarnation, and its answer may be lost; it
\* is an error if the pool is full and drops the newcomer.
Arrive(s) ==
  /\ script[s].stage = "sent"
  /\ author_submitExtrinsic(script[s].xt)
  /\ \/ script[s].xt \in txpool' /\ Hear(s, "told")
     \/ Hear(s, "failed")
  /\ displaced' = (displaced \cup txpool) \ txpool'
  /\ UNCHANGED <<past, bridgeVars>>

\* The node turns it down, or it never gets there: an error either way.
Fail(s) ==
  /\ script[s].stage = "sent"
  /\ Hear(s, "failed")
  /\ UNCHANGED <<nodeVars, historyVars, bridgeVars>>
-----------------------------------------------------------------------------
(* The node. *)

\* The events of a block as the bridge reads them.
Seen(e) ==
  IF e.kind = "Transferred"
  THEN [kind |-> e.kind, amount |-> None, address |-> None]
  ELSE [kind |-> e.kind, amount |-> e.amount, address |-> e.external_address]

NodeStep ==
  /\ \/ number < LastBlock /\ StartBlock
     \/ TimerFires
     \/ \E x \in Extrinsics : PushExtrinsic(x) \/ RefuseExtrinsic(x) \/ Revalidate(x)
  /\ UNCHANGED <<script, historyVars, bridgeVars>>

SealAndAnnounce ==
  /\ SealBlock
  /\ Bridge!ImportBlock([i \in DOMAIN events |-> Seen(events[i])])
  /\ UNCHANGED <<script, historyVars>>

\* The genesis of the development specification, once more.
NewChain ==
  /\ commitments' = <<>> /\ nullifiers' = {} /\ events' = <<>>
  /\ outcome' = "none" /\ accepted' = <<>>
  /\ nonce' = [a \in Accounts |-> 0] /\ balance' = [a \in Accounts |-> Endowment]
  /\ life' = [a \in Accounts |-> 0]
  /\ number' = 0 /\ block_hash' = <<>> /\ used' = 0 /\ executed' = <<>>
  /\ best' = State'

\* The process ends at any point and is started again: pool, overlay and database
\* are gone, and so are the websockets.
Restart ==
  /\ incarnation < LastIncarnation
  /\ incarnation' = incarnation + 1
  /\ NewChain
  /\ txpool' = {} /\ commands' = 0 /\ engine' = "idle" /\ offer' = {}
  /\ past' = Append(past, Imported) /\ displaced' = {}
  /\ chain' = <<>> /\ link' = "down"
  /\ UNCHANGED <<mode, silent, script, sessionVars>>
-----------------------------------------------------------------------------
SystemInit ==
  /\ NodeInit
  /\ script = [s \in Scripts |-> [stage |-> "idle", xt |-> None, at |-> 0, tries |-> 0]]
  /\ past = <<>> /\ displaced = {}
  /\ Bridge!Init

BridgeMoves ==
  /\ Bridge!Listen \/ Bridge!BridgeStep \/ Bridge!Reconnect
  /\ UNCHANGED <<nodeVars, script, historyVars>>

SystemNext ==
  \/ \E s \in Scripts : Run(s) \/ Repost(s) \/ Arrive(s) \/ Fail(s)
  \/ NodeStep \/ SealAndAnnounce \/ Restart
  \/ BridgeMoves

SystemSpec == SystemInit /\ [][SystemNext]_systemVars
-----------------------------------------------------------------------------
(* Properties. *)

\* What a script's extrinsic costs its signer at most.
Cost(s) == 1 + (IF s.kind = "transfer_allow_death" THEN s.args.amount ELSE 0)

\* No chain is so long that the scripts could use up an endowment.
Funded ==
  \E m \in 1..Endowment :
    /\ \A s \in Scripts : Cost(s) <= m
    /\ m * (BlockLimit * LastBlock) + m + MinimumBalance <= Endowment

NoTransfers == \A s \in Scripts : s.kind # "transfer_allow_death"

Chains == Append(past, Imported)

\* Signed bytes that are sent again, after an error, after success or after a
\* restart, are executed at most once, with one exception: bytes signed on the
\* genesis block are valid once in every chain (CheckEra and CheckGenesis,
\* runtime lib.rs:94-95; --tmp, docker-compose.yml:23).
ResubmissionIsSafe ==
  \A c, d \in DOMAIN Chains :
    \A i \in DOMAIN Chains[c].executed, j \in DOMAIN Chains[d].executed :
      LET x == Chains[c].executed[i].xt
      IN  x = Chains[d].executed[j].xt =>
            (c = d /\ i = j) \/ (c # d /\ x.birth = 0)

\* How often a chain earned a payload: by withdrawals dispatched, and by transfers
\* that were accepted for the test payload.
EarnedBy(c, p) ==
  LET withdrawals == {i \in DOMAIN c.executed :
        /\ c.executed[i].xt.kind = "shielded_withdraw"
        /\ p = <<c.executed[i].xt.args.amount, c.executed[i].xt.args.address>>}
      transfers == IF p = <<0, "transferred-event-test">> THEN c.transfers ELSE 0
  IN  Cardinality(withdrawals) + transfers
Earned(p) == Total([c \in DOMAIN Chains |-> EarnedBy(Chains[c], p)])

\* No session of the bridge pays a withdrawal more often than it was executed, on
\* whatever chain: not for failed calls, dropped blocks, or for one block number
\* on two chains (bridge.py:79-84).
PaymentsAreExecuted ==
  \A i \in DOMAIN posts :
    Cardinality({j \in DOMAIN posts : /\ posts[j].session = posts[i].session
                                      /\ posts[j].payload = posts[i].payload})
      <= Earned(posts[i].payload)

\* A script that was told the hash of its transaction finds it in the pool, or its
\* slot executed, or its era over, as long as the node lives, unless a later
\* submission has turned it out: no block, refusal or revalidation loses it.
AcceptedIsKept ==
  \A s \in Scripts :
    LET x == script[s].xt
    IN  script[s].stage = "told" /\ script[s].at = incarnation =>
          \/ x \in txpool \cup displaced
          \/ \E i \in DOMAIN executed : SameSlot(x, executed[i].xt)
          \/ ~CheckSignature(x, Upcoming)
=============================================================================
