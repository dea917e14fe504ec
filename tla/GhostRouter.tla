---------------------------- MODULE GhostRouter ----------------------------
(***************************************************************************)
(* The Ghost Router (router-go): an HTTP server that decodes a JSON-RPC    *)
(* request, posts it to the node through the Tor SOCKS5 proxy and relays   *)
(* the answer.  A request is followed from the moment its headers are      *)
(* read to its answer; age is the time since then, in ticks, while the     *)
(* request runs, and every timeout of main.go and tor_client.go is a       *)
(* number of ticks.  A timer that is due fires before time goes on; what   *)
(* happens at the same tick is a race.                                     *)
(*                                                                         *)
(* The request is a core.Transaction: its id is an interface{}, which      *)
(* encoding/json reads into a float64 when it is a number.                 *)
(*                                                                         *)
(* Clients, the proxy and the node are the environment; net/http's server  *)
(* (deadlines, Shutdown) is modelled from how main.go configures it.       *)
(***************************************************************************)
EXTENDS Integers, FiniteSets

CONSTANTS
  Requests,     \* the requests clients send
  Ids,          \* which JSON-RPC ids they carry: functions on Requests
  Significands, \* numbers the significand of a float64 tells apart, 2^53
  Spacings,     \* distances between neighbouring float64 numbers: powers of two
  Read,         \* server.ReadTimeout, for the body, after the headers
  Write,        \* server.WriteTimeout, from the headers on
  Client,       \* timeout of the outbound http.Client
  Grace,        \* context timeout of server.Shutdown
  None

ASSUME RouterAssumption ==
  /\ \A ids \in Ids : DOMAIN ids = Requests
  /\ Read \in Nat /\ Write \in Nat /\ Client \in Nat /\ Grace \in Nat
  /\ Significands \in Nat \ {0} /\ Significands % 2 = 0
  /\ {1, 2} \subseteq Spacings
  /\ \A u \in Spacings : u \in Nat /\ (u = 1 \/ \E v \in Spacings : u = 2 * v)
  /\ None \notin Nat

Statuses == {200, 503}          \* of the node: a success and a failure
Bodies == {"result", "empty"}

VARIABLES
  server,       \* "serving", "draining", "stopped" or "forced"
  drained,      \* ticks since the shutdown began
  proxy,        \* "up" or "down": the local Tor daemon
  req           \* each request, as Fresh below

vars == <<server, drained, proxy, req>>

Active == {"reading", "dialing", "waiting", "receiving"}
Running(r) == req[r].stage \in Active

\* id: a number, a string (a model value) or None for null and for no id;
\* decoded: the age at which Post began; upstream: the status the node answered,
\* echo: with which id; body: what its body was; status and answer: what the
\* handler wrote.
Fresh(id) == [stage |-> "new", id |-> id, age |-> 0, decoded |-> None,
              upstream |-> None, echo |-> None, body |-> None,
              status |-> None, answer |-> None]
-----------------------------------------------------------------------------
(* The id. *)

\* The distance between the floating-point numbers around n.
Spacing(n) ==
  CHOOSE u \in Spacings :
    /\ n < u * Significands
    /\ u = 1 \/ n >= (u \div 2) * Significands

\* Round to nearest, ties to even.
Float(n) ==
  LET u == Spacing(n)
      q == n \div u
      up == IF 2 * (n % u) > u \/ (2 * (n % u) = u /\ q % 2 = 1) THEN 1 ELSE 0
  IN  (q + up) * u

\* The field is an integer, whose omitempty drops the zero.
MutantSent(id) == IF id = 0 THEN None ELSE id

\* What json.Marshal(tx) writes: null and a missing id are both nil, and
\* omitempty drops them.
Sent(id) == IF id \in Nat THEN Float(id) ELSE id
-----------------------------------------------------------------------------
(* The handler. *)

Move(r, stage) == req' = [req EXCEPT ![r].stage = stage]

\* A response is flushed when the handler returns, and dropped by the server
\* once the write deadline has passed.
Fates(age) == (IF age <= Write THEN {"answered"} ELSE {})
              \cup (IF age >= Write THEN {"lost"} ELSE {})

Respond(r, status, answer, body) ==
  \E fate \in Fates(req[r].age) :
    req' = [req EXCEPT ![r] = [@ EXCEPT !.stage = fate, !.age = 0, !.body = body,
                                        !.status = status, !.answer = answer]]

\* A connection accepted before the signal may bring its request after it.
Accept(r) ==
  /\ server \in {"serving", "draining"} /\ req[r].stage = "new"
  /\ Move(r, "reading")
  /\ UNCHANGED <<server, drained, proxy>>

\* Not a POST: 405.  A body that does not decode, or not in time: 400.
Refuse(r) ==
  /\ req[r].stage = "reading"
  /\ \/ req[r].age = 0 /\ Respond(r, 405, "error", None)
     \/ Respond(r, 400, "error", None)
  /\ UNCHANGED <<server, drained, proxy>>

Decode(r) ==
  /\ req[r].stage = "reading"
  /\ req' = [req EXCEPT ![r].stage = "dialing", ![r].decoded = req[r].age]
  /\ UNCHANGED <<server, drained, proxy>>

\* The transport has no dialer but the SOCKS5 one.
Tunnel(r) ==
  /\ req[r].stage = "dialing" /\ proxy = "up"
  /\ Move(r, "waiting")
  /\ UNCHANGED <<server, drained, proxy>>

\* A request without id is a notification to the node.
NodeAnswers(r, status) ==
  /\ req[r].stage = "waiting" /\ proxy = "up"
  /\ req' = [req EXCEPT ![r].stage = "receiving", ![r].upstream = status,
                        ![r].echo = Sent(req[r].id)]
  /\ UNCHANGED <<server, drained, proxy>>

\* statusCode is zero when Post has no response, and then becomes 500; when only
\* the body was lost it is the node's status.
ErrorStatus(upstream) == IF upstream = None THEN 500 ELSE upstream

\* Post fails: a refused or broken tunnel, the client timeout, or the request
\* context, which net/http may cancel when the read deadline passes.
PostFails(r) ==
  /\ req[r].stage \in {"dialing", "waiting", "receiving"}
  /\ Respond(r, ErrorStatus(req[r].upstream), "error", None)
  /\ UNCHANGED <<server, drained, proxy>>

\* The handler always answers 200.
MutantRelayed(upstream) == 200

Relayed(upstream) == upstream

\* An empty body is replaced by {"status":"success"}.
Relay(r, body) ==
  /\ req[r].stage = "receiving"
  /\ req[r].echo = None => body = "empty"
  /\ Respond(r, Relayed(req[r].upstream), IF body = "empty" THEN "success" ELSE body, body)
  /\ UNCHANGED <<server, drained, proxy>>

\* The client closes the connection: the request context is cancelled, the
\* handler's write goes nowhere.
Disconnect(r) ==
  /\ Running(r)
  /\ req' = [req EXCEPT ![r].stage = "gone", ![r].age = 0]
  /\ UNCHANGED <<server, drained, proxy>>
-----------------------------------------------------------------------------
(* Process and environment. *)

ProxyChanges ==
  /\ proxy' \in {"up", "down"} \ {proxy}
  /\ UNCHANGED <<server, drained, req>>

Signal ==
  /\ server = "serving"
  /\ server' = "draining" /\ drained' = 0
  /\ UNCHANGED <<proxy, req>>

\* No connection is active.
Quiescent == \A r \in Requests : ~Running(r)

ShutdownReturns ==
  /\ server = "draining" /\ Quiescent
  /\ server' = "stopped"
  /\ UNCHANGED <<drained, proxy, req>>

\* The error is logged and main goes on to its end.
MutantOnError == "stopped"

\* log.Fatalf
OnError == "forced"

\* The context of Shutdown expires, and the process ends with every handler.
ShutdownForced ==
  /\ server = "draining" /\ drained >= Grace
  /\ server' = OnError
  /\ req' = [r \in Requests |-> IF Running(r) THEN [req[r] EXCEPT !.stage = "cut", !.age = 0]
                                ELSE req[r]]
  /\ UNCHANGED <<drained, proxy>>

\* The server has no read timeout.
MutantReadDue(r) == FALSE

ReadDue(r) == req[r].stage = "reading" /\ req[r].age >= Read

\* The outbound client has no timeout.
MutantPostDue(r) == FALSE

PostDue(r) ==
  /\ req[r].stage \in {"dialing", "waiting", "receiving"}
  /\ req[r].age >= req[r].decoded + Client

Due ==
  \/ \E r \in Requests : ReadDue(r) \/ PostDue(r)
  \/ server = "draining" /\ drained >= Grace

MaxAge == Read + Client + 1     \* bound of the model: no request may reach it

Tick ==
  /\ ~Due
  /\ server = "draining" \/ \E r \in Requests : Running(r)
  /\ \A r \in Requests : Running(r) => req[r].age < MaxAge
  /\ drained' = IF server = "draining" THEN drained + 1 ELSE drained
  /\ req' = [r \in Requests |-> IF Running(r) THEN [req[r] EXCEPT !.age = @ + 1] ELSE req[r]]
  /\ UNCHANGED <<server, proxy>>

Expire(r) == (ReadDue(r) /\ Refuse(r)) \/ (PostDue(r) /\ PostFails(r))
-----------------------------------------------------------------------------
Init ==
  /\ server = "serving" /\ drained = 0 /\ proxy \in {"up", "down"}
  /\ \E ids \in Ids : req = [r \in Requests |-> Fresh(ids[r])]

Handle(r) ==
  \/ Accept(r) \/ Refuse(r) \/ Decode(r) \/ Tunnel(r) \/ PostFails(r) \/ Disconnect(r)
  \/ \E s \in Statuses : NodeAnswers(r, s)
  \/ \E b \in Bodies : Relay(r, b)

Next ==
  \/ \E r \in Requests : Handle(r)
  \/ ProxyChanges \/ Signal \/ ShutdownReturns \/ ShutdownForced \/ Tick

\* Timers that are due fire and time passes; nothing else is obliged to happen:
\* no client, proxy or node has to do anything.
Spec ==
  /\ Init /\ [][Next]_vars
  /\ WF_vars(Tick) /\ WF_vars(ShutdownForced) /\ WF_vars(ShutdownReturns)
  /\ \A r \in Requests : WF_vars(Expire(r))
-----------------------------------------------------------------------------
(* Properties. *)

\* Stages and times; a request past its decoding carries the age it had then.
TypeOK ==
  /\ server \in {"serving", "draining", "stopped", "forced"}
  /\ drained \in 0..Grace /\ proxy \in {"up", "down"}
  /\ \A r \in Requests :
       /\ req[r].stage \in Active \cup {"new", "answered", "lost", "gone", "cut"}
       /\ req[r].age \in 0..MaxAge
       /\ req[r].decoded \in 0..Read \cup {None}
       /\ req[r].upstream \in Statuses \cup {None}
       /\ req[r].status \in Statuses \cup {400, 405, 500, None}

\* A request whose body arrives well before the write deadline minus the client
\* timeout is never left without an answer by the server's own timeouts: the 60
\* seconds of main.go:71 cover the 30 of tor_client.go:53.
PromptBodyIsAnswered ==
  \A r \in Requests :
    req[r].decoded # None /\ req[r].decoded + Client < Write => req[r].stage # "lost"

\* No handler outlives the two timeouts it can wait for, so a dead proxy or node
\* cannot pile up handlers.
HandlersAreBounded ==
  \A r \in Requests : Running(r) => req[r].age <= Read + Client

\* A shutdown that reports success ("server stopped", main.go:99) has let every
\* accepted request finish; only the forced one cuts requests.
GracefulExitDrains ==
  server = "stopped" => \A r \in Requests : ~Running(r) /\ req[r].stage # "cut"

\* The client is told the node answered, and with which status, exactly as the
\* node did; without an answer of the node it is told of an error.
StatusIsEarned ==
  \A r \in Requests : req[r].stage = "answered" =>
    IF req[r].upstream = None THEN req[r].answer = "error" /\ req[r].status >= 400
    ELSE req[r].status = req[r].upstream

\* A client finds its answer by the id it chose: a string, or a number a float64
\* can tell from its neighbours, comes back as it was, zero included, and what
\* carries an id is never taken for a notification (router.go:14).
Exact(id) == id \in Nat => id <= Significands
IdsAreEchoed ==
  \A r \in Requests :
    req[r].upstream # None /\ Exact(req[r].id) => req[r].echo = req[r].id

\* Every accepted request comes to an end, and every shutdown too.
RequestsEnd ==
  /\ \A r \in Requests : Running(r) ~> ~Running(r)
  /\ (server = "draining") ~> (server \in {"stopped", "forced"})

\* onion_configuration_report.md:42: the timeouts leave Tor enough time "without
\* the Go server aborting the connection prematurely".
NoPrematureAbort ==
  \A r \in Requests : req[r].decoded # None => req[r].stage # "lost"

\* onion_configuration_report.md:41: "return the raw response body and HTTP
\* status code directly back to the client".  Under the node's status comes the node's
\* body: not a success for an empty one (http.go:60), not an error of the router's for
\* one that broke off (tor_client.go:78).
RawRelay ==
  \A r \in Requests :
    req[r].stage = "answered" /\ req[r].status \in Statuses => req[r].answer = req[r].body
=============================================================================
