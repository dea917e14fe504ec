------------------------- MODULE GhostRouterProofs -------------------------
(***************************************************************************)
(* Proofs about the Ghost Router, for any requests, ids and timeouts: the  *)
(* types, how long a handler runs, which requests are answered, what their *)
(* status and id are, and what a shutdown that reports success has done.   *)
(***************************************************************************)
EXTENDS GhostRouter, TLAPS

\* Up to the number of significands, neighbouring floating-point numbers are one
\* apart, and rounding changes nothing.
LEMMA SmallNumbersAreExact ==
  ASSUME NEW n \in Nat, n <= Significands
  PROVE  Float(n) = n
<1> DEFINE S == Significands
           IsSpacing(u) == n < u * S /\ (u = 1 \/ n >= (u \div 2) * S)
<1>1. S \in Nat \ {0} /\ S % 2 = 0 /\ 1 \in Spacings /\ 2 \in Spacings
  BY RouterAssumption
<1>2. \A u \in Spacings : u \in Nat
  BY RouterAssumption
<1>3. ASSUME NEW u \in Spacings, u # 1
      PROVE  \E v \in Nat : u = 2 * v /\ u \div 2 = v
  <2>1. PICK v \in Spacings : u = 2 * v
    BY <1>3, RouterAssumption
  <2>2. v \in Nat
    BY <1>2
  <2> QED BY <2>1, <2>2
<1>4. Spacing(n) \in Spacings /\ IsSpacing(Spacing(n))
  <2>1. \E u \in Spacings : IsSpacing(u)
    <3>1. CASE n < S
      BY <1>1, <3>1
    <3>2. CASE n = S
      <4>1. S < 2 * S /\ S >= (2 \div 2) * S
        BY <1>1
      <4> QED BY <1>1, <3>2, <4>1
    <3> QED BY <1>1, <3>1, <3>2
  <2> QED BY <2>1 DEF Spacing
<1>5. CASE n < S
  <2>1. Spacing(n) = 1
    <3> SUFFICES ASSUME Spacing(n) # 1 PROVE FALSE
      OBVIOUS
    <3>1. PICK v \in Nat : Spacing(n) = 2 * v /\ Spacing(n) \div 2 = v
      BY <1>3, <1>4
    <3>2. n < (2 * v) * S /\ n >= v * S
      BY <1>4, <3>1
    <3>3. v # 0
      BY <1>1, <3>2
    <3>4. v * S >= S
      BY <1>1, <3>3
    <3> QED BY <1>1, <1>5, <3>2, <3>4
  <2> QED BY <2>1 DEF Float
<1>6. CASE n = S
  <2>1. Spacing(n) = 2
    <3>1. Spacing(n) # 1
      BY <1>1, <1>4, <1>6
    <3>2. PICK v \in Nat : Spacing(n) = 2 * v /\ Spacing(n) \div 2 = v
      BY <1>3, <1>4, <3>1
    <3>3. S < (2 * v) * S /\ S >= v * S
      BY <1>4, <1>6, <3>1, <3>2
    <3>4. v = 1
      <4>1. v # 0
        BY <1>1, <3>3
      <4>2. v >= 2 => v * S >= 2 * S
        BY <1>1
      <4> QED BY <1>1, <3>3, <4>1, <4>2
    <3> QED BY <3>2, <3>4
  <2>2. n % 2 = 0 /\ n = 2 * (n \div 2)
    BY <1>1, <1>6
  <2> QED BY <2>1, <2>2 DEF Float
<1> QED BY <1>1, <1>5, <1>6

\* An id that a double holds comes back unchanged.
LEMMA IdsSurvive ==
  ASSUME NEW id, Exact(id)
  PROVE  Sent(id) = id
BY SmallNumbersAreExact DEF Exact, Sent
-----------------------------------------------------------------------------
(* One request. *)

Posting == {"dialing", "waiting", "receiving"}
Ended == {"answered", "lost", "gone", "cut"}
RequestIds == {ids[r] : ids \in Ids, r \in Requests}

Stages == Active \cup Ended \cup {"new"}
Echoes == {Sent(id) : id \in RequestIds} \cup {None}
Codes == Statuses \cup {400, 405, 500, None}
Answers == Bodies \cup {"error", "success", None}

Request == [stage : Stages, id : RequestIds, age : 0..MaxAge, decoded : 0..Read \cup {None},
            upstream : Statuses \cup {None}, echo : Echoes, body : Bodies \cup {None},
            status : Codes, answer : Answers]

\* A request in a handler is no older than the timers that run for it allow.
InTime(q) ==
  /\ q.stage = "new" => q.age = 0
  /\ q.stage \in {"new", "reading"} => q.decoded = None
  /\ q.stage = "reading" => q.age <= Read
  /\ q.stage \in Posting => q.decoded \in Nat /\ q.age <= q.decoded + Client

\* What the node did for it is known when it is told, and not before.
Known(q) ==
  /\ q.stage \in {"new", "reading", "dialing", "waiting"} => q.upstream = None
  /\ q.stage = "receiving" => q.upstream \in Statuses

Prompt(q) == q.decoded # None /\ q.decoded + Client < Write => q.stage # "lost"
Earned(q) == q.stage = "answered" =>
  IF q.upstream = None THEN q.answer = "error" /\ q.status >= 400
  ELSE q.status = q.upstream
Echoed(q) == q.upstream # None /\ Exact(q.id) => q.echo = q.id

Good(q) == q \in Request /\ InTime(q) /\ Known(q) /\ Prompt(q) /\ Earned(q) /\ Echoed(q)

RequestsGood == req \in [Requests -> Request] /\ \A r \in Requests : Good(req[r])

\* What one step makes of one request, when it is not left alone.
Put(r, q) == req' = [req EXCEPT ![r] = q]

\* The timeouts and the constants that are not numbers.
LEMMA Numbers ==
  /\ Read \in Nat /\ Write \in Nat /\ Client \in Nat /\ None \notin Nat
  /\ MaxAge = Read + Client + 1
  /\ \A n \in Nat : n # None
  /\ \A s \in Statuses : s \in Nat /\ s # None
BY RouterAssumption DEF MaxAge, Statuses

\* Only the request that moves has to be looked at.
LEMMA PutKeepsGood ==
  ASSUME RequestsGood, NEW r \in Requests, NEW q, Good(q), Put(r, q)
  PROVE  RequestsGood'
<1>1. q \in Request
  BY DEF Good
<1>2. req' \in [Requests -> Request] /\ req'[r] = q
      /\ \A s \in Requests : s # r => req'[s] = req[s]
  BY <1>1 DEF RequestsGood, Put
<1> QED BY <1>2 DEF RequestsGood

\* The answer of a handler, which earns its status.
LEMMA RespondKeepsGood ==
  ASSUME RequestsGood, NEW r \in Requests, Running(r),
         NEW status \in {400, 405, 500} \cup Statuses,
         NEW answer \in Bodies \cup {"error", "success"}, NEW body \in Bodies \cup {None},
         Respond(r, status, answer, body),
         IF req[r].upstream = None THEN answer = "error" /\ status >= 400
         ELSE status = req[r].upstream
  PROVE  RequestsGood'
<1> DEFINE p == req[r]
<1>1. PICK fate \in Fates(p.age) :
        Put(r, [p EXCEPT !.stage = fate, !.age = 0, !.body = body,
                         !.status = status, !.answer = answer])
  BY DEF Respond, Put, RequestsGood
<1> DEFINE q == [p EXCEPT !.stage = fate, !.age = 0, !.body = body,
                          !.status = status, !.answer = answer]
<1>2. p \in Request /\ Good(p)
  BY DEF RequestsGood
<1>3. /\ q.stage = fate /\ q.age = 0 /\ q.body = body /\ q.status = status
      /\ q.answer = answer /\ q.id = p.id /\ q.decoded = p.decoded
      /\ q.upstream = p.upstream /\ q.echo = p.echo
  BY <1>2 DEF Request
<1>4. fate \in {"answered", "lost"} /\ (fate = "lost" => p.age >= Write)
  BY DEF Fates
<1>5. q \in Request
  <2>1. fate \in Stages /\ status \in Codes /\ answer \in Answers
    BY <1>4 DEF Ended, Stages, Codes, Answers
  <2>2. 0 \in 0..MaxAge
    BY Numbers
  <2> HIDE DEF p
  <2> QED BY <1>2, <2>1, <2>2 DEF Request
<1>6. InTime(q) /\ Known(q) /\ Echoed(q) /\ Earned(q)
  BY <1>2, <1>3, <1>4 DEF InTime, Known, Echoed, Earned, Posting, Good
<1>7. Prompt(q)
  <2>1. p.stage \in {"reading"} \cup Posting /\ p.age \in Nat
    BY <1>2, Numbers DEF Running, Active, Posting, Request
  <2>2. CASE p.stage = "reading"
    BY <1>2, <1>3, <2>2 DEF Good, InTime, Prompt
  <2>3. CASE p.stage \in Posting
    BY <1>2, <1>3, <1>4, <2>1, <2>3, Numbers DEF Good, InTime, Prompt
  <2> QED BY <2>1, <2>2, <2>3
<1>8. Good(q)
  BY <1>5, <1>6, <1>7 DEF Good
<1> HIDE DEF q
<1> QED BY <1>1, <1>8, PutKeepsGood DEF q

\* The stages of a handler are stages.
LEMMA Advanced == Active \subseteq Stages /\ {"reading", "dialing", "waiting", "receiving"} \subseteq Stages
BY DEF Active, Stages

\* The steps of a handler before it answers.
LEMMA AdvanceKeepsGood ==
  ASSUME RequestsGood, NEW r \in Requests,
         \/ Accept(r) \/ Decode(r) \/ Tunnel(r)
         \/ \E s \in Statuses : NodeAnswers(r, s)
  PROVE  RequestsGood'
<1> DEFINE p == req[r]
<1>1. p \in Request /\ Good(p) /\ req \in [Requests -> Request]
  BY DEF RequestsGood
<1>2. CASE Accept(r)
  <2> DEFINE q == [p EXCEPT !.stage = "reading"]
  <2>1. Put(r, q) /\ p.stage = "new"
    BY <1>1, <1>2 DEF Accept, Move, Put
  <2>2. q \in Request /\ q.stage = "reading" /\ q.age = p.age /\ q.decoded = p.decoded
        /\ q.upstream = p.upstream /\ q.id = p.id /\ q.echo = p.echo
    BY <1>1, Advanced DEF Request
  <2> HIDE DEF q
  <2>3. Good(q)
    BY <1>1, <2>1, <2>2, Numbers
    DEF Good, InTime, Known, Prompt, Earned, Echoed, Posting
  <2> QED BY <2>1, <2>3, PutKeepsGood
<1>3. CASE Decode(r)
  <2> DEFINE q == [p EXCEPT !.stage = "dialing", !.decoded = p.age]
  <2>1. Put(r, q) /\ p.stage = "reading"
    BY <1>1, <1>3 DEF Decode, Put
  <2>2. p.age \in 0..Read
    BY <1>1, <2>1, Numbers DEF Good, InTime, Request
  <2>3. q \in Request /\ q.stage = "dialing" /\ q.age = p.age /\ q.decoded = p.age
        /\ q.upstream = p.upstream /\ q.id = p.id /\ q.echo = p.echo
    BY <1>1, <2>2, Advanced DEF Request
  <2> HIDE DEF q
  <2>4. Good(q)
    BY <1>1, <2>1, <2>2, <2>3, Numbers
    DEF Good, InTime, Known, Prompt, Earned, Echoed, Posting
  <2> QED BY <2>1, <2>4, PutKeepsGood
<1>4. CASE Tunnel(r)
  <2> DEFINE q == [p EXCEPT !.stage = "waiting"]
  <2>1. Put(r, q) /\ p.stage = "dialing"
    BY <1>1, <1>4 DEF Tunnel, Move, Put
  <2>2. q \in Request /\ q.stage = "waiting" /\ q.age = p.age /\ q.decoded = p.decoded
        /\ q.upstream = p.upstream /\ q.id = p.id /\ q.echo = p.echo
    BY <1>1, Advanced DEF Request
  <2> HIDE DEF q
  <2>3. Good(q)
    BY <1>1, <2>1, <2>2 DEF Good, InTime, Known, Prompt, Earned, Echoed, Posting
  <2> QED BY <2>1, <2>3, PutKeepsGood
<1>5. ASSUME NEW s \in Statuses, NodeAnswers(r, s)
      PROVE  RequestsGood'
  <2> DEFINE q == [p EXCEPT !.stage = "receiving", !.upstream = s, !.echo = Sent(p.id)]
  <2>1. Put(r, q) /\ p.stage = "waiting"
    BY <1>1, <1>5 DEF NodeAnswers, Put
  <2>2. Sent(p.id) \in Echoes /\ s \in Statuses \cup {None}
    BY <1>1 DEF Request, Echoes
  <2>3. q \in Request /\ q.stage = "receiving" /\ q.age = p.age /\ q.decoded = p.decoded
        /\ q.upstream = s /\ q.id = p.id /\ q.echo = Sent(p.id)
    <3> HIDE DEF p
    <3> QED BY <1>1, <2>2, Advanced DEF Request
  <2> HIDE DEF q
  <2>4. InTime(q) /\ Known(q) /\ Prompt(q) /\ Earned(q)
    BY <1>1, <2>1, <2>3 DEF Good, InTime, Known, Prompt, Earned, Posting
  <2>5. Echoed(q)
    BY <2>3, IdsSurvive DEF Echoed
  <2> QED BY <2>1, <2>3, <2>4, <2>5, PutKeepsGood DEF Good
<1> QED BY <1>2, <1>3, <1>4, <1>5

\* A client that leaves ends its request.
LEMMA DisconnectKeepsGood ==
  ASSUME RequestsGood, NEW r \in Requests, Disconnect(r)
  PROVE  RequestsGood'
<1> DEFINE p == req[r]
           q == [p EXCEPT !.stage = "gone", !.age = 0]
<1>1. p \in Request /\ Good(p) /\ req \in [Requests -> Request] /\ Put(r, q)
  BY DEF RequestsGood, Disconnect, Put
<1>2. 0 \in 0..MaxAge /\ "gone" \in Stages
  BY Numbers DEF Stages, Ended
<1>3. q \in Request /\ q.stage = "gone" /\ q.age = 0 /\ q.decoded = p.decoded
      /\ q.upstream = p.upstream /\ q.id = p.id /\ q.echo = p.echo
  <2> HIDE DEF p
  <2> QED BY <1>1, <1>2 DEF Request
<1> HIDE DEF q
<1>4. Good(q)
  BY <1>1, <1>3 DEF Good, InTime, Known, Prompt, Earned, Echoed, Posting
<1> QED BY <1>1, <1>4, PutKeepsGood

\* All steps of a handler together.
LEMMA HandleKeepsGood ==
  ASSUME RequestsGood, NEW r \in Requests, Handle(r)
  PROVE  RequestsGood'
<1>1. Good(req[r]) /\ req[r] \in Request
  BY DEF RequestsGood
<1>2. CASE Refuse(r)
  <2>1. req[r].upstream = None /\ Running(r)
    BY <1>1, <1>2 DEF Refuse, Good, Known, Running, Active
  <2>2. PICK status \in {400, 405} : Respond(r, status, "error", None)
    BY <1>2 DEF Refuse
  <2> QED BY <2>1, <2>2, RespondKeepsGood
<1>3. CASE PostFails(r)
  <2> DEFINE status == ErrorStatus(req[r].upstream)
  <2>1. Running(r) /\ req[r].upstream \in Statuses \cup {None}
    BY <1>1, <1>3 DEF PostFails, Running, Active, Request
  <2>2. /\ status \in {400, 405, 500} \cup Statuses
        /\ IF req[r].upstream = None THEN status >= 400 ELSE status = req[r].upstream
    BY <2>1 DEF ErrorStatus
  <2>3. Respond(r, status, "error", None)
    BY <1>3 DEF PostFails
  <2> HIDE DEF status
  <2> QED BY <2>1, <2>2, <2>3, RespondKeepsGood
<1>4. ASSUME NEW b \in Bodies, Relay(r, b)
      PROVE  RequestsGood'
  <2> DEFINE answer == IF b = "empty" THEN "success" ELSE b
  <2>1. req[r].upstream \in Statuses /\ Running(r)
    BY <1>1, <1>4 DEF Relay, Good, Known, Running, Active
  <2>2. Respond(r, req[r].upstream, answer, b) /\ answer \in Bodies \cup {"error", "success"}
    BY <1>4 DEF Relay, Relayed
  <2>3. req[r].upstream # None
    BY <2>1, Numbers
  <2> HIDE DEF answer
  <2> QED BY <2>1, <2>2, <2>3, RespondKeepsGood
<1> QED BY <1>2, <1>3, <1>4, AdvanceKeepsGood, DisconnectKeepsGood DEF Handle

\* Time passes only while no timer is due.
LEMMA TickKeepsGood ==
  ASSUME RequestsGood, Tick
  PROVE  RequestsGood'
<1>1. /\ req' = [r \in Requests |-> IF Running(r) THEN [req[r] EXCEPT !.age = @ + 1] ELSE req[r]]
      /\ \A r \in Requests : Running(r) => req[r].age < MaxAge
      /\ \A r \in Requests : ~ReadDue(r) /\ ~PostDue(r)
  BY DEF Tick, Due
<1> SUFFICES ASSUME NEW r \in Requests PROVE Good(req'[r])
  <2>1. ASSUME \A r \in Requests : Good(req'[r]) PROVE RequestsGood'
    <3>1. \A r \in Requests : req'[r] \in Request
      BY <2>1 DEF Good
    <3> QED BY <1>1, <2>1, <3>1 DEF RequestsGood
  <2> QED BY <2>1
<1> DEFINE p == req[r]
<1>2. p \in Request /\ Good(p)
  BY DEF RequestsGood
<1>3. CASE ~Running(r)
  BY <1>1, <1>2, <1>3
<1>4. CASE Running(r)
  <2> DEFINE q == [p EXCEPT !.age = p.age + 1]
  <2>1. req'[r] = q
    BY <1>1, <1>4
  <2>2. p.age \in Nat /\ p.age + 1 \in 0..MaxAge
    BY <1>1, <1>2, <1>4, Numbers DEF Request
  <2>3. q \in Request /\ q.stage = p.stage /\ q.age = p.age + 1 /\ q.decoded = p.decoded
        /\ q.upstream = p.upstream /\ q.id = p.id /\ q.echo = p.echo
        /\ q.status = p.status /\ q.answer = p.answer
    <3> HIDE DEF p
    <3> QED BY <1>2, <2>2 DEF Request
  <2> HIDE DEF q
  <2>4. InTime(q)
    <3>1. p.stage # "new"
      BY <1>4 DEF Running, Active
    <3>2. p.stage = "reading" => p.age < Read
      BY <1>1, <2>2, Numbers DEF ReadDue
    <3>3. p.stage \in Posting => p.decoded \in Nat /\ p.age < p.decoded + Client
      BY <1>1, <1>2, <2>2, Numbers DEF PostDue, Posting, Good, InTime
    <3> QED BY <1>2, <2>2, <2>3, <3>1, <3>2, <3>3, Numbers DEF Good, InTime
  <2>5. Known(q) /\ Prompt(q) /\ Earned(q) /\ Echoed(q)
    BY <1>2, <2>3 DEF Good, Known, Prompt, Earned, Echoed
  <2> QED BY <2>1, <2>3, <2>4, <2>5 DEF Good
<1> QED BY <1>3, <1>4

\* The context of Shutdown expires with requests still running.
LEMMA CutKeepsGood ==
  ASSUME RequestsGood, ShutdownForced
  PROVE  RequestsGood'
<1>1. req' = [r \in Requests |-> IF Running(r) THEN [req[r] EXCEPT !.stage = "cut", !.age = 0]
                                 ELSE req[r]]
  BY DEF ShutdownForced
<1>2. 0 \in 0..MaxAge /\ "cut" \in Stages
  BY Numbers DEF Stages, Ended
<1>3. ASSUME NEW r \in Requests PROVE Good(req'[r])
  <2> DEFINE p == req[r]
             q == [p EXCEPT !.stage = "cut", !.age = 0]
  <2>1. p \in Request /\ Good(p)
    BY DEF RequestsGood
  <2>2. req'[r] = IF Running(r) THEN q ELSE p
    BY <1>1
  <2>3. q \in Request /\ q.stage = "cut" /\ q.age = 0 /\ q.decoded = p.decoded
        /\ q.upstream = p.upstream /\ q.id = p.id /\ q.echo = p.echo
    <3> HIDE DEF p
    <3> QED BY <2>1, <1>2 DEF Request
  <2> HIDE DEF q
  <2>4. Good(q)
    BY <2>1, <2>3 DEF Good, InTime, Known, Prompt, Earned, Echoed, Posting
  <2> QED BY <2>1, <2>2, <2>4
<1>4. \A r \in Requests : req'[r] \in Request
  BY <1>3 DEF Good
<1> QED BY <1>1, <1>3, <1>4 DEF RequestsGood
-----------------------------------------------------------------------------
(* The process. *)

\* The shutdown's clock is read before it moves; a process that reported success
\* has no handler left and starts none, and only one that was forced cuts any.
ServerGood ==
  /\ server \in {"serving", "draining", "stopped", "forced"}
  /\ proxy \in {"up", "down"}
  /\ drained \in 0..Grace
  /\ server = "stopped" => \A r \in Requests : ~Running(r)
  /\ server # "forced" => \A r \in Requests : req[r].stage # "cut"

RouterInv == RequestsGood /\ ServerGood

\* What the handlers do to a request, other than starting it, needs it running,
\* and none of them cuts it.
LEMMA HandlersOfRunning ==
  ASSUME RequestsGood, NEW r \in Requests, Handle(r)
  PROVE  /\ UNCHANGED <<server, drained, proxy>>
         /\ server \in {"serving", "draining"} \/ Running(r)
         /\ req'[r].stage # "cut"
         /\ \A s \in Requests : s # r => req'[s] = req[s]
<1>1. req \in [Requests -> Request]
  BY DEF RequestsGood
<1>2. ASSUME NEW status, NEW answer, NEW body, Respond(r, status, answer, body)
      PROVE  req'[r].stage # "cut" /\ \A s \in Requests : s # r => req'[s] = req[s]
  <2>1. PICK fate \in Fates(req[r].age) :
          req' = [req EXCEPT ![r] = [@ EXCEPT !.stage = fate, !.age = 0, !.body = body,
                                              !.status = status, !.answer = answer]]
    BY <1>2 DEF Respond
  <2>2. fate # "cut"
    BY DEF Fates
  <2> QED BY <1>1, <2>1, <2>2 DEF Request
<1>3. CASE Accept(r) \/ Tunnel(r)
  BY <1>1, <1>3 DEF Accept, Tunnel, Move, Running, Active, Request
<1>4. CASE Decode(r) \/ Disconnect(r) \/ \E s \in Statuses : NodeAnswers(r, s)
  <2> DEFINE Moved(stage) == /\ req'[r].stage = stage
                            /\ \A s \in Requests : s # r => req'[s] = req[s]
  <2>1. CASE Decode(r)
    <3>1. Moved("dialing")
      BY <1>1, <2>1 DEF Decode, Request
    <3> QED BY <2>1, <3>1 DEF Decode, Running, Active
  <2>2. CASE Disconnect(r)
    <3>1. Moved("gone")
      BY <1>1, <2>2 DEF Disconnect, Request
    <3> QED BY <2>2, <3>1 DEF Disconnect
  <2>3. ASSUME NEW status \in Statuses, NodeAnswers(r, status)
        PROVE  /\ UNCHANGED <<server, drained, proxy>> /\ Running(r)
               /\ Moved("receiving")
    <3>1. Moved("receiving")
      BY <1>1, <2>3 DEF NodeAnswers, Request
    <3> QED BY <2>3, <3>1 DEF NodeAnswers, Running, Active
  <2> QED BY <1>4, <2>1, <2>2, <2>3
<1>5. CASE Refuse(r) \/ PostFails(r) \/ \E b \in Bodies : Relay(r, b)
  BY <1>2, <1>5 DEF Refuse, PostFails, Relay, Running, Active
<1> QED BY <1>3, <1>4, <1>5 DEF Handle

\* The invariant holds when the server starts,
LEMMA RouterInitial == Init => RouterInv
<1> SUFFICES ASSUME Init PROVE RouterInv
  OBVIOUS
<1>1. PICK ids \in Ids : req = [r \in Requests |-> Fresh(ids[r])]
  BY DEF Init
<1>2. ASSUME NEW r \in Requests
      PROVE  Good(req[r]) /\ req[r] \in Request /\ req[r].stage = "new"
  <2> DEFINE id == ids[r]
             q == Fresh(id)
  <2>1. req[r] = q
    BY <1>1
  <2>2. id \in RequestIds
    BY DEF RequestIds
  <2>3. 0 \in 0..MaxAge /\ "new" \in Stages /\ None \in Echoes /\ None \in Codes /\ None \in Answers
    BY Numbers DEF Stages, Echoes, Codes, Answers
  <2> HIDE DEF id
  <2>4. q \in Request /\ q.stage = "new" /\ q.age = 0 /\ q.decoded = None /\ q.upstream = None
    BY <2>2, <2>3 DEF Fresh, Request
  <2> HIDE DEF q
  <2>5. Good(q)
    BY <2>4 DEF Good, InTime, Known, Prompt, Earned, Echoed, Posting
  <2> QED BY <2>1, <2>4, <2>5
<1>3. RequestsGood
  BY <1>1, <1>2 DEF RequestsGood
<1>4. server = "serving" /\ drained = 0 /\ proxy \in {"up", "down"} /\ 0 \in 0..Grace
  BY RouterAssumption DEF Init
<1>5. ServerGood
  BY <1>2, <1>4 DEF ServerGood
<1> QED BY <1>3, <1>5 DEF RouterInv

\* and every step of clients, handlers, timers and shutdown keeps it,
LEMMA RouterInductive == RouterInv /\ [Next]_vars => RouterInv'
<1> SUFFICES ASSUME RouterInv, [Next]_vars PROVE RouterInv'
  OBVIOUS
<1>0. RequestsGood /\ ServerGood /\ drained \in 0..Grace /\ Grace \in Nat
  BY RouterAssumption DEF RouterInv, ServerGood
<1>1. ASSUME NEW r \in Requests, Handle(r)
      PROVE  RouterInv'
  <2>1. RequestsGood'
    BY <1>0, <1>1, HandleKeepsGood
  <2>2. ServerGood'
    BY <1>0, <1>1, HandlersOfRunning DEF ServerGood, Running
  <2> QED BY <2>1, <2>2 DEF RouterInv
<1>2. CASE UNCHANGED req /\ (ProxyChanges \/ UNCHANGED vars)
  <2>1. RequestsGood'
    BY <1>0, <1>2 DEF RequestsGood
  <2>2. ServerGood'
    BY <1>0, <1>2 DEF ServerGood, ProxyChanges, vars, Running
  <2> QED BY <2>1, <2>2 DEF RouterInv
<1>3. CASE Signal \/ ShutdownReturns
  <2>1. UNCHANGED req
    BY <1>3 DEF Signal, ShutdownReturns
  <2>2. RequestsGood'
    BY <1>0, <2>1 DEF RequestsGood
  <2>3. ServerGood'
    BY <1>0, <1>3, <2>1 DEF ServerGood, Signal, ShutdownReturns, Quiescent, Running
  <2> QED BY <2>2, <2>3 DEF RouterInv
<1>4. CASE ShutdownForced
  <2>1. RequestsGood'
    BY <1>0, <1>4, CutKeepsGood
  <2>2. server' = "forced" /\ UNCHANGED <<drained, proxy>>
    BY <1>4 DEF ShutdownForced, OnError
  <2>3. ServerGood'
    BY <1>0, <2>2 DEF ServerGood
  <2> QED BY <2>1, <2>3 DEF RouterInv
<1>5. CASE Tick
  <2>1. RequestsGood'
    BY <1>0, <1>5, TickKeepsGood
  <2>2. drained' \in 0..Grace
    <3>1. server = "draining" => drained < Grace
      BY <1>0, <1>5 DEF Tick, Due
    <3>2. drained' = IF server = "draining" THEN drained + 1 ELSE drained
      BY <1>5 DEF Tick
    <3> QED BY <1>0, <3>1, <3>2
  <2>3. \A r \in Requests : req'[r].stage = req[r].stage
    <3>1. req \in [Requests -> Request]
      BY <1>0 DEF RequestsGood
    <3> QED BY <1>5, <3>1 DEF Tick, Request
  <2>4. UNCHANGED <<server, proxy>>
    BY <1>5 DEF Tick
  <2>5. ServerGood'
    BY <1>0, <2>2, <2>3, <2>4 DEF ServerGood, Running
  <2> QED BY <2>1, <2>5 DEF RouterInv
<1>6. ProxyChanges => UNCHANGED req
  BY DEF ProxyChanges
<1>7. UNCHANGED vars => UNCHANGED req
  BY DEF vars
<1> QED BY <1>1, <1>2, <1>3, <1>4, <1>5, <1>6, <1>7 DEF Next

\* so that it always holds.
LEMMA RouterInvariant == Spec => []RouterInv
BY RouterInitial, RouterInductive, PTL DEF Spec
-----------------------------------------------------------------------------
\* Stages, times and statuses stay in their ranges: a request is decoded within
\* the read deadline, and a shutdown does not outlast its context.
THEOREM RouterTypeCorrect == Spec => []TypeOK
<1>1. RouterInv => TypeOK
  BY DEF RouterInv, RequestsGood, ServerGood, TypeOK, Request, Stages, Ended, Codes
<1> QED BY <1>1, RouterInvariant, PTL

\* Whatever the timeouts, a request that was decoded more than the client timeout
\* before the write deadline is not left unanswered by the server (main.go:71,
\* tor_client.go:53).
THEOREM PromptBodyAnswered == Spec => []PromptBodyIsAnswered
<1>1. RouterInv => PromptBodyIsAnswered
  BY DEF RouterInv, RequestsGood, Good, Prompt, PromptBodyIsAnswered
<1> QED BY <1>1, RouterInvariant, PTL

\* No handler runs longer than the read and the client timeout together, however
\* proxy, node and client behave.
THEOREM HandlersBounded == Spec => []HandlersAreBounded
<1>1. ASSUME RouterInv, NEW r \in Requests, Running(r)
      PROVE  req[r].age <= Read + Client
  <2>1. InTime(req[r]) /\ req[r] \in Request
    BY <1>1 DEF RouterInv, RequestsGood, Good
  <2>2. req[r].age \in Nat
    BY <2>1, Numbers DEF Request
  <2>3. CASE req[r].stage = "reading"
    BY <2>1, <2>2, <2>3, Numbers DEF InTime
  <2>4. CASE req[r].stage \in Posting
    <3>1. req[r].decoded \in Nat /\ req[r].decoded <= Read /\ req[r].age <= req[r].decoded + Client
      BY <2>1, <2>4, Numbers DEF InTime, Request
    <3> QED BY <2>2, <3>1, Numbers
  <2> QED BY <1>1, <2>3, <2>4 DEF Running, Active, Posting
<1>2. RouterInv => HandlersAreBounded
  BY <1>1 DEF HandlersAreBounded
<1> QED BY <1>2, RouterInvariant, PTL

\* "server stopped" (main.go:99) is only reported when every handler has returned
\* and none was cut.
THEOREM GracefulExit == Spec => []GracefulExitDrains
<1>1. RouterInv => GracefulExitDrains
  BY DEF RouterInv, ServerGood, GracefulExitDrains
<1> QED BY <1>1, RouterInvariant, PTL

\* The handler relays the node's status if the node gave one, and reports an error
\* if it gave none, whatever broke in between.
THEOREM StatusEarned == Spec => []StatusIsEarned
<1>1. RouterInv => StatusIsEarned
  BY DEF RouterInv, RequestsGood, Good, Earned, StatusIsEarned
<1> QED BY <1>1, RouterInvariant, PTL

\* Every id that is not a number, and every number up to the significands of a
\* float64, comes back unchanged from the node.
THEOREM IdsEchoed == Spec => []IdsAreEchoed
<1>1. RouterInv => IdsAreEchoed
  BY DEF RouterInv, RequestsGood, Good, Echoed, IdsAreEchoed
<1> QED BY <1>1, RouterInvariant, PTL
=============================================================================
