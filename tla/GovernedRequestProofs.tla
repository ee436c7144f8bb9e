------------------------- MODULE GovernedRequestProofs -------------------------
(* For any requests, principals and limits: what one governed request may have   *)
(* done, held and answered at any moment, whatever fails.                      *)
EXTENDS GovernedRequest, SequenceTheorems, TLAPS

\* Where a route may be once its caller is vouched for ...
Vouched(route) ==
  CASE route = "people" -> {"authorize", "port"}
    [] route = Hire -> {"binding", "key", "media", "body", "command", "authorize", "port"}
    [] route \in Mutations -> {"binding", "body", "command", "authorize", "port"}
    [] route = "analysis_write" ->
         {"headers", "key", "media", "body", "command", "authorize", "port", "recovery"}
    [] route = "analysis_read" -> {"headers", "command", "authorize", "port"}

\* ... once its claims are compared with the credential ...
Bound(route) ==
  CASE route = Hire -> {"key", "media", "body", "command", "authorize", "port"}
    [] route \in Mutations -> {"body", "command", "authorize", "port"}
    [] OTHER -> {}

\* ... and from the body on.
Bodied == {"body", "command", "authorize", "port", "recovery"}

Stages(route) ==
  DOMAIN Order(route) \cup {"port"} \cup IF route = "analysis_write" THEN {"recovery"} ELSE {}

\* What each check that was passed has established.
Established ==
  /\ request \in Requests
  /\ stage \in Stages(request.route)
  /\ stage \in Vouched(request.route) => principal \in Principals
  /\ stage \in Bound(request.route) =>
       /\ principal.tenant = request.tenant
       /\ request.route \in Mutations => principal.actor = request.actor
  /\ stage \in {"port", "recovery"} => Evaluate(request, principal)

\* Where a body is taken from the client, and what is held of it.
Held ==
  /\ delivered \in 0..Len(request.frames)
  /\ frames \in Nat /\ bytes \in Nat
  /\ bytes <= MaxBytes /\ frames <= MaxFrames
  /\ delivered > 0 => request.route \in Writes /\ stage \in Bodied

\* The status to send agrees with what was done.
Truthful ==
  /\ reply \in 400..499 => effect = "none" /\ disclosed = {}
  /\ reply = 201 => effect # "none"
  /\ reply = 200 => disclosed # {}

\* What is done is done at the port, and what is sent agrees with it.
Honest ==
  /\ effect # "none" \/ disclosed # {} =>
       stage \in {"port", "recovery"} /\ phase # "handling"
  /\ stage = "recovery" => effect # "none"
  /\ phase = "handling" => responses = <<>>
  /\ phase = "sending" =>
       \/ stage # "recovery" /\ responses = <<>> /\ Truthful
       \/ stage = "recovery" /\ responses \in {<<>>, <<201>>} /\ reply \in {400, 500}
  /\ phase = "started" =>
       \/ responses = <<reply>> /\ (reply = 201 => stage # "recovery")
       \/ responses \in {<<201, 400>>, <<201, 500>>} /\ reply \in {400, 500}
  /\ AnswersAreTrue

IInv == Established /\ Held /\ Honest

------------------------------------------------------------------------------
\* Every route vouches, binds and authorizes before it goes past the check in question.
LEMMA Pipelines ==
  ASSUME NEW route \in Writes \cup Reads, NEW s \in DOMAIN Order(route)
  PROVE  LET next == Order(route)[s] IN
         /\ next \in Stages(route)
         /\ next \in Vouched(route) => s \in Vouched(route) \/ s = "authenticate"
         /\ next \in Bound(route) => s \in Bound(route) \/ s = "binding"
         /\ next = "port" => s = "authorize"
         /\ s \in Bodied => next \in Bodied
         /\ s = "body" => route \in Writes
         /\ next # "recovery"
         /\ s \notin {"port", "recovery"}
<1> USE DEF Stages, Vouched, Bound, Bodied, Order, Writes, Reads, PeopleWrites, Mutations, Hire
<1>1. CASE route = "people" BY <1>1 DEF WorkerReadOrder
<1>2. CASE route = Hire BY <1>2 DEF HireOrder
<1>3. CASE route \in Mutations BY <1>3 DEF MutationOrder
<1>4. CASE route = "analysis_write" BY <1>4 DEF AnalysisWriteOrder
<1>5. CASE route = "analysis_read" BY <1>5 DEF AnalysisReadOrder
<1>6. QED BY <1>1, <1>2, <1>3, <1>4, <1>5

\* A check that passes establishes what the next one relies on, whatever it asked.
LEMMA PassingChecks ==
  ASSUME Established, phase = "handling", stage \notin {"port", "recovery"}, Proceed,
         principal' = principal,
         stage = "authenticate" => FALSE,
         stage = "binding" =>
           /\ principal.tenant = request.tenant
           /\ request.route \in Mutations => principal.actor = request.actor,
         stage = "authorize" => Evaluate(request, principal)
  PROVE  Established'
<1> DEFINE next == Order(request.route)[stage]
<1>1. /\ request' = request /\ stage' = next
      /\ request.route \in Writes \cup Reads /\ stage \in DOMAIN Order(request.route)
  BY RequestAssumption DEF Established, Proceed, Stages
<1>2. /\ next \in Stages(request.route)
      /\ next \in Vouched(request.route) => stage \in Vouched(request.route)
      /\ next \in Bound(request.route) =>
           stage \in Bound(request.route) \/ stage = "binding"
      /\ next = "port" => stage = "authorize"
      /\ next # "recovery"
  BY <1>1, Pipelines
<1>3. QED BY <1>1, <1>2 DEF Established

\* Authentication passes with a principal, before anything is bound or authorized.
LEMMA PassingAuthentication ==
  ASSUME Established, At("authenticate"), Proceed, principal' \in Principals
  PROVE  Established'
<1> DEFINE next == Order(request.route)["authenticate"]
<1>1. /\ request' = request /\ stage' = next
      /\ request.route \in Writes \cup Reads
      /\ "authenticate" \in DOMAIN Order(request.route)
  BY RequestAssumption DEF Established, Proceed, At, Stages
<1>2. "authenticate" \notin Bound(request.route)
  BY DEF Bound, Hire, Mutations
<1>3. /\ next \in Stages(request.route)
      /\ next \notin Bound(request.route) /\ next \notin {"port", "recovery"}
  BY <1>1, <1>2, Pipelines
<1>4. QED BY <1>1, <1>3 DEF Established

\* An action that leaves the request, the check and the principal alone keeps it.
LEMMA EstablishedStutters ==
  ASSUME Established, UNCHANGED <<request, stage, principal>>
  PROVE  Established'
BY DEF Established

\* Only the POST of a job analysis answers what its own response met.
LEMMA OnlyAnalysisRecovers ==
  ASSUME Established, stage = "recovery"
  PROVE  request.route = "analysis_write"
<1>1. request.route \in Writes \cup Reads /\ stage \in Stages(request.route)
  BY RequestAssumption DEF Established
<1>2. request.route # "analysis_write" => "recovery" \notin Stages(request.route)
  BY <1>1, Pipelines DEF Stages
<1>3. QED BY <1>1, <1>2

\* A request that has arrived has passed no check.
LEMMA Starts == Init => IInv
<1> SUFFICES ASSUME Init PROVE IInv OBVIOUS
<1>1. request \in Requests /\ request.route \in Writes \cup Reads
      /\ request.frames \in Seq(Nat)
  BY RequestAssumption DEF Init
<1>2. /\ FirstCheck(request.route) \in DOMAIN Order(request.route)
      /\ FirstCheck(request.route) \notin Vouched(request.route)
      /\ FirstCheck(request.route) \notin Bound(request.route)
      /\ FirstCheck(request.route) \notin {"port", "recovery"}
  <2> USE DEF FirstCheck, Vouched, Bound, Order
  <2>1. CASE request.route = "people" BY <2>1 DEF WorkerReadOrder, Hire, Mutations
  <2>2. CASE request.route = Hire BY <2>2 DEF HireOrder, Hire, Mutations
  <2>3. CASE request.route \in Mutations BY <2>3 DEF MutationOrder, Hire, Mutations
  <2>4. CASE request.route = "analysis_write"
    BY <2>4 DEF AnalysisWriteOrder, Hire, Mutations
  <2>5. CASE request.route = "analysis_read" BY <2>5 DEF AnalysisReadOrder, Hire, Mutations
  <2>6. QED BY <1>1, <2>1, <2>2, <2>3, <2>4, <2>5 DEF Writes, Reads, PeopleWrites
<1>3. Established BY <1>1, <1>2 DEF Init, Established, Stages
<1>4. Held BY <1>1, RequestAssumption DEF Init, Held
<1>5. Honest BY <1>2 DEF Init, Honest, AnswersAreTrue, Truthful
<1>6. QED BY <1>3, <1>4, <1>5 DEF IInv

------------------------------------------------------------------------------
\* What the body of a request has been read stays where the body is read.
LEMMA HeldKept ==
  ASSUME IInv, phase = "handling", stage \notin {"port", "recovery"},
         Proceed \/ \E status \in Statuses : Respond(status),
         UNCHANGED <<frames, bytes, delivered>>
  PROVE  Held'
<1>1. request' = request /\ (stage \in Bodied => stage' \in Bodied)
  <2>1. /\ request.route \in Writes \cup Reads
        /\ stage \in DOMAIN Order(request.route)
    BY RequestAssumption DEF IInv, Established, Stages
  <2>2. stage \in Bodied => Order(request.route)[stage] \in Bodied BY <2>1, Pipelines
  <2>3. QED BY <2>2 DEF Proceed, Respond
<1>2. QED BY <1>1 DEF IInv, Held

\* Nothing has been done before the port, so a 4xx of a check is true.
LEMMA HonestBeforePort ==
  ASSUME IInv, phase = "handling", stage \notin {"port", "recovery"},
         Proceed \/ \E status \in Statuses \ {200, 201} : Respond(status),
         UNCHANGED <<effect, disclosed>>
  PROVE  Honest'
<1>1. effect = "none" /\ disclosed = {} /\ responses = <<>> BY DEF IInv, Honest
<1>2. responses' = responses BY DEF Proceed, Respond
<1>3. CASE Proceed
  <2>1. request.route \in Writes \cup Reads /\ stage \in DOMAIN Order(request.route)
    BY RequestAssumption DEF IInv, Established, Stages
  <2>2. stage' # "recovery" BY <1>3, <2>1, Pipelines DEF Proceed
  <2>3. QED BY <1>1, <1>2, <1>3, <2>2 DEF Honest, AnswersAreTrue, Proceed
<1>4. CASE \E status \in Statuses \ {200, 201} : Respond(status)
  BY <1>1, <1>2, <1>4 DEF Honest, AnswersAreTrue, Respond, Truthful, Statuses
<1>5. QED BY <1>3, <1>4

\* A check that passes has established what it stands for.
LEMMA CheckKeeps == IInv /\ Check => IInv'
<1> SUFFICES ASSUME IInv, Check PROVE IInv' OBVIOUS
<1>1. /\ phase = "handling" /\ stage \notin {"port", "recovery"}
      /\ stage \notin {"authenticate", "binding", "authorize"}
  BY DEF Check, Checks
<1>2. Proceed \/ \E status \in Statuses \ {200, 201} : Respond(status)
  <2>1. Refusal(stage) \in Statuses \ {200, 201} BY DEF Refusal, Statuses
  <2>2. QED BY <2>1 DEF Check
<1>3. UNCHANGED work BY DEF Check
<1>4. Established'
  <2>1. CASE Proceed BY <1>1, <1>3, <2>1, PassingChecks DEF IInv, work
  <2>2. CASE \E status \in Statuses : Respond(status)
    BY <1>3, <2>2, EstablishedStutters DEF IInv, Respond, work
  <2>3. QED BY <1>2, <2>1, <2>2
<1>5. Held' BY <1>1, <1>2, <1>3, HeldKept DEF work
<1>6. Honest' BY <1>1, <1>2, <1>3, HonestBeforePort DEF work
<1>7. QED BY <1>4, <1>5, <1>6 DEF IInv

\* The principal is the one of the credential.
LEMMA AuthenticateKeeps == IInv /\ Authenticate => IInv'
<1> SUFFICES ASSUME IInv, Authenticate PROVE IInv' OBVIOUS
<1>1. /\ At("authenticate") /\ phase = "handling" /\ stage = "authenticate"
      /\ UNCHANGED <<frames, bytes, delivered, effect, disclosed>>
  BY DEF Authenticate, At
<1>2. CASE Proceed /\ principal' \in Principals
  <2>1. Established' BY <1>1, <1>2, PassingAuthentication DEF IInv
  <2>2. QED BY <1>1, <1>2, <2>1, HeldKept, HonestBeforePort DEF IInv
<1>3. CASE (\E status \in {401, 500} : Respond(status)) /\ UNCHANGED principal
  <2>1. \E status \in Statuses \ {200, 201} : Respond(status) BY <1>3 DEF Statuses
  <2>2. Established' BY <1>3, EstablishedStutters DEF IInv, Respond
  <2>3. QED BY <1>1, <2>1, <2>2, HeldKept, HonestBeforePort DEF IInv
<1>4. CASE phase' = "escaped" /\ UNCHANGED <<request, stage, reply, responses, principal>>
  <2>1. Established' BY <1>4, EstablishedStutters DEF IInv
  <2>2. Held' BY <1>1, <1>4 DEF IInv, Held
  <2>3. Honest' BY <1>1, <1>4 DEF IInv, Honest, AnswersAreTrue
  <2>4. QED BY <2>1, <2>2, <2>3 DEF IInv
<1>5. QED BY <1>2, <1>3, <1>4 DEF Authenticate

\* A request goes on only under the tenant and, for a mutation, the actor of its credential.
LEMMA BindKeeps == IInv /\ Bind => IInv'
<1> SUFFICES ASSUME IInv, Bind PROVE IInv' OBVIOUS
<1>1. phase = "handling" /\ stage = "binding" /\ UNCHANGED work BY DEF Bind, At
<1>2. Proceed \/ \E status \in Statuses \ {200, 201} : Respond(status)
  BY DEF Bind, Statuses
<1>3. Established'
  <2>1. CASE Proceed /\ principal.tenant = request.tenant
             /\ (request.route \in Mutations => principal.actor = request.actor)
    BY <1>1, <2>1, PassingChecks DEF IInv, work
  <2>2. CASE Respond(403) BY <1>1, <2>2, EstablishedStutters DEF IInv, Respond, work
  <2>3. QED BY <2>1, <2>2 DEF Bind
<1>4. QED BY <1>1, <1>2, <1>3, HeldKept, HonestBeforePort DEF IInv, work

\* The policy is asked about what the handler is about to do.
LEMMA AuthorizeKeeps == IInv /\ Authorize => IInv'
<1> SUFFICES ASSUME IInv, Authorize PROVE IInv' OBVIOUS
<1>1. phase = "handling" /\ stage = "authorize" /\ UNCHANGED work BY DEF Authorize, At
<1>2. Proceed \/ \E status \in Statuses \ {200, 201} : Respond(status)
  BY DEF Authorize, Statuses
<1>3. Established'
  <2>1. CASE Proceed /\ Evaluate(request, principal)
    BY <1>1, <2>1, PassingChecks DEF IInv, work
  <2>2. CASE Respond(403) \/ Respond(500)
    BY <1>1, <2>2, EstablishedStutters DEF IInv, Respond, work
  <2>3. QED BY <2>1, <2>2 DEF Authorize
<1>4. QED BY <1>1, <1>2, <1>3, HeldKept, HonestBeforePort DEF IInv, work

\* A frame is counted, and held only if both limits allow it.
LEMMA ReceiveFrameKeeps == IInv /\ ReceiveFrame => IInv'
<1> SUFFICES ASSUME IInv, ReceiveFrame PROVE IInv' OBVIOUS
<1>1. /\ phase = "handling" /\ stage = "body"
      /\ UNCHANGED <<principal, effect, disclosed>>
  BY DEF ReceiveFrame, At
<1>2. /\ request.route \in Writes \cup Reads /\ request.frames \in Seq(Nat)
      /\ stage \in DOMAIN Order(request.route)
  BY <1>1, RequestAssumption DEF IInv, Established, Stages
<1>3. request.route \in Writes /\ Order(request.route)["body"] \in Bodied
  BY <1>1, <1>2, Pipelines DEF Bodied
<1>4. \/ Proceed
      \/ \E status \in Statuses \ {200, 201} : Respond(status)
      \/ UNCHANGED <<request, stage, phase, reply, responses>>
  BY DEF ReceiveFrame, TooLarge, Statuses
<1>5. /\ request' = request
      /\ stage' \in Bodied
  BY <1>1, <1>3, <1>4 DEF Proceed, Respond, Bodied
<1>6. Established'
  <2>1. CASE Proceed BY <1>1, <2>1, PassingChecks DEF IInv
  <2>2. CASE UNCHANGED <<request, stage>> BY <1>1, <2>2, EstablishedStutters DEF IInv
  <2>3. QED BY <1>4, <2>1, <2>2 DEF Respond
<1>7. Held'
  <2>1. Len(request.frames) \in Nat /\ Size \in Nat
    <3>1. Len(request.frames) \in Nat BY <1>2
    <3>2. CASE delivered < Len(request.frames)
      <4>1. delivered + 1 \in 1..Len(request.frames) BY <3>1, <3>2 DEF IInv, Held
      <4>2. QED BY <1>2, <3>2, <4>1 DEF Size
    <3>3. CASE ~(delivered < Len(request.frames)) BY <3>3 DEF Size
    <3>4. QED BY <3>1, <3>2, <3>3
  <2>2. Delivered \in 0..Len(request.frames) BY <2>1 DEF Delivered, IInv, Held
  <2>3. frames' \in Nat /\ frames' <= MaxFrames
    BY RequestAssumption DEF ReceiveFrame, IInv, Held
  <2>4. bytes' \in Nat /\ bytes' <= MaxBytes
    BY <2>1, RequestAssumption DEF ReceiveFrame, IInv, Held
  <2>5. delivered' \in 0..Len(request.frames)
    BY <2>2 DEF ReceiveFrame, IInv, Held
  <2>6. QED BY <1>3, <1>5, <2>3, <2>4, <2>5 DEF Held
<1>8. Honest'
  <2>1. CASE UNCHANGED <<request, stage, phase, reply, responses>>
    BY <1>1, <2>1 DEF IInv, Honest, AnswersAreTrue
  <2>2. CASE Proceed \/ \E status \in Statuses \ {200, 201} : Respond(status)
    BY <1>1, <2>2, HonestBeforePort
  <2>3. QED BY <1>4, <2>1, <2>2
<1>9. QED BY <1>6, <1>7, <1>8 DEF IInv

\* The port answers with what it has done.
LEMMA WriteKeeps == IInv /\ Write => IInv'
<1> SUFFICES ASSUME IInv, Write PROVE IInv' OBVIOUS
<1>1. /\ phase = "handling" /\ stage = "port" /\ request.route \in Writes
      /\ UNCHANGED <<principal, frames, bytes, delivered, disclosed>>
  BY DEF Write, At
<1>2. /\ UNCHANGED <<request, stage, responses>> /\ phase' = "sending"
      /\ \/ reply' = 201 /\ effect' # "none"
         \/ reply' \in {400, 404, 409} /\ effect' = effect
         \/ reply' = 500
  BY DEF Write, Respond, Refusals
<1>3. effect = "none" /\ disclosed = {} /\ responses = <<>> BY <1>1 DEF IInv, Honest
<1>4. Established' BY <1>1, <1>2, EstablishedStutters DEF IInv
<1>5. Held' BY <1>1, <1>2 DEF IInv, Held
<1>6. Honest'
  <2>1. Truthful'
    <3>1. CASE reply' = 201 /\ effect' # "none" BY <3>1 DEF Truthful
    <3>2. CASE reply' \in {400, 404, 409} /\ effect' = effect
      BY <1>1, <1>3, <3>2 DEF Truthful
    <3>3. CASE reply' = 500 BY <3>3 DEF Truthful
    <3>4. QED BY <1>2, <3>1, <3>2, <3>3
  <2>2. responses' = <<>> BY <1>2, <1>3
  <2>3. AnswersAreTrue' BY <2>2 DEF AnswersAreTrue
  <2>4. QED BY <1>1, <1>2, <2>1, <2>2, <2>3 DEF Honest
<1>7. QED BY <1>4, <1>5, <1>6 DEF IInv

\* A read discloses only what was authorized.
LEMMA ReadKeeps == IInv /\ Read => IInv'
<1> SUFFICES ASSUME IInv, Read PROVE IInv' OBVIOUS
<1>1. /\ phase = "handling" /\ stage = "port"
      /\ UNCHANGED <<principal, frames, bytes, delivered, effect>>
  BY DEF Read, At
<1>2. request.fields # {} BY RequestAssumption DEF IInv, Established
<1>3. /\ UNCHANGED <<request, stage, responses>> /\ phase' = "sending"
      /\ \/ reply' = 200 /\ disclosed' # {}
         \/ reply' \in {400, 404, 409, 500} /\ disclosed' = disclosed
  BY <1>2 DEF Read, Respond
<1>4. effect = "none" /\ disclosed = {} /\ responses = <<>> BY <1>1 DEF IInv, Honest
<1>5. Established' BY <1>1, <1>3, EstablishedStutters DEF IInv
<1>6. Held' BY <1>1, <1>3 DEF IInv, Held
<1>7. Honest'
  <2>1. Truthful'
    <3>1. CASE reply' = 200 /\ disclosed' # {} BY <3>1 DEF Truthful
    <3>2. CASE reply' \in {400, 404, 409, 500} /\ disclosed' = disclosed
      BY <1>1, <1>4, <3>2 DEF Truthful
    <3>3. QED BY <1>3, <3>1, <3>2
  <2>2. responses' = <<>> BY <1>3, <1>4
  <2>3. AnswersAreTrue' BY <2>2 DEF AnswersAreTrue
  <2>4. QED BY <1>1, <1>3, <2>1, <2>2, <2>3 DEF Honest
<1>8. QED BY <1>5, <1>6, <1>7 DEF IInv

\* The status lines that may have left the server.
LEMMA Appending ==
  /\ \A a : Append(<<>>, a) = <<a>>
  /\ \A a \in Nat : Append(<<201>>, a) = <<201, a>>
<1>1. ASSUME NEW a \in Nat PROVE Append(<<201>>, a) = <<201, a>>
  <2>1. <<201>> \in Seq(Nat) OBVIOUS
  <2>2. Append(<<201>>, a) \in Seq(Nat) /\ <<201, a>> \in Seq(Nat) BY <2>1
  <2>3. Len(Append(<<201>>, a)) = 2 BY <2>1
  <2>4. \A i \in 1..2 : Append(<<201>>, a)[i] = <<201, a>>[i] BY <2>1
  <2>5. Len(<<201, a>>) = 2 OBVIOUS
  <2> DEFINE s == Append(<<201>>, a)
             t == <<201, a>>
  <2>6. s \in Seq(Nat) /\ t \in Seq(Nat) /\ Len(s) = 2 /\ Len(t) = 2
        /\ \A i \in 1..2 : s[i] = t[i]
    BY <2>2, <2>3, <2>4, <2>5
  <2> HIDE DEF s, t
  <2>7. s = t BY <2>6, SeqEqual
  <2>8. QED BY <2>7 DEF s, t
<1>2. QED BY <1>1

\* A broken 201 is the only response whose failure is answered, and it is true.
LEMMA RecoveryKeeps ==
  ASSUME IInv, request.route = "analysis_write", reply = 201,
         phase \in {"sending", "started"},
         UNCHANGED <<request, responses, work>>,
         reply' \in {400, 500}, phase' = "sending", stage' = "recovery"
  PROVE  IInv'
<1>1. responses \in {<<>>, <<201>>} /\ effect # "none"
  <2>1. CASE phase = "sending" BY <2>1 DEF IInv, Honest, Truthful
  <2>2. CASE phase = "started"
    <3>1. responses = <<201>> BY <2>2 DEF IInv, Honest
    <3>2. QED BY <3>1 DEF IInv, Honest, AnswersAreTrue
  <2>3. QED BY <2>1, <2>2
<1>2. stage \in {"port", "recovery"} BY <1>1 DEF IInv, Honest
<1>3. Established' BY <1>2 DEF IInv, Established, Stages, Vouched, Bound, Hire, Mutations, work
<1>4. Held' BY <1>2 DEF IInv, Held, Writes, Bodied, work
<1>5. Honest'
  <2>1. AnswersAreTrue'
    <3>1. CASE responses = <<>> BY <3>1 DEF AnswersAreTrue
    <3>2. CASE responses = <<201>>
      <4>1. Len(responses) = 1 /\ responses[1] = 201 BY <3>2
      <4>2. QED BY <1>1, <4>1 DEF AnswersAreTrue, work
    <3>3. QED BY <1>1, <3>1, <3>2
  <2>2. QED BY <1>1, <2>1 DEF Honest, work
<1>6. QED BY <1>3, <1>4, <1>5 DEF IInv

\* What each response says of what was done is true, or is said in recovery.
SaysTrue ==
  /\ \A i \in 1..Len(responses) :
       \/ responses[i] = reply /\ Truthful
       \/ responses[i] = 201 /\ effect # "none"
       \/ i = Len(responses) /\ responses[i] \in {400, 500} /\ stage = "recovery"
  /\ \/ Len(responses) <= 1
     \/ /\ request.route = "analysis_write" /\ stage = "recovery" /\ effect # "none"
        /\ responses \in {<<201, 400>>, <<201, 500>>}

LEMMA StatusesTrue == SaysTrue => AnswersAreTrue
<1> SUFFICES ASSUME SaysTrue PROVE AnswersAreTrue OBVIOUS
<1>1. ASSUME NEW i \in 1..Len(responses)
      PROVE  /\ responses[i] \in 400..499 =>
                  \/ effect = "none" /\ disclosed = {}
                  \/ stage = "recovery" /\ i = Len(responses)
             /\ responses[i] = 201 => effect # "none"
             /\ responses[i] = 200 => disclosed # {}
  <2>1. CASE responses[i] = reply /\ Truthful BY <2>1 DEF Truthful
  <2>2. CASE responses[i] = 201 /\ effect # "none" BY <2>2
  <2>3. CASE i = Len(responses) /\ responses[i] \in {400, 500} /\ stage = "recovery" BY <2>3
  <2>4. QED BY <2>1, <2>2, <2>3 DEF SaysTrue
<1>2. QED BY <1>1 DEF SaysTrue, AnswersAreTrue

\* A response that starts says what was done, or follows a broken 201.
LEMMA StartKeeps ==
  ASSUME IInv, phase = "sending", phase' = "started",
         responses' = Append(responses, reply), UNCHANGED <<request, stage, reply, work>>
  PROVE  Honest'
<1>1. CASE stage # "recovery" /\ responses = <<>> /\ Truthful
  <2>1. responses' = <<reply>> BY <1>1, Appending
  <2>2. Len(responses') = 1 /\ responses'[1] = reply BY <2>1
  <2>3. AnswersAreTrue'
    <3>1. \A i \in 1..Len(responses') : responses'[i] = reply' BY <2>2
    <3>2. Truthful' BY <1>1 DEF Truthful, work
    <3>3. SaysTrue' BY <2>2, <3>1, <3>2 DEF SaysTrue
    <3>4. QED BY <3>3, StatusesTrue, PTL
  <2>4. QED BY <1>1, <2>1, <2>3 DEF IInv, Honest, work
<1>2. CASE stage = "recovery" /\ responses \in {<<>>, <<201>>} /\ reply \in {400, 500}
  <2>1. request.route = "analysis_write" /\ effect # "none"
    BY <1>2, OnlyAnalysisRecovers DEF IInv, Honest
  <2>2. CASE responses = <<>>
    <3>1. responses' = <<reply>> BY <2>2, Appending
    <3>2. Len(responses') = 1 /\ responses'[1] = reply BY <3>1
    <3>3. SaysTrue' BY <1>2, <3>2 DEF SaysTrue, work
    <3>4. AnswersAreTrue' BY <3>3, StatusesTrue, PTL
    <3>5. QED BY <1>2, <3>1, <3>4 DEF IInv, Honest, work
  <2>3. CASE responses = <<201>>
    <3>1. responses' = <<201, reply>> BY <1>2, <2>3, Appending
    <3>2. responses' \in {<<201, 400>>, <<201, 500>>} BY <1>2, <3>1
    <3>3. AnswersAreTrue'
      <4>1. /\ Len(responses') = 2
            /\ \A i \in 1..Len(responses') :
                 responses'[i] = 201 \/ (i = Len(responses') /\ responses'[i] = reply)
        BY <3>1
      <4>2. SaysTrue' BY <1>2, <2>1, <3>2, <4>1 DEF SaysTrue, work
      <4>3. QED BY <4>2, StatusesTrue, PTL
    <3>4. QED BY <1>2, <3>2, <3>3 DEF IInv, Honest, work
  <2>4. QED BY <1>2, <2>2, <2>3
<1>3. QED BY <1>1, <1>2 DEF IInv, Honest

\* A send leaves what was done alone; only a broken 201 is followed by a response.
LEMMA SendKeeps == IInv /\ (SendStart \/ SendBody \/ Die) => IInv'
<1> SUFFICES ASSUME IInv, SendStart \/ SendBody \/ Die PROVE IInv' OBVIOUS
<1>1. UNCHANGED <<request, work>> BY DEF SendStart, SendBody, Die
<1>2. ASSUME UNCHANGED stage, Honest' PROVE IInv'
  <2>1. Established' BY <1>1, <1>2, EstablishedStutters DEF IInv, work
  <2>2. Held' BY <1>1, <1>2 DEF IInv, Held, work
  <2>3. QED BY <1>2, <2>1, <2>2 DEF IInv
<1>3. CASE SendStart /\ phase' = "started" /\ responses' = Append(responses, reply)
                     /\ UNCHANGED <<reply, stage>>
  BY <1>1, <1>2, <1>3, StartKeeps DEF SendStart
<1>4. CASE SendFails /\ UNCHANGED responses /\ phase \in {"sending", "started"}
  <2>1. CASE request.route = "analysis_write" /\ reply = 201
    BY <1>1, <1>4, <2>1, RecoveryKeeps DEF SendFails
  <2>2. CASE ~(request.route = "analysis_write" /\ reply = 201)
    <3>1. phase' = "unsent" /\ UNCHANGED <<reply, stage>> BY <1>4, <2>2 DEF SendFails
    <3>2. QED BY <1>1, <1>2, <1>4, <3>1 DEF Honest, AnswersAreTrue, IInv, work
  <2>3. QED BY <2>1, <2>2
<1>5. CASE phase' \in {"answered", "dead"} /\ UNCHANGED <<stage, responses>> /\ phase # "handling"
  BY <1>1, <1>2, <1>5 DEF Honest, AnswersAreTrue, IInv, work
<1>6. CASE Die
  <2>1. UNCHANGED <<stage, responses>> /\ phase' = "dead" BY <1>6 DEF Die
  <2>2. Honest' BY <1>1, <2>1 DEF Honest, AnswersAreTrue, IInv, work
  <2>3. QED BY <1>2, <2>1, <2>2
<1>7. QED BY <1>3, <1>4, <1>5, <1>6 DEF SendStart, SendBody

\* Every step of a request, and of its surroundings, keeps what it rests on.
LEMMA Keeps == IInv /\ [Next]_vars => IInv'
<1> SUFFICES ASSUME IInv, [Next]_vars PROVE IInv' OBVIOUS
<1>1. CASE Handle
  BY <1>1, CheckKeeps, AuthenticateKeeps, BindKeeps, ReceiveFrameKeeps, AuthorizeKeeps,
     WriteKeeps, ReadKeeps, SendKeeps DEF Handle
<1>2. CASE Die BY <1>2, SendKeeps
<1>3. CASE UNCHANGED vars
  <2>1. Established' BY <1>3, EstablishedStutters DEF vars, IInv
  <2>2. Held' BY <1>3 DEF vars, IInv, Held
  <2>3. AnswersAreTrue' BY <1>3 DEF vars, IInv, Honest, AnswersAreTrue
  <2>4. Honest' BY <1>3, <2>3 DEF vars, IInv, Honest, Truthful
  <2>5. QED BY <2>1, <2>2, <2>4 DEF IInv
<1>4. QED BY <1>1, <1>2, <1>3 DEF Next

\* Every check that has been passed established what it stands for, and what is held,
\* written, disclosed and answered agrees with the checks passed.
THEOREM Inductive == Spec => []IInv
BY Starts, Keeps, PTL DEF Spec

------------------------------------------------------------------------------
\* Whatever the requests, the principals and the failures, nothing is written and
\* nothing protected read for a caller who is not entitled to all of it.
THEOREM OnlyTheEntitled == Spec => []EffectsAuthorized
<1>1. IInv => EffectsAuthorized
  <2> SUFFICES ASSUME IInv, effect # "none" \/ disclosed # {}
               PROVE  Entitled /\ request.fields \subseteq request.policy.fields
    BY DEF EffectsAuthorized
  <2>1. /\ stage \in {"port", "recovery"} /\ request.route \in Writes \cup Reads
        /\ stage = "recovery" => request.route = "analysis_write"
    BY RequestAssumption, OnlyAnalysisRecovers DEF IInv, Honest, Established
  <2>2. principal # Nobody
    BY <2>1, RequestAssumption
       DEF IInv, Established, Vouched, Writes, Reads, PeopleWrites, Mutations
  <2>3. request.route \in Mutations => principal.actor = request.actor
    BY <2>1 DEF IInv, Established, Bound, Mutations, Hire
  <2>4. Evaluate(request, principal) BY <2>1 DEF IInv, Established
  <2>5. QED BY <2>2, <2>3, <2>4 DEF Entitled, Evaluate
<1>2. QED BY <1>1, Inductive, PTL

\* No frame of a body is taken from a caller who is unknown or of another tenant.
THEOREM BodiesHeldBack == Spec => []BodyHeldBack
<1>1. IInv => BodyHeldBack
  <2> SUFFICES ASSUME IInv, delivered > 0
               PROVE  /\ principal # Nobody
                      /\ request.route \in PeopleWrites =>
                           principal.tenant = request.tenant
    BY DEF BodyHeldBack
  <2>1. stage \in Bodied /\ request.route \in Writes BY DEF IInv, Held
  <2>2. stage \in Vouched(request.route)
    BY <2>1, OnlyAnalysisRecovers
       DEF IInv, Vouched, Bodied, Writes, PeopleWrites, Mutations, Hire
  <2>3. request.route \in PeopleWrites => stage \in Bound(request.route)
    BY <2>1, OnlyAnalysisRecovers DEF IInv, Bound, Bodied, PeopleWrites, Mutations, Hire
  <2>4. QED BY <2>2, <2>3, RequestAssumption DEF IInv, Established
<1>2. QED BY <1>1, Inductive, PTL

\* However a client splits its body, the handler stays within its limits.
THEOREM BodiesWithinLimits == Spec => []BodyWithinLimits
<1>1. IInv => BodyWithinLimits BY DEF IInv, Held, BodyWithinLimits
<1>2. QED BY <1>1, Inductive, PTL

\* What is answered is what was done, on every path of errors and broken sends.
THEOREM AnswersTrue == Spec => []AnswersAreTrue
<1>1. IInv => AnswersAreTrue BY DEF IInv, Honest
<1>2. QED BY <1>1, Inductive, PTL

------------------------------------------------------------------------------
\* What the invariant does not speak of.
Vocabulary ==
  /\ phase \in {"handling", "sending", "started"} \cup Ended
  /\ principal \in Principals \cup {Nobody}
  /\ effect \in {"none", "committed", "replayed"}
  /\ disclosed \subseteq request.fields
  /\ reply \in Statuses /\ responses \in Seq(Statuses)

\* A request arrives with nothing answered.
LEMMA VocabularyStarts == Init => Vocabulary
BY DEF Init, Vocabulary, Statuses

\* A check that passes or refuses changes nothing but the stage, or the reply.
LEMMA RefusalsTyped ==
  ASSUME Vocabulary, UNCHANGED <<request, responses, effect, disclosed>>,
         principal' \in Principals \cup {Nobody},
         \/ UNCHANGED <<phase, reply>>
         \/ phase' \in {"sending", "escaped"} /\ (reply' \in Statuses \/ reply' = reply)
  PROVE  Vocabulary'
BY DEF Vocabulary, Ended

\* Vocabulary is inductive.
LEMMA VocabularyKept == Vocabulary /\ [Next]_vars => Vocabulary'
<1> SUFFICES ASSUME Vocabulary, [Next]_vars PROVE Vocabulary'
  OBVIOUS
<1>1. CASE Check
  BY <1>1, RefusalsTyped DEF Check, Proceed, Respond, Refusal, Statuses, work, Vocabulary
<1>2. CASE Authenticate
  BY <1>2, RefusalsTyped DEF Authenticate, Proceed, Respond, Statuses, Vocabulary
<1>3. CASE Bind \/ Authorize
  BY <1>3, RefusalsTyped DEF Bind, Authorize, Proceed, Respond, Statuses, work, Vocabulary
<1>4. CASE ReceiveFrame
  <2>1. UNCHANGED <<request, responses, principal, effect, disclosed>>
    BY <1>4 DEF ReceiveFrame, Proceed, Respond
  <2>2. \/ UNCHANGED <<phase, reply>>
        \/ phase' = "sending" /\ reply' \in {400, 413}
    BY <1>4 DEF ReceiveFrame, Proceed, Respond, TooLarge
  <2>3. QED
    BY <2>1, <2>2, RefusalsTyped DEF Vocabulary, Statuses
<1>5. CASE Write
  BY <1>5 DEF Write, Respond, Refusals, Statuses, Vocabulary
<1>6. CASE Read
  BY <1>6 DEF Read, Respond, Statuses, Vocabulary
<1>7. CASE SendStart \/ SendBody \/ Die
  <2>1. UNCHANGED <<request, principal, effect, disclosed>>
    BY <1>7 DEF SendStart, SendBody, Die, work
  <2>2. /\ phase' \in {"sending", "started"} \cup Ended
        /\ reply' = reply \/ reply' \in {400, 500}
    BY <1>7 DEF SendStart, SendBody, Die, SendFails, Ended
  <2>3. responses' = responses \/ responses' = Append(responses, reply)
    BY <1>7 DEF SendStart, SendBody, Die
  <2>4. reply' \in Statuses
    BY <2>2 DEF Vocabulary, Statuses
  <2>5. responses' \in Seq(Statuses)
    <3>1. responses \in Seq(Statuses) /\ reply \in Statuses
      BY DEF Vocabulary
    <3>2. Append(responses, reply) \in Seq(Statuses)
      BY <3>1
    <3>3. QED
      BY <2>3, <3>1, <3>2
  <2>6. QED
    BY <2>1, <2>2, <2>4, <2>5 DEF Vocabulary
<1>8. CASE UNCHANGED vars
  BY <1>8 DEF vars, Vocabulary
<1>9. QED
  BY <1>1, <1>2, <1>3, <1>4, <1>5, <1>6, <1>7, <1>8 DEF Next, Handle

\* Every check a request meets is one of the checks, and every answer a status.
THEOREM Typing == Spec => []TypeOK
<1> DEFINE Others == {"authenticate", "binding", "body", "authorize", "port", "recovery"}
<1>1. IInv => stage \in Checks \cup Others
  <2> SUFFICES ASSUME IInv
               PROVE  stage \in Checks \cup Others
    OBVIOUS
  <2>1. stage \in Stages(request.route) /\ request.route \in Writes \cup Reads
    BY RequestAssumption DEF IInv, Established
  <2> USE DEF Stages, Checks, Order, Mutations, Hire
  <2>2. CASE request.route = "people"
    BY <2>1, <2>2 DEF WorkerReadOrder
  <2>3. CASE request.route = Hire
    BY <2>1, <2>3 DEF HireOrder
  <2>4. CASE request.route \in Mutations
    BY <2>1, <2>4 DEF MutationOrder
  <2>5. CASE request.route = "analysis_write"
    BY <2>1, <2>5 DEF AnalysisWriteOrder
  <2>6. CASE request.route = "analysis_read"
    BY <2>1, <2>6 DEF AnalysisReadOrder
  <2>7. QED
    BY <2>1, <2>2, <2>3, <2>4, <2>5, <2>6 DEF Writes, Reads, PeopleWrites
<1>2. IInv /\ Vocabulary => TypeOK
  BY <1>1 DEF IInv, Held, Vocabulary, TypeOK
<1>3. Spec => []Vocabulary
  BY VocabularyStarts, VocabularyKept, PTL DEF Spec
<1>4. QED
  BY <1>2, <1>3, Inductive, PTL
==============================================================================
