---------------------------- MODULE GovernedRequest ----------------------------
(***************************************************************************)
(* One HTTP request through the ASGI applications of services/people-api      *)
(* (PeopleAsgiApp, HireAcceptanceAsgiApp, PeopleMutationAsgiApp) and           *)
(* services/job-analysis-api (JobAnalysisAsgiApp), the application functions    *)
(* they call and the purpose-bound policy of packages/keyverse-adapter.       *)
(*                                                                           *)
(* Each application works through its checks in an order of its own and        *)
(* answers the first that fails.  The client, the identity service, the        *)
(* persistence port and the connection are the environment: a body arrives in  *)
(* frames and may never end, any call may fail, the process may die.          *)
(* What a port does inside its transaction is the subject of PeopleMutation    *)
(* and JobAnalysisPersistence.                                                *)
(***************************************************************************)
EXTENDS Naturals, Sequences, FiniteSets

CONSTANTS
  Requests,     \* what clients may send, with the policy their route is given
  Principals,   \* what the identity service may vouch for
  Nobody,
  MaxBytes,     \* _MAX_BODY_BYTES, _MAX_REQUEST_BODY_BYTES
  MaxFrames     \* _MAX_BODY_FRAMES

Hire == "candidate-worker-conversions"
Mutations == {"employment-records", "position-records", "assignment-records"}
PeopleWrites == Mutations \cup {Hire}
Writes == PeopleWrites \cup {"analysis_write"}
Reads == {"people", "analysis_read"}

ASSUME RequestAssumption ==
  /\ \A r \in Requests :
       /\ r.route \in Writes \cup Reads /\ r.fields # {} /\ r.frames \in Seq(Nat)
       /\ "purpose" \in r.defects => r.route \in Mutations
  /\ Nobody \notin Principals
  /\ MaxBytes \in Nat /\ MaxFrames \in Nat

VARIABLES
  request,      \* what the client sends
  stage,        \* the check the handler is at; recovery: a handler of its exceptions
  phase,        \* handling, sending, started; answered, unsent, escaped, dead
  principal,    \* whom the identity service vouched for
  frames,       \* body frames the handler has counted
  bytes,        \* body bytes the handler holds
  delivered,    \* body frames the client has delivered
  effect,       \* none, committed, replayed: what the write port did
  disclosed,    \* fields the read port returned for the response
  reply,        \* the status being sent
  responses     \* the statuses of the responses started

vars == <<request, stage, phase, principal, frames, bytes, delivered, effect, disclosed,
          reply, responses>>

work == <<principal, frames, bytes, delivered, effect, disclosed>>

Statuses == {200, 201, 400, 401, 403, 404, 405, 409, 413, 415, 500}
Ended == {"answered", "unsent", "escaped", "dead"}

------------------------------------------------------------------------------
(* Pipelines *)

\* The check that follows each check.
WorkerReadOrder ==
  [method |-> "path", path |-> "query", query |-> "authenticate",
   authenticate |-> "authorize", authorize |-> "port"]

\* Mutant: the hire body is read before its tenant is compared.
HireOrderBodyFirst ==
  [method |-> "path", path |-> "query", query |-> "authenticate",
   authenticate |-> "key", key |-> "media", media |-> "body", body |-> "binding",
   binding |-> "command", command |-> "authorize", authorize |-> "port"]

HireOrder ==
  [method |-> "path", path |-> "query", query |-> "authenticate",
   authenticate |-> "binding", binding |-> "key", key |-> "media", media |-> "body",
   body |-> "command", command |-> "authorize", authorize |-> "port"]

MutationOrder ==
  [method |-> "path", path |-> "headers", headers |-> "media",
   media |-> "authenticate", authenticate |-> "binding", binding |-> "body",
   body |-> "command", command |-> "authorize", authorize |-> "port"]

AnalysisWriteOrder ==
  [path |-> "method", method |-> "query", query |-> "authenticate",
   authenticate |-> "headers", headers |-> "key", key |-> "media", media |-> "body",
   body |-> "command", command |-> "authorize", authorize |-> "port"]

AnalysisReadOrder ==
  [path |-> "method", method |-> "query", query |-> "authenticate",
   authenticate |-> "headers", headers |-> "command", command |-> "authorize",
   authorize |-> "port"]

Order(route) ==
  CASE route = "people" -> WorkerReadOrder
    [] route = Hire -> HireOrder
    [] route \in Mutations -> MutationOrder
    [] route = "analysis_write" -> AnalysisWriteOrder
    [] route = "analysis_read" -> AnalysisReadOrder

FirstCheck(route) ==
  IF route \in {"analysis_write", "analysis_read"} THEN "path" ELSE "method"

\* The checks that only look at what the client sent.  query: identifiers, query
\* and purpose in the URL; command: the JSON body as a command (of
\* analysis_read: no query parameters).  The key of analysis_write need only be there:
\* what it says is looked at with the command, after the body.
Checks == {"method", "path", "query", "headers", "key", "media", "command"}

Refusal(check) ==
  CASE check = "method" -> 405
    [] check = "path" -> 404
    [] check = "media" -> 415
    [] OTHER -> 400

At(s) == phase = "handling" /\ stage = s

\* The check passes.
Proceed == stage' = Order(request.route)[stage] /\ UNCHANGED <<request, phase, reply, responses>>

\* The handler begins to send a response.
Respond(status) ==
  /\ phase' = "sending" /\ reply' = status
  /\ UNCHANGED <<request, stage, responses>>

Init ==
  /\ request \in Requests
  /\ stage = FirstCheck(request.route)
  /\ phase = "handling"
  /\ principal = Nobody
  /\ frames = 0 /\ bytes = 0 /\ delivered = 0
  /\ effect = "none" /\ disclosed = {}
  /\ reply = 500 /\ responses = <<>>

------------------------------------------------------------------------------
(* The request as sent, and its caller *)

Check ==
  /\ phase = "handling" /\ stage \in Checks
  /\ IF stage \in request.defects THEN Respond(Refusal(stage)) ELSE Proceed
  /\ UNCHANGED work

\* extract_bearer_token and TokenAuthenticator.authenticate.  PeopleAsgiApp alone
\* does not catch an unexpected error of the identity service.
Authenticate ==
  /\ At("authenticate")
  /\ \/ \E p \in Principals :
          /\ principal' = p
          /\ Proceed
     \/ /\ Respond(401)
        /\ UNCHANGED principal
     \/ /\ request.route # "people"
        /\ Respond(500)
        /\ UNCHANGED principal
     \/ /\ request.route = "people"
        /\ phase' = "escaped"
        /\ UNCHANGED <<request, stage, reply, responses, principal>>
  /\ UNCHANGED <<frames, bytes, delivered, effect, disclosed>>

\* The claims of the request are compared with the credential.
Bind ==
  /\ At("binding")
  /\ IF /\ principal.tenant = request.tenant
        /\ request.route \in Mutations => principal.actor = request.actor
     THEN Proceed
     ELSE Respond(403)
  /\ UNCHANGED work

------------------------------------------------------------------------------
(* The body *)

\* A client that delivers no more frames as announced is either gone, or goes
\* on with empty ones.
Size == IF delivered < Len(request.frames) THEN request.frames[delivered + 1] ELSE 0
LastFrame == delivered + 1 = Len(request.frames) /\ request.ending = "complete"
Gone == delivered = Len(request.frames) /\ request.ending = "lost"

\* Mutant: the client is asked for a frame past the last one it announced.
DeliveredPastEnd == delivered + 1

Delivered == IF delivered < Len(request.frames) THEN delivered + 1 ELSE delivered

TooLarge == IF request.route = "analysis_write" THEN 400 ELSE 413

\* Mutant: the size is checked before the frame is added.
ReceiveFrameLate ==
  /\ At("body")
  /\ IF request.route \in PeopleWrites /\ frames >= MaxFrames
     THEN Respond(413) /\ UNCHANGED work
     ELSE /\ IF bytes > MaxBytes THEN Respond(TooLarge)
             ELSE IF Gone THEN Respond(400)
             ELSE IF LastFrame
             THEN IF bytes + Size = 0 THEN Respond(400) ELSE Proceed
             ELSE UNCHANGED <<request, stage, phase, reply, responses>>
          /\ bytes' = bytes + Size
          /\ frames' = IF request.route \in PeopleWrites THEN frames + 1 ELSE frames
          /\ delivered' = Delivered
          /\ UNCHANGED <<principal, effect, disclosed>>

\* Mutant: frames are not counted.
ReceiveFrameUncounted ==
  /\ At("body")
  /\ IF Gone THEN Respond(400) /\ UNCHANGED <<bytes, delivered>>
     ELSE IF bytes + Size > MaxBytes
     THEN Respond(TooLarge) /\ UNCHANGED bytes /\ delivered' = Delivered
     ELSE /\ IF LastFrame
             THEN IF bytes + Size = 0 THEN Respond(400) ELSE Proceed
             ELSE UNCHANGED <<request, stage, phase, reply, responses>>
          /\ bytes' = bytes + Size
          /\ delivered' = Delivered
  /\ UNCHANGED <<principal, frames, effect, disclosed>>

\* _read_json_object, one message at a time.  JobAnalysisAsgiApp counts no frames.
ReceiveFrame ==
  /\ At("body")
  /\ IF request.route \in PeopleWrites /\ frames >= MaxFrames
     THEN Respond(413) /\ UNCHANGED <<frames, bytes, delivered>>
     ELSE /\ frames' = IF request.route \in PeopleWrites THEN frames + 1 ELSE frames
          /\ delivered' = Delivered
          /\ IF Gone THEN Respond(400) /\ UNCHANGED bytes
             ELSE IF bytes + Size > MaxBytes THEN Respond(TooLarge) /\ UNCHANGED bytes
             ELSE /\ bytes' = bytes + Size
                  /\ IF ~LastFrame THEN UNCHANGED <<request, stage, phase, reply, responses>>
                     ELSE IF bytes' = 0 THEN Respond(400)
                     ELSE Proceed
  /\ UNCHANGED <<principal, effect, disclosed>>

------------------------------------------------------------------------------
(* packages/keyverse-adapter *)

\* resource_kind and operation_code, which the application functions fix.
Resource(route) ==
  CASE route = "people" -> "person_record"
    [] route = Hire -> "selection_decision"
    [] route = "employment-records" -> "employment_record"
    [] route = "position-records" -> "position_record"
    [] route = "assignment-records" -> "assignment_record"
    [] OTHER -> "job_analysis_snapshot"

Operation(route) ==
  CASE route \in Reads -> "read_record"
    [] route = Hire -> "materialize_worker"
    [] route \in Mutations -> "create_record"
    [] OTHER -> "write_record"

\* Mutant: the tenant of the actor is not compared with that of the policy.
EvaluateForAnyActor(r, p) ==
  /\ r.tenant = r.policy.tenant
  /\ Resource(r.route) = r.policy.resource
  /\ r.purpose = r.policy.purpose
  /\ Operation(r.route) = r.policy.operation
  /\ r.policy.scope \in p.scopes
  /\ r.fields \subseteq r.policy.fields

\* evaluate_purpose_bound_access.  The tenant of the request context and of the
\* resource are both the one the URL or the header names.
Evaluate(r, p) ==
  /\ r.tenant = r.policy.tenant /\ p.tenant = r.policy.tenant
  /\ Resource(r.route) = r.policy.resource
  /\ r.purpose = r.policy.purpose
  /\ Operation(r.route) = r.policy.operation
  /\ r.policy.scope \in p.scopes
  /\ r.fields \subseteq r.policy.fields

\* require_purpose_bound_access.  The mutation routes let purposes through ("hr__staffing")
\* that PurposeBoundAccessRequest refuses to be made with: an error nobody expects.  Every
\* other route asks for what it asks for.
Authorize ==
  /\ At("authorize")
  /\ IF "purpose" \in request.defects THEN Respond(500)
     ELSE IF Evaluate(request, principal) THEN Proceed
     ELSE Respond(403)
  /\ UNCHANGED work

------------------------------------------------------------------------------
(* The ports *)

\* not found, broken integrity or a key bound to another command.
Refusals(route) == IF route = "analysis_write" THEN {400, 409} ELSE {404, 409}

\* Mutant: an error of the driver is reported as an integrity conflict.
WriteMisreported ==
  /\ At("port") /\ request.route \in Writes
  /\ \/ /\ effect' \in {"committed", "replayed"}
        /\ Respond(201)
     \/ /\ \E status \in Refusals(request.route) : Respond(status)
        /\ effect' \in {"none", "committed"}
  /\ UNCHANGED <<principal, frames, bytes, delivered, disclosed>>

\* A port that raises one of its own errors has rolled back; any other error may
\* come after the commit.
Write ==
  /\ At("port") /\ request.route \in Writes
  /\ \/ /\ effect' \in {"committed", "replayed"}
        /\ Respond(201)
     \/ /\ \E status \in Refusals(request.route) : Respond(status)
        /\ UNCHANGED effect
     \/ /\ effect' \in {"none", "committed"}
        /\ Respond(500)
  /\ UNCHANGED <<principal, frames, bytes, delivered, disclosed>>

Read ==
  /\ At("port") /\ request.route \in Reads
  /\ \/ /\ disclosed' = request.fields
        /\ Respond(200)
     \/ /\ UNCHANGED disclosed
        /\ \E status \in {404, IF request.route = "people" THEN 409 ELSE 400, 500} :
             Respond(status)
  /\ UNCHANGED <<principal, frames, bytes, delivered, effect>>

------------------------------------------------------------------------------
(* The response *)

\* The 201 of a job analysis is sent within the try whose last handlers answer an
\* exception of the server: 400 to a ValueError or TypeError, 500 to any other.  Every
\* other response is sent outside of one.
SendFails ==
  IF request.route = "analysis_write" /\ reply = 201
  THEN reply' \in {400, 500} /\ phase' = "sending" /\ stage' = "recovery"
  ELSE phase' = "unsent" /\ UNCHANGED <<reply, stage>>

SendStart ==
  /\ phase = "sending"
  /\ \/ /\ phase' = "started"
        /\ responses' = Append(responses, reply)
        /\ UNCHANGED <<reply, stage>>
     \/ /\ SendFails
        /\ UNCHANGED responses
  /\ UNCHANGED <<request, work>>

SendBody ==
  /\ phase = "started"
  /\ \/ phase' = "answered" /\ UNCHANGED <<reply, stage>>
     \/ SendFails
  /\ UNCHANGED <<request, responses, work>>

\* The process dies; what it committed stays.
Die ==
  /\ phase \notin Ended
  /\ phase' = "dead"
  /\ UNCHANGED <<request, stage, reply, responses, work>>

Handle ==
  \/ Check \/ Authenticate \/ Bind \/ ReceiveFrame \/ Authorize \/ Write \/ Read
  \/ SendStart \/ SendBody

Next == Handle \/ Die

Spec == Init /\ [][Next]_vars

\* The event loop resumes the handler whenever what it awaits has happened, and
\* the server, the client and the identity service let every await return: with
\* a frame, with an error, or with a notice that the client is gone.
FairSpec == Spec /\ WF_vars(Handle)

------------------------------------------------------------------------------
(* Properties *)

TypeOK ==
  /\ stage \in Checks \cup {"authenticate", "binding", "body", "authorize", "port", "recovery"}
  /\ phase \in {"handling", "sending", "started"} \cup Ended
  /\ principal \in Principals \cup {Nobody}
  /\ frames \in Nat /\ bytes \in Nat /\ delivered \in 0..Len(request.frames)
  /\ effect \in {"none", "committed", "replayed"}
  /\ disclosed \subseteq request.fields
  /\ reply \in Statuses /\ responses \in Seq(Statuses)

\* The caller is vouched for and belongs to the tenant it names and the policy is
\* of, and the policy is about this purpose, resource and operation.
Entitled ==
  /\ principal # Nobody
  /\ principal.tenant = request.tenant /\ request.policy.tenant = request.tenant
  /\ request.policy.scope \in principal.scopes
  /\ request.policy.purpose = request.purpose
  /\ request.policy.resource = Resource(request.route)
  /\ request.policy.operation = Operation(request.route)
  /\ request.route \in Mutations => principal.actor = request.actor

\* Nothing is written and no protected value read for a caller who is not entitled
\* to all of it ("never reads protected worker values after a denied authorization
\* decision", services/people-api/README.md), in whatever order a route checks.
EffectsAuthorized ==
  effect # "none" \/ disclosed # {} =>
    Entitled /\ request.fields \subseteq request.policy.fields

\* "Authentication and tenant binding occur before request-body parsing" for the
\* People writes; the job analysis route takes no frame from an unknown caller.
BodyHeldBack ==
  delivered > 0 =>
    /\ principal # Nobody
    /\ request.route \in PeopleWrites => principal.tenant = request.tenant

\* No client makes a handler hold more than its limits, however it splits a body
\* ("64 KiB cumulative request-body limit, at most 1024 ASGI request frames").
BodyWithinLimits == bytes <= MaxBytes /\ frames <= MaxFrames

\* A 4xx means that nothing was changed and a 2xx that it was, on every path on
\* which a commit, an error and a lost connection can come together, and a response is
\* started once.  The one exception is the answer to the broken 201 of a job analysis: it
\* may say 400, and follow the 201, of what did happen.
AnswersAreTrue ==
  /\ \A i \in 1..Len(responses) :
       /\ responses[i] \in 400..499 =>
            \/ effect = "none" /\ disclosed = {}
            \/ stage = "recovery" /\ i = Len(responses)
       /\ responses[i] = 201 => effect # "none"
       /\ responses[i] = 200 => disclosed # {}
  /\ \/ Len(responses) <= 1
     \/ /\ request.route = "analysis_write" /\ stage = "recovery" /\ effect # "none"
        /\ responses \in {<<201, 400>>, <<201, 500>>}

\* Every request comes to an end, whatever the client sends: a People route bounds
\* the frames it waits for.  The job analysis route relies on the body's end.
EveryRequestEnds ==
  request.route # "analysis_write" \/ request.ending # "endless" => <>(phase \in Ended)

\* "Authentication, authorization, missing-record, integrity-conflict, and
\* unexpected-backend failures are mapped to stable non-disclosing responses"
\* (services/people-api/README.md): no exception escapes before a response.
FailuresMapped == phase # "escaped"
==============================================================================
