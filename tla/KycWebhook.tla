----------------------------- MODULE KycWebhook -----------------------------
(***************************************************************************)
(* process_codego_webhook (src/bin/hyperion_card_webhook.rs) between the   *)
(* KYC provider and the gRPC gate.                                         *)
(*                                                                         *)
(* The provider posts its events, in any order and again and again until   *)
(* one is acknowledged; several handlers run at once.  A handler checks    *)
(* the signature, throws away what is not a final outcome, and calls the   *)
(* gate, which may fail before or after the gate set the level             *)
(* (process_kyc_approval of src/bin/hyperion_grpc_server.rs, in full in    *)
(* HyperionGate).  It keeps no record of the events it has seen:           *)
(* "duplicate" is always false.  Two handlers that have checked different  *)
(* events reach the gate in either order, so checking takes no step.       *)
(*                                                                         *)
(* An operator named Bug... is a mutated form of the definition after it:  *)
(* no action uses it, the project file says which property rejects it.     *)
(***************************************************************************)
EXTENDS Integers, FiniteSets

CONSTANTS
    Events,      \* [type, user, application, kyc]: envelopes with their body
    Malformed,   \* events without a usable externalUserId
    Hooks,       \* handlers of the webhook that run at a time
    SecretSet,   \* CODEGO_WEBHOOK_SECRET is configured
    Unsigned,    \* bodies that arrive without a valid signature
    MaxFaults    \* bound: failed calls to the gate and lost acknowledgements

ASSUME EventsAssumption ==
    /\ Malformed \subseteq Events /\ Unsigned \subseteq Events
    /\ SecretSet \in BOOLEAN /\ MaxFaults \in Nat

VARIABLES
    hook,        \* hook[h]: the handler's place and its event
    acked,       \* events the provider saw acknowledged: it stops sending them
    kycLevel,    \* what the gate holds for each user
    faults,      \* faults so far
    \* history
    decided,     \* decided[u]: decisions the gate took for u
    told         \* [event, processed]: the answers given with status 200

kwVars == <<hook, acked, kycLevel, faults, decided, told>>

Users == {e.user : e \in Events}
Idle == [pc |-> "idle", event |-> CHOOSE e \in Events : TRUE]

Approved(e) == "approved" \in {e.application, e.kyc}

(* Everything but an approval, a denial and a request for information is   *)
(* left for a later event.                                                 *)
BugFinal(e) == Approved(e)

Final(e) == Approved(e) \/ e.application \in {"denied", "needsinformation"}

KWInit ==
    /\ hook = [h \in Hooks |-> Idle]
    /\ acked = {}
    /\ kycLevel = [u \in Users |-> "basic"]
    /\ faults = 0
    /\ decided = [u \in Users |-> {}]
    /\ told = {}

(* At-least-once delivery of the provider.                                 *)
Post(h, e) ==
    /\ hook[h].pc = "idle" /\ e \notin acked
    /\ hook' = [hook EXCEPT ![h] = [pc |-> "received", event |-> e]]
    /\ UNCHANGED <<acked, kycLevel, faults, decided, told>>

Fault == faults < MaxFaults /\ faults' = faults + 1

(* The end of a handler: status 200, whose answer may get lost, or 400,    *)
(* 401 and 502, after which the provider tries again.                      *)
AnswerOk(h, processed) ==
    /\ hook' = [hook EXCEPT ![h] = Idle]
    /\ told' = told \cup {[event |-> hook[h].event, processed |-> processed]}
    /\ \/ acked' = acked \cup {hook[h].event} /\ UNCHANGED faults
       \/ Fault /\ UNCHANGED acked

AnswerError(h) ==
    /\ hook' = [hook EXCEPT ![h] = Idle]
    /\ UNCHANGED <<acked, told>>

Trusted(e) == ~SecretSet \/ e \notin Unsigned
Usable(e) == e.type = "user.updated" /\ e \notin Malformed
Outcome(e) == Trusted(e) /\ Usable(e) /\ Final(e)

Refuse(h) ==
    LET e == hook[h].event
    IN  /\ hook[h].pc = "received"
        /\ ~Trusted(e) \/ (e.type = "user.updated" /\ e \in Malformed)
        /\ AnswerError(h)
        /\ UNCHANGED <<kycLevel, faults, decided>>

Ignore(h) ==
    LET e == hook[h].event
    IN  /\ hook[h].pc = "received" /\ Trusted(e)
        /\ e.type # "user.updated" \/ (Usable(e) /\ ~Final(e))
        /\ AnswerOk(h, FALSE)
        /\ UNCHANGED <<kycLevel, decided>>

ToGate(h) ==
    hook[h].pc = "received" /\ Outcome(hook[h].event)

(* The gate takes the decision, then may still fail to store it or lose    *)
(* its answer.                                                             *)
Decide(h) ==
    LET e == hook[h].event
    IN  /\ kycLevel' = [kycLevel EXCEPT ![e.user] = IF Approved(e) THEN "verified" ELSE "basic"]
        /\ decided' = [decided EXCEPT ![e.user] = @ \cup {Approved(e)}]

BugCallGate(h) ==
    /\ ToGate(h)
    /\ Decide(h) \/ UNCHANGED <<kycLevel, decided>>
    /\ AnswerOk(h, TRUE)

CallGate(h) == ToGate(h) /\ Decide(h) /\ AnswerOk(h, TRUE)

(* Connection refused, call failed, or failed after the decision: 502.     *)
CallFails(h) ==
    /\ ToGate(h) /\ Fault
    /\ Decide(h) \/ UNCHANGED <<kycLevel, decided>>
    /\ AnswerError(h)

Hook(h) == Refuse(h) \/ Ignore(h) \/ CallGate(h) \/ CallFails(h)

KWNext == \E h \in Hooks : Hook(h) \/ \E e \in Events : Post(h, e)

(* Handlers run on, and the provider keeps posting a final outcome that is *)
(* not acknowledged.                                                       *)
KWFairness ==
    /\ \A h \in Hooks : WF_kwVars(Hook(h))
    /\ \A e \in Events : Outcome(e) => SF_kwVars(\E h \in Hooks : Post(h, e))

KWSpec == KWInit /\ [][KWNext]_kwVars

KWFairSpec == KWSpec /\ KWFairness

-----------------------------------------------------------------------------

(* The gate's level is always one of the decisions it took, and every      *)
(* decision is one the provider made for that user in a genuine event:     *)
(* nobody is verified without an approval.                                 *)
DecisionsAreGenuine ==
    \A u \in Users :
        /\ kycLevel[u] = "verified" => TRUE \in decided[u]
        /\ \A d \in decided[u] :
               \E e \in Events \ Malformed :
                   e.user = u /\ Trusted(e) /\ d = ("approved" \in {e.application, e.kyc})

(* An event is only acknowledged when nothing is lost: one that says it    *)
(* was processed was decided at the gate, one that says it was not had no  *)
(* final outcome; and all the decisions are genuine.                       *)
AcknowledgedIsDecided ==
    /\ DecisionsAreGenuine
    /\ \A t \in told :
        LET e == t.event
        IN  /\ t.processed => Approved(e) \in decided[e.user]
            /\ ~t.processed /\ e.type = "user.updated"
                   => "approved" \notin {e.application, e.kyc}
                      /\ e.application \notin {"denied", "needsinformation"}

(* Every genuine final outcome reaches the gate, although calls to it fail *)
(* and acknowledgements are lost, as long as that does not go on for ever. *)
OutcomeReachesGate ==
    \A e \in Events : Outcome(e) => <>(e \in acked /\ Approved(e) \in decided[e.user])

=============================================================================
