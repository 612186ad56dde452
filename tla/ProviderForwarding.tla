------------------------- MODULE ProviderForwarding -------------------------
(***************************************************************************)
(* The handlers of src/bin/hyperion_card_webhook.rs that forward an        *)
(* operator's request: to the gRPC gate (card authorizations and KYC       *)
(* sessions), to the card issuer (wallet provisioning, credentials,        *)
(* permanent cards) and to the payment bank (payments, card bindings,      *)
(* states).                                                                *)
(*                                                                         *)
(* The server keeps nothing between requests.  What a request creates at   *)
(* the other side (a payment, a card, a debit) exists whether or not the   *)
(* answer comes back, and a client that got an error may ask again: the    *)
(* request carries nothing that would tell a repetition from a new one.    *)
(*                                                                         *)
(* An operator named Bug... is a mutated form of the definition after it:  *)
(* no action uses it, the project file says which property rejects it.     *)
(***************************************************************************)
EXTENDS Integers, Sequences

CONSTANTS
    Clients,
    KindOf,       \* what each client asks for
    Authorized,   \* clients that send the operator's token
    TokenSet,     \* HYPERION_OPERATOR_API_TOKEN is configured
    MaxAttempts   \* bound: repetitions by one client

Kinds == {"authorize", "kyc_session", "apple", "credentials", "permanent", "payment",
          "sbp_payment", "payment_state", "binding", "binding_state"}

ASSUME KindsAssumption ==
    KindOf \in [Clients -> Kinds] /\ Authorized \subseteq Clients /\ TokenSet \in BOOLEAN
ASSUME AttemptsAssumption == MaxAttempts \in Nat

VARIABLES
    request,    \* request[c]: the handler of c's current request
    attempt,    \* attempt[c]: how often c has asked
    objects,    \* what exists at the other sides: [by, attempt, method]
    replies     \* answers given so far

pfVars == <<request, attempt, objects, replies>>

(* The upstream calls of a handler, in order.                              *)
Plan(kind) ==
    CASE kind = "sbp_payment" -> <<"Init", "GetQr">>
      [] kind = "payment" -> <<"Init">>
      [] kind = "payment_state" -> <<"GetState">>
      [] kind = "binding" -> <<"AddCard">>
      [] kind = "binding_state" -> <<"GetAddCardState">>
      [] OTHER -> <<kind>>

Creating == {"authorize", "permanent", "credentials", "Init", "AddCard"}
Issuer == {"apple", "credentials", "permanent"}

Here(c) == request[c]
MethodOf(c) == Plan(KindOf[c])[Here(c).step]

PFInit ==
    /\ request = [c \in Clients |-> [pc |-> "idle", step |-> 1, id |-> 0]]
    /\ attempt = [c \in Clients |-> 0]
    /\ objects = <<>>
    /\ replies = {}

(* A client asks, and asks again when it got an error.                     *)
Ask(c) ==
    /\ Here(c).pc \in {"idle", "error"} /\ attempt[c] < MaxAttempts
    /\ request' = [request EXCEPT ![c] = [pc |-> "arrived", step |-> 1, id |-> 0]]
    /\ attempt' = [attempt EXCEPT ![c] = @ + 1]
    /\ UNCHANGED <<objects, replies>>

Reply(c, pc, id, qr) ==
    /\ request' = [request EXCEPT ![c] = [pc |-> pc, step |-> 1, id |-> 0]]
    /\ replies' = replies \cup
           {[to |-> c, attempt |-> attempt[c], status |-> pc, id |-> id, qr |-> qr]}

CheckOperator(c) ==
    /\ Here(c).pc = "arrived"
    /\ \/ /\ ~TokenSet \/ c \in Authorized
          /\ request' = [request EXCEPT ![c].pc = "forward"]
          /\ UNCHANGED replies
       \/ /\ TokenSet /\ c \notin Authorized
          /\ Reply(c, "error", 0, 0)
    /\ UNCHANGED <<attempt, objects>>

(* The other side does what it is asked; the method may have created an    *)
(* object, whose number its answer carries.                                *)
Perform(c) ==
    IF MethodOf(c) \in Creating
    THEN objects' = Append(objects, [by |-> c, attempt |-> attempt[c], method |-> MethodOf(c)])
    ELSE UNCHANGED objects

(* What an answer carries: the number of what was created, or the payment  *)
(* a QR code is for.                                                       *)
Answer(c) ==
    IF MethodOf(c) = "GetQr" THEN Here(c).id
    ELSE IF MethodOf(c) \in Creating THEN Len(objects') ELSE 0

(* The answer of the last call, or of the first of two: a payment by QR    *)
(* code needs the id of the payment.                                       *)
Finished(c, answer) ==
    IF Here(c).step = 1 THEN Reply(c, "ok", answer, 0)
                        ELSE Reply(c, "ok", Here(c).id, answer)

Continue(c, answer) ==
    /\ request' = [request EXCEPT ![c].step = @ + 1, ![c].id = answer]
    /\ UNCHANGED replies

BugTake(c, answer) ==
    IF Here(c).step < Len(Plan(KindOf[c])) THEN Continue(c, answer) ELSE Finished(c, answer)

Take(c, answer) ==
    IF Here(c).step < Len(Plan(KindOf[c]))
    THEN IF answer = 0 THEN Reply(c, "error", 0, 0) ELSE Continue(c, answer)
    ELSE Finished(c, answer)

Accepted(c) ==
    /\ Here(c).pc = "forward"
    /\ Perform(c)
    /\ Take(c, Answer(c))
    /\ UNCHANGED attempt

(* An answer that refuses is an answer: status 200 for the client, with    *)
(* nothing in it.                                                          *)
Declined(c) ==
    /\ Here(c).pc = "forward"
    /\ Take(c, 0)
    /\ UNCHANGED <<attempt, objects>>

(* Not configured, not reached, or performed and its answer lost or not    *)
(* readable: an error.                                                     *)
Unanswered(c) ==
    /\ Here(c).pc = "forward"
    /\ Perform(c) \/ UNCHANGED objects
    /\ Reply(c, "error", 0, 0)
    /\ UNCHANGED attempt

(* forward_codego_api takes a body it cannot read for an empty one, and    *)
(* the status decides: accepted, without the card.                         *)
BodyLost(c) ==
    /\ Here(c).pc = "forward" /\ KindOf[c] \in Issuer
    /\ Perform(c)
    /\ Reply(c, "ok", 0, 0)
    /\ UNCHANGED attempt

PFNext ==
    \E c \in Clients :
        Ask(c) \/ CheckOperator(c) \/ Accepted(c) \/ Declined(c) \/ Unanswered(c) \/ BodyLost(c)

PFSpec == PFInit /\ [][PFNext]_pfVars

-----------------------------------------------------------------------------

(* A success that names an object names one that exists, was created by    *)
(* this very request; a payment by QR code never succeeds without a        *)
(* payment, and a code is for the payment in the reply.                    *)
SuccessIsTrue ==
    \A r \in replies : r.status = "ok" =>
        /\ r.id # 0 => /\ r.id \in DOMAIN objects
                       /\ objects[r.id].by = r.to /\ objects[r.id].attempt = r.attempt
        /\ KindOf[r.to] = "sbp_payment" => r.id # 0
        /\ r.qr \in {0, r.id}

(* Whatever was created is with its client, or on its way in the handler,  *)
(* or its request was answered with an error; only the issuer's cards may  *)
(* be missing behind a success.  And nobody creates anything without the   *)
(* operator's token where there is one.                                    *)
EffectsAreAccountedFor ==
    \A n \in DOMAIN objects :
        LET o == objects[n]
        IN  /\ TokenSet => o.by \in Authorized
            /\ \/ Here(o.by).pc = "forward" /\ Here(o.by).id = n
               \/ \E r \in replies :
                      /\ r.to = o.by /\ r.attempt = o.attempt
                      /\ \/ r.id = n \/ r.status = "error"
                         \/ r.status = "ok" /\ o.method \in Issuer

(* What clients are told and what exists at the other sides agree.         *)
AnswersMatchEffects == SuccessIsTrue /\ EffectsAreAccountedFor

=============================================================================
