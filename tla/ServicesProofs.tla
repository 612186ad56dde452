--------------------------- MODULE ServicesProofs ---------------------------
(***************************************************************************)
(* Proofs about the programs around the gate, each by itself and for any   *)
(* number of handlers, clients, events, cards and trades: the KYC webhook, *)
(* the forwarding handlers, the live paper-trading session, the card       *)
(* simulation.                                                             *)
(***************************************************************************)
EXTENDS KycWebhook, ProviderForwarding, PaperTrading, CardSimulation, SumLemmas,
        SequenceTheorems

-----------------------------------------------------------------------------
(* The KYC webhook.                                                        *)

KWType ==
    /\ DOMAIN hook = Hooks
    /\ \A h \in Hooks : hook[h].pc = "received" => hook[h].event \in Events
    /\ kycLevel \in [Users -> {"basic", "verified"}]
    /\ decided \in [Users -> SUBSET BOOLEAN]
    /\ \A t \in told : t.event \in Events

KWInv == KWType /\ AcknowledgedIsDecided

(* A decision the provider made for u in a genuine event.                  *)
Genuine(u, d) ==
    \E e \in Events \ Malformed :
        e.user = u /\ Trusted(e) /\ d = ("approved" \in {e.application, e.kyc})

(* A decision at the gate is one of a genuine event, and only adds to what *)
(* was decided.                                                            *)
LEMMA DecideKeeps ==
    ASSUME KWInv, NEW h \in Hooks, ToGate(h), Decide(h)
    PROVE  /\ kycLevel' \in [Users -> {"basic", "verified"}]
           /\ decided' \in [Users -> SUBSET BOOLEAN]
           /\ DecisionsAreGenuine'
           /\ \A u \in Users : decided[u] \subseteq decided'[u]
           /\ Approved(hook[h].event) \in decided'[hook[h].event.user]
  <1> DEFINE e == hook[h].event
  <1>1. e \in Events /\ Trusted(e) /\ e \notin Malformed /\ e.user \in Users
    BY DEF KWInv, KWType, ToGate, Outcome, Usable, Users
  <1>2. Approved(e) \in BOOLEAN /\ Approved(e) = ("approved" \in {e.application, e.kyc})
    BY DEF Approved
  <1>3. /\ kycLevel' = [kycLevel EXCEPT ![e.user] = IF Approved(e) THEN "verified" ELSE "basic"]
        /\ decided' = [decided EXCEPT ![e.user] = decided[e.user] \cup {Approved(e)}]
    BY DEF Decide
  <1> HIDE DEF e
  <1>4. /\ kycLevel' \in [Users -> {"basic", "verified"}]
        /\ decided' \in [Users -> SUBSET BOOLEAN]
        /\ \A u \in Users : decided'[u] = IF u = e.user THEN decided[u] \cup {Approved(e)}
                                                        ELSE decided[u]
        /\ \A u \in Users : u # e.user => kycLevel'[u] = kycLevel[u]
        /\ kycLevel'[e.user] = "verified" => Approved(e)
    BY <1>1, <1>2, <1>3 DEF KWInv, KWType
  <1>5. Genuine(e.user, Approved(e))
    BY <1>1, <1>2 DEF Genuine
  <1>6. ASSUME NEW u \in Users
        PROVE  /\ kycLevel'[u] = "verified" => TRUE \in decided'[u]
               /\ \A d \in decided'[u] : Genuine(u, d)
    <2>1. kycLevel[u] = "verified" => TRUE \in decided[u]
      BY DEF KWInv, AcknowledgedIsDecided, DecisionsAreGenuine
    <2>2. \A d \in decided[u] : Genuine(u, d)
      BY DEF KWInv, AcknowledgedIsDecided, DecisionsAreGenuine, Genuine
    <2>3. CASE u = e.user
      <3>1. \A d \in decided'[u] : Genuine(u, d)
        BY <1>4, <1>5, <2>2, <2>3
      <3>2. kycLevel'[u] = "verified" => TRUE \in decided'[u]
        BY <1>2, <1>4, <2>1, <2>3
      <3> QED
        BY <3>1, <3>2
    <2>4. CASE u # e.user
      BY <1>4, <2>1, <2>2, <2>4
    <2> QED
      BY <2>3, <2>4
  <1>7. DecisionsAreGenuine'
    BY <1>6 DEF DecisionsAreGenuine, Genuine, Trusted
  <1> QED
    BY <1>1, <1>4, <1>7 DEF e

(* What an answer says stays true when more is decided.                    *)
AnswerIsTrue(t) ==
    LET e == t.event
    IN  /\ t.processed => Approved(e) \in decided[e.user]
        /\ ~t.processed /\ e.type = "user.updated"
               => "approved" \notin {e.application, e.kyc}
                  /\ e.application \notin {"denied", "needsinformation"}

(* Every step of every handler and of the provider keeps the invariant.    *)
LEMMA KWStepKeeps == KWInv /\ [KWNext]_kwVars => KWInv'
  <1> SUFFICES ASSUME KWInv, [KWNext]_kwVars PROVE KWInv'
    OBVIOUS
  <1>1. \A t \in told : t.event \in Events /\ t.event.user \in Users /\ AnswerIsTrue(t)
    BY DEF KWInv, KWType, AcknowledgedIsDecided, AnswerIsTrue, Users
  <1>2. ASSUME \A u \in Users : decided[u] \subseteq decided'[u]
        PROVE  \A t \in told : AnswerIsTrue(t)'
    BY <1>1, <1>2 DEF AnswerIsTrue, Approved
  <1>3. ASSUME KWType', DecisionsAreGenuine', \A t \in told' : AnswerIsTrue(t)'
        PROVE  KWInv'
    BY <1>3 DEF KWInv, AcknowledgedIsDecided, AnswerIsTrue
  <1>4. ASSUME NEW h \in Hooks, NEW p \in BOOLEAN, AnswerOk(h, p)
        PROVE  /\ DOMAIN hook' = Hooks
               /\ \A q \in Hooks : hook'[q].pc = "received" => hook'[q].event \in Events
               /\ told' = told \cup {[event |-> hook[h].event, processed |-> p]}
    BY <1>4 DEF AnswerOk, Idle, KWInv, KWType
  <1>5. ASSUME NEW h \in Hooks, AnswerError(h)
        PROVE  /\ DOMAIN hook' = Hooks
               /\ \A q \in Hooks : hook'[q].pc = "received" => hook'[q].event \in Events
               /\ told' = told
    BY <1>5 DEF AnswerError, Idle, KWInv, KWType
  <1>6. ASSUME UNCHANGED <<kycLevel, decided>>
        PROVE  /\ DecisionsAreGenuine'
               /\ \A u \in Users : decided[u] \subseteq decided'[u]
               /\ kycLevel' \in [Users -> {"basic", "verified"}]
               /\ decided' \in [Users -> SUBSET BOOLEAN]
    BY <1>6 DEF KWInv, KWType, AcknowledgedIsDecided, DecisionsAreGenuine, Trusted
  <1>7. CASE UNCHANGED kwVars
    BY <1>1, <1>2, <1>3, <1>6, <1>7 DEF kwVars, KWInv, KWType
  <1>8. ASSUME NEW h \in Hooks, NEW e \in Events, Post(h, e)
        PROVE  KWInv'
    <2>1. KWType'
      BY <1>8 DEF Post, KWInv, KWType
    <2> QED
      BY <1>1, <1>2, <1>3, <1>6, <1>8, <2>1 DEF Post
  <1>9. ASSUME NEW h \in Hooks, Refuse(h)
        PROVE  KWInv'
    BY <1>1, <1>2, <1>3, <1>5, <1>6, <1>9 DEF Refuse, KWInv, KWType
  <1>10. ASSUME NEW h \in Hooks, Ignore(h)
         PROVE  KWInv'
    <2>0. PICK t : t = [event |-> hook[h].event, processed |-> FALSE]
      OBVIOUS
    <2>1. hook[h].event \in Events
      BY <1>10 DEF Ignore, KWInv, KWType
    <2>2. AnswerIsTrue(t)'
      BY <1>10, <2>0 DEF Ignore, AnswerIsTrue, Usable, Final, Approved
    <2>3. told' = told \cup {t} /\ UNCHANGED <<kycLevel, decided>>
      BY <1>4, <1>10, <2>0 DEF Ignore
    <2>4. KWType'
      <3>1. \A x \in told' : x.event \in Events
        BY <1>1, <2>0, <2>1, <2>3
      <3>2. /\ DOMAIN hook' = Hooks
            /\ \A q \in Hooks : hook'[q].pc = "received" => hook'[q].event \in Events
        BY <1>4, <1>10 DEF Ignore
      <3>3. /\ kycLevel' \in [Users -> {"basic", "verified"}]
            /\ decided' \in [Users -> SUBSET BOOLEAN]
        BY <1>6, <2>3
      <3> QED
        BY <3>1, <3>2, <3>3 DEF KWType
    <2> QED
      BY <1>2, <1>3, <1>6, <2>2, <2>3, <2>4
  <1>11. ASSUME NEW h \in Hooks, CallGate(h)
         PROVE  KWInv'
    <2>0. PICK t : t = [event |-> hook[h].event, processed |-> TRUE]
      OBVIOUS
    <2>1. hook[h].event \in Events
      BY <1>11 DEF CallGate, ToGate, KWInv, KWType
    <2>2. AnswerIsTrue(t)'
      BY <1>11, <2>0, DecideKeeps DEF CallGate, AnswerIsTrue, Approved
    <2>3. told' = told \cup {t}
      BY <1>4, <1>11, <2>0 DEF CallGate
    <2>4. KWType'
      <3>1. \A x \in told' : x.event \in Events
        BY <1>1, <2>0, <2>1, <2>3
      <3>2. /\ DOMAIN hook' = Hooks
            /\ \A q \in Hooks : hook'[q].pc = "received" => hook'[q].event \in Events
        BY <1>4, <1>11 DEF CallGate
      <3>3. /\ kycLevel' \in [Users -> {"basic", "verified"}]
            /\ decided' \in [Users -> SUBSET BOOLEAN]
        BY <1>11, DecideKeeps DEF CallGate
      <3> QED
        BY <3>1, <3>2, <3>3 DEF KWType
    <2> QED
      BY <1>2, <1>3, <1>11, <2>2, <2>3, <2>4, DecideKeeps DEF CallGate
  <1>12. ASSUME NEW h \in Hooks, CallFails(h)
         PROVE  KWInv'
    <2>1. /\ DecisionsAreGenuine'
          /\ \A u \in Users : decided[u] \subseteq decided'[u]
          /\ kycLevel' \in [Users -> {"basic", "verified"}]
          /\ decided' \in [Users -> SUBSET BOOLEAN]
      BY <1>6, <1>12, DecideKeeps DEF CallFails
    <2>2. told' = told /\ KWType'
      BY <1>1, <1>5, <1>12, <2>1 DEF CallFails, KWType
    <2> QED
      BY <1>2, <1>3, <2>1, <2>2
  <1> QED
    BY <1>7, <1>8, <1>9, <1>10, <1>11, <1>12 DEF KWNext, Hook

(* An answer that says an event was processed means the gate decided it, a *)
(* skipped event had no final outcome, and nobody is verified without a    *)
(* genuine approval: for any events, in any order, any number of handlers  *)
(* and faults, with and without a configured secret.                       *)
THEOREM AcknowledgedIsDecidedHolds == KWSpec => []AcknowledgedIsDecided
  <1>1. KWInit => KWInv
    BY DEF KWInit, KWInv, KWType, AcknowledgedIsDecided, DecisionsAreGenuine, Idle
  <1> QED
    BY <1>1, KWStepKeeps, PTL DEF KWSpec, KWInv

-----------------------------------------------------------------------------
(* The forwarding handlers.                                                *)

Objects == [by : Clients, attempt : Nat, method : {"Init", "GetQr", "GetState", "AddCard", "GetAddCardState"} \cup Kinds]

(* A handler between its two calls has the number of the payment that its  *)
(* own request created.                                                    *)
Handling(c) ==
    /\ Here(c).step = 1 => Here(c).id = 0
    /\ Here(c).step = 2 =>
          /\ KindOf[c] = "sbp_payment"
          /\ Here(c).id \in DOMAIN objects
          /\ objects[Here(c).id].by = c /\ objects[Here(c).id].attempt = attempt[c]
          /\ objects[Here(c).id].method = "Init"
    /\ Here(c).pc = "forward" /\ TokenSet => c \in Authorized
    /\ Here(c).pc # "forward" => Here(c).step = 1

PFType ==
    /\ request \in [Clients -> [pc : {"idle", "arrived", "forward", "ok", "error"},
                                step : {1, 2}, id : Nat]]
    /\ attempt \in [Clients -> Nat]
    /\ objects \in Seq(Objects)
    /\ \A r \in replies : r.to \in Clients

PFInv == PFType /\ (\A c \in Clients : Handling(c)) /\ AnswersMatchEffects

(* The calls of a handler: one, or two for a payment by QR code.           *)
LEMMA PlanShape ==
    ASSUME NEW kind \in Kinds
    PROVE  /\ kind = "sbp_payment" => Plan(kind) = <<"Init", "GetQr">>
           /\ kind # "sbp_payment" =>
                 /\ Len(Plan(kind)) = 1
                 /\ Plan(kind)[1] \in {"Init", "GetState", "AddCard", "GetAddCardState"} \cup Kinds
           /\ kind \in Issuer => Plan(kind) = <<kind>>
  BY DEF Plan, Kinds, Issuer

(* What request c makes of the objects: nothing, or one more.              *)
Made(c) == [by |-> c, attempt |-> attempt[c], method |-> MethodOf(c)]
Grown(c) ==
    \/ objects' = objects
    \/ objects' = Append(objects, Made(c)) /\ Here(c).pc = "forward"

(* The first call of a handler names a method; nothing is lost of what     *)
(* there is, and what is new is what the handler made.                     *)
LEMMA GrownObjects ==
    ASSUME PFInv, NEW c \in Clients, Grown(c)
    PROVE  /\ objects' \in Seq(Objects)
           /\ DOMAIN objects \subseteq DOMAIN objects'
           /\ \A n \in DOMAIN objects : objects'[n] = objects[n]
           /\ \A n \in DOMAIN objects' \ DOMAIN objects :
                 /\ n = Len(objects') /\ objects'[n] = Made(c) /\ objects' # objects
                 /\ Here(c).pc = "forward"
           /\ \A n \in DOMAIN objects' : n \in Nat \ {0} /\ objects'[n] \in Objects
  <1> USE DEF PFInv, PFType
  <1>1. MethodOf(c) \in {"Init", "GetQr", "GetState", "AddCard", "GetAddCardState"} \cup Kinds
    <2>1. KindOf[c] \in Kinds /\ Here(c).step \in {1, 2}
      BY KindsAssumption DEF Here
    <2>2. Here(c).step = 2 => KindOf[c] = "sbp_payment"
      BY DEF Handling
    <2> QED
      BY <2>1, <2>2, PlanShape DEF MethodOf
  <1>2. Made(c) \in Objects
    BY <1>1 DEF Made, Objects
  <1>3. CASE objects' = objects
    BY <1>3, ElementOfSeq, LenProperties
  <1>4. CASE objects' = Append(objects, Made(c)) /\ Here(c).pc = "forward"
    <2>1. /\ objects' \in Seq(Objects)
          /\ Len(objects') = Len(objects) + 1 /\ Len(objects) \in Nat
          /\ \A n \in 1 .. Len(objects) : objects'[n] = objects[n]
          /\ objects'[Len(objects) + 1] = Made(c)
      BY <1>2, <1>4, AppendProperties
    <2>2. DOMAIN objects = 1 .. Len(objects) /\ DOMAIN objects' = 1 .. Len(objects')
      BY <2>1, LenProperties
    <2>3. \A n \in DOMAIN objects' : objects'[n] \in Objects
      BY <2>1, <2>2, ElementOfSeq
    <2>4. \A n \in DOMAIN objects' \ DOMAIN objects : n = Len(objects')
      BY <2>1, <2>2
    <2>5. objects' # objects
      BY <2>1
    <2>6. DOMAIN objects \subseteq DOMAIN objects'
      BY <2>1, <2>2
    <2>7. \A n \in DOMAIN objects' : n \in Nat \ {0}
      BY <2>2
    <2> QED
      BY <1>4, <2>1, <2>2, <2>3, <2>4, <2>5, <2>6, <2>7
  <1> QED
    BY <1>3, <1>4 DEF Grown

(* A request is answered: with an object of its own or none, and nothing   *)
(* it made is left unanswered for.                                         *)
LEMMA ReplyKeeps ==
    ASSUME PFInv, NEW c \in Clients, Grown(c), NEW pc \in {"ok", "error"}, NEW id \in Nat, NEW qr,
           Reply(c, pc, id, qr), UNCHANGED attempt,
           pc = "ok" =>
              /\ id # 0 => /\ id \in DOMAIN objects'
                           /\ objects'[id].by = c /\ objects'[id].attempt = attempt[c]
              /\ KindOf[c] = "sbp_payment" => id # 0
              /\ qr \in {0, id},
           Here(c).step = 2 => id = Here(c).id \/ pc = "error",
           objects' # objects =>
              id = Len(objects') \/ pc = "error" \/ MethodOf(c) \in Issuer
    PROVE  PFInv'
  <1> DEFINE new == [to |-> c, attempt |-> attempt[c], status |-> pc, id |-> id, qr |-> qr]
  <1>1. /\ request' = [request EXCEPT ![c] = [pc |-> pc, step |-> 1, id |-> 0]]
        /\ replies' = replies \cup {new}
    BY DEF Reply
  <1>2. PFType'
    BY <1>1, GrownObjects DEF PFInv, PFType
  <1>3. ASSUME NEW q \in Clients
        PROVE  Handling(q)'
    <2>1. CASE q = c
      BY <1>1, <2>1 DEF Handling, Here, PFInv, PFType
    <2>2. CASE q # c
      <3>1. Here(q)' = Here(q) /\ attempt'[q] = attempt[q] /\ Handling(q)
        BY <1>1, <2>2 DEF Here, PFInv, PFType
      <3> QED
        BY <3>1, GrownObjects DEF Handling
    <2> QED
      BY <2>1, <2>2
  <1>4. SuccessIsTrue'
    <2> SUFFICES ASSUME NEW r \in replies', r.status = "ok"
                 PROVE  /\ r.id # 0 => /\ r.id \in DOMAIN objects'
                                       /\ objects'[r.id].by = r.to
                                       /\ objects'[r.id].attempt = r.attempt
                        /\ KindOf[r.to] = "sbp_payment" => r.id # 0
                        /\ r.qr \in {0, r.id}
      BY DEF SuccessIsTrue
    <2>1. CASE r \in replies
      BY <2>1, GrownObjects DEF PFInv, AnswersMatchEffects, SuccessIsTrue
    <2>2. CASE r = new
      BY <2>2
    <2> QED
      BY <1>1, <2>1, <2>2
  <1>5. EffectsAreAccountedFor'
    <2> SUFFICES ASSUME NEW n \in DOMAIN objects'
                 PROVE  LET o == objects'[n]
                        IN  /\ TokenSet => o.by \in Authorized
                            /\ \/ request'[o.by].pc = "forward" /\ request'[o.by].id = n
                               \/ \E r \in replies' :
                                     /\ r.to = o.by /\ r.attempt = o.attempt
                                     /\ \/ r.id = n \/ r.status = "error"
                                        \/ r.status = "ok" /\ o.method \in Issuer
      BY DEF EffectsAreAccountedFor, Here
    <2> DEFINE o == objects'[n]
    <2>1. new \in replies' /\ replies \subseteq replies'
      BY <1>1
    <2>2. CASE n \notin DOMAIN objects
      <3>1. n = Len(objects') /\ o = Made(c) /\ objects' # objects /\ Here(c).pc = "forward"
        BY <2>2, GrownObjects
      <3>2. TokenSet => c \in Authorized
        BY <3>1 DEF PFInv, Handling
      <3>3. new.id = n \/ new.status = "error" \/ (new.status = "ok" /\ MethodOf(c) \in Issuer)
        <4>1. new.id = id /\ new.status = pc
          OBVIOUS
        <4> HIDE DEF new
        <4>2. id = n \/ pc = "error" \/ MethodOf(c) \in Issuer
          BY <3>1
        <4>3. pc = "ok" \/ pc = "error"
          OBVIOUS
        <4> QED
          BY <4>1, <4>2, <4>3
      <3> QED
        BY <2>1, <3>1, <3>2, <3>3 DEF Made
    <2>3. CASE n \in DOMAIN objects
      <3>1. o = objects[n] /\ o.by \in Clients /\ n \in Nat \ {0}
        BY <2>3, GrownObjects DEF Objects
      <3>2. /\ TokenSet => o.by \in Authorized
            /\ \/ Here(o.by).pc = "forward" /\ Here(o.by).id = n
               \/ \E r \in replies :
                     /\ r.to = o.by /\ r.attempt = o.attempt
                     /\ \/ r.id = n \/ r.status = "error"
                        \/ r.status = "ok" /\ o.method \in Issuer
        BY <2>3, <3>1 DEF PFInv, AnswersMatchEffects, EffectsAreAccountedFor
      <3>3. CASE o.by # c
        <4>1. request'[o.by] = Here(o.by)
          BY <1>1, <3>1, <3>3 DEF Here, PFInv, PFType
        <4> QED
          BY <2>1, <3>2, <4>1
      <3>4. CASE o.by = c /\ Here(c).id = n
        <4>1. Here(c).step = 2 /\ o.attempt = attempt[c]
          BY <3>1, <3>4 DEF PFInv, PFType, Handling, Here
        <4> QED
          BY <2>1, <3>2, <3>4, <4>1
      <3>5. CASE o.by = c /\ Here(c).id # n
        BY <2>1, <3>2, <3>5
      <3> QED
        BY <3>3, <3>4, <3>5
    <2> QED
      BY <2>2, <2>3
  <1> QED
    BY <1>2, <1>3, <1>4, <1>5 DEF PFInv, AnswersMatchEffects

(* The first of two answers is kept for the second call.                   *)
LEMMA ContinueKeeps ==
    ASSUME PFInv, NEW c \in Clients, Here(c).pc = "forward", Here(c).step = 1,
           KindOf[c] = "sbp_payment", objects' = Append(objects, Made(c)),
           Continue(c, Len(objects')), UNCHANGED attempt
    PROVE  PFInv'
  <1>1. /\ request' = [request EXCEPT ![c].step = request[c].step + 1, ![c].id = Len(objects')]
        /\ replies' = replies
    BY DEF Continue
  <1>2. Grown(c)
    BY DEF Grown
  <1>3. MethodOf(c) = "Init"
    <2>1. Plan(KindOf[c]) = <<"Init", "GetQr">>
      BY PlanShape, KindsAssumption
    <2> QED
      BY <2>1 DEF MethodOf
  <1>4. /\ Len(objects) \in Nat /\ Len(objects') = Len(objects) + 1
        /\ Len(objects') \in DOMAIN objects' /\ objects'[Len(objects')] = Made(c)
    <2>1. objects \in Seq(Objects) /\ objects' \in Seq(Objects)
      BY <1>2, GrownObjects DEF PFInv, PFType
    <2>2. Len(objects) \in Nat /\ Len(objects') = Len(objects) + 1
      BY <2>1, LenProperties
    <2>3. DOMAIN objects' = 1 .. Len(objects')
      BY <2>1, LenProperties
    <2> QED
      BY <2>1, <2>2, <2>3
  <1>5. request'[c] = [pc |-> "forward", step |-> 2, id |-> Len(objects')]
    <2>1. /\ request[c] \in [pc : {"idle", "arrived", "forward", "ok", "error"},
                             step : {1, 2}, id : Nat]
          /\ request[c].pc = "forward" /\ request[c].step = 1
      BY DEF PFInv, PFType, Here
    <2>2. PICK v : v = Len(objects')
      OBVIOUS
    <2>3. request'[c] = [[request[c] EXCEPT !.step = request[c].step + 1] EXCEPT !.id = v]
      BY <1>1, <2>2 DEF PFInv, PFType
    <2>4. ASSUME NEW r \in [pc : {"idle", "arrived", "forward", "ok", "error"},
                            step : {1, 2}, id : Nat], r.pc = "forward", r.step = 1
          PROVE  [[r EXCEPT !.step = r.step + 1] EXCEPT !.id = v]
                   = [pc |-> "forward", step |-> 2, id |-> v]
      <3>1. r.step + 1 = 2
        BY <2>4
      <3>2. [r EXCEPT !.step = 2] = [pc |-> "forward", step |-> 2, id |-> r.id]
        BY <2>4
      <3>3. [[pc |-> "forward", step |-> 2, id |-> r.id] EXCEPT !.id = v]
              = [pc |-> "forward", step |-> 2, id |-> v]
        OBVIOUS
      <3>4. [r EXCEPT !.step = r.step + 1] = [pc |-> "forward", step |-> 2, id |-> r.id]
        BY <3>1, <3>2
      <3> QED
        BY <3>3, <3>4, Zenon
    <2>5. request'[c] = [pc |-> "forward", step |-> 2, id |-> v]
      BY <2>1, <2>3, <2>4
    <2> QED
      BY <2>2, <2>5
  <1>6. PFType'
    <2>1. request' \in [Clients -> [pc : {"idle", "arrived", "forward", "ok", "error"},
                                    step : {1, 2}, id : Nat]]
      <3>1. \A q \in Clients : q # c => request'[q] = request[q]
        BY <1>1 DEF PFInv, PFType
      <3>2. request' = [q \in Clients |-> request'[q]]
        BY <1>1 DEF PFInv, PFType
      <3>3. request'[c] \in [pc : {"idle", "arrived", "forward", "ok", "error"},
                             step : {1, 2}, id : Nat]
        BY <1>4, <1>5
      <3>4. \A q \in Clients :
               request'[q] \in [pc : {"idle", "arrived", "forward", "ok", "error"},
                                step : {1, 2}, id : Nat]
        BY <3>1, <3>3 DEF PFInv, PFType
      <3> QED
        BY <3>2, <3>4
    <2> QED
      BY <1>1, <1>2, <2>1, GrownObjects DEF PFInv, PFType
  <1>7. ASSUME NEW q \in Clients
        PROVE  Handling(q)'
    <2>1. CASE q = c
      <3>1. Handling(c)
        BY DEF PFInv
      <3> QED
        BY <1>3, <1>4, <1>5, <2>1, <3>1 DEF Handling, Here, Made
    <2>2. CASE q # c
      <3>1. Here(q)' = Here(q) /\ attempt'[q] = attempt[q] /\ Handling(q)
        BY <1>1, <2>2 DEF Here, PFInv, PFType
      <3> QED
        BY <1>2, <3>1, GrownObjects DEF Handling
    <2> QED
      BY <2>1, <2>2
  <1>8. SuccessIsTrue'
    BY <1>1, <1>2, GrownObjects DEF PFInv, AnswersMatchEffects, SuccessIsTrue
  <1>9. EffectsAreAccountedFor'
    <2> SUFFICES ASSUME NEW n \in DOMAIN objects'
                 PROVE  LET o == objects'[n]
                        IN  /\ TokenSet => o.by \in Authorized
                            /\ \/ request'[o.by].pc = "forward" /\ request'[o.by].id = n
                               \/ \E r \in replies' :
                                     /\ r.to = o.by /\ r.attempt = o.attempt
                                     /\ \/ r.id = n \/ r.status = "error"
                                        \/ r.status = "ok" /\ o.method \in Issuer
      BY DEF EffectsAreAccountedFor, Here
    <2> DEFINE o == objects'[n]
    <2>1. CASE n \notin DOMAIN objects
      <3>1. n = Len(objects') /\ o = Made(c)
        BY <1>2, <2>1, GrownObjects
      <3>2. TokenSet => c \in Authorized
        BY DEF PFInv, Handling
      <3> QED
        BY <1>5, <3>1, <3>2 DEF Made
    <2>2. CASE n \in DOMAIN objects
      <3>1. o = objects[n] /\ o.by \in Clients /\ n \in Nat \ {0}
        BY <1>2, <2>2, GrownObjects DEF Objects
      <3>2. /\ TokenSet => o.by \in Authorized
            /\ \/ Here(o.by).pc = "forward" /\ Here(o.by).id = n
               \/ \E r \in replies :
                     /\ r.to = o.by /\ r.attempt = o.attempt
                     /\ \/ r.id = n \/ r.status = "error"
                        \/ r.status = "ok" /\ o.method \in Issuer
        BY <2>2, <3>1 DEF PFInv, AnswersMatchEffects, EffectsAreAccountedFor
      <3>3. CASE o.by # c
        <4>1. request'[o.by] = Here(o.by)
          BY <1>1, <3>1, <3>3 DEF Here, PFInv, PFType
        <4> QED
          BY <1>1, <3>2, <4>1
      <3>4. CASE o.by = c
        <4>1. Here(c).id = 0
          BY DEF PFInv, Handling
        <4> QED
          BY <1>1, <3>1, <3>2, <3>4, <4>1
      <3> QED
        BY <3>3, <3>4
    <2> QED
      BY <2>1, <2>2
  <1> QED
    BY <1>6, <1>7, <1>8, <1>9 DEF PFInv, AnswersMatchEffects

(* Steps that answer nothing and make nothing: a client asks, or passes    *)
(* the check of the operator's token.                                      *)
LEMMA ArrivalKeeps ==
    ASSUME PFInv, NEW c \in Clients, UNCHANGED <<objects, replies>>,
           NEW pc \in {"arrived", "forward"}, pc = "forward" /\ TokenSet => c \in Authorized,
           Here(c).pc # "forward",
           request' = [request EXCEPT ![c] = [pc |-> pc, step |-> 1, id |-> 0]],
           attempt' \in [Clients -> Nat], \A q \in Clients : q # c => attempt'[q] = attempt[q]
    PROVE  PFInv'
  <1>1. PFType'
    BY DEF PFInv, PFType
  <1>2. ASSUME NEW q \in Clients
        PROVE  Handling(q)'
    <2>1. CASE q = c
      BY <2>1 DEF Handling, Here, PFInv, PFType
    <2>2. CASE q # c
      <3>1. Here(q)' = Here(q) /\ attempt'[q] = attempt[q] /\ Handling(q)
        BY <2>2 DEF Here, PFInv, PFType
      <3> QED
        BY <3>1 DEF Handling
    <2> QED
      BY <2>1, <2>2
  <1>3. SuccessIsTrue'
    BY DEF PFInv, AnswersMatchEffects, SuccessIsTrue
  <1>4. EffectsAreAccountedFor'
    <2>1. \A n \in DOMAIN objects : objects[n].by \in Clients
      <3> TAKE n \in DOMAIN objects
      <3>1. objects[n] \in Objects
        BY GrownObjects DEF Grown
      <3> QED
        BY <3>1 DEF Objects
    <2>2. \A q \in Clients : q # c => Here(q)' = Here(q)
      BY DEF Here, PFInv, PFType
    <2> QED
      BY <2>1, <2>2 DEF PFInv, AnswersMatchEffects, EffectsAreAccountedFor
  <1> QED
    BY <1>1, <1>2, <1>3, <1>4 DEF PFInv, AnswersMatchEffects

(* What a call makes and what its answer carries: the number of the object *)
(* it made, the payment a code is for, or nothing.                         *)
LEMMA CallShape ==
    ASSUME PFInv, NEW c \in Clients, Here(c).pc = "forward"
    PROVE  /\ Perform(c) => Grown(c)
           /\ Here(c).step \in {1, 2} /\ Here(c).id \in Nat /\ Len(objects) \in Nat
           /\ Here(c).step = 2 =>
                 /\ MethodOf(c) = "GetQr" /\ "GetQr" \notin Creating
                 /\ Len(Plan(KindOf[c])) = 2 /\ KindOf[c] = "sbp_payment"
           /\ (Here(c).step = 1 /\ KindOf[c] = "sbp_payment") =>
                 MethodOf(c) = "Init" /\ "Init" \in Creating /\ Len(Plan(KindOf[c])) = 2
           /\ (Here(c).step = 1 /\ KindOf[c] # "sbp_payment") =>
                 MethodOf(c) # "GetQr" /\ Len(Plan(KindOf[c])) = 1
           /\ KindOf[c] \in Issuer =>
                 MethodOf(c) \in Issuer /\ KindOf[c] # "sbp_payment" /\ Here(c).step = 1
           /\ MethodOf(c) \in Creating /\ Perform(c) =>
                 /\ objects' = Append(objects, Made(c))
                 /\ Len(objects') = Len(objects) + 1
                 /\ Len(objects') \in DOMAIN objects' /\ objects'[Len(objects')] = Made(c)
           /\ MethodOf(c) \notin Creating /\ Perform(c) => objects' = objects
  <1>1. /\ KindOf[c] \in Kinds /\ Here(c).step \in {1, 2} /\ Here(c).id \in Nat
        /\ Handling(c) /\ objects \in Seq(Objects)
    BY KindsAssumption DEF PFInv, PFType, Here
  <1>2. Len(objects) \in Nat
    BY <1>1, LenProperties
  <1>3. Here(c).step = 2 =>
           /\ MethodOf(c) = "GetQr" /\ "GetQr" \notin Creating
           /\ Len(Plan(KindOf[c])) = 2 /\ KindOf[c] = "sbp_payment"
    BY <1>1, PlanShape DEF Handling, MethodOf, Creating
  <1>4. (Here(c).step = 1 /\ KindOf[c] = "sbp_payment") =>
           MethodOf(c) = "Init" /\ "Init" \in Creating /\ Len(Plan(KindOf[c])) = 2
    BY <1>1, PlanShape DEF MethodOf, Creating
  <1>5. (Here(c).step = 1 /\ KindOf[c] # "sbp_payment") =>
           MethodOf(c) # "GetQr" /\ Len(Plan(KindOf[c])) = 1
    <2>1. "GetQr" \notin {"Init", "GetState", "AddCard", "GetAddCardState"} \cup Kinds
      BY DEF Kinds
    <2> QED
      BY <1>1, <2>1, PlanShape DEF MethodOf
  <1>6. KindOf[c] \in Issuer =>
           MethodOf(c) \in Issuer /\ KindOf[c] # "sbp_payment" /\ Here(c).step = 1
    <2>1. "sbp_payment" \notin Issuer
      BY DEF Issuer
    <2>2. KindOf[c] \in Issuer => Here(c).step = 1
      BY <1>1, <2>1 DEF Handling
    <2> QED
      BY <1>1, <2>1, <2>2, PlanShape DEF MethodOf
  <1>7. Perform(c) => Grown(c)
    BY DEF Perform, Grown, Made
  <1>8. MethodOf(c) \in Creating /\ Perform(c) =>
           /\ objects' = Append(objects, Made(c))
           /\ Len(objects') = Len(objects) + 1
           /\ Len(objects') \in DOMAIN objects' /\ objects'[Len(objects')] = Made(c)
    <2> SUFFICES ASSUME MethodOf(c) \in Creating, Perform(c)
                 PROVE  /\ objects' = Append(objects, Made(c))
                        /\ Len(objects') = Len(objects) + 1
                        /\ Len(objects') \in DOMAIN objects' /\ objects'[Len(objects')] = Made(c)
      OBVIOUS
    <2>1. objects' = Append(objects, Made(c))
      BY DEF Perform, Made
    <2>2. objects' \in Seq(Objects)
      BY <1>7, GrownObjects
    <2>3. /\ Len(objects') = Len(objects) + 1
          /\ objects'[Len(objects) + 1] = Made(c)
      BY <1>1, <1>2, <2>1
    <2>4. DOMAIN objects' = 1 .. Len(objects')
      BY <2>2, LenProperties
    <2> QED
      BY <1>2, <2>1, <2>3, <2>4
  <1>9. MethodOf(c) \notin Creating /\ Perform(c) => objects' = objects
    BY DEF Perform
  <1> QED
    BY <1>1, <1>2, <1>3, <1>4, <1>5, <1>6, <1>7, <1>8, <1>9

(* No handler, client, repetition or lost answer leads out of it.          *)
LEMMA PFStepKeeps ==
    ASSUME PFInv, [PFNext]_pfVars
    PROVE  PFInv'
  <1>1. CASE UNCHANGED pfVars
    BY <1>1 DEF pfVars, PFInv, PFType, Handling, Here, AnswersMatchEffects, SuccessIsTrue,
                EffectsAreAccountedFor
  <1>2. ASSUME NEW c \in Clients, Ask(c)
        PROVE  PFInv'
    <2>1. /\ attempt' \in [Clients -> Nat]
          /\ \A q \in Clients : q # c => attempt'[q] = attempt[q]
      BY <1>2 DEF Ask, PFInv, PFType
    <2> QED
      BY <1>2, <2>1, ArrivalKeeps DEF Ask
  <1>3. ASSUME NEW c \in Clients, CheckOperator(c)
        PROVE  PFInv'
    <2>1. Handling(c) /\ Here(c).pc = "arrived" /\ objects' = objects /\ attempt' = attempt
      BY <1>3 DEF CheckOperator, PFInv
    <2>2. /\ Here(c) \in [pc : {"idle", "arrived", "forward", "ok", "error"},
                          step : {1, 2}, id : Nat]
          /\ Here(c).step = 1 /\ Here(c).id = 0
      BY <2>1 DEF Handling, PFInv, PFType, Here
    <2>3. CASE /\ ~TokenSet \/ c \in Authorized
               /\ request' = [request EXCEPT ![c].pc = "forward"]
               /\ UNCHANGED replies
      <3>1. [Here(c) EXCEPT !.pc = "forward"] = [pc |-> "forward", step |-> 1, id |-> 0]
        BY <2>2
      <3>2. request' = [request EXCEPT ![c] = [pc |-> "forward", step |-> 1, id |-> 0]]
        BY <2>3, <3>1 DEF Here
      <3>3. attempt' \in [Clients -> Nat]
        BY <2>1 DEF PFInv, PFType
      <3> QED
        BY <2>1, <2>3, <3>2, <3>3, ArrivalKeeps
    <2>4. CASE Reply(c, "error", 0, 0)
      BY <2>1, <2>2, <2>4, ReplyKeeps DEF Grown
    <2> QED
      BY <1>3, <2>3, <2>4 DEF CheckOperator
  <1>4. ASSUME NEW c \in Clients, Accepted(c)
        PROVE  PFInv'
    <2>1. Here(c).pc = "forward" /\ attempt' = attempt /\ Perform(c) /\ Take(c, Answer(c))
      BY <1>4 DEF Accepted
    <2>2. CASE Here(c).step = 1 /\ KindOf[c] = "sbp_payment"
      <3>1. Answer(c) = Len(objects') /\ Answer(c) # 0
        BY <2>1, <2>2, CallShape DEF Answer
      <3>2. Continue(c, Len(objects'))
        BY <2>1, <2>2, <3>1, CallShape DEF Take
      <3>3. objects' = Append(objects, Made(c))
        BY <2>1, <2>2, CallShape
      <3> QED
        BY <2>1, <2>2, <3>2, <3>3, ContinueKeeps
    <2>3. CASE Here(c).step = 1 /\ KindOf[c] # "sbp_payment"
      <3>0. ~(Here(c).step < Len(Plan(KindOf[c])))
        <4>1. Len(Plan(KindOf[c])) = 1
          BY <2>1, <2>3, CallShape
        <4> QED
          BY <2>3, <4>1
      <3>1. Reply(c, "ok", Answer(c), 0)
        BY <2>1, <2>3, <3>0, Zenon DEF Take, Finished
      <3>2. CASE MethodOf(c) \in Creating
        <4>1. Answer(c) = Len(objects') /\ Answer(c) \in Nat
          BY <2>1, <2>3, <3>2, CallShape DEF Answer
        <4>2. Answer(c) \in DOMAIN objects' /\ objects'[Answer(c)] = Made(c)
          BY <2>1, <3>2, <4>1, CallShape
        <4>3. Grown(c)
          BY <2>1, CallShape
        <4> QED
          BY <2>1, <2>3, <3>1, <4>1, <4>2, <4>3, ReplyKeeps DEF Made
      <3>3. CASE MethodOf(c) \notin Creating
        <4>1. Answer(c) = 0 /\ objects' = objects /\ Grown(c)
          BY <2>1, <2>3, <3>3, CallShape DEF Answer
        <4> QED
          BY <2>1, <2>3, <3>1, <4>1, ReplyKeeps
      <3> QED
        BY <3>2, <3>3
    <2>4. CASE Here(c).step = 2
      <3>1. /\ Answer(c) = Here(c).id /\ objects' = objects /\ Grown(c)
            /\ Here(c).id \in Nat /\ Handling(c)
        BY <2>1, <2>4, CallShape DEF Answer, PFInv
      <3>0. ~(Here(c).step < Len(Plan(KindOf[c]))) /\ Here(c).step # 1
        <4>1. Len(Plan(KindOf[c])) = 2
          BY <2>1, <2>4, CallShape
        <4> QED
          BY <2>4, <4>1
      <3>2. Reply(c, "ok", Here(c).id, Here(c).id)
        BY <2>1, <3>0, <3>1, Zenon DEF Take, Finished
      <3>3. /\ Here(c).id \in DOMAIN objects' /\ Here(c).id # 0
            /\ objects'[Here(c).id].by = c /\ objects'[Here(c).id].attempt = attempt[c]
        BY <2>4, <3>1, GrownObjects DEF Handling
      <3> QED
        BY <2>1, <3>1, <3>2, <3>3, ReplyKeeps
    <2> QED
      BY <2>1, <2>2, <2>3, <2>4, CallShape
  <1>5. ASSUME NEW c \in Clients, Declined(c)
        PROVE  PFInv'
    <2>1. /\ Here(c).pc = "forward" /\ attempt' = attempt /\ objects' = objects /\ Take(c, 0)
          /\ Grown(c)
      BY <1>5 DEF Declined, Grown
    <2>2. CASE Here(c).step = 1 /\ KindOf[c] = "sbp_payment"
      <3>0. Here(c).step < Len(Plan(KindOf[c]))
        <4>1. Len(Plan(KindOf[c])) = 2
          BY <2>1, <2>2, CallShape
        <4>2. 1 < 2
          OBVIOUS
        <4> QED
          BY <2>2, <4>1, <4>2, Zenon
      <3>1. Reply(c, "error", 0, 0)
        BY <2>1, <3>0, Zenon DEF Take
      <3> QED
        BY <2>1, <2>2, <3>1, ReplyKeeps
    <2>3. CASE Here(c).step = 1 /\ KindOf[c] # "sbp_payment"
      <3>0. ~(Here(c).step < Len(Plan(KindOf[c])))
        <4>1. Len(Plan(KindOf[c])) = 1
          BY <2>1, <2>3, CallShape
        <4> QED
          BY <2>3, <4>1
      <3>1. Reply(c, "ok", 0, 0)
        BY <2>1, <2>3, <3>0, Zenon DEF Take, Finished
      <3> QED
        BY <2>1, <2>3, <3>1, ReplyKeeps
    <2>4. CASE Here(c).step = 2
      <3>1. Here(c).id \in Nat /\ Handling(c)
        BY <2>1, CallShape DEF PFInv
      <3>0. ~(Here(c).step < Len(Plan(KindOf[c]))) /\ Here(c).step # 1
        <4>1. Len(Plan(KindOf[c])) = 2
          BY <2>1, <2>4, CallShape
        <4> QED
          BY <2>4, <4>1
      <3>2. Reply(c, "ok", Here(c).id, 0)
        BY <2>1, <3>0, Zenon DEF Take, Finished
      <3>3. /\ Here(c).id \in DOMAIN objects' /\ Here(c).id # 0
            /\ objects'[Here(c).id].by = c /\ objects'[Here(c).id].attempt = attempt[c]
        BY <2>1, <2>4, <3>1, GrownObjects DEF Handling
      <3> QED
        BY <2>1, <3>1, <3>2, <3>3, ReplyKeeps
    <2> QED
      BY <2>1, <2>2, <2>3, <2>4, CallShape
  <1>6. ASSUME NEW c \in Clients, Unanswered(c)
        PROVE  PFInv'
    <2>1. Grown(c) /\ Reply(c, "error", 0, 0) /\ attempt' = attempt
      BY <1>6, CallShape DEF Unanswered, Grown
    <2> QED
      BY <2>1, ReplyKeeps
  <1>7. ASSUME NEW c \in Clients, BodyLost(c)
        PROVE  PFInv'
    <2>1. /\ Grown(c) /\ Reply(c, "ok", 0, 0) /\ attempt' = attempt
          /\ MethodOf(c) \in Issuer /\ KindOf[c] # "sbp_payment" /\ Here(c).step = 1
      BY <1>7, CallShape DEF BodyLost
    <2> QED
      BY <2>1, ReplyKeeps
  <1> QED
    BY <1>1, <1>2, <1>3, <1>4, <1>5, <1>6, <1>7 DEF PFNext

(* A success names an object this very request created, a payment by QR    *)
(* code never succeeds without its payment, and whatever was created is    *)
(* with its client, on its way, or behind an error (the issuer's cards     *)
(* also behind a success): for any clients, any mix of requests, any       *)
(* number of repetitions, any answers lost or refused.                     *)
THEOREM AnswersMatchEffectsHolds == PFSpec => []AnswersMatchEffects
  <1>1. PFInit => PFInv
    <2> SUFFICES ASSUME PFInit PROVE PFInv
      OBVIOUS
    <2>1. objects \in Seq(Objects) /\ DOMAIN objects = {}
      BY DEF PFInit
    <2>2. PFType
      BY <2>1 DEF PFInit, PFType
    <2>3. \A c \in Clients : Handling(c)
      BY DEF PFInit, Handling, Here
    <2> QED
      BY <2>1, <2>2, <2>3 DEF PFInit, PFInv, AnswersMatchEffects, SuccessIsTrue,
                              EffectsAreAccountedFor
  <1> QED
    BY <1>1, PFStepKeeps, PTL DEF PFSpec, PFInv

-----------------------------------------------------------------------------
(* Paper trading.                                                          *)

PTType ==
    /\ clock \in Nat /\ fired \in Nat
    /\ session.copied \in {0, 1, 2} /\ DOMAIN session = {"pc", "copied", "since"}
    /\ inbox \in Seq(Items)
    /\ DOMAIN book = Assets
    /\ DOMAIN trade = Trades
    /\ \A n \in Trades : DOMAIN trade[n] = {"pc", "asset", "ask", "at", "post"}
    /\ DOMAIN cut = {"trades", "balance"}

(* A trade in the books: among the numbers given out, of a followed asset, *)
(* whose book remembers a time not before it.                              *)
Traded(n) ==
    trade[n].pc # "none" =>
        /\ n <= fired /\ trade[n].at \in Nat /\ trade[n].at <= clock
        /\ trade[n].asset \in subscribed /\ trade[n].asset \in Assets
        /\ book[trade[n].asset].last \in Nat
        /\ book[trade[n].asset].last >= trade[n].at

(* What a snapshot has copied so far can still become a cut.               *)
CutGrows ==
    /\ session.pc \notin Snapshotting => session.copied = 0
    /\ session.copied = 1 => cut.trades \subseteq Settled
    /\ session.copied = 2 => IsACut(cut)

PTInv ==
    /\ PTType
    /\ session.pc = "discover" => fired = 0
    /\ \A n \in Trades : Traded(n)
    /\ listed \subseteq Settled
    /\ balance = Earned(Settled)
    /\ CutGrows
    /\ PaperTradingIsSound

(* A session has finitely many trades, numbered.                           *)
LEMMA TradesFinite == IsFiniteSet(Trades) /\ Trades \subseteq Nat /\ MaxTrades \in Nat
  <1>1. MaxTrades \in Nat
    BY TimesAssumption
  <1>2. IsFiniteSet(1 .. MaxTrades)
    BY <1>1, FS_Interval
  <1> QED
    BY <1>1, <1>2 DEF Trades

(* What a trade earns is a whole number, losses included.                  *)
LEMMA GainsAreIntegers == \A t : Gain(t) \in Int
  BY MoneyAssumption DEF Gain

(* Once settled, a trade stays settled and its gain stays what it is.      *)
Kept == \A n \in Settled : n \in Settled' /\ Gain(trade'[n]) = Gain(trade[n])

(* What some trades have earned does not change later, and so a cut stays  *)
(* a cut.                                                                  *)
LEMMA EarnedStays ==
    ASSUME Kept, NEW S, S \subseteq Settled
    PROVE  Earned(S)' = Earned(S)
  <1>1. IsFiniteSet(S) /\ S \subseteq Trades
    BY TradesFinite, FS_Subset DEF Settled
  <1> DEFINE f == [n \in Trades |-> Gain(trade[n])]
             g == [n \in Trades |-> Gain(trade'[n])]
  <1>2. \A n \in S : f[n] = g[n]
    BY <1>1 DEF Kept
  <1> HIDE DEF f, g
  <1>3. SumFunctionOnSet(f, S) = SumFunctionOnSet(g, S)
    BY <1>1, <1>2, SumSame
  <1> QED
    BY <1>3 DEF Earned, f, g

(* A cut stays one when more trades settle.                                *)
LEMMA CutStays ==
    ASSUME Kept, NEW copy, IsACut(copy)
    PROVE  IsACut(copy)'
  <1>1. Settled \subseteq Settled'
    BY DEF Kept
  <1>2. PICK T \in SUBSET (Settled \ copy.trades) : copy.balance = Earned(copy.trades \cup T)
    BY DEF IsACut
  <1>3. Earned(copy.trades \cup T)' = Earned(copy.trades \cup T)
    <2>1. copy.trades \cup T \subseteq Settled
      BY DEF IsACut
    <2> QED
      BY <2>1, EarnedStays
  <1> QED
    BY <1>1, <1>2, <1>3 DEF IsACut

(* So do the cuts of every report and copy.                                *)
LEMMA CutsStay ==
    ASSUME PTInv, Kept, session' = session, cut' = cut, report' = report
    PROVE  CutGrows' /\ ReportIsACut'
  <1>1. PICK r : r = report
    OBVIOUS
  <1>2. PICK k : k = cut
    OBVIOUS
  <1>3. IsACut(r) /\ IsACut(r)'
    BY <1>1, CutStays DEF PTInv, PaperTradingIsSound, ReportIsACut
  <1>4. session.copied = 2 => IsACut(k)'
    BY <1>2, CutStays DEF PTInv, CutGrows
  <1>5. session.copied = 1 => k.trades \subseteq Settled'
    BY <1>2 DEF PTInv, CutGrows, Kept
  <1> QED
    BY <1>1, <1>2, <1>3, <1>4, <1>5 DEF ReportIsACut, CutGrows, PTInv

(* Steps of the loop other than the handling of an item leave the trades   *)
(* and what they earned alone.                                             *)
LEMMA LoopKeeps ==
    ASSUME PTInv, UNCHANGED <<clock, book, fired, tradeVars>>,
           subscribed \subseteq subscribed' \/ fired = 0,
           session'.pc # "discover" \/ session' = session,
           session'.copied \in {0, 1, 2}, DOMAIN session' = {"pc", "copied", "since"},
           inbox' \in Seq(Items), DOMAIN cut' = {"trades", "balance"},
           CutGrows', ReportIsACut'
    PROVE  PTInv'
  <1>1. Settled' = Settled /\ balance' = balance
    BY DEF Settled, tradeVars
  <1>2. balance' = Earned(Settled)'
    BY <1>1 DEF PTInv, Earned, tradeVars
  <1>3. listed' \subseteq Settled'
    BY <1>1 DEF PTInv, tradeVars
  <1>4. PTType'
    BY DEF PTInv, PTType, tradeVars
  <1>5. ASSUME NEW n \in Trades
        PROVE  Traded(n)'
    <2>1. Traded(n) /\ n \in Nat \ {0} /\ trade' = trade
      BY DEF PTInv, Trades, tradeVars
    <2>2. fired = 0 => trade[n].pc = "none"
      BY <2>1 DEF Traded
    <2> QED
      BY <2>1, <2>2 DEF Traded
  <1>6. CooldownIsKept'
    <2>1. trade' = trade
      BY DEF tradeVars
    <2>2. \A n \in Trades : trade[n].pc # "none" => trade[n].asset \in subscribed'
      BY <1>5, <2>1 DEF Traded
    <2> QED
      BY <2>1, <2>2 DEF PTInv, PaperTradingIsSound, CooldownIsKept
  <1>7. session'.pc = "discover" => fired' = 0
    BY DEF PTInv
  <1> QED
    BY <1>2, <1>3, <1>4, <1>5, <1>6, <1>7 DEF PTInv, PaperTradingIsSound

(* Where the loop goes without copying, the report stays.                  *)
LEMMA GotoKeeps ==
    ASSUME PTInv, UNCHANGED <<clock, book, fired, tradeVars>>,
           subscribed \subseteq subscribed' \/ fired = 0,
           session'.pc # "discover" \/ session' = session,
           session'.copied = 0, DOMAIN session' = {"pc", "copied", "since"},
           inbox' \in Seq(Items), DOMAIN cut' = {"trades", "balance"},
           report' \in {report, cut}, report' = cut => session.copied = 2 \/ report' = report
    PROVE  PTInv'
  <1>1. Kept
    BY DEF Kept, Settled, tradeVars
  <1>2. PICK r : r = report'
    OBVIOUS
  <1>3. IsACut(r)
    BY <1>2 DEF PTInv, CutGrows, PaperTradingIsSound, ReportIsACut
  <1>4. IsACut(r)'
    BY <1>1, <1>3, CutStays
  <1>5. ReportIsACut'
    BY <1>2, <1>4 DEF ReportIsACut
  <1>6. CutGrows'
    BY DEF CutGrows
  <1> QED
    BY <1>5, <1>6, LoopKeeps

(* An item of a message: a trade gets the next number, and its asset's     *)
(* book the time; without a trade only the book changes.                   *)
LEMMA HandleKeeps ==
    ASSUME PTInv, Handle
    PROVE  PTInv'
  <1> DEFINE a == Head(inbox).asset
             update == BookUpdate(Head(inbox))
             b == Merge(book[a], update)
             new == [pc |-> "waiting", asset |-> a, ask |-> b.ask, at |-> clock, post |-> Missing]
             fires == Sane(b) /\ Cooled(a)
  <1>1. /\ inbox' = Tail(inbox) /\ inbox # <<>> /\ session.pc = "items"
        /\ UNCHANGED <<clock, subscribed, session, listed, balance, reportVars>>
    BY DEF Handle
  <1>2. a \in Assets /\ inbox' \in Seq(Items)
    BY <1>1, HeadTailProperties, ItemsAssumption DEF PTInv, PTType
  <1>3. \/ UNCHANGED <<book, fired, trade>>
        \/ /\ a \in subscribed
           /\ book' = [book EXCEPT ![a] = IF fires THEN [b EXCEPT !.last = clock] ELSE b]
           /\ fired' = IF fires THEN fired + 1 ELSE fired
           /\ trade' = IF fires /\ fired < MaxTrades THEN [trade EXCEPT ![fired + 1] = new]
                                                     ELSE trade
    BY DEF Handle
  <1>4. b.last = book[a].last /\ [b EXCEPT !.last = clock].last = clock
    BY DEF Merge
  <1> HIDE DEF b, update
  <1>5. clock \in Nat /\ fired \in Nat /\ DOMAIN book = Assets /\ DOMAIN trade = Trades
    BY DEF PTInv, PTType
  <1>6. /\ DOMAIN book' = Assets /\ fired' \in Nat
        /\ \A x \in Assets : x # a => book'[x] = book[x]
        /\ book'[a].last \in {book[a].last, clock}
    <2>1. CASE UNCHANGED <<book, fired, trade>>
      BY <1>5, <2>1
    <2>2. CASE book' = [book EXCEPT ![a] = IF fires THEN [b EXCEPT !.last = clock] ELSE b]
      <3>0. PICK v : v = IF fires THEN [b EXCEPT !.last = clock] ELSE b
        OBVIOUS
      <3>1. v.last \in {book[a].last, clock}
        BY <1>4, <3>0
      <3>2. book' = [book EXCEPT ![a] = v]
        BY <2>2, <3>0
      <3>3. fired' \in Nat
        BY <1>3, <1>5
      <3> QED
        BY <1>2, <1>5, <3>1, <3>2, <3>3
    <2> QED
      BY <1>3, <2>1, <2>2
  <1>7. \/ trade' = trade /\ fired <= fired'
        \/ /\ fired + 1 \in Trades /\ fired' = fired + 1
           /\ a \in subscribed /\ Cooled(a) /\ book'[a].last = clock
           /\ DOMAIN trade' = Trades /\ trade'[fired + 1] = new
           /\ \A n \in Trades : n # fired + 1 => trade'[n] = trade[n]
    <2>1. CASE fires /\ fired < MaxTrades /\ trade' # trade
      <3>1. fired + 1 \in Trades
        BY <1>5, <2>1, TradesFinite DEF Trades
      <3> QED
        BY <1>2, <1>3, <1>4, <1>5, <2>1, <3>1
    <2>2. CASE ~(fires /\ fired < MaxTrades) \/ trade' = trade
      BY <1>3, <1>5, <2>2
    <2> QED
      BY <2>1, <2>2
  <1>8. \A n \in Trades : trade[n].pc # "none" => trade'[n] = trade[n] /\ n # fired + 1
    BY <1>5, <1>7, TradesFinite DEF PTInv, Traded
  <1>9. Kept /\ Settled' = Settled
    <2>1. \A n \in Trades : n = fired + 1 \/ trade'[n] = trade[n]
      BY <1>7
    <2>2. fired + 1 \in Trades => trade[fired + 1].pc = "none" /\ trade'[fired + 1].pc \in {"none", "waiting"}
      BY <1>5, <1>7, <1>8
    <2> QED
      BY <1>8, <2>1, <2>2 DEF Kept, Settled
  <1>10. PTType'
    <2>1. \A n \in Trades : DOMAIN trade'[n] = {"pc", "asset", "ask", "at", "post"}
      BY <1>7 DEF PTInv, PTType
    <2> QED
      BY <1>1, <1>2, <1>5, <1>6, <1>7, <2>1 DEF PTInv, PTType, reportVars
  <1>11. ASSUME NEW n \in Trades
         PROVE  Traded(n)'
    <2>1. CASE trade'[n] = trade[n] /\ trade[n].pc # "none"
      <3>1. Traded(n) /\ n \in Nat
        BY TradesFinite DEF PTInv
      <3>2. /\ n <= fired /\ trade[n].at \in Nat /\ trade[n].at <= clock
            /\ trade[n].asset \in subscribed /\ trade[n].asset \in Assets
            /\ book[trade[n].asset].last \in Nat
            /\ book[trade[n].asset].last >= trade[n].at
        BY <2>1, <3>1 DEF Traded
      <3>3. n <= fired'
        BY <1>5, <1>6, <1>7, <3>1, <3>2
      <3>4. /\ book'[trade[n].asset].last \in Nat
            /\ book'[trade[n].asset].last >= trade[n].at
        BY <1>5, <1>6, <3>2
      <3> QED
        BY <1>1, <2>1, <3>2, <3>3, <3>4 DEF Traded
    <2>2. CASE trade'[n].pc = "none"
      BY <2>2 DEF Traded
    <2>3. CASE trade'[n] # trade[n]
      BY <1>1, <1>2, <1>5, <1>7, <2>3 DEF Traded
    <2> QED
      BY <2>1, <2>2, <2>3
  <1>12. CooldownIsKept'
    <2>1. \A n \in Trades : trade'[n].pc # "none" => trade'[n].asset \in subscribed'
      BY <1>11 DEF Traded
    <2> SUFFICES ASSUME NEW m \in Trades, NEW n \in Trades, m < n,
                        trade'[m].pc # "none", trade'[n].pc # "none",
                        trade'[m].asset = trade'[n].asset
                 PROVE  trade'[n].at - trade'[m].at >= Cooldown
      BY <2>1 DEF CooldownIsKept
    <2>2. CASE trade'[m] = trade[m] /\ trade'[n] = trade[n]
      BY <2>2 DEF PTInv, PaperTradingIsSound, CooldownIsKept
    <2>3. CASE trade'[n] # trade[n]
      <3>1. n = fired + 1 /\ trade'[n] = new /\ Cooled(a)
        BY <1>7, <2>3
      <3>2. m # n /\ trade'[m] = trade[m]
        BY <1>7, <3>1, TradesFinite
      <3>3. Traded(m) /\ trade[m].asset = a
        BY <3>1, <3>2 DEF PTInv
      <3>4. book[a].last \in Nat /\ book[a].last >= trade[m].at /\ trade[m].at \in Nat
        BY <3>2, <3>3 DEF Traded
      <3>5. clock - book[a].last >= Cooldown
        BY <3>1, <3>4, MoneyAssumption DEF Cooled
      <3>6. Cooldown \in Nat
        BY TimesAssumption
      <3> QED
        BY <1>5, <3>1, <3>2, <3>4, <3>5, <3>6
    <2>4. CASE trade'[m] # trade[m]
      <3>1. m = fired + 1 /\ n # m /\ trade'[n] = trade[n]
        BY <1>7, <2>4, TradesFinite
      <3>2. n <= fired
        BY <3>1 DEF PTInv, Traded
      <3> QED
        BY <1>5, <3>1, <3>2, TradesFinite
    <2> QED
      BY <2>2, <2>3, <2>4
  <1>13. balance' = Earned(Settled)'
    <2>1. Earned(Settled) = balance /\ balance' = balance
      BY <1>1 DEF PTInv
    <2>2. PICK S : S = Settled
      OBVIOUS
    <2>3. Earned(S)' = Earned(S)
      BY <1>9, <2>2, EarnedStays
    <2> QED
      BY <1>9, <2>1, <2>2, <2>3
  <1>14. CutGrows' /\ ReportIsACut'
    BY <1>1, <1>9, CutsStay DEF reportVars
  <1> QED
    BY <1>1, <1>9, <1>10, <1>11, <1>12, <1>13, <1>14 DEF PTInv, PaperTradingIsSound

(* The task of a trade changes its own record only.                        *)
LEMMA TaskKeeps ==
    ASSUME PTInv, NEW n \in Trades, trade[n].pc # "none", NEW pc \in {"looked", "settled", "listed"},
           UNCHANGED <<clock, subscribed, session, marketVars, reportVars>>,
           DOMAIN trade' = Trades, \A m \in Trades : m # n => trade'[m] = trade[m],
           DOMAIN trade'[n] = {"pc", "asset", "ask", "at", "post"},
           trade'[n].pc = pc, trade'[n].at = trade[n].at, trade'[n].asset = trade[n].asset,
           Kept, listed' \subseteq Settled', balance' = Earned(Settled)'
    PROVE  PTInv'
  <1>1. PTType'
    BY DEF PTInv, PTType, marketVars, reportVars
  <1>2. \A m \in Trades :
           /\ trade'[m].pc # "none" <=> trade[m].pc # "none"
           /\ trade'[m].at = trade[m].at /\ trade'[m].asset = trade[m].asset
    OBVIOUS
  <1>3. \A m \in Trades : Traded(m)'
    BY <1>2 DEF PTInv, Traded, marketVars
  <1>4. CooldownIsKept'
    BY <1>2 DEF PTInv, PaperTradingIsSound, CooldownIsKept
  <1>5. CutGrows' /\ ReportIsACut'
    BY CutsStay DEF reportVars
  <1> QED
    BY <1>1, <1>3, <1>4, <1>5 DEF PTInv, PaperTradingIsSound, marketVars

(* No message, trade or snapshot leads out of it.                          *)
LEMMA PTStepKeeps ==
    ASSUME PTInv, [PTNext]_ptVars
    PROVE  PTInv'
  <1> USE DEF marketVars, tradeVars, reportVars
  <1>t. /\ PTType /\ DOMAIN session = {"pc", "copied", "since"} /\ DOMAIN cut = {"trades", "balance"}
        /\ inbox \in Seq(Items) /\ clock \in Nat
    BY DEF PTInv, PTType
  <1>c. session.pc \notin Snapshotting => session.copied = 0
    BY DEF PTInv, CutGrows
  <1>g. \A pc : Goto(pc) => /\ session'.pc = pc /\ session'.copied = 0
                            /\ DOMAIN session' = {"pc", "copied", "since"}
    BY DEF Goto
  <1>1. CASE UNCHANGED ptVars
    BY <1>1, <1>t, LoopKeeps, CutsStay DEF ptVars, Kept, Settled, PTInv, PTType
  <1>2. CASE Discover
    <2>1. fired = 0 /\ UNCHANGED <<clock, marketVars, tradeVars, reportVars>>
      BY <1>2 DEF Discover, PTInv
    <2>2. /\ session'.pc # "discover" /\ session'.copied = 0
          /\ DOMAIN session' = {"pc", "copied", "since"}
      BY <1>2, <1>g DEF Discover
    <2> QED
      BY <1>t, <2>1, <2>2, GotoKeeps
  <1>3. CASE AwaitMessage
    <2>1. /\ session.pc = "head" /\ session.copied = 0
          /\ UNCHANGED <<clock, subscribed, marketVars, tradeVars, reportVars>>
      BY <1>3, <1>c DEF AwaitMessage, Snapshotting
    <2>2. /\ session'.pc # "discover" /\ session'.copied = 0
          /\ DOMAIN session' = {"pc", "copied", "since"}
      <3>1. session' = [session EXCEPT !.pc = "reading", !.since = clock] \/ Goto("final")
        BY <1>3 DEF AwaitMessage
      <3>2. CASE session' = [session EXCEPT !.pc = "reading", !.since = clock]
        BY <1>t, <2>1, <3>2
      <3>3. CASE Goto("final")
        BY <1>g, <3>3
      <3> QED
        BY <3>1, <3>2, <3>3
    <2> QED
      BY <1>t, <2>1, <2>2, GotoKeeps
  <1>4. ASSUME NEW batch \in Batches, ReadText(batch)
        PROVE  PTInv'
    <2>1. /\ UNCHANGED <<clock, subscribed, book, fired, tradeVars, reportVars>>
          /\ inbox' \in Seq(Items) /\ Goto("items")
      BY <1>4, ItemsAssumption DEF ReadText
    <2> QED
      BY <1>t, <1>g, <2>1, GotoKeeps
  <1>5. CASE ReadNothing
    <2>1. /\ UNCHANGED <<clock, subscribed, marketVars, tradeVars, reportVars>>
          /\ Goto("head") \/ Goto("final") \/ Goto("failed") \/ Goto("pinged")
      BY <1>5 DEF ReadNothing
    <2>2. /\ session'.pc # "discover" /\ session'.copied = 0
          /\ DOMAIN session' = {"pc", "copied", "since"}
      BY <1>g, <2>1
    <2> QED
      BY <1>t, <2>1, <2>2, GotoKeeps
  <1>6. CASE Handle
    BY <1>6, HandleKeeps
  <1>7. CASE MessageDone
    <2>1. /\ UNCHANGED <<clock, subscribed, marketVars, tradeVars, reportVars>>
          /\ Goto("periodic") \/ Goto("head")
      BY <1>7 DEF MessageDone
    <2>2. /\ session'.pc # "discover" /\ session'.copied = 0
          /\ DOMAIN session' = {"pc", "copied", "since"}
      BY <1>g, <2>1
    <2> QED
      BY <1>t, <2>1, <2>2, GotoKeeps
  <1>8. CASE Copy
    <2>1. /\ session.pc \in Snapshotting /\ session.copied \in {0, 1}
          /\ session' = [session EXCEPT !.copied = session.copied + 1]
          /\ UNCHANGED <<clock, subscribed, marketVars, tradeVars, snapped, report>>
      <3>1. session.copied < 2 /\ session.copied \in {0, 1, 2}
        BY <1>8, <1>t DEF Copy, SnapshotOrder, PTType
      <3> QED
        BY <1>8, <3>1 DEF Copy
    <2>2. /\ session'.pc = session.pc /\ session'.copied = session.copied + 1
          /\ DOMAIN session' = {"pc", "copied", "since"} /\ session.pc # "discover"
      BY <1>t, <2>1 DEF Snapshotting
    <2>3. Settled' = Settled /\ \A S : Earned(S)' = Earned(S)
      BY <2>1 DEF Settled, Earned
    <2>4. ReportIsACut'
      BY <2>1, <2>3 DEF PTInv, PaperTradingIsSound, ReportIsACut, IsACut
    <2>5. CASE session.copied = 0
      <3>1. cut' = [cut EXCEPT !.trades = listed]
        BY <1>8, <2>5 DEF Copy, SnapshotOrder
      <3>2. cut'.trades = listed /\ DOMAIN cut' = {"trades", "balance"}
        BY <1>t, <3>1
      <3>3. CutGrows'
        BY <2>1, <2>2, <2>3, <2>5, <3>2 DEF CutGrows, PTInv
      <3> QED
        BY <1>t, <2>1, <2>2, <2>4, <2>5, <3>2, <3>3, LoopKeeps
    <2>6. CASE session.copied = 1
      <3>1. cut' = [cut EXCEPT !.balance = balance]
        BY <1>8, <2>6 DEF Copy, SnapshotOrder
      <3>2. cut'.trades = cut.trades /\ cut'.balance = balance /\ DOMAIN cut' = {"trades", "balance"}
        BY <1>t, <3>1
      <3>3. cut.trades \subseteq Settled /\ balance = Earned(Settled)
        BY <2>6 DEF PTInv, CutGrows
      <3>4. IsACut(cut)'
        <4> DEFINE T == Settled \ cut.trades
        <4>1. T \in SUBSET (Settled \ cut.trades) /\ cut.trades \cup T = Settled
          BY <3>3
        <4> HIDE DEF T
        <4>2. cut'.balance = Earned(cut.trades \cup T)
          BY <3>2, <3>3, <4>1
        <4>3. PICK k : k = cut'
          OBVIOUS
        <4>4. IsACut(k)
          BY <3>2, <3>3, <4>1, <4>2, <4>3 DEF IsACut
        <4>5. IsACut(k)'
          BY <2>3, <4>4 DEF IsACut
        <4> QED
          BY <4>3, <4>5
      <3>5. CutGrows'
        BY <2>1, <2>2, <2>6, <3>4 DEF CutGrows
      <3> QED
        BY <1>t, <2>1, <2>2, <2>4, <2>6, <3>2, <3>5, LoopKeeps
    <2> QED
      BY <2>1, <2>5, <2>6
  <1>9. CASE Write
    <2>1. /\ session.pc \in Snapshotting /\ session.copied = 2 /\ cut' = Nothing
          /\ UNCHANGED <<clock, subscribed, marketVars, tradeVars>>
          /\ report' \in {report, cut}
      BY <1>9 DEF Write, SnapshotOrder
    <2>2. Goto("completed") \/ Goto("head") \/ Goto("failed")
      BY <1>9 DEF Write
    <2>3. /\ session'.pc # "discover" /\ session'.copied = 0
          /\ DOMAIN session' = {"pc", "copied", "since"}
      BY <1>g, <2>2
    <2>4. DOMAIN cut' = {"trades", "balance"}
      BY <2>1 DEF Nothing
    <2> QED
      BY <1>t, <2>1, <2>3, <2>4, GotoKeeps
  <1>10. ASSUME NEW n \in Trades, LookAgain(n)
         PROVE  PTInv'
    <2>1. /\ trade[n].pc = "waiting"
          /\ trade' = [trade EXCEPT ![n] = [trade[n] EXCEPT !.pc = "looked",
                                                 !.post = book[trade[n].asset].ask]]
          /\ UNCHANGED <<clock, subscribed, session, marketVars, listed, balance, reportVars>>
      BY <1>10 DEF LookAgain
    <2>2. DOMAIN trade = Trades /\ DOMAIN trade[n] = {"pc", "asset", "ask", "at", "post"}
      BY DEF PTInv, PTType
    <2>3. /\ DOMAIN trade' = Trades /\ DOMAIN trade'[n] = {"pc", "asset", "ask", "at", "post"}
          /\ trade'[n].pc = "looked" /\ trade'[n].at = trade[n].at
          /\ trade'[n].asset = trade[n].asset
          /\ \A m \in Trades : m # n => trade'[m] = trade[m]
      BY <2>1, <2>2
    <2>4. Settled' = Settled /\ Kept
      BY <2>1, <2>3 DEF Settled, Kept
    <2>5. balance' = Earned(Settled)'
      <3>1. PICK S : S = Settled
        OBVIOUS
      <3>2. Earned(S)' = Earned(S)
        BY <2>4, <3>1, EarnedStays
      <3> QED
        BY <2>1, <2>4, <3>1, <3>2 DEF PTInv
    <2>6. listed' \subseteq Settled'
      BY <2>1, <2>4 DEF PTInv
    <2> QED
      BY <2>1, <2>3, <2>4, <2>5, <2>6, TaskKeeps
  <1>11. ASSUME NEW n \in Trades, Settle(n)
         PROVE  PTInv'
    <2>1. /\ trade[n].pc = "looked" /\ balance' = balance + Gain(trade[n])
          /\ trade' = [trade EXCEPT ![n].pc = "settled"]
          /\ UNCHANGED <<clock, subscribed, session, marketVars, listed, reportVars>>
      BY <1>11 DEF Settle
    <2>2. DOMAIN trade = Trades /\ DOMAIN trade[n] = {"pc", "asset", "ask", "at", "post"}
      BY DEF PTInv, PTType
    <2>3. /\ DOMAIN trade' = Trades /\ DOMAIN trade'[n] = {"pc", "asset", "ask", "at", "post"}
          /\ trade'[n].pc = "settled" /\ trade'[n].at = trade[n].at
          /\ trade'[n].asset = trade[n].asset
          /\ trade'[n].post = trade[n].post /\ trade'[n].ask = trade[n].ask
          /\ \A m \in Trades : m # n => trade'[m] = trade[m]
      BY <2>1, <2>2
    <2>4. Settled' = Settled \cup {n} /\ n \notin Settled /\ Kept
      BY <2>1, <2>3 DEF Settled, Kept
    <2>5. balance' = Earned(Settled)'
      <3>1. PICK S : S = Settled
        OBVIOUS
      <3>2. PICK g : g = [m \in Trades |-> Gain(trade'[m])]
        OBVIOUS
      <3>3. PICK f : f = [m \in Trades |-> Gain(trade[m])]
        OBVIOUS
      <3>4. IsFiniteSet(S \cup {n}) /\ S \cup {n} \subseteq Trades /\ (S \cup {n}) \ {n} = S
        BY <2>4, <3>1, TradesFinite, FS_Subset DEF Settled
      <3>5. \A y \in S \cup {n} : g[y] \in Int
        BY <3>2, <3>4, GainsAreIntegers
      <3>6. SumFunctionOnSet(g, S \cup {n}) = g[n] + SumFunctionOnSet(g, S)
        BY <3>4, <3>5, SumRemove
      <3>7. g[n] = Gain(trade[n])
        BY <2>3, <3>2 DEF Gain, Wins
      <3>8. Earned(S)' = Earned(S)
        BY <2>4, <3>1, EarnedStays
      <3>9. Earned(S)' = StartBalance + SumFunctionOnSet(g, S)
        BY <3>2 DEF Earned
      <3>10. Earned(Settled)' = StartBalance + SumFunctionOnSet(g, S \cup {n})
        BY <2>4, <3>1, <3>2 DEF Earned
      <3>11. balance = Earned(S)
        BY <3>1 DEF PTInv
      <3>12. SumFunctionOnSet(g, S) \in Int
        BY <3>4, <3>5, SumIsInteger, FS_Subset
      <3>13. PICK total : total = SumFunctionOnSet(g, S)
        OBVIOUS
      <3>14. PICK gain : gain = Gain(trade[n])
        OBVIOUS
      <3>15. gain \in Int /\ total \in Int /\ StartBalance \in Int
        BY <3>12, <3>13, <3>14, GainsAreIntegers, MoneyAssumption
      <3>16. balance' = (StartBalance + total) + gain
        BY <2>1, <3>8, <3>9, <3>11, <3>13, <3>14
      <3>17. Earned(Settled)' = StartBalance + (gain + total)
        BY <3>6, <3>7, <3>10, <3>13, <3>14
      <3> QED
        BY <3>15, <3>16, <3>17
    <2>6. listed' \subseteq Settled'
      BY <2>1, <2>4 DEF PTInv
    <2> QED
      BY <2>1, <2>3, <2>4, <2>5, <2>6, TaskKeeps
  <1>12. ASSUME NEW n \in Trades, Push(n)
         PROVE  PTInv'
    <2>1. /\ trade[n].pc = "settled" /\ listed' = listed \cup {n}
          /\ trade' = [trade EXCEPT ![n].pc = "listed"]
          /\ UNCHANGED <<clock, subscribed, session, marketVars, balance, reportVars>>
      BY <1>12 DEF Push
    <2>2. DOMAIN trade = Trades /\ DOMAIN trade[n] = {"pc", "asset", "ask", "at", "post"}
      BY DEF PTInv, PTType
    <2>3. /\ DOMAIN trade' = Trades /\ DOMAIN trade'[n] = {"pc", "asset", "ask", "at", "post"}
          /\ trade'[n].pc = "listed" /\ trade'[n].at = trade[n].at
          /\ trade'[n].asset = trade[n].asset
          /\ trade'[n].post = trade[n].post /\ trade'[n].ask = trade[n].ask
          /\ \A m \in Trades : m # n => trade'[m] = trade[m]
      BY <2>1, <2>2
    <2>4. Settled' = Settled /\ n \in Settled
      BY <2>1, <2>3 DEF Settled
    <2>5. Kept
      BY <2>3, <2>4 DEF Kept, Gain, Wins, Settled
    <2>6. balance' = Earned(Settled)'
      <3>1. PICK S : S = Settled
        OBVIOUS
      <3>2. Earned(S)' = Earned(S)
        BY <2>5, <3>1, EarnedStays
      <3> QED
        BY <2>1, <2>4, <3>1, <3>2 DEF PTInv
    <2>7. listed' \subseteq Settled'
      BY <2>1, <2>4 DEF PTInv
    <2> QED
      BY <2>1, <2>3, <2>5, <2>6, <2>7, TaskKeeps
  <1>13. CASE PassTime
    <2>1. /\ clock' = clock + 1
          /\ UNCHANGED <<subscribed, session, marketVars, tradeVars, reportVars>>
      BY <1>13 DEF PassTime
    <2>2. Kept /\ Settled' = Settled /\ balance' = Earned(Settled)'
      BY <2>1 DEF Kept, Settled, Earned, PTInv
    <2>3. CutGrows' /\ ReportIsACut'
      BY <2>1, <2>2, CutsStay
    <2>4. CooldownIsKept'
      BY <2>1 DEF CooldownIsKept, PTInv, PaperTradingIsSound
    <2>5. \A n \in Trades : Traded(n)'
      BY <1>t, <2>1 DEF Traded, PTInv
    <2>6. PTType'
      BY <1>t, <2>1 DEF PTType
    <2> QED
      BY <2>1, <2>2, <2>3, <2>4, <2>5, <2>6 DEF PTInv, PaperTradingIsSound
  <1>14. CASE Connect \/ Subscribe \/ LockWriter \/ SendPong
    <2>1. /\ UNCHANGED <<clock, subscribed, marketVars, tradeVars, reportVars>>
          /\ \E pc \in {"subscribe", "first", "pong", "items", "failed"} : Goto(pc)
      BY <1>14 DEF Connect, Subscribe, LockWriter, SendPong
    <2>2. /\ session'.pc # "discover" /\ session'.copied = 0
          /\ DOMAIN session' = {"pc", "copied", "since"}
      BY <1>g, <2>1
    <2> QED
      BY <1>t, <2>1, <2>2, GotoKeeps
  <1>15. CASE Beat \/ BeatSent
    <2>1. UNCHANGED <<clock, subscribed, session, marketVars, tradeVars, reportVars>>
      BY <1>15 DEF Beat, BeatSent
    <2>2. CutGrows' /\ ReportIsACut'
      <3>1. Kept
        BY <2>1 DEF Kept, Settled
      <3> QED
        BY <2>1, <3>1, CutsStay
    <2> QED
      BY <1>t, <2>1, <2>2, LoopKeeps DEF PTInv, PTType
  <1> QED
    BY <1>1, <1>2, <1>3, <1>4, <1>5, <1>6, <1>7, <1>8, <1>9, <1>10, <1>11, <1>12, <1>13, <1>14, <1>15
    DEF PTNext, SessionStep, PeerStep, TradeStep

(* Every report of a session is a cut: its balance is what the listed      *)
(* trades earned and perhaps others not listed yet; and two trades of an   *)
(* asset keep the cooldown: for any number of assets and trades, any       *)
(* messages, wherever the tasks stand when a snapshot is taken.            *)
THEOREM PaperTradingIsSoundHolds == PTSpec => []PaperTradingIsSound
  <1>1. PTInit => PTInv
    <2> SUFFICES ASSUME PTInit PROVE PTInv
      OBVIOUS
    <2>1. \A n \in Trades : trade[n].pc = "none"
      BY DEF PTInit, NoTrade
    <2>2. Settled = {} /\ listed = {}
      BY <2>1 DEF PTInit, Settled
    <2>3. Earned({}) = StartBalance
      BY SumOfNothing, MoneyAssumption DEF Earned
    <2>4. IsACut(report)
      BY <2>2, <2>3 DEF PTInit, Nothing, IsACut
    <2>5. /\ session = [pc |-> "discover", copied |-> 0, since |-> 0] /\ cut = Nothing
          /\ balance = StartBalance /\ fired = 0
      BY DEF PTInit
    <2>6. PTType
      <3>1. \A n \in Trades : DOMAIN trade[n] = {"pc", "asset", "ask", "at", "post"}
        BY DEF PTInit, NoTrade
      <3>2. inbox \in Seq(Items) /\ clock \in Nat /\ DOMAIN book = Assets /\ DOMAIN trade = Trades
        BY DEF PTInit
      <3> QED
        BY <2>5, <3>1, <3>2 DEF PTType, Nothing
    <2>7. CutGrows
      BY <2>5 DEF CutGrows, Snapshotting
    <2>8. PaperTradingIsSound
      BY <2>1, <2>4 DEF PaperTradingIsSound, ReportIsACut, CooldownIsKept
    <2> QED
      BY <2>1, <2>2, <2>3, <2>5, <2>6, <2>7, <2>8 DEF PTInv, Traded
  <1> QED
    BY <1>1, PTStepKeeps, PTL DEF PTSpec, PTInv

-----------------------------------------------------------------------------
(* Sorting: any values, in any order.                                      *)

\* The places that come before place i in an order by value, then by place.
Before(v, n, i) == {j \in 1 .. n : v[j] < v[i] \/ (v[j] = v[i] /\ j < i)}

(* Places can be put into an ascending order of their values: the position *)
(* of each is the number of places before it.                              *)
LEMMA OrderExists ==
    ASSUME NEW n \in Nat, NEW v, \A i \in 1 .. n : v[i] \in Nat
    PROVE  \E o \in Bijection(1 .. n, 1 .. n) :
               \A j, k \in 1 .. n : j < k => v[o[j]] <= v[o[k]]
  <1> DEFINE Prior == [i \in 1 .. n |-> Before(v, n, i)]
             pos == [i \in 1 .. n |-> Position(Prior, i)]
             o == [q \in 1 .. n |-> CHOOSE p \in 1 .. n : pos[p] = q]
  <1>1. \A i, k \in 1 .. n : i \in Before(v, n, k) => i \in Prior[k]
    OBVIOUS
  <1>2. Orders(Prior, 1 .. n)
    <2>1. \A i \in 1 .. n : Prior[i] \subseteq 1 .. n /\ i \notin Prior[i]
      BY DEF Before
    <2>2. \A i, k \in 1 .. n : i \in Prior[k] => Prior[i] \subseteq Prior[k]
      BY DEF Before
    <2>3. \A i, k \in 1 .. n : i # k => i \in Prior[k] \/ k \in Prior[i]
      BY DEF Before
    <2> HIDE DEF Prior
    <2> QED
      BY <2>1, <2>2, <2>3 DEF Orders
  <1> HIDE DEF Prior
  <1>3. \A i \in 1 .. n : pos[i] = Position(Prior, i)
    OBVIOUS
  <1>4. /\ \A i \in 1 .. n : Position(Prior, i) \in 1 .. n
        /\ \A i, k \in 1 .. n : i \in Prior[k] => Position(Prior, i) < Position(Prior, k)
        /\ \A i, k \in 1 .. n : Position(Prior, i) = Position(Prior, k) => i = k
        /\ \A q \in 1 .. n : \E i \in 1 .. n : Position(Prior, i) = q
    <2>1. IsFiniteSet(1 .. n) /\ Cardinality(1 .. n) = n
      BY FS_Interval
    <2> QED
      BY ONLY <1>2, <2>1, PositionsInOrder
  <1>5. pos \in [1 .. n -> 1 .. n]
    BY <1>4
  <1> HIDE DEF pos
  <1>6. \A i, k \in 1 .. n : pos[i] = pos[k] => i = k
    BY <1>3, <1>4
  <1>7. ASSUME NEW i \in 1 .. n, NEW k \in 1 .. n, i \in Before(v, n, k)
        PROVE  pos[i] < pos[k]
    <2>1. Position(Prior, i) < Position(Prior, k)
      BY <1>1, <1>4, <1>7
    <2> QED
      BY <1>3, <2>1
  <1>8. \A q \in 1 .. n : \E p \in 1 .. n : pos[p] = q
    BY <1>3, <1>4
  <1>9. \A q \in 1 .. n : o[q] \in 1 .. n /\ pos[o[q]] = q
    BY <1>8
  <1>10. \A p \in 1 .. n : o[pos[p]] = p
    <2> SUFFICES ASSUME NEW p \in 1 .. n PROVE o[pos[p]] = p
      OBVIOUS
    <2>1. pos[p] \in 1 .. n
      BY <1>5
    <2>2. o[pos[p]] \in 1 .. n /\ pos[o[pos[p]]] = pos[p]
      BY <1>9, <2>1
    <2> QED
      BY <1>6, <2>2
  <1>11. o \in [1 .. n -> 1 .. n]
    BY <1>9
  <1> HIDE DEF o
  <1>12. o \in Bijection(1 .. n, 1 .. n)
    <2>1. \A p, q \in 1 .. n : o[p] = o[q] => p = q
      BY <1>9
    <2>2. \A p \in 1 .. n : \E q \in 1 .. n : o[q] = p
      BY <1>5, <1>10
    <2> QED
      BY <1>11, <2>1, <2>2 DEF Bijection, Injection, Surjection, IsInjective
  <1>13. ASSUME NEW j \in 1 .. n, NEW k \in 1 .. n, j < k
         PROVE  v[o[j]] <= v[o[k]]
    <2>1. o[j] \in 1 .. n /\ o[k] \in 1 .. n /\ pos[o[j]] = j /\ pos[o[k]] = k
      BY <1>9
    <2>2. o[k] \notin Before(v, n, o[j])
      <3> SUFFICES ASSUME o[k] \in Before(v, n, o[j]) PROVE FALSE
        OBVIOUS
      <3>1. k < j
        BY <1>7, <2>1
      <3> QED
        BY <1>13, <3>1
    <2>3. v[o[j]] \in Nat /\ v[o[k]] \in Nat
      BY <2>1
    <2> QED
      BY <2>1, <2>2, <2>3 DEF Before
  <1> QED
    BY <1>12, <1>13

\* The places whose value is at most x.
AtMost(n, v, x) == {i \in 1 .. n : v[i] <= x}

(* As many places as before have a value up to x.                          *)
LEMMA CountInOrder ==
    ASSUME NEW n \in Nat, NEW v, NEW o \in Bijection(1 .. n, 1 .. n), NEW s,
           \A k \in 1 .. n : s[k] = v[o[k]], NEW x
    PROVE  Cardinality(AtMost(n, s, x)) = Cardinality(AtMost(n, v, x))
  <1> DEFINE S == AtMost(n, s, x)
             T == AtMost(n, v, x)
             h == [k \in S |-> o[k]]
  <1>1. /\ o \in [1 .. n -> 1 .. n]
        /\ \A p, q \in 1 .. n : o[p] = o[q] => p = q
        /\ \A p \in 1 .. n : \E q \in 1 .. n : o[q] = p
    BY DEF Bijection, Injection, Surjection, IsInjective
  <1>2. IsFiniteSet(S)
    <2>1. IsFiniteSet(1 .. n) /\ S \subseteq 1 .. n
      BY FS_Interval DEF AtMost
    <2> QED
      BY <2>1, FS_Subset
  <1>3. h \in [S -> T] /\ (\A p, q \in S : h[p] = h[q] => p = q)
    BY <1>1 DEF AtMost
  <1>4. ASSUME NEW t \in T PROVE \E k \in S : h[k] = t
    <2>1. t \in 1 .. n /\ v[t] <= x
      BY DEF AtMost
    <2>2. PICK q \in 1 .. n : o[q] = t
      BY <1>1, <2>1
    <2>3. q \in S
      BY <2>1, <2>2 DEF AtMost
    <2> QED
      BY <2>2, <2>3
  <1> HIDE DEF h, S, T
  <1>5. h \in Bijection(S, T)
    BY <1>3, <1>4 DEF Bijection, Injection, Surjection, IsInjective
  <1>6. Cardinality(T) = Cardinality(S)
    BY <1>2, <1>5, FS_Bijection DEF ExistsBijection
  <1> QED
    BY <1>6 DEF S, T

(* The element of rank ceil(n p / 100) of the sorted latencies is the      *)
(* nearest-rank percentile of the latencies.                               *)
LEMMA PercentileIsRank ==
    ASSUME Latencies \subseteq Nat, \A i \in Ids : task[i].latency \in Nat,
           NEW p \in 1 .. 100
    PROVE  IsPercentile(Percentile(Sorted, p), p)
  <1> DEFINE n == Len(Requests)
             v == [i \in 1 .. n |-> task[i].latency]
  <1>1. n \in Nat /\ Ids = 1 .. n
    BY RequestsAssumption DEF Ids
  <1>2. \A i \in 1 .. n : v[i] \in Nat
    BY <1>1
  <1> DEFINE o == CHOOSE b \in Bijection(Ids, Ids) : Ascending(b)
  <1>3. o \in Bijection(1 .. n, 1 .. n) /\ Ascending(o)
    <2>1. PICK b \in Bijection(1 .. n, 1 .. n) : \A j, k \in 1 .. n : j < k => v[b[j]] <= v[b[k]]
      <3> HIDE DEF v, n
      <3> QED
        BY <1>1, <1>2, OrderExists
    <2>2. b \in [1 .. n -> 1 .. n]
      BY <2>1 DEF Bijection, Injection
    <2>3. Ascending(b)
      BY <1>1, <2>1, <2>2 DEF Ascending
    <2> QED
      BY <1>1, <2>1, <2>3
  <1>4. o \in [1 .. n -> 1 .. n]
    BY <1>3 DEF Bijection, Injection
  <1>5. Sorted = [k \in 1 .. n |-> v[o[k]]]
    <2>1. Sorted = [k \in Ids |-> task[o[k]].latency]
      BY DEF Sorted
    <2> HIDE DEF o
    <2> QED
      BY <1>1, <1>4, <2>1
  <1> HIDE DEF o
  <1>6. \A j, k \in 1 .. n : j <= k => v[o[j]] <= v[o[k]]
    BY <1>1, <1>2, <1>3, <1>4 DEF Ascending
  <1>7. \A x : Cardinality({i \in Ids : task[i].latency <= x}) = Cardinality(AtMost(n, v, x))
    <2> SUFFICES ASSUME NEW x
                 PROVE  {i \in Ids : task[i].latency <= x} = AtMost(n, v, x)
      OBVIOUS
    <2> QED
      BY <1>1 DEF AtMost
  <1> HIDE DEF v, n
  <1>8. ASSUME NEW x
        PROVE  /\ Cardinality(AtMost(n, Sorted, x)) = Cardinality(AtMost(n, v, x))
               /\ IsFiniteSet(AtMost(n, Sorted, x))
               /\ Cardinality(AtMost(n, v, x)) \in Nat
    <2>3. Cardinality(AtMost(n, Sorted, x)) = Cardinality(AtMost(n, v, x))
      <3>1. \A k \in 1 .. n : Sorted[k] = v[o[k]]
        BY <1>5
      <3> QED
        BY <1>1, <1>3, <3>1, CountInOrder
    <2>4. IsFiniteSet(AtMost(n, Sorted, x))
      <3>1. IsFiniteSet(1 .. n)
        <4>1. PICK m \in Nat : m = n
          BY <1>1
        <4>2. IsFiniteSet(1 .. m)
          BY FS_Interval
        <4> QED
          BY <4>1, <4>2
      <3>2. AtMost(n, Sorted, x) \subseteq 1 .. n
        BY DEF AtMost
      <3> QED
        BY <3>1, <3>2, FS_Subset
    <2> QED
      BY <2>3, <2>4, FS_CardinalityType
  <1> DEFINE w == Percentile(Sorted, p)
  <1>9. CASE n = 0
    <2>1. Sorted = <<>>
      BY <1>5, <1>9
    <2>2. w = 0
      BY <2>1 DEF Percentile
    <2>3. \A x : AtMost(n, v, x) = {}
      BY <1>9 DEF AtMost
    <2>4. \A x : Cardinality(AtMost(n, v, x)) = 0
      BY <2>3, FS_EmptySet
    <2>5. \A x \in Latencies : ~(x < 0)
      OBVIOUS
    <2>6. p * Len(Requests) = 0
      <3>1. p * 0 = 0
        OBVIOUS
      <3> QED
        BY <1>9, <3>1 DEF n
    <2>7. IsPercentile(0, p)
      <3>1. Cardinality({i \in Ids : task[i].latency <= 0}) = 0
        BY <1>7, <2>4
      <3>2. 100 * Cardinality({i \in Ids : task[i].latency <= 0}) >= p * Len(Requests)
        BY <2>6, <3>1
      <3> QED
        BY <2>5, <3>2 DEF IsPercentile
    <2> QED
      BY <2>2, <2>7
  <1>10. CASE n # 0
    <2> DEFINE r == (n * p + 99) \div 100
    <2>1. /\ r \in 1 .. n /\ 100 * r >= p * n /\ 100 * (r - 1) < p * n
      <3>1. n * p \in Nat /\ n * p >= 1 /\ n * p <= n * 100 /\ p * n = n * p
        BY <1>1, <1>10
      <3>2. PICK m \in Nat : m = n * p /\ m >= 1 /\ m <= n * 100
        BY <3>1
      <3>3. (m + 99) \div 100 \in 1 .. n /\ 100 * ((m + 99) \div 100) >= m
            /\ 100 * (((m + 99) \div 100) - 1) < m
        BY <1>1, <3>2
      <3> QED
        BY <3>1, <3>2, <3>3
    <2>2. w = v[o[r]]
      <3>1. Sorted # <<>> /\ Len(Sorted) = n
        BY <1>1, <1>5, <1>10
      <3>2. Sorted[r] = v[o[r]]
        BY <1>5, <2>1
      <3>3. w = Sorted[IF r = 0 THEN 1 ELSE IF r > n THEN n ELSE r]
        BY <3>1 DEF Percentile
      <3> HIDE DEF r, w
      <3> QED
        BY <1>1, <2>1, <3>2, <3>3
    <2> HIDE DEF r, w
    <2>3. v[o[r]] \in Nat /\ r \in Nat
      BY <1>1, <1>2, <1>4, <2>1
    <2>4. Cardinality(AtMost(n, v, w)) >= r
      <3>1. 1 .. r \subseteq AtMost(n, Sorted, w)
        BY <1>1, <1>5, <1>6, <2>1, <2>2 DEF AtMost
      <3>2. Cardinality(1 .. r) = r
        BY <2>3, FS_Interval
      <3>3. Cardinality(1 .. r) <= Cardinality(AtMost(n, Sorted, w))
        BY <1>8, <3>1, FS_Subset
      <3> QED
        BY <1>8, <3>2, <3>3
    <2>5. ASSUME NEW x \in Latencies, x < w
          PROVE  Cardinality(AtMost(n, v, x)) <= r - 1
      <3>1. AtMost(n, Sorted, x) \subseteq 1 .. r - 1
        <4> SUFFICES ASSUME NEW k \in 1 .. n, v[o[k]] <= x PROVE k \in 1 .. r - 1
          BY <1>5 DEF AtMost
        <4>1. v[o[k]] \in Nat /\ x \in Nat /\ r \in 1 .. n
          BY <1>2, <1>4, <2>1
        <4>2. ~(v[o[r]] <= v[o[k]])
          BY <2>2, <2>3, <2>5, <4>1
        <4>3. ~(r <= k)
          BY <1>6, <4>1, <4>2
        <4> QED
          BY <1>1, <2>3, <4>3
      <3>2. IsFiniteSet(1 .. r - 1) /\ Cardinality(1 .. r - 1) = r - 1
        <4>1. PICK q \in Nat : q = r - 1
          BY <1>1, <2>1
        <4>2. IsFiniteSet(1 .. q) /\ Cardinality(1 .. q) = q
          BY FS_Interval
        <4> QED
          BY <4>1, <4>2
      <3>3. Cardinality(AtMost(n, Sorted, x)) <= Cardinality(1 .. r - 1)
        BY <3>1, <3>2, FS_Subset
      <3> QED
        BY <1>8, <3>2, <3>3
    <2>6. 100 * Cardinality(AtMost(n, v, w)) >= p * n
      <3>1. Cardinality(AtMost(n, v, w)) \in Nat
        BY <1>8
      <3>2. PICK m \in Nat : m = p * n
        BY <1>1
      <3> QED
        BY <2>1, <2>3, <2>4, <3>1, <3>2
    <2>7. \A x \in Latencies : x < w => 100 * Cardinality(AtMost(n, v, x)) < p * n
      <3> SUFFICES ASSUME NEW x \in Latencies, x < w
                   PROVE  100 * Cardinality(AtMost(n, v, x)) < p * n
        OBVIOUS
      <3>1. Cardinality(AtMost(n, v, x)) \in Nat /\ Cardinality(AtMost(n, v, x)) <= r - 1
        BY <1>8, <2>5
      <3>2. PICK m \in Nat : m = p * n
        BY <1>1
      <3> QED
        BY <2>1, <2>3, <3>1, <3>2
    <2> QED
      BY <1>7, <2>6, <2>7 DEF IsPercentile, n, w
  <1> QED
    BY <1>9, <1>10

-----------------------------------------------------------------------------
(* The books: what the approved requests of an account cost.               *)

Tasks == [pc : {"start", "load", "exchange", "sign", "done"}, total : Nat,
          current : Nat, approved : BOOLEAN, slot : Nat, latency : Nat]

Buyers(tasks, c) == {i \in Ids : tasks[i].approved /\ Requests[i].card = c}
Cost(tasks, c) == SumFunctionOnSet([i \in Ids |-> tasks[i].total], Buyers(tasks, c))

(* The requests are numbered from one.                                     *)
LEMMA IdsAre == Ids = 1 .. Len(Requests) /\ Len(Requests) \in Nat /\ IsFiniteSet(Ids)
  <1>1. Ids = 1 .. Len(Requests) /\ Len(Requests) \in Nat
    BY RequestsAssumption DEF Ids
  <1>2. PICK n \in Nat : n = Len(Requests)
    BY <1>1
  <1>3. IsFiniteSet(1 .. n)
    BY FS_Interval
  <1> QED
    BY <1>1, <1>2, <1>3

(* A step that approves nobody, and changes no approved total, costs       *)
(* nothing.                                                                *)
LEMMA CostStays ==
    ASSUME NEW before \in [Ids -> Tasks], NEW after \in [Ids -> Tasks], NEW c,
           \A i \in Ids : /\ after[i].approved = before[i].approved
                          /\ before[i].approved => after[i].total = before[i].total
    PROVE  Cost(after, c) = Cost(before, c)
  <1> DEFINE f == [i \in Ids |-> before[i].total]
             g == [i \in Ids |-> after[i].total]
             S == Buyers(before, c)
  <1>1. Buyers(after, c) = S
    BY DEF Buyers
  <1>2. IsFiniteSet(S)
    BY IdsAre, FS_Subset DEF Buyers
  <1>3. \A i \in S : f[i] = g[i]
    BY DEF Buyers
  <1> HIDE DEF f, g, S
  <1>4. SumFunctionOnSet(f, S) = SumFunctionOnSet(g, S)
    BY <1>2, <1>3, SumSame
  <1> QED
    BY <1>1, <1>4 DEF Cost, f, g, S

(* An approval adds the total of the request to the cost of its account.   *)
LEMMA CostGrows ==
    ASSUME NEW before \in [Ids -> Tasks], NEW after \in [Ids -> Tasks], NEW c,
           NEW i \in Ids, ~before[i].approved, after[i].approved,
           after[i].total = before[i].total,
           \A j \in Ids \ {i} : after[j] = before[j]
    PROVE  Cost(after, c) = Cost(before, c) + IF Requests[i].card = c THEN before[i].total ELSE 0
  <1> DEFINE f == [j \in Ids |-> before[j].total]
             g == [j \in Ids |-> after[j].total]
             S == Buyers(before, c)
             T == Buyers(after, c)
  <1>1. IsFiniteSet(S) /\ IsFiniteSet(T)
    BY IdsAre, FS_Subset DEF Buyers
  <1>2. \A j \in Ids : f[j] = g[j] /\ f[j] \in Int
    BY DEF Tasks
  <1>3. S \subseteq Ids /\ T \subseteq Ids /\ i \notin S
    BY DEF Buyers
  <1>4. IF Requests[i].card = c THEN i \in T /\ T \ {i} = S ELSE T = S
    BY DEF Buyers
  <1>5. f[i] = before[i].total
    OBVIOUS
  <1>6. Cost(before, c) = SumFunctionOnSet(f, S) /\ Cost(after, c) = SumFunctionOnSet(g, T)
    BY DEF Cost
  <1> HIDE DEF f, g, S, T
  <1>7. SumFunctionOnSet(f, S) = SumFunctionOnSet(g, S)
    BY <1>1, <1>2, <1>3, SumSame
  <1>8. SumFunctionOnSet(g, S) \in Int
    BY <1>1, <1>2, <1>3, SumIsInteger
  <1>9. CASE Requests[i].card = c
    <2>1. i \in T /\ \A y \in T : g[y] \in Int
      BY <1>2, <1>3, <1>4, <1>9
    <2>2. SumFunctionOnSet(g, T) = g[i] + SumFunctionOnSet(g, T \ {i})
      BY <1>1, <2>1, SumRemove
    <2>3. g[i] = before[i].total /\ g[i] \in Int
      BY <1>2, <1>5
    <2>4. SumFunctionOnSet(g, T) = before[i].total + SumFunctionOnSet(f, S)
      BY <1>4, <1>7, <1>9, <2>2, <2>3
    <2> QED
      BY <1>6, <1>7, <1>8, <1>9, <2>3, <2>4
  <1>10. CASE Requests[i].card # c
    BY <1>4, <1>6, <1>7, <1>8, <1>10
  <1> QED
    BY <1>9, <1>10

(* What is to be paid is a sum of naturals.                                *)
LEMMA CostIsNatural ==
    ASSUME NEW tasks \in [Ids -> Tasks], NEW c PROVE Cost(tasks, c) \in Nat
  <1> DEFINE f == [j \in Ids |-> tasks[j].total]
             S == Buyers(tasks, c)
  <1>1. IsFiniteSet(S)
    BY IdsAre, FS_Subset DEF Buyers
  <1>2. \A j \in S : f[j] \in Nat
    BY DEF Tasks, Buyers
  <1>3. Cost(tasks, c) = SumFunctionOnSet(f, S)
    BY DEF Cost
  <1> HIDE DEF f, S
  <1> QED
    BY <1>1, <1>2, <1>3, SumIsNatural

\* What the first n deposits gave to c.
Given(n, c) == Cardinality({k \in 1 .. n : Deposits[k] = c})

(* One deposit more.                                                       *)
LEMMA GivenGrows ==
    ASSUME NEW n \in Nat, NEW c
    PROVE  /\ Given(n, c) \in Nat
           /\ Given(n + 1, c) = Given(n, c) + IF Deposits[n + 1] = c THEN 1 ELSE 0
  <1> DEFINE S == {k \in 1 .. n : Deposits[k] = c}
             T == {k \in 1 .. n + 1 : Deposits[k] = c}
  <1>1. IsFiniteSet(S)
    <2>1. IsFiniteSet(1 .. n)
      BY FS_Interval
    <2> QED
      BY <2>1, FS_Subset
  <1>2. n + 1 \notin S
    OBVIOUS
  <1>3. T = IF Deposits[n + 1] = c THEN S \cup {n + 1} ELSE S
    OBVIOUS
  <1>4. Given(n, c) = Cardinality(S) /\ Given(n + 1, c) = Cardinality(T)
    BY DEF Given
  <1> HIDE DEF S, T
  <1>5. Cardinality(S) \in Nat /\ Cardinality(S \cup {n + 1}) = Cardinality(S) + 1
    BY <1>1, <1>2, FS_CardinalityType, FS_AddElement
  <1> QED
    BY <1>3, <1>4, <1>5

-----------------------------------------------------------------------------
(* The invariant.                                                          *)

CSType ==
    /\ micro \in [Cards -> Nat]
    /\ rate \in Nat
    /\ deposited \in 0 .. Len(Deposits)
    /\ cursor \in Nat
    /\ joined \in 0 .. Len(Requests)
    /\ task \in [Ids -> Tasks]

\* Accounts hold what they were given less what they paid.
Balanced ==
    \A c \in Cards : micro[c] = StartMicro + DepositAmount * Given(deposited, c) - Cost(task, c)

\* The cursor counts the tasks that took a signature, each below it.
Signed == {i \in Ids : task[i].pc = "done"}
SlotsTaken ==
    /\ cursor = Cardinality(Signed)
    /\ \A i \in Signed : task[i].slot < cursor
    /\ \A i, j \in Signed : i # j => task[i].slot # task[j].slot

\* A task approves once and after it compared; main sums up after all of them.
InOrder ==
    /\ \A i \in Ids : task[i].approved => task[i].pc \in {"sign", "done"}
    /\ \A i \in Ids : task[i].pc = "exchange" => task[i].current >= task[i].total
    /\ \A k \in 1 .. joined : task[k].pc = "done"
    /\ stop => joined = Len(Requests)
    /\ summary # NoSummary =>
           /\ stop /\ summary.consistent
           /\ IsPercentile(summary.p50, 50) /\ IsPercentile(summary.p99, 99)

CSInv == CSType /\ Balanced /\ SlotsTaken /\ InOrder

(* Once the feed is stopped every task is done.                            *)
LEMMA StoppedMeansDone == ASSUME CSInv, stop PROVE \A i \in Ids : task[i].pc = "done"
  BY IdsAre DEF CSInv, InOrder

(* A step of one task, which no summary has seen.                          *)
LEMMA TaskAlone ==
    ASSUME CSInv, NEW i \in Ids, NEW t \in Tasks, task[i].pc # "done",
           task' = [task EXCEPT ![i] = t],
           UNCHANGED <<stop, joined, summary>>,
           t.approved => t.pc \in {"sign", "done"},
           t.pc = "exchange" => t.current >= t.total
    PROVE  task' \in [Ids -> Tasks] /\ InOrder'
  <1>1. task \in [Ids -> Tasks]
    BY DEF CSInv, CSType
  <1>2. /\ task' \in [Ids -> Tasks] /\ task'[i] = t
        /\ \A j \in Ids \ {i} : task'[j] = task[j]
    BY <1>1
  <1>3. ~stop /\ summary = NoSummary
    BY StoppedMeansDone DEF CSInv, InOrder
  <1>4. \A k \in 1 .. joined : k \in Ids /\ task[k].pc = "done"
    BY IdsAre DEF CSInv, CSType, InOrder
  <1>5. \A k \in 1 .. joined' : task'[k].pc = "done"
    BY <1>2, <1>4
  <1>6. \A j \in Ids : /\ task'[j].approved => task'[j].pc \in {"sign", "done"}
                       /\ task'[j].pc = "exchange" => task'[j].current >= task'[j].total
    BY <1>2 DEF CSInv, InOrder
  <1> QED
    BY <1>2, <1>3, <1>5, <1>6 DEF InOrder, NoSummary

(* No signature is taken.                                                  *)
LEMMA SlotsStay ==
    ASSUME SlotsTaken, cursor' = cursor, Signed' = Signed,
           \A i \in Signed : task'[i].slot = task[i].slot
    PROVE  SlotsTaken'
  BY DEF SlotsTaken

(* What the constants are.                                                 *)
LEMMA Amounts ==
    /\ InitialRate \in Nat /\ DepositAmount \in Nat /\ StartMicro \in Nat /\ FeeBps \in Nat
    /\ Rates \subseteq Nat /\ Latencies \subseteq Nat
    /\ \A i \in Ids : Requests[i].card \in Cards /\ Requests[i].amount \in Nat
    /\ \A k \in 1 .. Len(Deposits) : Deposits[k] \in Cards
    /\ Len(Deposits) \in Nat
  <1>1. \A i \in Ids : Requests[i] \in [card : Cards, amount : Nat]
    <2>1. PICK S : S = [card : Cards, amount : Nat]
      OBVIOUS
    <2>2. Requests \in Seq(S)
      BY <2>1, RequestsAssumption
    <2>3. \A i \in 1 .. Len(Requests) : Requests[i] \in S
      BY <2>2
    <2> QED
      BY <2>1, <2>3, IdsAre
  <1>2. /\ \A k \in 1 .. Len(Deposits) : Deposits[k] \in Cards
        /\ Len(Deposits) \in Nat
    BY RequestsAssumption
  <1> QED
    BY <1>1, <1>2, AmountsAssumption, LatenciesAssumption

(* A task that is not approved, nor by this step, leaves the books alone.  *)
LEMMA BooksStay ==
    ASSUME CSInv, task' \in [Ids -> Tasks], micro' = micro, deposited' = deposited,
           \A i \in Ids : /\ task'[i].approved = task[i].approved
                          /\ task[i].approved => task'[i].total = task[i].total
    PROVE  Balanced'
  <1>1. \A c : Cost(task', c) = Cost(task, c)
    BY CostStays DEF CSInv, CSType
  <1> QED
    BY <1>1 DEF CSInv, Balanced

(* A task reads the rate and computes what it will debit.                  *)
LEMMA ReadRateKeeps == ASSUME CSInv, NEW i \in Ids, ReadRate(i) PROVE CSInv'
  <1> DEFINE t == [task[i] EXCEPT !.pc = "load", !.total = Total(i)]
  <1>1. task \in [Ids -> Tasks] /\ task[i] \in Tasks /\ task[i].pc = "start"
    BY DEF CSInv, CSType, ReadRate
  <1>2. Total(i) \in Nat
    <2>1. PICK a \in Nat : a = Requests[i].amount * rate
      BY Amounts DEF CSInv, CSType
    <2>2. PICK b \in Nat : b = Base(i)
      BY <2>1 DEF Base
    <2>3. PICK d \in Nat : d = b * FeeBps
      BY Amounts
    <2> QED
      BY <2>2, <2>3 DEF Total
  <1>3. ~task[i].approved
    BY <1>1 DEF CSInv, InOrder
  <1>4. t \in Tasks /\ t.pc = "load" /\ t.approved = FALSE /\ t.slot = task[i].slot
    BY <1>1, <1>2, <1>3 DEF Tasks
  <1>5. task' = [task EXCEPT ![i] = t]
    BY <1>1 DEF ReadRate, Tasks
  <1> HIDE DEF t
  <1>6. task' \in [Ids -> Tasks] /\ InOrder'
    BY <1>1, <1>4, <1>5, TaskAlone DEF ReadRate
  <1>7. \A j \in Ids : task'[j] = IF j = i THEN t ELSE task[j]
    BY <1>1, <1>5
  <1>8. Balanced'
    BY <1>3, <1>4, <1>6, <1>7, BooksStay DEF ReadRate
  <1>9. SlotsTaken'
    <2>1. Signed' = Signed
      BY <1>1, <1>4, <1>7 DEF Signed
    <2>2. \A j \in Signed : task'[j].slot = task[j].slot
      BY <1>4, <1>7 DEF Signed
    <2> QED
      BY <2>1, <2>2, SlotsStay DEF ReadRate, CSInv
  <1>10. CSType'
    BY <1>6 DEF CSInv, CSType, ReadRate
  <1> QED
    BY <1>6, <1>8, <1>9, <1>10 DEF CSInv

(* A task loads the balance and compares.                                  *)
LEMMA LoadKeeps == ASSUME CSInv, NEW i \in Ids, Load(i) PROVE CSInv'
  <1> DEFINE b == micro[Requests[i].card]
             t == [task[i] EXCEPT !.current = b,
                                  !.pc = IF b < task[i].total THEN "sign" ELSE "exchange"]
  <1>1. task \in [Ids -> Tasks] /\ task[i] \in Tasks /\ task[i].pc \in {"load", "exchange"}
    BY DEF CSInv, CSType, Load
  <1>2. b \in Nat /\ task[i].total \in Nat
    BY <1>1, Amounts DEF CSInv, CSType, Tasks
  <1>3. ~task[i].approved
    BY <1>1 DEF CSInv, InOrder
  <1>4. /\ t \in Tasks /\ t.pc \in {"sign", "exchange"} /\ t.approved = FALSE
        /\ t.pc = "exchange" => t.current >= t.total
    <2>1. t \in Tasks /\ t.current = b /\ t.total = task[i].total /\ t.approved = FALSE
      BY <1>1, <1>2, <1>3 DEF Tasks
    <2>2. t.pc = IF b < task[i].total THEN "sign" ELSE "exchange"
      BY <1>1 DEF Tasks
    <2> HIDE DEF t, b
    <2> QED
      BY <1>2, <2>1, <2>2
  <1>5. task' = [task EXCEPT ![i] = t]
    BY <1>1 DEF Load, Tasks
  <1> HIDE DEF t
  <1>6. task' \in [Ids -> Tasks] /\ InOrder'
    BY <1>1, <1>4, <1>5, TaskAlone DEF Load
  <1>7. \A j \in Ids : task'[j] = IF j = i THEN t ELSE task[j]
    BY <1>1, <1>5
  <1>8. Balanced'
    BY <1>3, <1>4, <1>6, <1>7, BooksStay DEF Load
  <1>9. SlotsTaken'
    <2>1. Signed' = Signed
      BY <1>1, <1>4, <1>7 DEF Signed
    <2>2. \A j \in Signed : task'[j].slot = task[j].slot
      BY <1>1, <1>7 DEF Signed
    <2> QED
      BY <2>1, <2>2, SlotsStay DEF Load, CSInv
  <1>10. CSType'
    BY <1>6 DEF CSInv, CSType, Load
  <1> QED
    BY <1>6, <1>8, <1>9, <1>10 DEF CSInv

(* The exchange succeeds over the balance that was compared: the account   *)
(* pays what the books gain.                                               *)
LEMMA ExchangeKeeps == ASSUME CSInv, NEW i \in Ids, Exchange(i) PROVE CSInv'
  <1> DEFINE a == Requests[i].card
             t == [task[i] EXCEPT !.pc = "sign", !.approved = TRUE]
  <1>1. task \in [Ids -> Tasks] /\ task[i] \in Tasks /\ task[i].pc = "exchange"
    BY DEF CSInv, CSType, Exchange
  <1>2. a \in Cards /\ micro \in [Cards -> Nat] /\ task[i].total \in Nat
    BY <1>1, Amounts DEF CSInv, CSType, Tasks
  <1>3. ~task[i].approved /\ micro[a] >= task[i].total
    BY <1>1 DEF CSInv, InOrder, Exchange
  <1>4. t \in Tasks /\ t.pc = "sign" /\ t.approved = TRUE /\ t.total = task[i].total
    BY <1>1 DEF Tasks
  <1>5. task' = [task EXCEPT ![i] = t] /\ micro' = [micro EXCEPT ![a] = micro[a] - task[i].total]
    BY <1>1 DEF Exchange, Tasks
  <1> HIDE DEF t
  <1>6. task' \in [Ids -> Tasks] /\ InOrder'
    BY <1>1, <1>4, <1>5, TaskAlone DEF Exchange
  <1>7. \A j \in Ids : task'[j] = IF j = i THEN t ELSE task[j]
    BY <1>1, <1>5
  <1>8. Balanced'
    <2> SUFFICES ASSUME NEW c \in Cards
                 PROVE  micro'[c] = StartMicro + DepositAmount * Given(deposited', c) - Cost(task', c)
      BY DEF Balanced
    <2>1. Cost(task', c) = Cost(task, c) + IF a = c THEN task[i].total ELSE 0
      BY <1>1, <1>3, <1>4, <1>6, <1>7, CostGrows
    <2>2. micro[c] = StartMicro + DepositAmount * Given(deposited, c) - Cost(task, c)
      BY DEF CSInv, Balanced
    <2>3. PICK g : g = DepositAmount * Given(deposited, c)
      OBVIOUS
    <2>4. g \in Int
      <3>1. Given(deposited, c) \in Nat
        BY GivenGrows DEF CSInv, CSType
      <3> QED
        BY <2>3, <3>1, Amounts
    <2>5. Cost(task, c) \in Nat
      BY <1>1, CostIsNatural
    <2>6. micro'[c] = IF a = c THEN micro[c] - task[i].total ELSE micro[c]
      BY <1>2, <1>5
    <2>7. deposited' = deposited
      BY DEF Exchange
    <2>8. micro[c] = StartMicro + g - Cost(task, c)
      BY <2>2, <2>3
    <2>9. micro'[c] = StartMicro + g - Cost(task', c)
      BY <1>2, <2>1, <2>4, <2>5, <2>6, <2>8, Amounts
    <2> QED
      BY <2>3, <2>7, <2>9
  <1>9. SlotsTaken'
    <2>1. Signed' = Signed
      BY <1>1, <1>4, <1>7 DEF Signed
    <2>2. \A j \in Signed : task'[j].slot = task[j].slot
      BY <1>1, <1>7 DEF Signed
    <2> QED
      BY <2>1, <2>2, SlotsStay DEF Exchange, CSInv
  <1>10. micro' \in [Cards -> Nat]
    <2>1. micro[a] - task[i].total \in Nat
      BY <1>2, <1>3
    <2> HIDE DEF a
    <2> QED
      BY <1>2, <1>5, <2>1
  <1>11. CSType'
    BY <1>6, <1>10 DEF CSInv, CSType, Exchange
  <1> QED
    BY <1>6, <1>8, <1>9, <1>11 DEF CSInv

(* The cursor has passed fewer slots than the pool has, so the slot is new.*)
LEMMA TakeSignatureKeeps == ASSUME CSInv, NEW i \in Ids, TakeSignature(i) PROVE CSInv'
  <1>1. task \in [Ids -> Tasks] /\ task[i] \in Tasks /\ task[i].pc = "sign"
    BY DEF CSInv, CSType, TakeSignature
  <1>2. PICK l \in Latencies :
            task' = [task EXCEPT ![i].pc = "done", ![i].slot = cursor % PoolSize, ![i].latency = l]
    BY DEF TakeSignature
  <1> DEFINE t == [task[i] EXCEPT !.pc = "done", !.slot = cursor % PoolSize, !.latency = l]
  <1>3. cursor \in Nat /\ cursor' = cursor + 1 /\ cursor = Cardinality(Signed)
    BY DEF CSInv, CSType, TakeSignature, SlotsTaken
  <1>4. IsFiniteSet(Signed) /\ i \notin Signed
    BY <1>1, IdsAre, FS_Subset DEF Signed
  <1>5. cursor < PoolSize
    <2>1. PICK n \in Nat : n = Len(Requests)
      BY IdsAre
    <2>2. IsFiniteSet(Ids) /\ Cardinality(Ids) = n
      <3>1. Ids = 1 .. n
        BY <2>1, IdsAre
      <3>2. Cardinality(1 .. n) = n
        BY FS_Interval
      <3> QED
        BY <3>1, <3>2, IdsAre
    <2>3. Signed \subseteq Ids
      BY DEF Signed
    <2>4. Cardinality(Signed) <= Cardinality(Ids)
      BY <2>2, <2>3, FS_Subset
    <2> QED
      BY <1>3, <2>1, <2>2, <2>4, PoolAssumption
  <1>6. cursor % PoolSize = cursor
    BY <1>3, <1>5, PoolAssumption
  <1>7. /\ t \in Tasks /\ t.pc = "done" /\ t.approved = task[i].approved
        /\ t.total = task[i].total /\ t.slot = cursor
    BY <1>1, <1>3, <1>6, Amounts DEF Tasks
  <1>8. task' = [task EXCEPT ![i] = t]
    BY <1>1, <1>2 DEF Tasks
  <1> HIDE DEF t
  <1>9. task' \in [Ids -> Tasks] /\ InOrder'
    BY <1>1, <1>7, <1>8, TaskAlone DEF TakeSignature
  <1>10. \A j \in Ids : task'[j] = IF j = i THEN t ELSE task[j]
    BY <1>1, <1>8
  <1>11. Balanced'
    BY <1>7, <1>9, <1>10, BooksStay DEF TakeSignature
  <1>12. SlotsTaken'
    <2>1. Signed' = Signed \cup {i}
      BY <1>7, <1>10 DEF Signed
    <2>2. cursor' = Cardinality(Signed')
      BY <1>3, <1>4, <2>1, FS_AddElement
    <2>3. \A j \in Signed : task[j].slot < cursor /\ task[j].slot \in Nat
      BY <1>1 DEF CSInv, SlotsTaken, Signed, Tasks
    <2>4. \A j \in Signed' : task'[j].slot = IF j = i THEN cursor ELSE task[j].slot
      BY <1>7, <1>10 DEF Signed
    <2>5. \A j \in Signed' : j = i \/ j \in Signed
      BY <2>1
    <2>6. \A j \in Signed' : task'[j].slot < cursor'
      BY <1>3, <2>3, <2>4, <2>5
    <2>7. \A j, k \in Signed : j # k => task[j].slot # task[k].slot
      BY DEF CSInv, SlotsTaken
    <2>8. \A j, k \in Signed' : j # k => task'[j].slot # task'[k].slot
      BY <1>3, <2>3, <2>4, <2>5, <2>7
    <2> QED
      BY <2>2, <2>6, <2>8 DEF SlotsTaken
  <1>13. CSType'
    BY <1>3, <1>9 DEF CSInv, CSType, TakeSignature
  <1> QED
    BY <1>9, <1>11, <1>12, <1>13 DEF CSInv

(* A deposit is credited to the account it is for.                         *)
LEMMA DepositKeeps == ASSUME CSInv, DepositNext PROVE CSInv'
  <1> DEFINE a == Deposits[deposited + 1]
  <1>1. /\ micro \in [Cards -> Nat] /\ deposited \in Nat /\ deposited < Len(Deposits)
        /\ deposited' = deposited + 1 /\ task \in [Ids -> Tasks]
    BY Amounts DEF CSInv, CSType, DepositNext
  <1>2. a \in Cards
    BY <1>1, Amounts
  <1>3. micro' = [micro EXCEPT ![a] = micro[a] + DepositAmount]
    BY DEF DepositNext
  <1>4. micro' \in [Cards -> Nat] /\ deposited' \in 0 .. Len(Deposits)
    BY <1>1, <1>2, <1>3, Amounts
  <1> HIDE DEF a
  <1>5. Balanced'
    <2> SUFFICES ASSUME NEW c \in Cards
                 PROVE  micro'[c] = StartMicro + DepositAmount * Given(deposited', c) - Cost(task', c)
      BY DEF Balanced
    <2>1. PICK g \in Nat : g = Given(deposited, c)
      BY <1>1, GivenGrows
    <2>2. Given(deposited', c) = g + IF a = c THEN 1 ELSE 0
      BY <1>1, <2>1, GivenGrows DEF a
    <2>3. PICK m \in Nat : m = DepositAmount * g
      BY Amounts
    <2>4. DepositAmount * Given(deposited', c) = m + IF a = c THEN DepositAmount ELSE 0
      <3>1. DepositAmount * (g + 1) = m + DepositAmount /\ DepositAmount * (g + 0) = m
        BY <2>3, Amounts
      <3> QED
        BY <2>2, <3>1, Amounts
    <2>5. micro[c] = StartMicro + m - Cost(task, c)
      BY <2>1, <2>3 DEF CSInv, Balanced
    <2>6. Cost(task, c) \in Nat /\ Cost(task', c) = Cost(task, c)
      BY <1>1, CostIsNatural DEF DepositNext
    <2>7. micro'[c] = micro[c] + IF a = c THEN DepositAmount ELSE 0
      BY <1>1, <1>2, <1>3, Amounts
    <2> QED
      BY <2>4, <2>5, <2>6, <2>7, Amounts
  <1>6. SlotsTaken' /\ InOrder'
    BY DEF CSInv, SlotsTaken, Signed, InOrder, IsPercentile, DepositNext
  <1> QED
    BY <1>4, <1>5, <1>6 DEF CSInv, CSType, DepositNext

(* The feed and main.                                                      *)
LEMMA MainKeeps == ASSUME CSInv, Feed \/ Join \/ StopFeed \/ SumUp PROVE CSInv'
  <1>1. UNCHANGED <<micro, deposited, task, cursor>>
    BY DEF Feed, Join, StopFeed, SumUp
  <1>2. Balanced' /\ SlotsTaken'
    BY <1>1 DEF CSInv, Balanced, SlotsTaken, Signed
  <1>3. joined' \in 0 .. Len(Requests) /\ rate' \in Nat
    <2>1. PICK n \in Nat : n = Len(Requests)
      BY IdsAre
    <2>2. joined \in 0 .. n
      BY <2>1 DEF CSInv, CSType
    <2>3. joined' = joined \/ (joined < n /\ joined' = joined + 1)
      BY <2>1 DEF Feed, Join, StopFeed, SumUp
    <2>4. joined' \in 0 .. n
      BY <2>1, <2>2, <2>3
    <2>5. rate' = rate \/ rate' \in Rates
      BY DEF Feed, Join, StopFeed, SumUp
    <2>6. rate' \in Nat
      BY <2>5, Amounts DEF CSInv, CSType
    <2> QED
      BY <2>1, <2>4, <2>6
  <1>4. CSType'
    BY <1>1, <1>3 DEF CSInv, CSType
  <1>5. \A k \in 1 .. joined' : task'[k].pc = "done"
    <2> SUFFICES ASSUME NEW k \in 1 .. joined' PROVE task[k].pc = "done"
      BY <1>1
    <2>1. joined' = joined \/ (joined' = joined + 1 /\ task[joined + 1].pc = "done")
      BY DEF Feed, Join, StopFeed, SumUp
    <2> QED
      BY <2>1, IdsAre DEF CSInv, CSType, InOrder
  <1>6. stop' => joined' = Len(Requests)
    <2>1. PICK n \in Nat : n = Len(Requests)
      BY IdsAre
    <2>2. joined \in 0 .. n /\ (stop => joined = n)
      BY <2>1 DEF CSInv, CSType, InOrder
    <2>3. \/ stop' = stop /\ joined' = joined
          \/ stop' = stop /\ joined < n
          \/ joined' = joined /\ joined = n
      BY <2>1 DEF Feed, Join, StopFeed, SumUp
    <2>4. joined < n => joined # n
      BY <2>1, <2>2
    <2>5. stop' => joined' = n
      BY <2>2, <2>3, <2>4, Zenon
    <2> QED
      BY <2>1, <2>5
  <1>7. ASSUME summary' # NoSummary
        PROVE  /\ stop' /\ summary'.consistent
               /\ IsPercentile(summary.p50, 50)' /\ IsPercentile(summary.p99, 99)'
    <2>1. CASE SumUp
      <3>1. /\ stop' /\ summary'.consistent = (\A c \in Cards : micro[c] >= 0)
            /\ summary'.p50 = Percentile(Sorted, 50) /\ summary'.p99 = Percentile(Sorted, 99)
        BY <2>1 DEF SumUp
      <3>2. \A c \in Cards : micro[c] >= 0
        BY DEF CSInv, CSType
      <3>3. \A i \in Ids : task[i].latency \in Nat
        BY DEF CSInv, CSType, Tasks
      <3>4. IsPercentile(summary'.p50, 50) /\ IsPercentile(summary'.p99, 99)
        <4>1. 50 \in 1 .. 100 /\ 99 \in 1 .. 100
          OBVIOUS
        <4> QED
          BY <3>1, <3>3, <4>1, Amounts, PercentileIsRank
      <3> QED
        BY <1>1, <3>1, <3>2, <3>4 DEF IsPercentile
    <2>2. CASE Feed \/ Join \/ StopFeed
      <3>1. summary' = summary /\ (stop => stop')
        BY <2>2 DEF Feed, Join, StopFeed
      <3> QED
        BY <1>1, <1>7, <3>1 DEF CSInv, InOrder, IsPercentile
    <2> QED
      BY <2>1, <2>2
  <1>8. InOrder'
    BY <1>1, <1>5, <1>6, <1>7 DEF CSInv, InOrder
  <1> QED
    BY <1>2, <1>4, <1>8 DEF CSInv

(* Every step keeps the invariant.                                         *)
LEMMA CSStepKeeps == CSInv /\ [CSNext]_csVars => CSInv'
  <1> SUFFICES ASSUME CSInv, [CSNext]_csVars PROVE CSInv'
    OBVIOUS
  <1>1. CASE UNCHANGED csVars
    BY <1>1 DEF csVars, CSInv, CSType, Balanced, SlotsTaken, Signed, InOrder, IsPercentile
  <1>2. CASE CSNext
    BY <1>2, ReadRateKeeps, LoadKeeps, ExchangeKeeps, TakeSignatureKeeps, DepositKeeps,
       MainKeeps DEF CSNext, TaskStep
  <1> QED
    BY <1>1, <1>2

(* It holds before the first request.                                      *)
LEMMA CSInitHolds == CSInit => CSInv
  <1> SUFFICES ASSUME CSInit PROVE CSInv
    OBVIOUS
  <1>1. CSType
    BY IdsAre, Amounts DEF CSInit, CSType, Tasks
  <1>2. Balanced
    <2> SUFFICES ASSUME NEW c \in Cards
                 PROVE  micro[c] = StartMicro + DepositAmount * Given(deposited, c) - Cost(task, c)
      BY DEF Balanced
    <2>1. Given(deposited, c) = 0
      <3>1. {k \in 1 .. deposited : Deposits[k] = c} = {}
        BY DEF CSInit
      <3> QED
        BY <3>1, FS_EmptySet DEF Given
    <2>2. Cost(task, c) = 0
      <3>1. Buyers(task, c) = {}
        BY DEF CSInit, Buyers
      <3> QED
        BY <3>1, SumOfNothing DEF Cost
    <2>3. DepositAmount * 0 = 0
      BY Amounts
    <2> QED
      BY <2>1, <2>2, <2>3, Amounts DEF CSInit
  <1>3. SlotsTaken
    <2>1. Signed = {} /\ cursor = 0
      BY DEF CSInit, Signed
    <2> QED
      BY <2>1, FS_EmptySet DEF SlotsTaken
  <1>4. InOrder
    BY DEF CSInit, InOrder
  <1> QED
    BY <1>1, <1>2, <1>3, <1>4 DEF CSInv

(* SimulationIsExact: the books of debit_account and the deposit thread    *)
(* balance at every moment, no two requests share a signature, and the     *)
(* summary comes after every task, with nearest-rank percentiles.          *)
THEOREM SimulationIsExactHolds == CSSpec => []SimulationIsExact
  <1>1. CSInv => SimulationIsExact
    <2> SUFFICES ASSUME CSInv PROVE SimulationIsExact
      OBVIOUS
    <2>1. \A c \in Cards : /\ micro[c] = StartMicro + Credited(c) - Paid(c)
                           /\ micro[c] >= 0
      <3> SUFFICES ASSUME NEW c \in Cards
                   PROVE  micro[c] = StartMicro + Credited(c) - Paid(c) /\ micro[c] >= 0
        OBVIOUS
      <3>1. Credited(c) = DepositAmount * Given(deposited, c)
        BY DEF Credited, Given
      <3>2. Paid(c) = Cost(task, c)
        BY DEF Paid, Cost, Buyers
      <3>3. micro[c] \in Nat
        BY DEF CSInv, CSType
      <3>4. micro[c] = StartMicro + DepositAmount * Given(deposited, c) - Cost(task, c)
        BY DEF CSInv, Balanced
      <3> QED
        BY <3>1, <3>2, <3>3, <3>4
    <2>2. \A i, j \in Ids : task[i].pc = "done" /\ task[j].pc = "done" /\ i # j
                                => task[i].slot # task[j].slot
      BY DEF CSInv, SlotsTaken, Signed
    <2>3. summary # NoSummary =>
              /\ summary.consistent
              /\ joined = Len(Requests) /\ \A i \in Ids : task[i].pc = "done"
              /\ IsPercentile(summary.p50, 50) /\ IsPercentile(summary.p99, 99)
      BY StoppedMeansDone DEF CSInv, InOrder
    <2> QED
      BY <2>1, <2>2, <2>3 DEF SimulationIsExact, BooksAreExact
  <1>2. CSSpec => []CSInv
    BY CSInitHolds, CSStepKeeps, PTL DEF CSSpec
  <1> QED
    BY <1>1, <1>2, PTL

=============================================================================
