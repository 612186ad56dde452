----------------------------- MODULE MCServices -----------------------------
(***************************************************************************)
(* The programs around the gate: the KYC webhook, the forwarding handlers, *)
(* the live paper-trading session and the internal card simulation.  They  *)
(* share no state, so a behaviour runs one of them and leaves the others   *)
(* where they start: the states add up instead of multiplying.             *)
(***************************************************************************)
EXTENDS PaperTrading, CardSimulation, KycWebhook, ProviderForwarding

CONSTANTS a1, a2, a3, none, c1, c2, alice, bob

\* Three tradable markets among others, or too few of them.
Market(open, assets) == [open |-> open, assets |-> assets]
MCListings ==
    {<<Market(TRUE, {a1}), Market(FALSE, {a3}), Market(TRUE, {}), Market(TRUE, {a2}),
       Market(TRUE, {a1, a2}), Market(TRUE, {a3})>>,
     <<Market(TRUE, {a1}), Market(TRUE, {a3})>>}

\* A spread that fires and the same for an asset not followed; a wider one, by
\* a level of asks alone, with another asset behind it in the same text.
Quote(a, bid, ask) ==
    [asset |-> a, best_bid |-> bid, best_ask |-> ask, bids |-> <<>>, asks |-> <<>>]
MCBatches ==
    {<<Quote(a1, 48, 50), Quote(a3, 48, 50)>>,
     <<[Quote(a1, none, none) EXCEPT !.asks = <<[price |-> 52, size |-> 30]>>],
       Quote(a2, 40, 42)>>}

\* Two requests compete for a balance that covers one, or both after a deposit.
MCRequests ==
    <<[card |-> c1, amount |-> 10], [card |-> c1, amount |-> 20], [card |-> c2, amount |-> 10]>>
MCDeposits == <<c1>>

Event(type, user, application, kyc) ==
    [type |-> type, user |-> user, application |-> application, kyc |-> kyc]
Unproven == Event("user.updated", bob, "approved", "none")
Nobody == Event("user.updated", alice, "denied", "none")
MCEvents ==
    {Event("user.updated", alice, "pending", "none"),
     Event("user.updated", alice, "processing", "approved"),
     Event("user.updated", alice, "denied", "rejected"),
     Event("user.created", bob, "approved", "none"), Unproven, Nobody}
MCMalformed == {Nobody}
MCUnsigned == {Unproven}

MCClients == {"p", "s", "g"}
MCKindOf == [c \in MCClients |-> CASE c = "p" -> "sbp_payment"
                                   [] c = "s" -> "permanent"
                                   [] c = "g" -> "authorize"]

VARIABLE running

MCInit ==
    /\ PTInit /\ CSInit /\ KWInit /\ PFInit
    /\ running \in {"paper", "cards", "kyc", "forward"}

allVars == <<running, ptVars, csVars, kwVars, pfVars>>

Paper(A) == running = "paper" /\ A /\ UNCHANGED <<running, csVars, kwVars, pfVars>>
CardRun(A) == running = "cards" /\ A /\ UNCHANGED <<running, ptVars, kwVars, pfVars>>
Kyc(A) == running = "kyc" /\ A /\ UNCHANGED <<running, ptVars, csVars, pfVars>>
Forward(A) == running = "forward" /\ A /\ UNCHANGED <<running, ptVars, csVars, kwVars>>

MCNext == Paper(PTNext) \/ CardRun(CSNext) \/ Kyc(KWNext) \/ Forward(PFNext)

(* PTFairness and KWFairness, each for the program that runs.              *)
MCFairness ==
    /\ WF_allVars(Paper(SessionStep)) /\ WF_allVars(Paper(PassTime))
    /\ \A n \in Trades : WF_allVars(Paper(TradeStep(n)))
    /\ \A h \in Hooks : WF_allVars(Kyc(Hook(h)))
    /\ \A e \in Events :
           Outcome(e) => SF_allVars(Kyc(\E h \in Hooks : Post(h, e)))

MCSpec == MCInit /\ [][MCNext]_allVars /\ MCFairness

(* The session of the program that runs ends, and listed trades with it.   *)
PaperSessionEnds == running = "paper" => SessionEnds

(* The outcomes reach the gate when it is the webhook that runs.           *)
KycOutcomeReachesGate == running = "kyc" => OutcomeReachesGate

=============================================================================
