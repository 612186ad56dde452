---------------------------- MODULE PaperTrading ----------------------------
(***************************************************************************)
(* The live paper-trading session of src/bin/hft_web3_e2e_sim.rs:          *)
(* run_live_paper_trading, process_market_message and the report.          *)
(*                                                                         *)
(* One loop reads market messages, keeps the best bid and ask of every     *)
(* asset and fires a trade when the spread is wide enough.  A trade is a   *)
(* task of its own: it waits, looks at the book again, changes the virtual *)
(* balance under one lock and pushes its record under another.  The report *)
(* copies what these locks protect one after the other, while tasks run.   *)
(* When the loop ends the report is completed and the process exits with   *)
(* whatever tasks are still waiting.                                       *)
(*                                                                         *)
(* The session and its heartbeat task write to the socket under one mutex, *)
(* and neither the handshake nor a write has a timeout: each ends when the *)
(* peer lets it, if ever.  Only the write of the heartbeat is modelled: it  *)
(* begins at any time the mutex is free, or never again once one failed.   *)
(*                                                                         *)
(* Prices are cents, money is in tenths of a dollar, time in ticks since   *)
(* the session started, after its subscription.  Signatures and latency    *)
(* samples are left out.  An operator named Bug... is a mutated form of    *)
(* the definition after it: no action uses it, the project file says which *)
(* property rejects it.                                                    *)
(***************************************************************************)
EXTENDS Integers, Sequences, Functions

CONSTANTS
    Assets,        \* asset ids
    Listings,      \* answers of the market service: sequences of [open, assets]
    Fallback,      \* the documented sample assets
    Batches,       \* the items of a text: [asset, best_bid, best_ask, bids, asks]
    Missing,       \* a field the message does not have
    LiveSeconds, ReadTimeout, Wait, Cooldown, SnapshotInterval,
    MaxTrades,     \* 100
    StartBalance, Stake, Profit,
    MaxClock       \* bound: when the model stops counting time

ASSUME TimesAssumption ==
    /\ {LiveSeconds, ReadTimeout, Wait, Cooldown, SnapshotInterval, MaxTrades} \subseteq Nat
    /\ MaxClock \in Nat
ASSUME MoneyAssumption == {StartBalance, Stake, Profit} \subseteq Int /\ Missing \notin Nat

(* Everything a message can bring names an asset.                          *)
Items == UNION {{batch[i] : i \in DOMAIN batch} : batch \in Batches}

ASSUME ItemsAssumption == Batches \subseteq Seq(Items) /\ \A item \in Items : item.asset \in Assets

VARIABLES
    clock,
    subscribed, \* assets of the markets the session follows
    beating,    \* the heartbeat task holds the mutex of the writer and sends
    session,   \* where run_live_paper_trading stands, and since when it waits to read
    inbox,     \* items of the message being processed
    book,      \* book[a]: OrderBookState of asset a
    fired,     \* trade_counter
    trade,     \* trade[n]: the task of trade number n
    listed,    \* trades: numbers of the records pushed so far
    balance,   \* balance_usd
    snapped,   \* last_snapshot
    cut,       \* what the snapshot under construction has copied
    report     \* the report written last

tradeVars == <<trade, listed, balance>>
marketVars == <<inbox, book, fired>>
reportVars == <<snapped, cut, report>>
ptVars == <<clock, subscribed, beating, session, marketVars, tradeVars, reportVars>>

Trades == 1 .. MaxTrades
NoTrade == [pc |-> "none", asset |-> Missing, ask |-> 0, at |-> 0, post |-> Missing]

Nothing == [trades |-> {}, balance |-> StartBalance]

(* build_live_report_snapshot locks and copies one thing after the other.  *)
BugSnapshotOrder == <<"balance", "trades">>

SnapshotOrder == <<"trades", "balance">>

Snapshotting == {"first", "periodic", "final"}
Over == session.pc \in {"completed", "failed"}

(* Nothing but the peer gets the session on from here: the handshake, the  *)
(* subscription, a pong, or a pong that waits for the heartbeat's write.   *)
WaitsOnPeer ==
    \/ session.pc \in {"connect", "subscribe", "pong"}
    \/ session.pc = "pinged" /\ beating

PTInit ==
    /\ clock = 0
    /\ subscribed = {} /\ beating = FALSE
    /\ session = [pc |-> "discover", copied |-> 0, since |-> 0]
    /\ inbox = <<>>
    /\ book = [a \in Assets |-> [bid |-> Missing, ask |-> Missing, bidSize |-> Missing,
                                 askSize |-> Missing, last |-> Missing]]
    /\ fired = 0
    /\ trade = [n \in Trades |-> NoTrade]
    /\ listed = {}
    /\ balance = StartBalance
    /\ snapped = -SnapshotInterval
    /\ cut = Nothing
    /\ report = Nothing

Goto(there) == session' = [pc |-> there, copied |-> 0, since |-> 0]

(* fetch_top_polymarket_markets takes the first three markets that are     *)
(* open and have assets; if fewer qualify, none of them but the sample.    *)
Markets(listing) ==
    LET tradable == SelectSeq(listing, LAMBDA m : m.open /\ m.assets # {})
    IN  IF Len(tradable) < 3 THEN Fallback
        ELSE UNION {tradable[i].assets : i \in 1 .. 3}

(* A request of twenty seconds at most; the service may also refuse, and   *)
(* then the session fails.                                                 *)
Discover ==
    /\ session.pc = "discover"
    /\ \/ /\ \E listing \in Listings : subscribed' = Markets(listing)
          /\ Goto("connect")
       \/ Goto("failed") /\ UNCHANGED subscribed
    /\ UNCHANGED <<clock, beating, marketVars, tradeVars, reportVars>>

(* connect_async returns.                                                  *)
Connect ==
    /\ session.pc = "connect"
    /\ Goto("subscribe") \/ Goto("failed")
    /\ UNCHANGED <<clock, subscribed, beating, marketVars, tradeVars, reportVars>>

(* The subscription is sent; then the heartbeat is spawned.                *)
Subscribe ==
    /\ session.pc = "subscribe"
    /\ Goto("first") \/ Goto("failed")
    /\ UNCHANGED <<clock, subscribed, beating, marketVars, tradeVars, reportVars>>

(* The head of the loop, once per message or five silent seconds.  After   *)
(* the loop the heartbeat is aborted, wherever it stands.                  *)
BugAwaitMessage ==
    /\ session.pc = "head"
    /\ session' = [session EXCEPT !.pc = "reading", !.since = clock]
    /\ UNCHANGED <<clock, subscribed, beating, marketVars, tradeVars, reportVars>>

AwaitMessage ==
    /\ session.pc = "head"
    /\ \/ /\ clock < LiveSeconds
          /\ session' = [session EXCEPT !.pc = "reading", !.since = clock]
          /\ UNCHANGED beating
       \/ /\ clock >= LiveSeconds
          /\ Goto("final") /\ beating' = FALSE
    /\ UNCHANGED <<clock, subscribed, marketVars, tradeVars, reportVars>>

ReadText(batch) ==
    /\ session.pc = "reading"
    /\ Goto("items")
    /\ inbox' = batch
    /\ UNCHANGED <<clock, subscribed, beating, book, fired, tradeVars, reportVars>>

(* A timeout, a closed stream, an error of the socket, or a ping.          *)
ReadNothing ==
    /\ session.pc = "reading"
    /\ \/ clock >= session.since + ReadTimeout /\ Goto("head") /\ UNCHANGED beating
       \/ Goto("final") /\ beating' = FALSE
       \/ Goto("failed") /\ UNCHANGED beating
       \/ Goto("pinged") /\ UNCHANGED beating
    /\ UNCHANGED <<clock, subscribed, marketVars, tradeVars, reportVars>>

(* A ping is answered under the writer's mutex, which the heartbeat may    *)
(* hold; the pong is sent, or the session fails.                           *)
LockWriter ==
    /\ session.pc = "pinged" /\ ~beating
    /\ Goto("pong")
    /\ UNCHANGED <<clock, subscribed, beating, marketVars, tradeVars, reportVars>>

SendPong ==
    /\ session.pc = "pong"
    /\ Goto("items") \/ Goto("failed")
    /\ UNCHANGED <<clock, subscribed, beating, marketVars, tradeVars, reportVars>>

Or(new, old) == IF new = Missing THEN old ELSE new

(* A quote is a field of the item, or else the price of the first level it *)
(* lists on that side; a size only comes with a level.                     *)
FirstLevel(side) == IF side = <<>> THEN [price |-> Missing, size |-> Missing] ELSE Head(side)
BookUpdate(item) ==
    [bid |-> Or(item.best_bid, FirstLevel(item.bids).price),
     ask |-> Or(item.best_ask, FirstLevel(item.asks).price),
     bidSize |-> FirstLevel(item.bids).size, askSize |-> FirstLevel(item.asks).size]

Merge(old, update) ==
    [bid |-> Or(update.bid, old.bid), ask |-> Or(update.ask, old.ask),
     bidSize |-> Or(update.bidSize, old.bidSize), askSize |-> Or(update.askSize, old.askSize),
     last |-> old.last]

(* Sizes large enough or unknown, both prices known and inside the sanity  *)
(* bounds, and a spread of 1.5% to 12% of the middle.                      *)
Sane(b) ==
    /\ Missing \notin {b.bid, b.ask}
    /\ b.ask > b.bid /\ b.bid >= 5 /\ b.ask <= 95
    /\ b.bid + b.ask \in 20 .. 180
    /\ Missing \in {b.bidSize, b.askSize} \/ (b.bidSize >= 25 /\ b.askSize >= 25)
    /\ 2000 * (b.ask - b.bid) \in 15 * (b.bid + b.ask) .. 120 * (b.bid + b.ask)

Cooled(a) == book[a].last = Missing \/ clock - book[a].last >= Cooldown

(* One item of the message, under the write lock of the books.  A trade    *)
(* above the maximum still resets the cooldown of its asset.               *)
Handle ==
    /\ session.pc = "items" /\ inbox # <<>>
    /\ inbox' = Tail(inbox)
    /\ LET update == BookUpdate(Head(inbox))
           a == Head(inbox).asset
           b == Merge(book[a], update)
           known == a \in subscribed /\ ~(update.bid = Missing /\ update.ask = Missing)
       IN  \/ /\ ~known
              /\ UNCHANGED <<book, fired, trade>>
           \/ /\ known
              /\ LET fires == Sane(b) /\ Cooled(a)
                 IN  /\ book' = [book EXCEPT ![a] =
                            IF fires THEN [b EXCEPT !.last = clock] ELSE b]
                     /\ fired' = IF fires THEN fired + 1 ELSE fired
                     /\ trade' = IF fires /\ fired < MaxTrades
                                 THEN [trade EXCEPT ![fired + 1] =
                                     [pc |-> "waiting", asset |-> a, ask |-> b.ask,
                                      at |-> clock, post |-> Missing]]
                                 ELSE trade
    /\ UNCHANGED <<clock, subscribed, beating, session, listed, balance, reportVars>>

MessageDone ==
    /\ session.pc = "items" /\ inbox = <<>>
    /\ Goto(IF clock - snapped >= SnapshotInterval THEN "periodic" ELSE "head")
    /\ UNCHANGED <<clock, subscribed, beating, marketVars, tradeVars, reportVars>>

Copy ==
    /\ session.pc \in Snapshotting /\ session.copied < Len(SnapshotOrder)
    /\ session' = [session EXCEPT !.copied = @ + 1]
    /\ cut' = CASE SnapshotOrder[session.copied + 1] = "trades" ->
                       [cut EXCEPT !.trades = listed]
                [] SnapshotOrder[session.copied + 1] = "balance" ->
                       [cut EXCEPT !.balance = balance]
    /\ UNCHANGED <<clock, subscribed, beating, marketVars, tradeVars, snapped, report>>

(* The report is written, or the file cannot be and the session fails.     *)
Write ==
    /\ session.pc \in Snapshotting /\ session.copied = Len(SnapshotOrder)
    /\ \/ /\ report' = cut
          /\ snapped' = IF session.pc = "periodic" THEN clock ELSE snapped
          /\ Goto(IF session.pc = "final" THEN "completed" ELSE "head")
       \/ /\ Goto("failed")
          /\ UNCHANGED <<report, snapped>>
    /\ cut' = Nothing
    /\ UNCHANGED <<clock, subscribed, beating, marketVars, tradeVars>>

(* What the session does when it is polled, whatever the peer does.        *)
SessionStep ==
    \/ Discover \/ AwaitMessage \/ (\E batch \in Batches : ReadText(batch)) \/ ReadNothing
    \/ LockWriter \/ Handle \/ MessageDone \/ Copy \/ Write

-----------------------------------------------------------------------------
(* The heartbeat: every ten seconds a write under the same mutex, until    *)
(* one fails.                                                              *)

Beat ==
    /\ ~Over /\ ~beating
    /\ session.pc \notin {"discover", "connect", "subscribe", "pinged", "pong", "final"}
    /\ beating' = TRUE
    /\ UNCHANGED <<clock, subscribed, session, marketVars, tradeVars, reportVars>>

BeatSent ==
    /\ ~Over /\ beating
    /\ beating' = FALSE
    /\ UNCHANGED <<clock, subscribed, session, marketVars, tradeVars, reportVars>>

(* What waits for the peer to accept a connection or a write.              *)
PeerStep == Connect \/ Subscribe \/ SendPong \/ BeatSent

-----------------------------------------------------------------------------
(* The task of one trade.  It dies with the process.                       *)

Wins(t) == t.post # Missing /\ t.post <= t.ask
Gain(t) == IF Wins(t) THEN Profit ELSE -Stake

LookAgain(n) ==
    /\ ~Over /\ trade[n].pc = "waiting" /\ clock >= trade[n].at + Wait
    /\ trade' = [trade EXCEPT ![n] =
           [@ EXCEPT !.pc = "looked", !.post = book[trade[n].asset].ask]]
    /\ UNCHANGED <<clock, subscribed, beating, session, marketVars, listed, balance, reportVars>>

Settle(n) ==
    /\ ~Over /\ trade[n].pc = "looked"
    /\ balance' = balance + Gain(trade[n])
    /\ trade' = [trade EXCEPT ![n].pc = "settled"]
    /\ UNCHANGED <<clock, subscribed, beating, session, marketVars, listed, reportVars>>

Push(n) ==
    /\ ~Over /\ trade[n].pc = "settled"
    /\ listed' = listed \cup {n}
    /\ trade' = [trade EXCEPT ![n].pc = "listed"]
    /\ UNCHANGED <<clock, subscribed, beating, session, marketVars, balance, reportVars>>

TradeStep(n) == LookAgain(n) \/ Settle(n) \/ Push(n)

PassTime ==
    /\ ~Over /\ clock < MaxClock /\ session.pc \notin {"discover", "connect", "subscribe"}
    /\ clock' = clock + 1
    /\ UNCHANGED <<subscribed, beating, session, marketVars, tradeVars, reportVars>>

PTNext == SessionStep \/ PeerStep \/ Beat \/ (\E n \in Trades : TradeStep(n)) \/ PassTime

(* The runtime polls ready tasks and time passes; messages need not come,  *)
(* and the peer need not accept anything.                                  *)
PTFairness ==
    /\ WF_ptVars(SessionStep)
    /\ \A n \in Trades : WF_ptVars(TradeStep(n))
    /\ WF_ptVars(PassTime)

PTSpec == PTInit /\ [][PTNext]_ptVars

PTFairSpec == PTSpec /\ PTFairness

-----------------------------------------------------------------------------

Settled == {n \in Trades : trade[n].pc \in {"settled", "listed"}}
Earned(S) == StartBalance + SumFunctionOnSet([n \in Trades |-> Gain(trade[n])], S)

(* Every report is a cut of the session: its balance is what the trades it *)
(* lists have earned, and perhaps others that have changed the balance but *)
(* are not listed yet; never is a trade listed whose money is missing.     *)
IsACut(copy) ==
    /\ copy.trades \subseteq Settled
    /\ \E T \in SUBSET (Settled \ copy.trades) : copy.balance = Earned(copy.trades \cup T)

ReportIsACut == IsACut(report)

(* Two trades of one asset are at least the cooldown apart, whatever the   *)
(* messages bring in between, and only subscribed assets are traded.       *)
CooldownIsKept ==
    /\ \A n \in Trades : trade[n].pc # "none" => trade[n].asset \in subscribed
    /\ \A m, n \in Trades :
           m < n /\ trade[m].pc # "none" /\ trade[n].pc # "none"
                 /\ trade[m].asset = trade[n].asset
           => trade[n].at - trade[m].at >= Cooldown

(* What is reported adds up, and what is traded was allowed.               *)
PaperTradingIsSound == ReportIsACut /\ CooldownIsKept

(* The session ends, at the latest when a read that began in time gives    *)
(* up, however many messages keep coming - unless it waits for ever for    *)
(* the peer to accept what it or its heartbeat writes; and a trade is      *)
(* listed even then, unless the session ends first.                        *)
SessionEnds ==
    /\ <>Over \/ <>[]WaitsOnPeer
    /\ \A n \in Trades : trade[n].pc = "waiting" ~> trade[n].pc = "listed" \/ Over

=============================================================================
