--------------------------- MODULE CardSimulation ---------------------------
(***************************************************************************)
(* The internal mode of src/bin/hft_web3_e2e_sim.rs: run_e2e_simulation.   *)
(*                                                                         *)
(* One task per card request reads the exchange rate, debits its account   *)
(* with a loop of compare_exchange_weak and takes a signature from a pool; *)
(* an exchange thread keeps changing the rate, a deposit thread credits    *)
(* accounts, and main awaits the tasks in order, stops the feed, joins the *)
(* threads and sums up.  Amounts are small integers and floors of products *)
(* are taken where the code truncates.                                     *)
(*                                                                         *)
(* An operator named Bug... is a mutated form of the definition after it:  *)
(* no action uses it, the project file says which property rejects it.     *)
(***************************************************************************)
EXTENDS Integers, SequencesExt

CONSTANTS
    Cards,         \* accounts
    Requests,      \* sequence of [card, amount]
    InitialRate,   \* in hundredths, as the rates of the feed
    Rates,
    Deposits,      \* cards the deposit thread credits, in order
    DepositAmount, StartMicro, FeeBps,
    TargetUpdates, \* EXCHANGE_TARGET_UPDATES
    Latencies,     \* what a task may measure
    PoolSize

ASSUME RequestsAssumption ==
    Requests \in Seq([card : Cards, amount : Nat]) /\ Deposits \in Seq(Cards)
ASSUME AmountsAssumption ==
    {InitialRate, DepositAmount, StartMicro, FeeBps} \cup Rates \subseteq Nat
ASSUME LatenciesAssumption == Latencies \subseteq Nat
ASSUME PoolAssumption == PoolSize \in Nat /\ PoolSize > Len(Requests)

VARIABLES
    micro,     \* balance_micro_usdt of every account
    rate,      \* eur_usdt_bits
    updates,   \* exchange_updates
    deposited, \* deposit_count
    stop,      \* stop_exchange
    task,      \* task[i]: where request i stands
    cursor,    \* of the signature pool
    joined,    \* handles main has awaited
    summary    \* what main reports

csVars == <<micro, rate, updates, deposited, stop, task, cursor, joined, summary>>

Ids == DOMAIN Requests
NoSummary == [consistent |-> FALSE, approved |-> 0, p50 |-> 0, p99 |-> 0]

CSInit ==
    /\ micro = [c \in Cards |-> StartMicro]
    /\ rate = InitialRate
    /\ updates = 0 /\ deposited = 0 /\ cursor = 0 /\ joined = 0
    /\ stop = FALSE
    /\ task = [i \in Ids |-> [pc |-> "start", total |-> 0, current |-> 0,
                              approved |-> FALSE, slot |-> 0, latency |-> 0]]
    /\ summary = NoSummary

Feed ==
    /\ ~stop /\ updates < TargetUpdates
    /\ rate' \in Rates
    /\ updates' = updates + 1
    /\ UNCHANGED <<micro, deposited, stop, task, cursor, joined, summary>>

DepositNext ==
    /\ deposited < Len(Deposits)
    /\ micro' = [micro EXCEPT ![Deposits[deposited + 1]] = @ + DepositAmount]
    /\ deposited' = deposited + 1
    /\ UNCHANGED <<rate, updates, stop, task, cursor, joined, summary>>

Base(i) == (Requests[i].amount * rate) \div 100
Total(i) == Base(i) + (Base(i) * FeeBps) \div 10000

ReadRate(i) ==
    /\ task[i].pc = "start"
    /\ task' = [task EXCEPT ![i].pc = "load", ![i].total = Total(i)]
    /\ UNCHANGED <<micro, rate, updates, deposited, stop, cursor, joined, summary>>

(* The balance is loaded, first or after a failed exchange, and compared.  *)
Load(i) ==
    /\ task[i].pc \in {"load", "exchange"}
    /\ task' = [task EXCEPT ![i].current = micro[Requests[i].card],
                            ![i].pc = IF micro[Requests[i].card] < task[i].total
                                      THEN "sign" ELSE "exchange"]
    /\ UNCHANGED <<micro, rate, updates, deposited, stop, cursor, joined, summary>>

BugExchange(i) ==
    /\ task[i].pc = "exchange"
    /\ micro' = [micro EXCEPT ![Requests[i].card] = task[i].current - task[i].total]
    /\ task' = [task EXCEPT ![i].pc = "sign", ![i].approved = TRUE]
    /\ UNCHANGED <<rate, updates, deposited, stop, cursor, joined, summary>>

Exchange(i) ==
    /\ task[i].pc = "exchange"
    /\ micro[Requests[i].card] = task[i].current
    /\ micro' = [micro EXCEPT ![Requests[i].card] = task[i].current - task[i].total]
    /\ task' = [task EXCEPT ![i].pc = "sign", ![i].approved = TRUE]
    /\ UNCHANGED <<rate, updates, deposited, stop, cursor, joined, summary>>

(* Approved or not, the task takes a slot of the pool.                     *)
TakeSignature(i) ==
    /\ task[i].pc = "sign"
    /\ cursor' = cursor + 1
    /\ \E l \in Latencies :
           task' = [task EXCEPT ![i].pc = "done", ![i].slot = cursor % PoolSize,
                                ![i].latency = l]
    /\ UNCHANGED <<micro, rate, updates, deposited, stop, joined, summary>>

TaskStep(i) == ReadRate(i) \/ Load(i) \/ Exchange(i) \/ TakeSignature(i)

Join ==
    /\ joined < Len(Requests)
    /\ task[joined + 1].pc = "done"
    /\ joined' = joined + 1
    /\ UNCHANGED <<micro, rate, updates, deposited, stop, task, cursor, summary>>

StopFeed ==
    /\ joined = Len(Requests) /\ ~stop
    /\ stop' = TRUE
    /\ UNCHANGED <<micro, rate, updates, deposited, task, cursor, joined, summary>>

(* percentile_us: the element of rank ceil(n p / 100) of the sorted values.*)
Percentile(values, p) ==
    LET rank == (Len(values) * p + 99) \div 100
        place == IF rank = 0 THEN 1 ELSE IF rank > Len(values) THEN Len(values) ELSE rank
    IN  IF values = <<>> THEN 0 ELSE values[place]

\* sort_unstable: the measured latencies in an ascending order.
Ascending(order) ==
    \A j, k \in Ids : j < k => task[order[j]].latency <= task[order[k]].latency

Sorted ==
    LET order == CHOOSE o \in Bijection(Ids, Ids) : Ascending(o)
    IN  [k \in Ids |-> task[order[k]].latency]

(* The deposit thread is joined, and the balances are looked at one last   *)
(* time.                                                                   *)
SumUp ==
    /\ stop /\ deposited = Len(Deposits) /\ summary = NoSummary
    /\ summary' = [consistent |-> \A c \in Cards : micro[c] >= 0,
                   approved |-> Cardinality({i \in Ids : task[i].approved}),
                   p50 |-> Percentile(Sorted, 50), p99 |-> Percentile(Sorted, 99)]
    /\ UNCHANGED <<micro, rate, updates, deposited, stop, task, cursor, joined>>

CSNext ==
    \/ Feed \/ DepositNext \/ (\E i \in Ids : TaskStep(i))
    \/ Join \/ StopFeed \/ SumUp

CSSpec == CSInit /\ [][CSNext]_csVars

-----------------------------------------------------------------------------

Paid(c) ==
    SumFunctionOnSet([i \in Ids |-> task[i].total],
                     {i \in Ids : task[i].approved /\ Requests[i].card = c})
Credited(c) == DepositAmount * Cardinality({k \in 1 .. deposited : Deposits[k] = c})

(* No debit or deposit is lost, and none overdraws: every account holds    *)
(* what it started with and was given, less what its approved requests     *)
(* cost.  No two tasks hold one signature.                                 *)
BooksAreExact ==
    /\ \A c \in Cards : micro[c] = StartMicro + Credited(c) - Paid(c) /\ micro[c] >= 0
    /\ \A i, j \in Ids : task[i].pc = "done" /\ task[j].pc = "done" /\ i # j
                             => task[i].slot # task[j].slot

(* The reported percentiles are nearest ranks: p percent of the latencies  *)
(* are at most the p-th percentile, and it is the smallest with that.      *)
IsPercentile(v, p) ==
    LET atMost(x) == Cardinality({i \in Ids : task[i].latency <= x})
    IN  /\ 100 * atMost(v) >= p * Len(Requests)
        /\ \A x \in Latencies : x < v => 100 * atMost(x) < p * Len(Requests)

(* Books are exact at every moment, and the summary of a run that ended is *)
(* sound: consistent, after every task, percentiles as defined.            *)
SimulationIsExact ==
    /\ BooksAreExact
    /\ summary # NoSummary =>
        /\ summary.consistent
        /\ joined = Len(Requests) /\ \A i \in Ids : task[i].pc = "done"
        /\ IsPercentile(summary.p50, 50) /\ IsPercentile(summary.p99, 99)

=============================================================================
