----------------------------- MODULE RawIngress -----------------------------
(***************************************************************************)
(* The raw binary gateway (src/bin/hyperion_raw_ingress.rs): TCP workers   *)
(* that serve one connection at a time, one thread for all UDP datagrams,  *)
(* a chain of blocks per session, and the write-ahead log that a thread of *)
(* its own takes from a bounded channel and writes in batches.             *)
(*                                                                         *)
(* A client is one connection, or one UDP socket, of a program like        *)
(* hyperion_unified_bench: it holds the frames of a chain, sends one at a  *)
(* time, goes on whatever the status it got, and may stop at any moment.   *)
(* Two clients may hold the same chain: the second is the first come back. *)
(* A datagram may be lost, delayed or duplicated: all that were ever sent  *)
(* stay receivable.                                                        *)
(*                                                                         *)
(* Whether the ledger accepts a swap is the subject of RamanLedger; here   *)
(* it may do either.  Jitter, latency and the anomaly score only decorate  *)
(* the log record and are left out.                                        *)
(*                                                                         *)
(* An operator named Bug... is a mutated form of the definition after it:  *)
(* no action uses it, the project file says which property rejects it.     *)
(***************************************************************************)
EXTENDS Integers, Sequences, FiniteSets

CONSTANTS
    Workers,       \* the threads of the TCP pool
    Udp,           \* the thread of run_udp
    TcpClients,    \* connections
    UdpClients,    \* UDP sockets
    Chain,         \* Chain[c]: whose blocks client c holds
    ChainLength,   \* blocks in a chain
    RequirePopp,   \* HYPERION_RAW_REQUIRE_POPP: clients send chain blocks
    ChannelBound,  \* WAL_CHANNEL_BOUND
    BatchSize,     \* WAL_BATCH_SIZE
    MaxSessions,   \* bound: sessions in a behaviour
    MaxSwaps       \* bound: swaps a session executes

Clients  == TcpClients \cup UdpClients
Threads  == Workers \cup {Udp}
Sessions == 1 .. MaxSessions

ASSUME ThreadsAssumption  == Udp \notin Workers
ASSUME ClientsAssumption  == TcpClients \cap UdpClients = {} /\ Clients # {}
ASSUME LengthAssumption   == ChainLength \in Nat
ASSUME PoppAssumption     == RequirePopp \in BOOLEAN
ASSUME WalSizesAssumption == ChannelBound \in Nat \ {0} /\ BatchSize \in Nat \ {0}
ASSUME MaxSessionsAssumption == MaxSessions \in Nat \ {0} /\ MaxSwaps \in Nat

VARIABLES
    up,        \* the process runs
    killed,    \* it was stopped from outside
    pc,        \* pc[t]: where server thread t stands
    peer,      \* peer[t]: the client t serves
    block,     \* block[t]: the block t works on
    status,    \* status[t]: the status byte t is about to answer
    expected,  \* expected[t]: the block whose hash is session.expected_prev
    session,   \* session[t]: number of the session t serves
    logger,    \* the WAL thread: "open", "recv", "flush" or "dead"
    chan,      \* the records in the sync_channel
    batch,     \* the records the WAL thread holds
    file,      \* traces/wal.jsonl
    client,    \* client[c]: "off", "ready", "waiting" or "closed"
    next,      \* next[c]: the frame c sends next
    backlog,   \* connections no worker has accepted yet
    request,   \* request[c]: frames sent and not read by the server
    answer,    \* answer[c]: statuses sent to c
    \* history
    sessions,  \* sessions so far
    ran,       \* ran[s]: the blocks whose swaps session s executed
    oks,       \* oks[c]: OK statuses c has read
    acked,     \* records of the swaps answered OK in this run
    dropped    \* records of this run that the WAL thread will never get or write

proc    == <<up, killed>>
wal     == <<logger, chan, batch, file>>
clients == <<client, next, backlog, request, answer, oks>>
threads == <<pc, peer, block, status, expected, session>>
vars    == <<up, killed, threads, wal, clients, sessions, ran, acked, dropped>>

(* A block is known by the chain it belongs to and its place in it; its    *)
(* prev_hash32 is the hash of the one before, or 32 zero bytes.            *)
Genesis == [chain |-> 0, n |-> 0]
Block(o, n) == [chain |-> o, n |-> n]
Prev(b) == IF b.n = 1 THEN Genesis ELSE Block(b.chain, b.n - 1)

(* In bank mode the gateway mints the block itself, on top of the session. *)
Minted(t) == Block(session[t], expected[t].n + 1)

Record(t) == [session |-> session[t], block |-> block[t]]

Idle == [t \in Threads |-> IF t = Udp THEN "read" ELSE "accept"]

NoPeer == [t \in Threads |-> CHOOSE c \in Clients : TRUE]

(* main: sockets bound, threads spawned.  The ledger and all sessions are  *)
(* new; only the file survives from an earlier run.                        *)
Init ==
    /\ up = TRUE
    /\ killed = FALSE
    /\ pc = Idle
    /\ peer = NoPeer
    /\ block = [t \in Threads |-> Genesis]
    /\ status = [t \in Threads |-> "OK"]
    /\ expected = [t \in Threads |-> Genesis]
    /\ session = [t \in Threads |-> IF t = Udp THEN 1 ELSE 0]
    /\ logger = "open"
    /\ chan = <<>>
    /\ batch = <<>>
    /\ file = <<>>
    /\ client = [c \in Clients |-> "off"]
    /\ next = [c \in Clients |-> 1]
    /\ backlog = {}
    /\ request = [c \in Clients |-> {}]
    /\ answer = [c \in Clients |-> {}]
    /\ sessions = 1
    /\ ran = [s \in Sessions |-> <<>>]
    /\ oks = [c \in Clients |-> 0]
    /\ acked = {}
    /\ dropped = {}

-----------------------------------------------------------------------------
(* Clients                                                                 *)

Open(c) ==
    /\ up
    /\ client[c] = "off"
    /\ client' = [client EXCEPT ![c] = "ready"]
    /\ backlog' = IF c \in TcpClients THEN backlog \cup {c} ELSE backlog
    /\ UNCHANGED <<proc, threads, wal, next, request, answer, oks, sessions, ran, acked, dropped>>

(* The next frame, its seal intact or not.  A stream delivers it once, a   *)
(* datagram any number of times.                                           *)
Send(c) ==
    /\ client[c] = "ready"
    /\ next[c] <= ChainLength
    /\ \E sealed \in BOOLEAN :
          request' = [request EXCEPT ![c] =
                         @ \cup {[block |-> Block(Chain[c], next[c]), sealed |-> sealed]}]
    /\ client' = [client EXCEPT ![c] = "waiting"]
    /\ UNCHANGED <<proc, threads, wal, next, backlog, answer, oks, sessions, ran, acked, dropped>>

(* One status byte; nothing in it says which frame it answers.             *)
Receive(c) ==
    /\ client[c] = "waiting"
    /\ \E s \in answer[c] :
          /\ oks' = IF s = "OK" THEN [oks EXCEPT ![c] = @ + 1] ELSE oks
          /\ answer' = IF c \in TcpClients THEN [answer EXCEPT ![c] = {}] ELSE answer
    /\ client' = [client EXCEPT ![c] = "ready"]
    /\ next' = [next EXCEPT ![c] = @ + 1]
    /\ UNCHANGED <<proc, threads, wal, backlog, request, sessions, ran, acked, dropped>>

(* All frames sent, 30 seconds without an answer, or the program killed.   *)
Close(c) ==
    /\ client[c] \in {"ready", "waiting"}
    /\ client' = [client EXCEPT ![c] = "closed"]
    /\ answer' = [answer EXCEPT ![c] = {}]
    /\ UNCHANGED <<proc, threads, wal, next, backlog, request, oks, sessions, ran, acked, dropped>>

-----------------------------------------------------------------------------
(* Server threads                                                          *)

Goto(t, there) == pc' = [pc EXCEPT ![t] = there]

Respond(t, s) == Goto(t, "reply") /\ status' = [status EXCEPT ![t] = s]

(* handle_client: a session of its own for every connection.               *)
Accept(w) ==
    /\ pc[w] = "accept"
    /\ sessions < MaxSessions
    /\ \E c \in backlog :
          /\ backlog' = backlog \ {c}
          /\ peer' = [peer EXCEPT ![w] = c]
    /\ sessions' = sessions + 1
    /\ session' = [session EXCEPT ![w] = sessions + 1]
    /\ expected' = [expected EXCEPT ![w] = Genesis]
    /\ Goto(w, "read")
    /\ UNCHANGED <<proc, block, status, wal, client, next, request, answer, oks, ran, acked,
                   dropped>>

(* process_frame up to the swap: seal, then link to the session's chain.   *)
(* process_bank_frame: the block is minted, nothing is validated.          *)
Validate(t, f) ==
    \/ /\ RequirePopp
       /\ ~f.sealed
       /\ Respond(t, "INVALID_BLOCK")
       /\ UNCHANGED block
    \/ /\ RequirePopp
       /\ f.sealed
       /\ Prev(f.block) # expected[t]
       /\ Respond(t, "CHAIN_LINK_BROKEN")
       /\ UNCHANGED block
    \/ /\ RequirePopp
       /\ f.sealed
       /\ Prev(f.block) = expected[t]
       /\ Goto(t, "swap")
       /\ block' = [block EXCEPT ![t] = f.block]
       /\ UNCHANGED status
    \/ /\ ~RequirePopp
       /\ Goto(t, "swap")
       /\ block' = [block EXCEPT ![t] = Minted(t)]
       /\ UNCHANGED status

ReadStream(w) ==
    /\ pc[w] = "read"
    /\ \E f \in request[peer[w]] : Validate(w, f)
    /\ request' = [request EXCEPT ![peer[w]] = {}]
    /\ UNCHANGED <<proc, peer, expected, session, wal, client, next, backlog, answer, oks,
                   sessions, ran, acked, dropped>>

(* End of the stream, or a reset that discards what was not read: the      *)
(* worker goes back to accept.                                             *)
EndStream(w) ==
    /\ pc[w] = "read"
    /\ client[peer[w]] = "closed"
    /\ request' = [request EXCEPT ![peer[w]] = {}]
    /\ Goto(w, "accept")
    /\ UNCHANGED <<proc, peer, block, status, expected, session, wal, client, next, backlog,
                   answer, oks, sessions, ran, acked, dropped>>

ReadDatagram ==
    /\ pc[Udp] = "read"
    /\ \E c \in UdpClients : \E f \in request[c] :
          /\ Validate(Udp, f)
          /\ peer' = [peer EXCEPT ![Udp] = c]
    /\ UNCHANGED <<proc, expected, session, wal, clients, sessions, ran, acked, dropped>>

(* execute_jit_dex_swap: a refused swap leaves the session as it was, so   *)
(* the frames that follow it in the client's chain no longer link.         *)
BugRefusalIsOk(t) ==
    /\ pc[t] = "swap"
    /\ Respond(t, "OK")
    /\ UNCHANGED <<proc, peer, block, expected, session, wal, clients, sessions, ran, acked,
                   dropped>>

RefuseSwap(t) ==
    /\ pc[t] = "swap"
    /\ Respond(t, "INSUFFICIENT_FUNDS")
    /\ UNCHANGED <<proc, peer, block, expected, session, wal, clients, sessions, ran, acked,
                   dropped>>

ExecuteSwap(t) ==
    /\ pc[t] = "swap"
    /\ Len(ran[session[t]]) < MaxSwaps
    /\ ran' = [ran EXCEPT ![session[t]] = Append(@, block[t])]
    /\ Goto(t, "log")
    /\ UNCHANGED <<proc, peer, block, status, expected, session, wal, clients, sessions, acked,
                   dropped>>

(* log_tx.send waits while the channel is full and fails, unnoticed, when  *)
(* the receiver is gone.                                                   *)
BugSendUnbounded(t) ==
    \/ /\ logger # "dead"
       /\ chan' = Append(chan, Record(t))
       /\ UNCHANGED dropped
    \/ /\ logger = "dead"
       /\ dropped' = dropped \cup {Record(t)}
       /\ UNCHANGED chan

BugSendWithoutWaiting(t) ==
    \/ /\ logger # "dead"
       /\ Len(chan) < ChannelBound
       /\ chan' = Append(chan, Record(t))
       /\ UNCHANGED dropped
    \/ /\ logger # "dead"
       /\ Len(chan) >= ChannelBound
       /\ UNCHANGED <<chan, dropped>>
    \/ /\ logger = "dead"
       /\ dropped' = dropped \cup {Record(t)}
       /\ UNCHANGED chan

SendRecord(t) ==
    \/ /\ logger # "dead"
       /\ Len(chan) < ChannelBound
       /\ chan' = Append(chan, Record(t))
       /\ UNCHANGED dropped
    \/ /\ logger = "dead"
       /\ dropped' = dropped \cup {Record(t)}
       /\ UNCHANGED chan

BugAdvance(t) == UNCHANGED expected

Advance(t) == expected' = [expected EXCEPT ![t] = block[t]]

Log(t) ==
    /\ pc[t] = "log"
    /\ SendRecord(t)
    /\ Advance(t)
    /\ Respond(t, "OK")
    /\ UNCHANGED <<proc, peer, block, session, logger, batch, file, clients, sessions, ran, acked>>

Acknowledge(t) ==
    acked' = IF status[t] = "OK" THEN acked \cup {Record(t)} ELSE acked

(* write_all fails, or not yet, when the client has gone.                  *)
ReplyStream(w) ==
    /\ pc[w] = "reply"
    /\ Acknowledge(w)
    /\ \/ /\ client[peer[w]] # "closed"
          /\ answer' = [answer EXCEPT ![peer[w]] = {status[w]}]
          /\ Goto(w, "read")
       \/ /\ client[peer[w]] = "closed"
          /\ Goto(w, "accept") \/ Goto(w, "read")
          /\ UNCHANGED answer
    /\ UNCHANGED <<proc, peer, block, status, expected, session, wal, client, next, backlog,
                   request, oks, sessions, ran, dropped>>

ReplyDatagram ==
    /\ pc[Udp] = "reply"
    /\ Acknowledge(Udp)
    /\ answer' = IF client[peer[Udp]] = "closed" THEN answer
                 ELSE [answer EXCEPT ![peer[Udp]] = @ \cup {status[Udp]}]
    /\ Goto(Udp, "read")
    /\ UNCHANGED <<proc, peer, block, status, expected, session, wal, client, next, backlog,
                   request, oks, sessions, ran, dropped>>

-----------------------------------------------------------------------------
(* The WAL thread                                                          *)

OpenFile ==
    /\ logger = "open"
    /\ logger' = "recv"
    /\ UNCHANGED <<proc, threads, chan, batch, file, clients, sessions, ran, acked, dropped>>

(* The file cannot be opened: the thread ends and drops the receiver.      *)
FailOpen ==
    /\ logger = "open"
    /\ logger' = "dead"
    /\ chan' = <<>>
    /\ dropped' = dropped \cup {chan[i] : i \in 1 .. Len(chan)}
    /\ UNCHANGED <<proc, threads, batch, file, clients, sessions, ran, acked>>

RecvRecord ==
    /\ logger = "recv"
    /\ chan # <<>>
    /\ chan' = Tail(chan)
    /\ batch' = Append(batch, Head(chan))
    /\ logger' = IF Len(batch) + 1 >= BatchSize THEN "flush" ELSE "recv"
    /\ UNCHANGED <<proc, threads, file, clients, sessions, ran, acked, dropped>>

(* flush_wal_batch: line after line; an error of writeln! is ignored.      *)
BugWriteLastFirst ==
    /\ logger = "flush"
    /\ batch # <<>>
    /\ batch' = SubSeq(batch, 1, Len(batch) - 1)
    /\ \/ file' = Append(file, batch[Len(batch)]) /\ UNCHANGED dropped
       \/ dropped' = dropped \cup {batch[Len(batch)]} /\ UNCHANGED file
    /\ UNCHANGED <<proc, threads, logger, chan, clients, sessions, ran, acked>>

WriteRecord ==
    /\ logger = "flush"
    /\ batch # <<>>
    /\ batch' = Tail(batch)
    /\ \/ file' = Append(file, Head(batch)) /\ UNCHANGED dropped
       \/ dropped' = dropped \cup {Head(batch)} /\ UNCHANGED file
    /\ UNCHANGED <<proc, threads, logger, chan, clients, sessions, ran, acked>>

BugFlushForever ==
    /\ logger = "flush"
    /\ batch = <<>>
    /\ UNCHANGED vars

EndFlush ==
    /\ logger = "flush"
    /\ batch = <<>>
    /\ logger' = "recv"
    /\ UNCHANGED <<proc, threads, chan, batch, file, clients, sessions, ran, acked, dropped>>

-----------------------------------------------------------------------------
(* The process                                                             *)

(* The process ends: connections break, the channel and the batch are      *)
(* gone.                                                                   *)
Stop ==
    /\ up
    /\ up' = FALSE
    /\ pc' = [t \in Threads |-> "stopped"]
    /\ peer' = NoPeer
    /\ block' = [t \in Threads |-> Genesis]
    /\ status' = [t \in Threads |-> "OK"]
    /\ expected' = [t \in Threads |-> Genesis]
    /\ session' = [t \in Threads |-> 0]
    /\ logger' = "stopped"
    /\ chan' = <<>>
    /\ batch' = <<>>
    /\ client' = [c \in Clients |-> IF c \in TcpClients /\ client[c] # "off"
                                    THEN "closed" ELSE client[c]]
    /\ backlog' = {}
    /\ request' = [c \in Clients |-> IF c \in TcpClients THEN {} ELSE request[c]]
    /\ answer' = [c \in Clients |-> IF c \in TcpClients THEN {} ELSE answer[c]]
    /\ acked' = {}
    /\ dropped' = {}
    /\ UNCHANGED <<file, next, oks, sessions, ran>>

(* main returns once the threads are spawned, and takes them with it.      *)
MainReturns == Stop /\ killed' = FALSE

Crash == Stop /\ killed' = TRUE

(* systemd starts the process again (Restart=always).                      *)
Restart ==
    /\ ~up
    /\ sessions < MaxSessions
    /\ up' = TRUE
    /\ killed' = FALSE
    /\ pc' = Idle
    /\ sessions' = sessions + 1
    /\ session' = [session EXCEPT ![Udp] = sessions + 1]
    /\ logger' = "open"
    /\ UNCHANGED <<peer, block, status, expected, chan, batch, file, clients, ran, acked,
                   dropped>>

-----------------------------------------------------------------------------

Serve(t) == RefuseSwap(t) \/ ExecuteSwap(t) \/ Log(t)

Work ==
    \/ \E t \in Threads : Serve(t)
    \/ \E w \in Workers : Accept(w) \/ ReadStream(w) \/ EndStream(w) \/ ReplyStream(w)
    \/ ReadDatagram \/ ReplyDatagram

Wal == OpenFile \/ FailOpen \/ RecvRecord \/ WriteRecord \/ EndFlush

Next ==
    \/ \E c \in Clients : Open(c) \/ Send(c) \/ Receive(c) \/ Close(c)
    \/ Work
    \/ Wal
    \/ MainReturns
    \/ Crash
    \/ Restart

Spec == Init /\ [][Next]_vars

(* The WAL thread and a thread that waits for it are runnable threads.     *)
Fairness == WF_vars(Wal) /\ \A t \in Threads : SF_vars(Log(t))

FairSpec == Spec /\ Fairness

-----------------------------------------------------------------------------

Owners    == {Chain[c] : c \in Clients} \cup Sessions
Blocks    == {Genesis} \cup [chain : Owners, n : Nat \ {0}]
Statuses  == {"OK", "INVALID_BLOCK", "INSUFFICIENT_FUNDS", "CHAIN_LINK_BROKEN"}
Records   == [session : Sessions, block : Blocks]
Frames    == [block : Blocks, sealed : BOOLEAN]

(* Every variable has its type, and neither the channel nor the batch ever *)
(* outgrows the size the gateway was built with.                           *)
TypeOK ==
    /\ up \in BOOLEAN /\ killed \in BOOLEAN
    /\ pc \in [Threads -> {"accept", "read", "swap", "log", "reply", "stopped"}]
    /\ peer \in [Threads -> Clients]
    /\ block \in [Threads -> Blocks]
    /\ status \in [Threads -> Statuses]
    /\ expected \in [Threads -> Blocks]
    /\ session \in [Threads -> Sessions \cup {0}]
    /\ logger \in {"open", "recv", "flush", "dead", "stopped"}
    /\ chan \in Seq(Records) /\ Len(chan) <= ChannelBound
    /\ batch \in Seq(Records) /\ Len(batch) <= BatchSize
    /\ file \in Seq(Records)
    /\ client \in [Clients -> {"off", "ready", "waiting", "closed"}]
    /\ next \in [Clients -> 1 .. ChainLength + 1]
    /\ backlog \subseteq TcpClients
    /\ request \in [Clients -> SUBSET Frames]
    /\ answer \in [Clients -> SUBSET Statuses]
    /\ sessions \in Sessions
    /\ ran \in [Sessions -> Seq(Blocks)]
    /\ oks \in [Clients -> Nat]
    /\ acked \subseteq Records
    /\ dropped \subseteq Records

(* What a session executed is one chain from its first block on, nothing   *)
(* twice and nothing left out: not when datagrams of several peers are     *)
(* duplicated and reordered into the one UDP session, not when a swap in   *)
(* the middle is refused.                                                  *)
SessionIsOneChain ==
    \A s \in Sessions : \E o \in Owners :
        \A i \in 1 .. Len(ran[s]) : ran[s][i] = Block(o, i)

(* The log, from the file to what is still in the channel, has the swaps   *)
(* of a session in the order of its chain, across crashes, write errors    *)
(* and sessions that log at the same time: it can be replayed.             *)
WalKeepsSessionOrder ==
    LET log == file \o batch \o chan
    IN  \A i, j \in 1 .. Len(log) :
            i < j /\ log[i].session = log[j].session => log[i].block.n < log[j].block.n

(* A swap is answered OK only once its record is with the WAL thread, or   *)
(* lost to a file that cannot be opened or written.                        *)
AcknowledgedIsLogged ==
    acked \subseteq {file[i] : i \in 1 .. Len(file)} \cup {batch[i] : i \in 1 .. Len(batch)}
                   \cup {chan[i] : i \in 1 .. Len(chan)} \cup dropped

(* The process can stop at any moment: of the swaps it answered OK it then *)
(* forgets at most a channel and a batch.                                  *)
AcknowledgedLossBounded ==
    Cardinality({r \in acked \ dropped : \A i \in 1 .. Len(file) : file[i] # r})
        <= ChannelBound + BatchSize

(* On a TCP connection the OKs the client has read, or is about to read,   *)
(* are exactly the swaps its session executed.                             *)
TcpOksMatchSwaps ==
    \A w \in Workers :
        pc[w] \in {"read", "swap", "log", "reply"} /\ client[peer[w]] # "closed" =>
            Len(ran[session[w]]) = oks[peer[w]]
                + (IF "OK" \in answer[peer[w]] THEN 1 ELSE 0)
                + (IF pc[w] = "log" \/ (pc[w] = "reply" /\ status[w] = "OK") THEN 1 ELSE 0)

(* A thread that waits for room in the channel does not wait for good.     *)
SenderIsReleased == \A t \in Threads : pc[t] = "log" ~> pc[t] # "log"

(* "Listens on TCP+UDP 127.0.0.1:8081": the gateway stops listening only   *)
(* when it is stopped from outside.                                        *)
KeepsListening == [][up /\ ~up' => killed']_vars

=============================================================================
