-------------------------- MODULE RawIngressProofs --------------------------
(***************************************************************************)
(* Theorems about RawIngress for any number of workers, clients, sessions  *)
(* and any sizes of chain, channel and batch: its types; that what a       *)
(* session executed is one chain, with and without client blocks; and,     *)
(* on top of these, what becomes of the records and the answers.           *)
(***************************************************************************)
EXTENDS RawIngress, SequenceTheorems, FiniteSetTheorems, TLAPS

Serving == {"read", "swap", "log", "reply"}

(* What the types rest on: a client that waits has frames left, the WAL    *)
(* thread takes a record only with room in its batch, a thread that serves *)
(* has a session, and the WAL thread of a process that ended is gone.      *)
Supported ==
    /\ \A c \in Clients : client[c] = "waiting" => next[c] <= ChainLength
    /\ logger \in {"open", "recv", "stopped"} => Len(batch) < BatchSize
    /\ \A t \in Threads : pc[t] \in Serving => session[t] \in Sessions
    /\ ~up => logger = "stopped"

TInv == TypeOK /\ Supported

(* A block is the start of all chains or has a place in one.               *)
LEMMA BlockShape ==
    ASSUME NEW b \in Blocks
    PROVE  /\ b.n \in Nat
           /\ b.n = 0 => b = Genesis
           /\ b.n # 0 => b.chain \in Owners /\ b = Block(b.chain, b.n)
BY DEF Blocks, Genesis, Block

(* A block put together from an owner and a place is a block.              *)
LEMMA BlockIsBlock == \A o \in Owners, n \in Nat \ {0} : Block(o, n) \in Blocks
BY DEF Blocks, Block

(* A session number can be the chain of a minted block.                    *)
LEMMA SessionsAreOwners == Sessions \subseteq Owners
BY DEF Owners

(* A record of a thread that serves is a record.                           *)
LEMMA RecordIsRecord ==
    ASSUME TInv, NEW t \in Threads, pc[t] \in Serving
    PROVE  Record(t) \in Records
BY DEF TInv, TypeOK, Supported, Record, Records

(* Wherever a thread gets its block from, it is one.                       *)
LEMMA ValidatedBlock ==
    ASSUME TInv, NEW t \in Threads, pc[t] = "read", NEW f \in Frames, Validate(t, f)
    PROVE  /\ pc' \in [Threads -> {"accept", "read", "swap", "log", "reply", "stopped"}]
           /\ block' \in [Threads -> Blocks]
           /\ status' \in [Threads -> Statuses]
           /\ \A u \in Threads : pc'[u] = pc[u] \/ (u = t /\ pc'[u] \in {"swap", "reply"})
<1>1. f.block \in Blocks
  BY DEF Frames
<1>2. Minted(t) \in Blocks
  <2>1. expected[t].n + 1 \in Nat \ {0} /\ session[t] \in Owners
    BY BlockShape, SessionsAreOwners DEF TInv, TypeOK, Supported, Serving
  <2> QED BY <2>1, BlockIsBlock DEF Minted
<1>3. \/ /\ pc' = [pc EXCEPT ![t] = "reply"]
         /\ \E s \in Statuses : status' = [status EXCEPT ![t] = s]
         /\ block' = block
      \/ /\ pc' = [pc EXCEPT ![t] = "swap"]
         /\ status' = status
         /\ \E b \in Blocks : block' = [block EXCEPT ![t] = b]
  BY <1>1, <1>2 DEF Validate, Respond, Goto, Statuses
<1> QED BY <1>3, ZenonT(30) DEF TInv, TypeOK

(* The initial state is well typed.                                        *)
LEMMA InitTyped == Init => TInv
<1> SUFFICES ASSUME Init PROVE TInv
  OBVIOUS
<1>1. NoPeer \in [Threads -> Clients]
  BY ClientsAssumption DEF NoPeer
<1>2. 1 \in Sessions /\ Genesis \in Blocks
  BY MaxSessionsAssumption DEF Sessions, Blocks
<1>3. TypeOK
  <2>1. /\ up \in BOOLEAN /\ killed \in BOOLEAN
        /\ pc \in [Threads -> {"accept", "read", "swap", "log", "reply", "stopped"}]
        /\ peer \in [Threads -> Clients]
        /\ block \in [Threads -> Blocks]
        /\ status \in [Threads -> Statuses]
        /\ expected \in [Threads -> Blocks]
        /\ session \in [Threads -> Sessions \cup {0}]
    BY <1>1, <1>2 DEF Init, Idle, Statuses
  <2>2. /\ logger \in {"open", "recv", "flush", "dead", "stopped"}
        /\ chan \in Seq(Records) /\ Len(chan) <= ChannelBound
        /\ batch \in Seq(Records) /\ Len(batch) <= BatchSize
        /\ file \in Seq(Records)
    BY WalSizesAssumption DEF Init
  <2>3. /\ client \in [Clients -> {"off", "ready", "waiting", "closed"}]
        /\ next \in [Clients -> 1 .. ChainLength + 1]
        /\ backlog \subseteq TcpClients
        /\ request \in [Clients -> SUBSET Frames]
        /\ answer \in [Clients -> SUBSET Statuses]
    BY LengthAssumption DEF Init
  <2>4. /\ sessions \in Sessions
        /\ ran \in [Sessions -> Seq(Blocks)]
        /\ oks \in [Clients -> Nat]
        /\ acked \subseteq Records
        /\ dropped \subseteq Records
    BY <1>2 DEF Init
  <2> QED BY <2>1, <2>2, <2>3, <2>4 DEF TypeOK
<1>4. Supported
  BY <1>2, WalSizesAssumption DEF Init, Supported, Idle, Serving, Threads
<1> QED BY <1>3, <1>4 DEF TInv

(* The steps of the clients.                                               *)
LEMMA ClientTyped ==
    ASSUME TInv, NEW c \in Clients, Open(c) \/ Send(c) \/ Receive(c) \/ Close(c)
    PROVE  TInv'
<1> USE DEF TInv, proc, threads, wal
<1>1. CASE Open(c)
  BY <1>1 DEF Open, TypeOK, Supported
<1>2. CASE Send(c)
  <2>1. Chain[c] \in Owners /\ next[c] \in Nat \ {0}
    BY LengthAssumption DEF TypeOK, Owners
  <2>2. Block(Chain[c], next[c]) \in Blocks
    BY <2>1, BlockIsBlock
  <2>3. \A sealed \in BOOLEAN : [block |-> Block(Chain[c], next[c]), sealed |-> sealed] \in Frames
    BY <2>2 DEF Frames
  <2> QED BY <1>2, <2>3 DEF Send, TypeOK, Supported
<1>3. CASE Receive(c)
  BY <1>3, LengthAssumption, SMTT(30) DEF Receive, TypeOK, Supported
<1>4. CASE Close(c)
  BY <1>4 DEF Close, TypeOK, Supported
<1> QED BY <1>1, <1>2, <1>3, <1>4

(* The steps of the server threads.                                        *)
LEMMA ServerTyped == TInv /\ Work => TInv'
<1> SUFFICES ASSUME TInv, Work PROVE TInv'
  OBVIOUS
<1> USE DEF TInv, proc, wal, clients
<1>1. ASSUME NEW t \in Threads, RefuseSwap(t) PROVE TInv'
  BY <1>1 DEF RefuseSwap, Respond, Goto, TypeOK, Supported, Statuses, Serving
<1>2. ASSUME NEW t \in Threads, ExecuteSwap(t) PROVE TInv'
  <2>1. session[t] \in Sessions /\ block[t] \in Blocks
    BY <1>2 DEF ExecuteSwap, TypeOK, Supported, Serving
  <2>2. ran' \in [Sessions -> Seq(Blocks)]
    BY <1>2, <2>1 DEF ExecuteSwap, TypeOK
  <2> QED BY <1>2, <2>2 DEF ExecuteSwap, Goto, TypeOK, Supported, Serving
<1>3. ASSUME NEW t \in Threads, Log(t) PROVE TInv'
  <2>1. Record(t) \in Records
    BY <1>3, RecordIsRecord DEF Log, Serving
  <2>2. /\ chan' \in Seq(Records) /\ Len(chan') <= ChannelBound
        /\ dropped' \subseteq Records
    <3>1. CASE /\ Len(chan) < ChannelBound
               /\ chan' = Append(chan, Record(t))
               /\ dropped' = dropped
      <4>1. chan \in Seq(Records) /\ dropped \subseteq Records
        BY DEF TypeOK
      <4>2. Len(chan') = Len(chan) + 1 /\ chan' \in Seq(Records)
        BY <2>1, <3>1, <4>1
      <4> QED BY <3>1, <4>1, <4>2, WalSizesAssumption
    <3>2. CASE dropped' = dropped \cup {Record(t)} /\ chan' = chan
      BY <2>1, <3>2 DEF TypeOK
    <3> QED BY <1>3, <3>1, <3>2 DEF Log, SendRecord
  <2> QED BY <1>3, <2>2 DEF Log, Advance, Respond, Goto, TypeOK, Supported, Statuses, Serving
<1>4. ASSUME NEW w \in Workers, Accept(w) PROVE TInv'
  <2>1. sessions + 1 \in Sessions /\ Genesis \in Blocks
    BY <1>4, MaxSessionsAssumption DEF Accept, TypeOK, Sessions, Blocks
  <2> QED BY <1>4, <2>1 DEF Accept, Goto, TypeOK, Supported, Serving, Threads, Clients
<1>5. ASSUME NEW w \in Workers, ReadStream(w) PROVE TInv'
  <2>1. w \in Threads /\ pc[w] = "read" /\ request[peer[w]] \subseteq Frames
    BY <1>5 DEF ReadStream, Threads, TypeOK
  <2>2. PICK f \in Frames : Validate(w, f)
    BY <1>5, <2>1 DEF ReadStream
  <2>3. request' \in [Clients -> SUBSET Frames]
    BY <1>5 DEF ReadStream, TypeOK
  <2> QED BY <1>5, <2>1, <2>2, <2>3, ValidatedBlock DEF ReadStream, TypeOK, Supported, Serving
<1>6. ASSUME NEW w \in Workers, EndStream(w) PROVE TInv'
  BY <1>6 DEF EndStream, Goto, TypeOK, Supported, Serving, Threads
<1>7. ASSUME NEW w \in Workers, ReplyStream(w) PROVE TInv'
  <2>1. w \in Threads /\ Record(w) \in Records
    BY <1>7, RecordIsRecord DEF ReplyStream, Serving, Threads
  <2>2. acked' \subseteq Records
    BY <1>7, <2>1 DEF ReplyStream, Acknowledge, TypeOK
  <2>3. answer' \in [Clients -> SUBSET Statuses]
    <3>1. status[w] \in Statuses
      BY <2>1 DEF TypeOK
    <3>2. CASE answer' = [answer EXCEPT ![peer[w]] = {status[w]}]
      BY <3>1, <3>2 DEF TypeOK
    <3>3. CASE answer' = answer
      BY <3>3 DEF TypeOK
    <3> QED BY <1>7, <3>2, <3>3 DEF ReplyStream
  <2>4. \E there \in {"read", "accept"} : pc' = [pc EXCEPT ![w] = there]
    BY <1>7 DEF ReplyStream, Goto
  <2> QED BY <1>7, <2>1, <2>2, <2>3, <2>4 DEF ReplyStream, TypeOK, Supported, Serving
<1>8. ASSUME ReadDatagram PROVE TInv'
  <2>1. Udp \in Threads /\ pc[Udp] = "read"
    BY <1>8 DEF ReadDatagram, Threads
  <2>2. PICK c \in Clients, f \in Frames :
            Validate(Udp, f) /\ peer' = [peer EXCEPT ![Udp] = c]
    BY <1>8 DEF ReadDatagram, Clients, TypeOK
  <2> QED BY <1>8, <2>1, <2>2, ValidatedBlock DEF ReadDatagram, TypeOK, Supported, Serving
<1>9. ASSUME ReplyDatagram PROVE TInv'
  <2>1. Udp \in Threads /\ Record(Udp) \in Records
    BY <1>9, RecordIsRecord DEF ReplyDatagram, Serving, Threads
  <2>2. acked' \subseteq Records
    BY <1>9, <2>1 DEF ReplyDatagram, Acknowledge, TypeOK
  <2> QED BY <1>9, <2>1, <2>2 DEF ReplyDatagram, Goto, TypeOK, Supported, Serving
<1> QED BY <1>1, <1>2, <1>3, <1>4, <1>5, <1>6, <1>7, <1>8, <1>9 DEF Work, Serve

(* The steps of the WAL thread.                                            *)
LEMMA WalTyped == TInv /\ Wal => TInv'
<1> SUFFICES ASSUME TInv, Wal PROVE TInv'
  OBVIOUS
<1> USE DEF TInv, proc, threads, clients
<1>1. CASE OpenFile
  BY <1>1 DEF OpenFile, TypeOK, Supported
<1>2. CASE FailOpen
  <2>1. {chan[i] : i \in 1 .. Len(chan)} \subseteq Records
    BY DEF TypeOK
  <2> QED BY <1>2, <2>1, WalSizesAssumption DEF FailOpen, TypeOK, Supported
<1>3. CASE RecvRecord
  <2>1. Head(chan) \in Records /\ Tail(chan) \in Seq(Records) /\ Len(Tail(chan)) <= ChannelBound
    BY <1>3, WalSizesAssumption DEF RecvRecord, TypeOK
  <2>2. Len(batch) < BatchSize
    BY <1>3 DEF RecvRecord, Supported
  <2>3. batch' \in Seq(Records) /\ Len(batch') = Len(batch) + 1
    BY <1>3, <2>1 DEF RecvRecord, TypeOK
  <2> QED BY <1>3, <2>1, <2>2, <2>3, WalSizesAssumption DEF RecvRecord, TypeOK, Supported
<1>4. CASE WriteRecord
  <2>1. Head(batch) \in Records /\ Tail(batch) \in Seq(Records) /\ Len(Tail(batch)) <= BatchSize
    BY <1>4, WalSizesAssumption DEF WriteRecord, TypeOK
  <2>2. file' \in Seq(Records) /\ dropped' \subseteq Records
    <3>1. CASE file' = Append(file, Head(batch)) /\ dropped' = dropped
      BY <2>1, <3>1 DEF TypeOK
    <3>2. CASE dropped' = dropped \cup {Head(batch)} /\ file' = file
      BY <2>1, <3>2 DEF TypeOK
    <3> QED BY <1>4, <3>1, <3>2 DEF WriteRecord
  <2>3. batch' \in Seq(Records) /\ Len(batch') <= BatchSize /\ logger' = logger
    BY <1>4, <2>1 DEF WriteRecord
  <2> QED BY <1>4, <2>2, <2>3 DEF WriteRecord, TypeOK, Supported
<1>5. CASE EndFlush
  BY <1>5, WalSizesAssumption DEF EndFlush, TypeOK, Supported
<1> QED BY <1>1, <1>2, <1>3, <1>4, <1>5 DEF Wal

(* The steps of the process.                                               *)
LEMMA ProcessTyped ==
    ASSUME TInv, MainReturns \/ Crash \/ Restart
    PROVE  TInv'
<1> USE DEF TInv, clients
<1>1. CASE MainReturns \/ Crash
  <2>1. NoPeer \in [Threads -> Clients] /\ Genesis \in Blocks
    BY ClientsAssumption DEF NoPeer, Blocks
  <2>2. Stop /\ killed' \in BOOLEAN
    BY <1>1 DEF MainReturns, Crash
  <2>3. TypeOK'
    <3>1. /\ pc' \in [Threads -> {"accept", "read", "swap", "log", "reply", "stopped"}]
          /\ peer' \in [Threads -> Clients]
          /\ block' \in [Threads -> Blocks]
          /\ status' \in [Threads -> Statuses]
          /\ expected' \in [Threads -> Blocks]
          /\ session' \in [Threads -> Sessions \cup {0}]
      BY <2>1, <2>2 DEF Stop, Statuses
    <3>2. /\ chan' \in Seq(Records) /\ Len(chan') <= ChannelBound
          /\ batch' \in Seq(Records) /\ Len(batch') <= BatchSize
      BY <2>2, WalSizesAssumption DEF Stop
    <3>3. /\ client' \in [Clients -> {"off", "ready", "waiting", "closed"}]
          /\ request' \in [Clients -> SUBSET Frames]
          /\ answer' \in [Clients -> SUBSET Statuses]
      BY <2>2 DEF Stop, TypeOK
    <3> QED BY <2>2, <3>1, <3>2, <3>3 DEF Stop, TypeOK
  <2>4. Supported'
    <3>1. \A c \in Clients : client'[c] = "waiting" => client[c] = "waiting"
      BY <2>2 DEF Stop
    <3>2. Len(batch') < BatchSize /\ next' = next /\ logger' = "stopped"
      BY <2>2, WalSizesAssumption DEF Stop
    <3>3. \A t \in Threads : pc'[t] = "stopped"
      BY <2>2 DEF Stop
    <3> QED BY <3>1, <3>2, <3>3 DEF Supported, Serving
  <2> QED BY <2>3, <2>4
<1>2. CASE Restart
  <2>1. sessions + 1 \in Sessions
    BY <1>2, MaxSessionsAssumption DEF Restart, TypeOK, Sessions
  <2>2. TypeOK'
    BY <1>2, <2>1 DEF Restart, Idle, TypeOK
  <2>3. Supported'
    <3>1. \A t \in Threads : pc'[t] \in Serving => t = Udp
      BY <1>2 DEF Restart, Idle, Serving
    <3>2. Udp \in Threads => session'[Udp] \in Sessions
      BY <1>2, <2>1 DEF Restart, TypeOK
    <3>3. Len(batch) < BatchSize
      BY <1>2 DEF Restart, Supported
    <3> QED BY <1>2, <3>1, <3>2, <3>3 DEF Restart, Supported
  <2> QED BY <2>2, <2>3
<1> QED BY <1>1, <1>2

(* Every step keeps the types.                                             *)
LEMMA TypeStep == TInv /\ [Next]_vars => TInv'
<1>1. TInv /\ UNCHANGED vars => TInv'
  BY DEF vars, proc, threads, wal, clients, TInv, TypeOK, Supported
<1> QED BY <1>1, ClientTyped, ServerTyped, WalTyped, ProcessTyped DEF Next

(* Types hold in every behaviour.                                          *)
LEMMA TypeInvariant == Spec => []TInv
BY InitTyped, TypeStep, PTL DEF Spec

(* Every variable has its type; channel and batch keep their bounds.       *)
THEOREM TypeCorrect == Spec => []TypeOK
BY TypeInvariant, PTL DEF TInv

-----------------------------------------------------------------------------
(* The last block a session executed, or the start of all chains.          *)
Tip(s) == IF ran[s] = <<>> THEN Genesis ELSE ran[s][Len(ran[s])]

Serves(t) == pc[t] \in Serving

(* Two threads never serve one session, and a session not yet opened has   *)
(* executed nothing: only the thread that serves a session extends it.     *)
Exclusive ==
    /\ \A t \in Threads : Serves(t) => session[t] <= sessions
    /\ \A t, u \in Threads : Serves(t) /\ Serves(u) /\ session[t] = session[u] => t = u
    /\ \A s \in Sessions : s > sessions => ran[s] = <<>>
    /\ ~up => \A t \in Threads : pc[t] = "stopped" /\ expected[t] = Genesis

(* What a thread expects is the end of what its session executed - except  *)
(* between the swap and the advance, where that is the block in hand - and *)
(* a block on its way to the swap follows it.                              *)
Linked ==
    \A t \in Threads :
        /\ pc[t] \in {"read", "swap", "reply"} => expected[t] = Tip(session[t])
        /\ pc[t] = "log" => block[t] = Tip(session[t])
        /\ pc[t] = "swap" =>
              /\ block[t].n >= 1
              /\ Prev(block[t]) = expected[t]
              /\ ~RequirePopp => block[t].chain = session[t]

(* A bank session's blocks bear its number.                                *)
BankOwned ==
    ~RequirePopp =>
        \A s \in Sessions : \A i \in 1 .. Len(ran[s]) : ran[s][i].chain = s

CInv == TInv /\ Exclusive /\ Linked /\ BankOwned /\ SessionIsOneChain

(* A block that follows the tip of a chain makes it longer by one.         *)
LEMMA ChainGrows ==
    ASSUME TypeOK, SessionIsOneChain, NEW s \in Sessions, NEW b \in Blocks,
           b.n >= 1, Prev(b) = Tip(s)
    PROVE  \E o \in Owners : \A i \in 1 .. Len(Append(ran[s], b)) : Append(ran[s], b)[i] = Block(o, i)
<1>1. ran[s] \in Seq(Blocks)
  BY DEF TypeOK
<1>2. b.chain \in Owners /\ b = Block(b.chain, b.n) /\ b.n \in Nat
  BY BlockShape
<1>3. CASE ran[s] = <<>>
  <2>1. b.n = 1
    BY <1>2, <1>3 DEF Prev, Tip, Genesis, Block
  <2>2. Append(ran[s], b) = <<b>>
    BY <1>3
  <2>3. \A i \in 1 .. Len(<<b>>) : i = 1 /\ <<b>>[i] = b
    OBVIOUS
  <2> QED BY <1>2, <2>1, <2>2, <2>3
<1>4. CASE ran[s] # <<>>
  <2>1. PICK o \in Owners : \A i \in 1 .. Len(ran[s]) : ran[s][i] = Block(o, i)
    BY DEF SessionIsOneChain
  <2>2. Len(ran[s]) \in Nat /\ Len(ran[s]) >= 1
    BY <1>1, <1>4
  <2>3. Prev(b) = Block(o, Len(ran[s]))
    BY <1>4, <2>1, <2>2 DEF Tip
  <2>4. b = Block(o, Len(ran[s]) + 1)
    <3>1. b.n # 1
      BY <2>2, <2>3 DEF Prev, Genesis, Block
    <3>2. Block(b.chain, b.n - 1) = Block(o, Len(ran[s]))
      BY <2>3, <3>1 DEF Prev
    <3>3. b.chain = o /\ b.n - 1 = Len(ran[s])
      BY <3>2 DEF Block
    <3> QED BY <1>2, <2>2, <3>3
  <2>5. \A i \in 1 .. Len(Append(ran[s], b)) : Append(ran[s], b)[i] = Block(o, i)
    BY <1>1, <2>1, <2>2, <2>4
  <2> QED BY <2>5
<1> QED BY <1>3, <1>4

(* A step that touches neither what threads expect nor what sessions       *)
(* executed keeps the chains.                                              *)
LEMMA ChainsUntouched ==
    ASSUME CInv, TInv', UNCHANGED <<up, pc, block, expected, session, sessions, ran>>
    PROVE  CInv'
BY DEF CInv, Exclusive, Linked, BankOwned, SessionIsOneChain, Tip, Prev, Serves

(* Nothing was executed when the process starts for the first time.        *)
LEMMA InitChained == Init => CInv
<1> SUFFICES ASSUME Init PROVE CInv
  OBVIOUS
<1>1. 1 \in Sessions /\ \A s \in Sessions : ran[s] = <<>> /\ Tip(s) = Genesis
  BY MaxSessionsAssumption DEF Init, Sessions, Tip
<1>2. \A t \in Threads : pc[t] \in {"read", "accept"} /\ (pc[t] = "read" => t = Udp)
  BY DEF Init, Idle
<1>3. Exclusive
  BY <1>1, <1>2 DEF Exclusive, Init, Serves, Serving
<1>4. Linked
  BY <1>1, <1>2 DEF Linked, Init
<1>5. SessionIsOneChain /\ BankOwned
  <2>1. \E o : o \in Owners
    BY <1>1, SessionsAreOwners
  <2>2. \A s \in Sessions : 1 .. Len(ran[s]) = {}
    BY <1>1
  <2> QED BY <2>1, <2>2 DEF SessionIsOneChain, BankOwned
<1> QED BY <1>3, <1>4, <1>5, InitTyped DEF CInv

(* A thread that reads a frame gets a block that follows its session's     *)
(* tip, or answers a refusal.                                              *)
LEMMA ValidateChained ==
    ASSUME CInv, TInv', NEW t \in Threads, pc[t] = "read", NEW f \in Frames, Validate(t, f),
           UNCHANGED <<up, expected, session, sessions, ran>>
    PROVE  CInv'
<1>1. /\ session[t] \in Sessions /\ expected[t] \in Blocks /\ expected[t] = Tip(session[t])
      /\ f.block \in Blocks
  BY DEF CInv, TInv, TypeOK, Supported, Serving, Linked, Frames
<1>2. \A u \in Threads : u # t => pc'[u] = pc[u] /\ block'[u] = block[u]
  BY DEF Validate, Respond, Goto, CInv, TInv, TypeOK
<1>3. pc'[t] \in {"swap", "reply"}
  BY DEF Validate, Respond, Goto, CInv, TInv, TypeOK
<1>4. pc'[t] = "swap" =>
          /\ block'[t].n >= 1
          /\ Prev(block'[t]) = expected[t]
          /\ ~RequirePopp => block'[t].chain = session[t]
  <2> SUFFICES ASSUME pc'[t] = "swap"
               PROVE  /\ block'[t].n >= 1
                      /\ Prev(block'[t]) = expected[t]
                      /\ ~RequirePopp => block'[t].chain = session[t]
    OBVIOUS
  <2>1. CASE RequirePopp
    <3>1. Prev(f.block) = expected[t] /\ block'[t] = f.block
      BY <2>1 DEF Validate, Respond, Goto, CInv, TInv, TypeOK
    <3>2. f.block.n \in Nat /\ expected[t].n \in Nat
      BY <1>1, BlockShape
    <3>3. f.block.n # 0
      BY <3>1, <3>2 DEF Prev, Block
    <3> QED BY <2>1, <3>1, <3>2, <3>3
  <2>2. CASE ~RequirePopp
    <3>1. block'[t] = Minted(t)
      BY <2>2 DEF Validate, Goto, CInv, TInv, TypeOK
    <3>2. expected[t].n \in Nat
      BY <1>1, BlockShape
    <3>3. Minted(t).n = expected[t].n + 1 /\ Minted(t).chain = session[t]
      BY DEF Minted, Block
    <3>4. expected[t].n # 0 => expected[t] = Block(session[t], expected[t].n)
      <4> SUFFICES ASSUME expected[t].n # 0
                   PROVE  expected[t] = Block(session[t], expected[t].n)
        OBVIOUS
      <4>1. ran[session[t]] # <<>>
        BY <1>1 DEF Tip, Genesis
      <4>2. ran[session[t]] \in Seq(Blocks)
        BY <1>1 DEF CInv, TInv, TypeOK
      <4>3. Len(ran[session[t]]) \in 1 .. Len(ran[session[t]])
        BY <4>1, <4>2
      <4>4. expected[t].chain = session[t]
        BY <1>1, <2>2, <4>1, <4>3 DEF Tip, CInv, BankOwned
      <4> QED BY <1>1, <4>4, BlockShape
    <3>5. expected[t].n = 0 => expected[t] = Genesis
      BY <1>1, BlockShape
    <3>6. Prev(Minted(t)) = expected[t]
      <4>1. CASE expected[t].n = 0
        BY <3>3, <3>5, <4>1 DEF Prev
      <4>2. CASE expected[t].n # 0
        BY <3>2, <3>3, <3>4, <4>2 DEF Prev
      <4> QED BY <4>1, <4>2
    <3> QED BY <3>1, <3>2, <3>3, <3>6
  <2> QED BY <2>1, <2>2
<1>5. Exclusive'
  <2>1. up
    BY <1>1 DEF CInv, Exclusive
  <2>2. \A u \in Threads : Serves(u)' => Serves(u)
    BY <1>2, <1>3 DEF Serves, Serving
  <2> QED BY <2>1, <2>2 DEF CInv, Exclusive
<1>6. Linked'
  BY <1>1, <1>2, <1>3, <1>4 DEF CInv, Linked, Tip, Prev
<1> QED BY <1>5, <1>6 DEF CInv, BankOwned, SessionIsOneChain

(* The swap appends the block in hand, the advance catches up with it.     *)
LEMMA SwapChained == \A t \in Threads : CInv /\ TInv' /\ ExecuteSwap(t) => CInv'
<1> SUFFICES ASSUME NEW t \in Threads, CInv, TInv', ExecuteSwap(t) PROVE CInv'
  OBVIOUS
<1> DEFINE here == session[t]
<1>1. /\ pc[t] = "swap" /\ Serves(t)
      /\ here \in Sessions /\ block[t] \in Blocks
      /\ block[t].n >= 1 /\ Prev(block[t]) = Tip(here)
      /\ ~RequirePopp => block[t].chain = here
      /\ ran[here] \in Seq(Blocks) /\ here <= sessions
  BY DEF ExecuteSwap, CInv, TInv, TypeOK, Supported, Linked, Serves, Serving, Exclusive
<1>2. ran' = [ran EXCEPT ![here] = Append(ran[here], block[t])] /\ pc' = [pc EXCEPT ![t] = "log"]
  BY DEF ExecuteSwap, Goto
<1>3. UNCHANGED <<up, block, expected, session, sessions>>
  BY DEF ExecuteSwap, proc
<1>4. ran'[here] = Append(ran[here], block[t]) /\ \A s \in Sessions \ {here} : ran'[s] = ran[s]
  BY <1>1, <1>2 DEF CInv, TInv, TypeOK
<1>5. pc'[t] = "log" /\ \A u \in Threads : u # t => pc'[u] = pc[u]
  BY <1>2 DEF CInv, TInv, TypeOK
<1>6. Exclusive'
  <2>1. \A u \in Threads : Serves(u)' => Serves(u)
    BY <1>1, <1>5 DEF Serves
  <2>2. up
    BY <1>1 DEF CInv, Exclusive
  <2>3. \A s \in Sessions : s > sessions => s # here
    BY <1>1, MaxSessionsAssumption DEF Sessions, CInv, TInv, TypeOK
  <2> QED BY <1>3, <1>4, <2>1, <2>2, <2>3 DEF CInv, Exclusive
<1>7. Linked'
  <2>1. Tip(here)' = block[t]
    <3>1. /\ Append(ran[here], block[t]) # <<>>
          /\ Append(ran[here], block[t])[Len(Append(ran[here], block[t]))] = block[t]
      BY <1>1
    <3> QED BY <1>3, <1>4, <3>1 DEF Tip
  <2>2. ASSUME NEW u \in Threads, u # t, Serves(u) PROVE Tip(session[u])' = Tip(session[u])
    <3>1. session[u] # here /\ session[u] \in Sessions
      BY <1>1, <2>2 DEF CInv, Exclusive, TInv, Supported, Serves
    <3> QED BY <1>3, <1>4, <3>1 DEF Tip
  <2>3. ASSUME NEW u \in Threads, u # t
        PROVE  /\ pc'[u] \in {"read", "swap", "reply"} => expected'[u] = Tip(session[u])'
               /\ pc'[u] = "log" => block'[u] = Tip(session[u])'
               /\ pc'[u] = "swap" =>
                     /\ block'[u].n >= 1
                     /\ Prev(block[u])' = expected'[u]
                     /\ ~RequirePopp => block'[u].chain = session'[u]
    BY <1>3, <1>5, <2>2, <2>3 DEF CInv, Linked, Serves, Serving, Prev
  <2> QED BY <1>3, <1>5, <2>1, <2>3 DEF Linked
<1>8. BankOwned'
  <2> SUFFICES ASSUME ~RequirePopp, NEW s \in Sessions, NEW i \in 1 .. Len(ran'[s])
               PROVE  ran'[s][i].chain = s
    BY DEF BankOwned
  <2>1. CASE s # here
    BY <1>4, <2>1 DEF CInv, BankOwned
  <2>2. CASE s = here
    <3>1. i \in 1 .. Len(ran[here]) + 1
      BY <1>1, <1>4, <2>2
    <3>2. CASE i = Len(ran[here]) + 1
      BY <1>1, <1>4, <2>2, <3>2
    <3>3. CASE i \in 1 .. Len(ran[here])
      <4>1. ran'[s][i] = ran[here][i]
        BY <1>1, <1>4, <2>2, <3>3
      <4> QED BY <2>2, <3>3, <4>1 DEF CInv, BankOwned
    <3> QED BY <1>1, <3>1, <3>2, <3>3
  <2> QED BY <2>1, <2>2
<1>9. SessionIsOneChain'
  <2>1. \E o \in Owners : \A i \in 1 .. Len(ran'[here]) : ran'[here][i] = Block(o, i)
    BY <1>1, <1>4, ChainGrows DEF CInv, TInv
  <2>2. \A s \in Sessions \ {here} :
            \E o \in Owners : \A i \in 1 .. Len(ran'[s]) : ran'[s][i] = Block(o, i)
    BY <1>4 DEF CInv, SessionIsOneChain
  <2> QED BY <2>1, <2>2 DEF SessionIsOneChain
<1> QED BY <1>6, <1>7, <1>8, <1>9 DEF CInv

(* A thread that goes on with its session's tip as what it expects, or     *)
(* leaves its session, keeps the chains.                                   *)
LEMMA MoveChained ==
    ASSUME CInv, TInv', NEW t \in Threads, Serves(t), NEW there \in {"read", "reply", "accept"},
           pc' = [pc EXCEPT ![t] = there],
           expected' = [expected EXCEPT ![t] = Tip(session[t])],
           UNCHANGED <<up, block, session, sessions, ran>>
    PROVE  CInv'
<1>1. /\ pc'[t] = there /\ expected'[t] = Tip(session[t])
      /\ \A u \in Threads : u # t => pc'[u] = pc[u] /\ expected'[u] = expected[u]
  BY DEF CInv, TInv, TypeOK
<1>2. \A s : Tip(s)' = Tip(s)
  BY DEF Tip
<1>3. up
  BY DEF CInv, Exclusive, Serves, Serving
<1>4. Exclusive'
  <2>1. \A u \in Threads : Serves(u)' => Serves(u)
    BY <1>1 DEF Serves
  <2> QED BY <1>3, <2>1 DEF CInv, Exclusive
<1>5. Linked'
  <2>1. ASSUME NEW u \in Threads
        PROVE  /\ pc'[u] \in {"read", "swap", "reply"} => expected'[u] = Tip(session[u])
               /\ pc'[u] = "log" => block[u] = Tip(session[u])
               /\ pc'[u] = "swap" =>
                     /\ block[u].n >= 1
                     /\ Prev(block[u]) = expected'[u]
                     /\ ~RequirePopp => block[u].chain = session[u]
    <3>1. CASE u = t
      BY <1>1, <3>1
    <3>2. CASE u # t
      BY <1>1, <3>2 DEF CInv, Linked
    <3> QED BY <3>1, <3>2
  <2> QED BY <1>2, <2>1 DEF Linked, Prev, Tip
<1> QED BY <1>4, <1>5 DEF CInv, BankOwned, SessionIsOneChain

(* The steps of the server threads.                                        *)
LEMMA WorkChained == CInv /\ TInv' /\ Work => CInv'
<1> SUFFICES ASSUME CInv, TInv', Work PROVE CInv'
  OBVIOUS
<1> USE DEF proc, wal, clients
<1>1. ASSUME NEW t \in Threads, RefuseSwap(t) PROVE CInv'
  <2>1. pc[t] = "swap" /\ pc' = [pc EXCEPT ![t] = "reply"]
    BY <1>1 DEF RefuseSwap, Respond, Goto
  <2>2. UNCHANGED <<up, block, expected, session, sessions, ran>>
    BY <1>1 DEF RefuseSwap
  <2>3. Serves(t) /\ expected' = [expected EXCEPT ![t] = Tip(session[t])]
    BY <2>1, <2>2 DEF Serves, Serving, CInv, Linked, TInv, TypeOK
  <2> QED BY <2>1, <2>2, <2>3, MoveChained
<1>2. ASSUME NEW t \in Threads, ExecuteSwap(t) PROVE CInv'
  BY <1>2, SwapChained
<1>3. ASSUME NEW t \in Threads, Log(t) PROVE CInv'
  <2>1. /\ pc[t] = "log" /\ pc' = [pc EXCEPT ![t] = "reply"]
        /\ expected' = [expected EXCEPT ![t] = block[t]]
    BY <1>3 DEF Log, Advance, Respond, Goto
  <2>2. UNCHANGED <<up, block, session, sessions, ran>>
    BY <1>3 DEF Log
  <2>3. Serves(t) /\ expected' = [expected EXCEPT ![t] = Tip(session[t])]
    BY <2>1, <2>2 DEF Serves, Serving, CInv, Linked
  <2> QED BY <2>1, <2>2, <2>3, MoveChained
<1>4. ASSUME NEW w \in Workers, Accept(w) PROVE CInv'
  <2>1. /\ w \in Threads /\ pc[w] = "accept" /\ pc' = [pc EXCEPT ![w] = "read"]
        /\ expected' = [expected EXCEPT ![w] = Genesis]
        /\ session' = [session EXCEPT ![w] = sessions + 1]
        /\ sessions' = sessions + 1 /\ sessions + 1 \in Sessions /\ sessions \in Nat
    BY <1>4, MaxSessionsAssumption DEF Accept, Goto, Threads, CInv, TInv, TypeOK, Sessions
  <2>2. UNCHANGED <<up, block, ran>>
    BY <1>4 DEF Accept
  <2>3. \A u \in Threads : Serves(u) => session[u] # sessions + 1
    BY <2>1, MaxSessionsAssumption DEF CInv, Exclusive, TInv, Supported, Serves, Sessions
  <2>4. \A u \in Threads : Serves(u)' => u = w \/ Serves(u)
    BY <2>1 DEF Serves, CInv, TInv, TypeOK
  <2>5. \A u \in Threads : Serves(u) => session[u] \in Nat
    BY DEF CInv, TInv, Supported, Serves, Sessions
  <2>6. Exclusive'
    <3>1. \A u \in Threads : Serves(u)' => session'[u] <= sessions'
      <4>1. ASSUME NEW u \in Threads, u # w, Serves(u) PROVE session'[u] <= sessions'
        BY <2>1, <2>5, <4>1, SMTT(30) DEF CInv, Exclusive, TInv, TypeOK
      <4>2. session'[w] = sessions'
        BY <2>1 DEF CInv, TInv, TypeOK
      <4> QED BY <2>1, <2>4, <4>1, <4>2
    <3>2. \A u, v \in Threads : Serves(u)' /\ Serves(v)' /\ session'[u] = session'[v] => u = v
      BY <2>1, <2>3, <2>4, ZenonT(30) DEF CInv, Exclusive, TInv, TypeOK
    <3>3. \A s \in Sessions : s > sessions' => ran'[s] = <<>>
      BY <2>1, <2>2, MaxSessionsAssumption DEF CInv, Exclusive, Sessions
    <3>4. up
      BY <2>1 DEF CInv, Exclusive
    <3> QED BY <2>2, <3>1, <3>2, <3>3, <3>4 DEF Exclusive
  <2>7. Linked'
    <3>1. Tip(sessions + 1) = Genesis
      BY <2>1 DEF CInv, Exclusive, Tip
    <3> QED BY <2>1, <2>2, <3>1 DEF CInv, TInv, TypeOK, Linked, Tip, Prev
  <2> QED BY <2>2, <2>6, <2>7 DEF CInv, BankOwned, SessionIsOneChain
<1>5. ASSUME NEW w \in Workers, ReadStream(w) PROVE CInv'
  <2>1. w \in Threads /\ pc[w] = "read" /\ request[peer[w]] \subseteq Frames
    BY <1>5 DEF ReadStream, Threads, CInv, TInv, TypeOK
  <2>2. PICK f \in Frames : Validate(w, f)
    BY <1>5, <2>1 DEF ReadStream
  <2> QED BY <1>5, <2>1, <2>2, ValidateChained DEF ReadStream
<1>6. ASSUME NEW w \in Workers, EndStream(w) \/ ReplyStream(w) PROVE CInv'
  <2>1. /\ w \in Threads /\ pc[w] \in {"read", "reply"}
        /\ \E there \in {"read", "accept"} : pc' = [pc EXCEPT ![w] = there]
    BY <1>6 DEF EndStream, ReplyStream, Goto, Threads
  <2>2. UNCHANGED <<up, block, expected, session, sessions, ran>>
    BY <1>6 DEF EndStream, ReplyStream
  <2>3. Serves(w) /\ expected' = [expected EXCEPT ![w] = Tip(session[w])]
    BY <2>1, <2>2 DEF Serves, Serving, CInv, Linked, TInv, TypeOK
  <2> QED BY <2>1, <2>2, <2>3, MoveChained
<1>7. CASE ReadDatagram
  <2>1. Udp \in Threads /\ pc[Udp] = "read"
    BY <1>7 DEF ReadDatagram, Threads
  <2>2. PICK f \in Frames : Validate(Udp, f)
    BY <1>7 DEF ReadDatagram, Clients, CInv, TInv, TypeOK
  <2> QED BY <1>7, <2>1, <2>2, ValidateChained DEF ReadDatagram
<1>8. CASE ReplyDatagram
  <2>1. Udp \in Threads /\ pc[Udp] = "reply" /\ pc' = [pc EXCEPT ![Udp] = "read"]
    BY <1>8 DEF ReplyDatagram, Goto, Threads
  <2>2. UNCHANGED <<up, block, expected, session, sessions, ran>>
    BY <1>8 DEF ReplyDatagram
  <2>3. Serves(Udp) /\ expected' = [expected EXCEPT ![Udp] = Tip(session[Udp])]
    BY <2>1, <2>2 DEF Serves, Serving, CInv, Linked, TInv, TypeOK
  <2> QED BY <2>1, <2>2, <2>3, MoveChained
<1> QED BY <1>1, <1>2, <1>3, <1>4, <1>5, <1>6, <1>7, <1>8 DEF Work, Serve

(* The process ends and starts again with sessions of their own.           *)
LEMMA ProcessChained == CInv /\ TInv' /\ (MainReturns \/ Crash \/ Restart) => CInv'
<1> SUFFICES ASSUME CInv, TInv', MainReturns \/ Crash \/ Restart PROVE CInv'
  OBVIOUS
<1>1. CASE MainReturns \/ Crash
  <2>1. Stop
    BY <1>1 DEF MainReturns, Crash
  <2>2. \A t \in Threads : pc'[t] = "stopped" /\ expected'[t] = Genesis
    BY <2>1 DEF Stop
  <2>3. UNCHANGED <<sessions, ran>>
    BY <2>1 DEF Stop
  <2> QED BY <2>2, <2>3 DEF CInv, Exclusive, Linked, BankOwned, SessionIsOneChain, Serves, Serving, Tip
<1>2. CASE Restart
  <2>1. \A t \in Threads : pc'[t] \in {"read", "accept"} /\ (pc'[t] = "read" => t = Udp)
    BY <1>2 DEF Restart, Idle
  <2>2. sessions + 1 \in Sessions /\ sessions' = sessions + 1 /\ sessions \in Nat
    BY <1>2, MaxSessionsAssumption DEF Restart, CInv, TInv, TypeOK, Sessions
  <2>3. UNCHANGED <<block, expected, ran>> /\ up' = TRUE
    BY <1>2 DEF Restart
  <2>4. Udp \in Threads => session'[Udp] = sessions + 1 /\ expected'[Udp] = Genesis
    BY <1>2 DEF Restart, CInv, TInv, TypeOK, Exclusive
  <2>5. Tip(sessions + 1) = Genesis
    BY <2>2 DEF CInv, Exclusive, Tip
  <2>6. Exclusive'
    BY <2>1, <2>2, <2>3, <2>4, MaxSessionsAssumption DEF CInv, Exclusive, Serves, Serving, Sessions
  <2>7. Linked'
    BY <2>1, <2>3, <2>4, <2>5 DEF Linked, Tip
  <2> QED BY <2>3, <2>6, <2>7 DEF CInv, BankOwned, SessionIsOneChain
<1> QED BY <1>1, <1>2

(* Every step keeps the invariant behind the chains.                       *)
LEMMA ChainStep == CInv /\ [Next]_vars => CInv'
<1> SUFFICES ASSUME CInv, [Next]_vars PROVE CInv'
  OBVIOUS
<1>1. TInv'
  BY TypeStep DEF CInv
<1>2. CASE UNCHANGED vars
  BY <1>1, <1>2, ChainsUntouched DEF vars, threads, proc
<1>3. CASE \E c \in Clients : Open(c) \/ Send(c) \/ Receive(c) \/ Close(c)
  <2>1. UNCHANGED <<up, pc, block, expected, session, sessions, ran>>
    BY <1>3 DEF Open, Send, Receive, Close, threads, proc
  <2> QED BY <1>1, <2>1, ChainsUntouched
<1>4. CASE Wal
  <2>1. UNCHANGED <<up, pc, block, expected, session, sessions, ran>>
    BY <1>4 DEF Wal, OpenFile, FailOpen, RecvRecord, WriteRecord, EndFlush, threads, proc
  <2> QED BY <1>1, <2>1, ChainsUntouched
<1> QED BY <1>1, <1>2, <1>3, <1>4, WorkChained, ProcessChained DEF Next

(* The invariant behind the chains holds in every behaviour.               *)
LEMMA ChainInvariant == Spec => []CInv
BY InitChained, ChainStep, PTL DEF Spec

(* What a session executed is one chain, whatever arrives in what order.   *)
THEOREM SessionIsOneChainHolds == Spec => []SessionIsOneChain
<1>1. CInv => SessionIsOneChain
  BY DEF CInv
<1> QED BY <1>1, ChainInvariant, PTL

-----------------------------------------------------------------------------
(* What was answered OK is logged, or lost within a bound; the log has the *)
(* swaps of a session in order; the OKs of a connection are the swaps of   *)
(* its session.                                                            *)

(* The records of a sequence.                                              *)
Elements(seq) == {seq[i] : i \in 1 .. Len(seq)}

(* A record is kept when the WAL thread has it, or had it and lost it.     *)
Kept == Elements(file) \cup Elements(batch) \cup Elements(chan) \cup dropped

(* What a thread is about to acknowledge is kept already.                  *)
KeptInv ==
    /\ TInv
    /\ AcknowledgedIsLogged
    /\ \A t \in Threads : pc[t] = "reply" /\ status[t] = "OK" => Record(t) \in Kept

(* Appending adds one element, taking the head away leaves the others.     *)
LEMMA ElementsAppend ==
    ASSUME NEW S, NEW seq \in Seq(S), NEW e \in S
    PROVE  Elements(Append(seq, e)) = Elements(seq) \cup {e}
<1>1. /\ Len(seq) \in Nat
      /\ Len(Append(seq, e)) = Len(seq) + 1
      /\ \A i \in 1 .. Len(seq) : Append(seq, e)[i] = seq[i]
      /\ Append(seq, e)[Len(seq) + 1] = e
  BY AppendProperties
<1>2. 1 .. Len(seq) + 1 = 1 .. Len(seq) \cup {Len(seq) + 1}
  BY <1>1
<1> QED BY <1>1, <1>2 DEF Elements

(* What is behind the head of a sequence was in the sequence.              *)
LEMMA ElementsTail ==
    ASSUME NEW S, NEW seq \in Seq(S), seq # <<>>
    PROVE  Elements(seq) = {Head(seq)} \cup Elements(Tail(seq))
<1>1. /\ Len(seq) \in Nat \ {0}
      /\ Len(Tail(seq)) = Len(seq) - 1
      /\ \A i \in 1 .. Len(Tail(seq)) : Tail(seq)[i] = seq[i + 1]
      /\ Head(seq) = seq[1]
  BY EmptySeq, HeadTailProperties
<1>2. ASSUME NEW i \in 1 .. Len(seq) PROVE seq[i] \in {Head(seq)} \cup Elements(Tail(seq))
  <2>1. CASE i = 1
    BY <1>1, <2>1
  <2>2. CASE i # 1
    <3>1. i - 1 \in 1 .. Len(Tail(seq)) /\ Tail(seq)[i - 1] = seq[i]
      BY <1>1, <2>2
    <3> QED BY <3>1 DEF Elements
  <2> QED BY <2>1, <2>2
<1>3. ASSUME NEW i \in 1 .. Len(Tail(seq)) PROVE Tail(seq)[i] \in Elements(seq)
  <2>1. i + 1 \in 1 .. Len(seq) /\ Tail(seq)[i] = seq[i + 1]
    BY <1>1
  <2> QED BY <2>1 DEF Elements
<1>4. Head(seq) \in Elements(seq)
  BY <1>1 DEF Elements
<1> QED BY <1>2, <1>3, <1>4 DEF Elements

(* The initial state acknowledges nothing and replies to nobody.           *)
LEMMA InitKept == Init => KeptInv
<1> SUFFICES ASSUME Init PROVE KeptInv
  OBVIOUS
<1>1. \A t \in Threads : pc[t] # "reply"
  BY DEF Init, Idle
<1>2. AcknowledgedIsLogged
  BY DEF Init, AcknowledgedIsLogged
<1> QED BY <1>1, <1>2, InitTyped DEF KeptInv

(* A step that forgets nothing, and acknowledges and replies OK only for   *)
(* what is kept.                                                           *)
LEMMA KeptStays ==
    ASSUME KeptInv, TInv', Kept \subseteq Kept', acked' \subseteq acked \cup Kept',
           \A t \in Threads : pc'[t] = "reply" /\ status'[t] = "OK" => Record(t)' \in Kept'
    PROVE  KeptInv'
<1>1. acked \subseteq Kept
  BY DEF KeptInv, AcknowledgedIsLogged, Kept, Elements
<1>2. acked' \subseteq Kept'
  BY <1>1
<1>3. AcknowledgedIsLogged'
  BY <1>2 DEF AcknowledgedIsLogged, Kept, Elements
<1> QED BY <1>3 DEF KeptInv

(* A thread that moves without an OK of its own keeps what is kept.        *)
LEMMA KeptMoves ==
    ASSUME KeptInv, TInv', NEW t \in Threads,
           UNCHANGED <<file, batch, chan, dropped>>,
           acked' \subseteq acked \cup Kept,
           \A u \in Threads \ {t} : /\ pc'[u] = pc[u] /\ status'[u] = status[u]
                                   /\ session'[u] = session[u] /\ block'[u] = block[u],
           pc'[t] = "reply" => status'[t] # "OK"
    PROVE  KeptInv'
<1>1. Kept' = Kept
  BY DEF Kept, Elements
<1>2. ASSUME NEW u \in Threads, pc'[u] = "reply", status'[u] = "OK" PROVE Record(u)' \in Kept'
  <2>1. u # t
    BY <1>2
  <2>2. Record(u)' = Record(u)
    BY <2>1 DEF Record
  <2> QED BY <1>1, <1>2, <2>1, <2>2 DEF KeptInv
<1> QED BY <1>1, <1>2, KeptStays

(* The steps of the server threads.                                        *)
LEMMA WorkKept == KeptInv /\ TInv' /\ Work => KeptInv'
<1> SUFFICES ASSUME KeptInv, TInv', Work PROVE KeptInv'
  OBVIOUS
<1> USE DEF wal
<1>0. pc \in [Threads -> {"accept", "read", "swap", "log", "reply", "stopped"}]
      /\ status \in [Threads -> Statuses] /\ block \in [Threads -> Blocks]
      /\ session \in [Threads -> Sessions \cup {0}]
  BY DEF KeptInv, TInv, TypeOK
<1>1. ASSUME NEW t \in Threads, RefuseSwap(t) PROVE KeptInv'
  BY <1>0, <1>1, KeptMoves DEF RefuseSwap, Respond, Goto
<1>2. ASSUME NEW t \in Threads, ExecuteSwap(t) PROVE KeptInv'
  BY <1>0, <1>2, KeptMoves DEF ExecuteSwap, Goto
<1>3. ASSUME NEW t \in Threads, Log(t) PROVE KeptInv'
  <2>1. Record(t) \in Records /\ chan \in Seq(Records)
    BY <1>3, RecordIsRecord DEF Log, Serving, KeptInv, TInv, TypeOK
  <2>2. Kept' = Kept \cup {Record(t)}
    <3>1. CASE chan' = Append(chan, Record(t)) /\ dropped' = dropped
      <4>1. Elements(chan)' = Elements(chan) \cup {Record(t)}
        BY <2>1, <3>1, ElementsAppend DEF Elements
      <4> QED BY <1>3, <3>1, <4>1 DEF Log, Kept, Elements
    <3>2. CASE dropped' = dropped \cup {Record(t)} /\ chan' = chan
      BY <1>3, <3>2 DEF Log, Kept, Elements
    <3> QED BY <1>3, <3>1, <3>2 DEF Log, SendRecord
  <2>3. \A u \in Threads : Record(u)' = Record(u)
    BY <1>3 DEF Log, Record
  <2>4. \A u \in Threads \ {t} : pc'[u] = pc[u] /\ status'[u] = status[u]
    BY <1>0, <1>3 DEF Log, Respond, Goto
  <2>5. acked' = acked
    BY <1>3 DEF Log
  <2>6. ASSUME NEW u \in Threads, pc'[u] = "reply", status'[u] = "OK" PROVE Record(u)' \in Kept'
    BY <2>2, <2>3, <2>4, <2>6 DEF KeptInv
  <2> QED BY <2>2, <2>5, <2>6, KeptStays
<1>4. ASSUME NEW w \in Workers, Accept(w) PROVE KeptInv'
  <2>1. w \in Threads /\ pc'[w] = "read"
    BY <1>0, <1>4 DEF Accept, Goto, Threads
  <2> QED BY <1>0, <1>4, <2>1, KeptMoves DEF Accept, Goto
<1>5. ASSUME NEW t \in Threads, NEW f, Validate(t, f),
             UNCHANGED <<wal, session, acked, dropped>>
      PROVE  KeptInv'
  <2>1. \/ pc' = [pc EXCEPT ![t] = "swap"] /\ status' = status
        \/ \E s \in Statuses \ {"OK"} : pc' = [pc EXCEPT ![t] = "reply"]
                                       /\ status' = [status EXCEPT ![t] = s]
    BY <1>5 DEF Validate, Respond, Goto, Statuses
  <2>2. \A u \in Threads \ {t} : block'[u] = block[u]
    BY <1>0, <1>5 DEF Validate
  <2>3. (pc'[t] = "reply" => status'[t] # "OK")
        /\ \A u \in Threads \ {t} : pc'[u] = pc[u] /\ status'[u] = status[u]
    BY <1>0, <2>1
  <2> QED BY <1>5, <2>2, <2>3, KeptMoves
<1>6. ASSUME NEW w \in Workers, EndStream(w) PROVE KeptInv'
  <2>1. w \in Threads /\ pc'[w] = "accept"
    BY <1>0, <1>6 DEF EndStream, Goto, Threads
  <2> QED BY <1>0, <1>6, <2>1, KeptMoves DEF EndStream, Goto
<1>7. ASSUME NEW t \in Threads, pc[t] = "reply", Acknowledge(t),
             NEW there \in {"read", "accept"}, Goto(t, there),
             UNCHANGED <<block, status, session, wal, dropped>>
      PROVE  KeptInv'
  <2>1. acked' \subseteq acked \cup Kept
    BY <1>7 DEF Acknowledge, KeptInv
  <2>2. pc'[t] = there /\ \A u \in Threads \ {t} : pc'[u] = pc[u]
    BY <1>0, <1>7 DEF Goto
  <2> QED BY <1>7, <2>1, <2>2, KeptMoves
<1>8. ASSUME NEW w \in Workers, ReplyStream(w) PROVE KeptInv'
  BY <1>7, <1>8 DEF ReplyStream, Threads
<1>9. CASE ReadDatagram
  BY <1>5, <1>9 DEF ReadDatagram, Threads
<1>10. CASE ReplyDatagram
  BY <1>7, <1>10 DEF ReplyDatagram, Threads
<1>11. ASSUME NEW w \in Workers, ReadStream(w) PROVE KeptInv'
  BY <1>5, <1>11 DEF ReadStream, Threads
<1> QED BY <1>1, <1>2, <1>3, <1>4, <1>6, <1>8, <1>9, <1>10, <1>11 DEF Work, Serve

(* The WAL thread moves records from the channel to the batch and from the *)
(* batch to the file, and remembers what it loses.                         *)
LEMMA WalKept == KeptInv /\ TInv' /\ Wal => KeptInv'
<1> SUFFICES ASSUME KeptInv, TInv', Wal PROVE KeptInv'
  OBVIOUS
<1>1. /\ chan \in Seq(Records) /\ batch \in Seq(Records) /\ file \in Seq(Records)
  BY DEF KeptInv, TInv, TypeOK
<1>2. UNCHANGED <<pc, status, session, block, acked>>
  BY DEF Wal, OpenFile, FailOpen, RecvRecord, WriteRecord, EndFlush, threads
<1>3. Kept \subseteq Kept'
  <2>1. CASE OpenFile \/ EndFlush
    BY <2>1 DEF OpenFile, EndFlush, Kept, Elements
  <2>2. CASE FailOpen
    BY <2>2 DEF FailOpen, Kept, Elements
  <2>3. CASE RecvRecord
    <3>1. /\ chan # <<>> /\ chan' = Tail(chan) /\ batch' = Append(batch, Head(chan))
          /\ UNCHANGED <<file, dropped>>
      BY <2>3 DEF RecvRecord
    <3>2. Elements(chan) = {Head(chan)} \cup Elements(Tail(chan))
      BY <1>1, <3>1, ElementsTail
    <3>3. Elements(Append(batch, Head(chan))) = Elements(batch) \cup {Head(chan)}
      BY <1>1, <3>1, ElementsAppend, HeadTailProperties
    <3>4. /\ Elements(chan)' = Elements(Tail(chan)) /\ Elements(file)' = Elements(file)
          /\ Elements(batch)' = Elements(Append(batch, Head(chan)))
      BY <3>1 DEF Elements
    <3> QED BY <3>1, <3>2, <3>3, <3>4 DEF Kept
  <2>4. CASE WriteRecord
    <3>1. /\ batch # <<>> /\ batch' = Tail(batch) /\ chan' = chan
          /\ \/ file' = Append(file, Head(batch)) /\ dropped' = dropped
             \/ dropped' = dropped \cup {Head(batch)} /\ file' = file
      BY <2>4 DEF WriteRecord
    <3>2. Elements(batch) = {Head(batch)} \cup Elements(Tail(batch))
      BY <1>1, <3>1, ElementsTail
    <3>3. Elements(Append(file, Head(batch))) = Elements(file) \cup {Head(batch)}
      BY <1>1, <3>1, ElementsAppend, HeadTailProperties
    <3>4. /\ Elements(chan)' = Elements(chan)
          /\ Elements(batch)' = Elements(Tail(batch))
          /\ \/ Elements(file)' = Elements(Append(file, Head(batch))) /\ dropped' = dropped
             \/ Elements(file)' = Elements(file) /\ dropped' = dropped \cup {Head(batch)}
      BY <3>1 DEF Elements
    <3> QED BY <3>2, <3>3, <3>4 DEF Kept
  <2> QED BY <2>1, <2>2, <2>3, <2>4 DEF Wal
<1>4. \A t \in Threads : Record(t)' = Record(t)
  BY <1>2 DEF Record
<1> QED BY <1>2, <1>3, <1>4, KeptStays DEF KeptInv

(* Every step keeps the invariant: the end of the process forgets what it  *)
(* acknowledged along with what it kept.                                   *)
LEMMA KeptStep == KeptInv /\ [Next]_vars => KeptInv'
<1> SUFFICES ASSUME KeptInv, [Next]_vars PROVE KeptInv'
  OBVIOUS
<1>1. TInv'
  BY TypeStep DEF KeptInv
<1>2. ASSUME UNCHANGED <<pc, status, session, block, file, batch, chan, acked, dropped>>
      PROVE  KeptInv'
  <2>1. Kept' = Kept /\ \A t \in Threads : Record(t)' = Record(t)
    BY <1>2 DEF Kept, Elements, Record
  <2> QED BY <1>1, <1>2, <2>1, KeptStays DEF KeptInv
<1>3. CASE UNCHANGED vars
  BY <1>2, <1>3 DEF vars, threads, wal
<1>4. CASE \E c \in Clients : Open(c) \/ Send(c) \/ Receive(c) \/ Close(c)
  BY <1>2, <1>4 DEF Open, Send, Receive, Close, threads, wal
<1>5. CASE MainReturns \/ Crash
  <2>1. Stop
    BY <1>5 DEF MainReturns, Crash
  <2>2. acked' = {} /\ \A t \in Threads : pc'[t] = "stopped"
    BY <2>1 DEF Stop
  <2> QED BY <1>1, <2>2 DEF KeptInv, AcknowledgedIsLogged
<1>6. CASE Restart
  <2>1. \A t \in Threads : pc'[t] # "reply"
    BY <1>6 DEF Restart, Idle
  <2>2. Kept' = Kept /\ acked' = acked
    BY <1>6 DEF Restart, Kept, Elements
  <2> QED BY <1>1, <2>1, <2>2, KeptStays
<1> QED BY <1>1, <1>3, <1>4, <1>5, <1>6, WorkKept, WalKept DEF Next

(* A swap is answered OK only once its record is with the WAL thread, or   *)
(* lost to a file that cannot be opened or written.                        *)
THEOREM AcknowledgedIsLoggedHolds == Spec => []AcknowledgedIsLogged
<1>1. KeptInv => AcknowledgedIsLogged
  BY DEF KeptInv
<1> QED BY <1>1, InitKept, KeptStep, PTL DEF Spec

(* A sequence has at most as many elements as places.                      *)
LEMMA ElementsCount ==
    ASSUME NEW S, NEW seq \in Seq(S)
    PROVE  IsFiniteSet(Elements(seq)) /\ Cardinality(Elements(seq)) <= Len(seq)
<1> DEFINE D == 1 .. Len(seq)
           E == Elements(seq)
           f == [i \in D |-> seq[i]]
<1>1. Len(seq) \in Nat
  BY LenProperties
<1>2. IsFiniteSet(D) /\ Cardinality(D) = Len(seq)
  BY <1>1, FS_Interval
<1>3. f \in Surjection(D, E)
  BY DEF Surjection, Elements
<1>4. IsFiniteSet(E) /\ Cardinality(E) <= Cardinality(D)
  <2> HIDE DEF D, E, f
  <2> QED BY <1>2, <1>3, FS_Surjection
<1> QED BY <1>2, <1>4

(* Of the swaps it answered OK the process forgets at most a channel and a *)
(* batch when it ends.                                                     *)
THEOREM AcknowledgedLossBoundedHolds == Spec => []AcknowledgedLossBounded
<1>1. TypeOK /\ AcknowledgedIsLogged => AcknowledgedLossBounded
  <2> SUFFICES ASSUME TypeOK, AcknowledgedIsLogged PROVE AcknowledgedLossBounded
    OBVIOUS
  <2> DEFINE Lost == {r \in acked \ dropped : \A i \in 1 .. Len(file) : file[i] # r}
             B == Elements(batch)
             C == Elements(chan)
  <2>1. Lost \subseteq B \cup C
    BY DEF AcknowledgedIsLogged, Elements
  <2>2. /\ IsFiniteSet(B) /\ Cardinality(B) <= Len(batch) /\ Len(batch) <= BatchSize
        /\ IsFiniteSet(C) /\ Cardinality(C) <= Len(chan) /\ Len(chan) <= ChannelBound
        /\ Len(batch) \in Nat /\ Len(chan) \in Nat
    BY ElementsCount DEF TypeOK
  <2> HIDE DEF Lost, B, C
  <2>3. /\ IsFiniteSet(B \cup C) /\ Cardinality(B) \in Nat /\ Cardinality(C) \in Nat
        /\ Cardinality(B \cap C) \in Nat
    BY <2>2, FS_Union, FS_CardinalityType, FS_Intersection
  <2>4. Cardinality(B \cup C) = Cardinality(B) + Cardinality(C) - Cardinality(B \cap C)
    BY <2>2, FS_Union
  <2>5. Cardinality(Lost) <= Cardinality(B \cup C) /\ Cardinality(Lost) \in Nat
        /\ Cardinality(B \cup C) \in Nat
    BY <2>1, <2>3, FS_Subset, FS_CardinalityType
  <2>6. Cardinality(Lost) <= ChannelBound + BatchSize
    BY <2>2, <2>3, <2>4, <2>5, WalSizesAssumption
  <2> QED BY <2>6 DEF AcknowledgedLossBounded, Lost
<1> QED BY <1>1, TypeCorrect, AcknowledgedIsLoggedHolds, PTL

-----------------------------------------------------------------------------
(* The log as it can be replayed: what is written, then what the WAL       *)
(* thread holds, then what waits in the channel.                           *)
TheLog == file \o batch \o chan

(* The records of a session are in the order of its chain.                 *)
Ordered(log) ==
    \A i, j \in 1 .. Len(log) :
        i < j /\ log[i].session = log[j].session => log[i].block.n < log[j].block.n

(* A record is of a block its session executed, and the block of a thread  *)
(* that is about to log comes after all records of its session.            *)
Behind(r) ==
    /\ r.block.n <= Len(ran[r.session])
    /\ \A t \in Threads : pc[t] = "log" /\ session[t] = r.session => r.block.n < block[t].n

LogInv == CInv /\ Ordered(TheLog) /\ \A i \in 1 .. Len(TheLog) : Behind(TheLog[i])

(* What is left of a log when records are lost.                            *)
LeftOf(rest, log) ==
    \E place \in [1 .. Len(rest) -> 1 .. Len(log)] :
        /\ \A i \in 1 .. Len(rest) : rest[i] = log[place[i]]
        /\ \A i, j \in 1 .. Len(rest) : i < j => place[i] < place[j]

(* Three sequences after each other, place by place.                       *)
LEMMA ThreeInARow ==
    ASSUME NEW S, NEW a \in Seq(S), NEW b \in Seq(S), NEW c \in Seq(S)
    PROVE  /\ a \o b \o c \in Seq(S)
           /\ Len(a \o b \o c) = Len(a) + Len(b) + Len(c)
           /\ \A i \in 1 .. Len(a) + Len(b) + Len(c) :
                 (a \o b \o c)[i] = IF i <= Len(a) THEN a[i]
                                    ELSE IF i <= Len(a) + Len(b) THEN b[i - Len(a)]
                                    ELSE c[i - Len(a) - Len(b)]
<1>1. /\ Len(a) \in Nat /\ Len(b) \in Nat /\ Len(c) \in Nat
      /\ a \o b \in Seq(S) /\ Len(a \o b) = Len(a) + Len(b)
      /\ \A i \in 1 .. Len(a) + Len(b) : (a \o b)[i] = IF i <= Len(a) THEN a[i] ELSE b[i - Len(a)]
  BY ConcatProperties, LenProperties
<1>2. /\ a \o b \o c \in Seq(S)
      /\ Len(a \o b \o c) = Len(a \o b) + Len(c)
      /\ \A i \in 1 .. Len(a \o b) + Len(c) :
            (a \o b \o c)[i] = IF i <= Len(a \o b) THEN (a \o b)[i] ELSE c[i - Len(a \o b)]
  BY <1>1, ConcatProperties
<1> QED BY <1>1, <1>2

(* The log consists of records.                                            *)
LEMMA LogIsSequence ==
    ASSUME TInv
    PROVE  TheLog \in Seq(Records) /\ Len(TheLog) = Len(file) + Len(batch) + Len(chan)
BY ThreeInARow DEF TInv, TypeOK, TheLog

(* A log that lost nothing is left of itself.                              *)
LEMMA SameLog == ASSUME NEW log \in Seq(Records) PROVE LeftOf(log, log)
<1> DEFINE place == [i \in 1 .. Len(log) |-> i]
<1>1. place \in [1 .. Len(log) -> 1 .. Len(log)]
  OBVIOUS
<1> QED BY <1>1 DEF LeftOf

(* The WAL thread and the end of the process lose records and reorder none.*)
LEMMA RecordsMove ==
    ASSUME TInv, TInv', Wal \/ Stop
    PROVE  LeftOf(TheLog', TheLog)
<1>1. /\ file \in Seq(Records) /\ batch \in Seq(Records) /\ chan \in Seq(Records)
      /\ file' \in Seq(Records) /\ batch' \in Seq(Records) /\ chan' \in Seq(Records)
      /\ Len(file) \in Nat /\ Len(batch) \in Nat /\ Len(chan) \in Nat
  BY DEF TInv, TypeOK
<1> DEFINE L == Len(file) + Len(batch) + Len(chan)
           At(i) == IF i <= Len(file) THEN file[i]
                    ELSE IF i <= Len(file) + Len(batch) THEN batch[i - Len(file)]
                    ELSE chan[i - Len(file) - Len(batch)]
           At2(i) == IF i <= Len(file') THEN file'[i]
                     ELSE IF i <= Len(file') + Len(batch') THEN batch'[i - Len(file')]
                     ELSE chan'[i - Len(file') - Len(batch')]
<1>2. Len(TheLog) = L /\ \A i \in 1 .. L : TheLog[i] = At(i)
  BY <1>1, ThreeInARow DEF TheLog
<1>3. /\ Len(TheLog') = Len(file') + Len(batch') + Len(chan')
      /\ \A i \in 1 .. Len(TheLog') : TheLog'[i] = At2(i)
  BY <1>1, ThreeInARow DEF TheLog
<1> HIDE DEF L, At, At2
<1>4. ASSUME Len(TheLog') <= L, \A i \in 1 .. Len(TheLog') : TheLog'[i] = TheLog[i]
      PROVE  LeftOf(TheLog', TheLog)
  <2> DEFINE place == [i \in 1 .. Len(TheLog') |-> i]
  <2>1. place \in [1 .. Len(TheLog') -> 1 .. Len(TheLog)]
    BY <1>1, <1>2, <1>3, <1>4 DEF L
  <2> QED BY <1>4, <2>1 DEF LeftOf
<1>5. CASE OpenFile \/ EndFlush
  <2>1. UNCHANGED <<file, batch, chan>>
    BY <1>5 DEF OpenFile, EndFlush
  <2>2. TheLog' = TheLog
    BY <2>1 DEF TheLog
  <2> QED BY <1>1, <1>2, <1>4, <2>2 DEF L
<1>6. CASE FailOpen \/ Stop
  <2>1. file' = file /\ chan' = <<>> /\ (batch' = batch \/ batch' = <<>>)
    BY <1>6 DEF FailOpen, Stop
  <2>2. Len(chan') = 0
    BY <2>1
  <2>3. Len(TheLog') <= L
    BY <1>1, <1>3, <2>1, <2>2 DEF L
  <2>4. \A i \in 1 .. Len(TheLog') : At2(i) = At(i) /\ i \in 1 .. L
    BY <1>1, <1>3, <2>1, <2>2 DEF At, At2, L
  <2> QED BY <1>2, <1>3, <1>4, <2>3, <2>4
<1>7. CASE RecvRecord
  <2>1. /\ chan # <<>> /\ chan' = Tail(chan) /\ batch' = Append(batch, Head(chan))
        /\ file' = file
    BY <1>7 DEF RecvRecord
  <2>2. /\ Len(chan') = Len(chan) - 1 /\ \A i \in 1 .. Len(chan') : chan'[i] = chan[i + 1]
        /\ Head(chan) = chan[1] /\ Head(chan) \in Records
    BY <1>1, <2>1, HeadTailProperties
  <2>3. /\ Len(batch') = Len(batch) + 1 /\ \A i \in 1 .. Len(batch) : batch'[i] = batch[i]
        /\ batch'[Len(batch) + 1] = chan[1]
    BY <1>1, <2>1, <2>2, AppendProperties
  <2>4. Len(TheLog') = L
    BY <1>1, <1>3, <2>1, <2>2, <2>3 DEF L
  <2>5. \A i \in 1 .. L : At2(i) = At(i)
    BY <1>1, <2>1, <2>2, <2>3 DEF At, At2, L
  <2>6. L \in Nat
    BY <1>1 DEF L
  <2> QED BY <1>2, <1>3, <1>4, <2>4, <2>5, <2>6
<1>8. CASE WriteRecord
  <2>1. /\ batch # <<>> /\ batch' = Tail(batch) /\ chan' = chan
        /\ file' = Append(file, Head(batch)) \/ file' = file
    BY <1>8 DEF WriteRecord
  <2>2. /\ Len(batch') = Len(batch) - 1 /\ \A i \in 1 .. Len(batch') : batch'[i] = batch[i + 1]
        /\ Head(batch) = batch[1] /\ Head(batch) \in Records
    BY <1>1, <2>1, HeadTailProperties
  <2>3. CASE file' = Append(file, Head(batch))
    <3>1. /\ Len(file') = Len(file) + 1 /\ \A i \in 1 .. Len(file) : file'[i] = file[i]
          /\ file'[Len(file) + 1] = batch[1]
      BY <1>1, <2>2, <2>3, AppendProperties
    <3>2. Len(TheLog') = L
      BY <1>1, <1>3, <2>1, <2>2, <3>1 DEF L
    <3>3. \A i \in 1 .. L : At2(i) = At(i)
      BY <1>1, <2>1, <2>2, <3>1 DEF At, At2, L
    <3>4. L \in Nat
      BY <1>1 DEF L
    <3> QED BY <1>2, <1>3, <1>4, <3>2, <3>3, <3>4
  <2>4. CASE file' = file
    <3> DEFINE place == [i \in 1 .. Len(TheLog') |-> IF i <= Len(file) THEN i ELSE i + 1]
    <3>1. Len(TheLog') = L - 1
      BY <1>1, <1>3, <2>1, <2>2, <2>4 DEF L
    <3>2. place \in [1 .. Len(TheLog') -> 1 .. Len(TheLog)]
      BY <1>1, <1>2, <2>1, <2>2, <3>1 DEF L
    <3>3. \A i \in 1 .. Len(TheLog') : At2(i) = At(place[i])
      BY <1>1, <2>1, <2>2, <2>4, <3>1 DEF At, At2, L
    <3>4. \A i \in 1 .. Len(TheLog') : TheLog'[i] = TheLog[place[i]]
      BY <1>2, <1>3, <3>2, <3>3
    <3>5. \A i, j \in 1 .. Len(TheLog') : i < j => place[i] < place[j]
      BY <1>1, <3>1 DEF L
    <3> HIDE DEF place
    <3> QED BY <3>2, <3>4, <3>5 DEF LeftOf
  <2> QED BY <2>1, <2>3, <2>4
<1> QED BY <1>5, <1>6, <1>7, <1>8 DEF Wal

(* A step that lets sessions only grow, and lets no thread come to log,    *)
(* keeps the order of what is left of the log.                             *)
LEMMA OrderStays ==
    ASSUME LogInv, CInv', LeftOf(TheLog', TheLog),
           \A s \in Sessions : Len(ran[s]) <= Len(ran'[s]),
           \A t \in Threads : pc'[t] = "log" =>
               pc[t] = "log" /\ session'[t] = session[t] /\ block'[t] = block[t]
    PROVE  LogInv'
<1>1. PICK place \in [1 .. Len(TheLog') -> 1 .. Len(TheLog)] :
          /\ \A i \in 1 .. Len(TheLog') : TheLog'[i] = TheLog[place[i]]
          /\ \A i, j \in 1 .. Len(TheLog') : i < j => place[i] < place[j]
  BY DEF LeftOf
<1>2. Ordered(TheLog')
  BY <1>1 DEF LogInv, Ordered
<1>3. ASSUME NEW i \in 1 .. Len(TheLog') PROVE Behind(TheLog[i])'
  <2>1. Behind(TheLog[place[i]]) /\ TheLog[place[i]] \in Records
    BY <1>1, LogIsSequence DEF LogInv, CInv
  <2> DEFINE r == TheLog[place[i]]
  <2>2. r.session \in Sessions /\ r.block.n \in Nat
    BY <2>1, BlockShape DEF Records
  <2>3. Len(ran[r.session]) \in Nat /\ Len(ran'[r.session]) \in Nat
    <3>1. ran \in [Sessions -> Seq(Blocks)] /\ ran' \in [Sessions -> Seq(Blocks)]
      BY DEF LogInv, CInv, TInv, TypeOK
    <3> HIDE DEF r
    <3> QED BY <2>2, <3>1
  <2>4. r.block.n <= Len(ran'[r.session])
    BY <2>1, <2>2, <2>3 DEF Behind
  <2>5. \A t \in Threads : pc'[t] = "log" /\ session'[t] = r.session => r.block.n < block'[t].n
    BY <2>1 DEF Behind
  <2>6. TheLog'[i] = r
    BY <1>1
  <2> HIDE DEF r
  <2> QED BY <2>4, <2>5, <2>6 DEF Behind
<1> QED BY <1>2, <1>3 DEF LogInv, Ordered

(* The block a session executed last is in the place its number says.      *)
LEMMA TipPlace ==
    ASSUME CInv, NEW s \in Sessions, ran[s] # <<>>
    PROVE  Tip(s).n = Len(ran[s])
<1>1. ran[s] \in Seq(Blocks)
  BY DEF CInv, TInv, TypeOK
<1>2. Len(ran[s]) \in 1 .. Len(ran[s])
  BY <1>1
<1>3. \E o \in Owners : ran[s][Len(ran[s])] = Block(o, Len(ran[s]))
  BY <1>2 DEF CInv, SessionIsOneChain
<1> QED BY <1>3 DEF Tip, Block

(* The swap makes its session longer; its block comes after all records.   *)
LEMMA SwapOrdered == \A t \in Threads : LogInv /\ CInv' /\ ExecuteSwap(t) => LogInv'
<1> SUFFICES ASSUME NEW t \in Threads, LogInv, CInv', ExecuteSwap(t) PROVE LogInv'
  OBVIOUS
<1> DEFINE here == session[t]
<1>1. /\ here \in Sessions /\ ran[here] \in Seq(Blocks) /\ block[t] \in Blocks
      /\ ran' = [ran EXCEPT ![here] = Append(ran[here], block[t])]
      /\ pc' = [pc EXCEPT ![t] = "log"]
      /\ UNCHANGED <<session, block, file, batch, chan>>
  BY DEF ExecuteSwap, Goto, wal, LogInv, CInv, TInv, TypeOK, Supported, Serving
<1>2. TheLog' = TheLog
  BY <1>1 DEF TheLog
<1>3. ran'[here] = Append(ran[here], block[t]) /\ \A s \in Sessions \ {here} : ran'[s] = ran[s]
  BY <1>1 DEF LogInv, CInv, TInv, TypeOK
<1>4. pc'[t] = "log" /\ \A u \in Threads \ {t} : pc'[u] = pc[u]
  BY <1>1 DEF LogInv, CInv, TInv, TypeOK
<1>5. Len(ran'[here]) = Len(ran[here]) + 1 /\ Len(ran[here]) \in Nat
  BY <1>1, <1>3
<1>6. block[t].n = Len(ran[here]) + 1
  <2>1. Prev(block[t]) = Tip(here) /\ block[t].n \in Nat /\ block[t].n >= 1
    BY <1>1, BlockShape DEF ExecuteSwap, LogInv, CInv, Linked
  <2>2. CASE ran[here] = <<>>
    BY <2>1, <2>2 DEF Prev, Tip, Genesis, Block
  <2>3. CASE ran[here] # <<>>
    <3>1. Tip(here).n = Len(ran[here]) /\ Len(ran[here]) # 0
      BY <1>1, <2>3, TipPlace DEF LogInv
    <3>2. block[t].n # 1
      BY <2>1, <3>1 DEF Prev, Genesis
    <3> QED BY <1>5, <2>1, <3>1, <3>2 DEF Prev, Block
  <2> QED BY <2>2, <2>3
<1>7. ASSUME NEW i \in 1 .. Len(TheLog) PROVE Behind(TheLog[i])'
  <2> DEFINE r == TheLog[i]
  <2>1. Behind(r) /\ r \in Records
    BY LogIsSequence DEF LogInv, CInv
  <2>2. r.session \in Sessions /\ r.block.n \in Nat
    BY <2>1, BlockShape DEF Records
  <2>3. Len(ran[r.session]) <= Len(ran'[r.session]) /\ Len(ran[r.session]) \in Nat
        /\ Len(ran'[r.session]) \in Nat
    <3>1. ran \in [Sessions -> Seq(Blocks)]
      BY DEF LogInv, CInv, TInv, TypeOK
    <3> HIDE DEF r
    <3>2. CASE r.session = here
      BY <1>5, <3>2
    <3>3. CASE r.session # here
      BY <1>3, <2>2, <3>1, <3>3
    <3> QED BY <3>2, <3>3
  <2>4. r.block.n <= Len(ran[r.session])
    BY <2>1 DEF Behind
  <2>5. r.block.n <= Len(ran'[r.session])
    BY <2>2, <2>3, <2>4
  <2>6. ASSUME NEW u \in Threads, pc'[u] = "log", session[u] = r.session
        PROVE  r.block.n < block[u].n
    <3>1. CASE u = t
      BY <1>5, <1>6, <2>2, <2>4, <2>6, <3>1
    <3>2. CASE u # t
      BY <1>4, <2>1, <2>6, <3>2 DEF Behind
    <3> QED BY <3>1, <3>2
  <2>7. \A u \in Threads : pc'[u] = "log" /\ session'[u] = r.session => r.block.n < block'[u].n
    BY <1>1, <2>6
  <2>8. r = TheLog'[i]
    BY <1>2
  <2> HIDE DEF r
  <2> QED BY <1>2, <2>5, <2>7, <2>8 DEF Behind
<1> QED BY <1>2, <1>7 DEF LogInv, Ordered

(* A thread logs at the end, the last block of its session.                *)
LEMMA LogOrdered == \A t \in Threads : LogInv /\ CInv' /\ Log(t) => LogInv'
<1> SUFFICES ASSUME NEW t \in Threads, LogInv, CInv', Log(t) PROVE LogInv'
  OBVIOUS
<1> DEFINE here == session[t]
           r == Record(t)
<1>1. /\ pc[t] = "log" /\ Serves(t) /\ here \in Sessions /\ block[t] \in Blocks
      /\ ran[here] \in Seq(Blocks) /\ block[t] = Tip(here)
      /\ pc' = [pc EXCEPT ![t] = "reply"]
      /\ UNCHANGED <<session, block, file, batch, ran>>
      /\ chan' = Append(chan, r) \/ chan' = chan
  BY DEF Log, SendRecord, Respond, Goto, wal, LogInv, CInv, TInv, TypeOK, Supported, Linked,
         Serves, Serving
<1>2. pc'[t] = "reply" /\ \A u \in Threads \ {t} : pc'[u] = pc[u]
  BY <1>1 DEF LogInv, CInv, TInv, TypeOK
<1>3. CASE chan' = chan
  <2>1. TheLog' = TheLog
    BY <1>1, <1>3 DEF TheLog
  <2>2. LeftOf(TheLog', TheLog)
    BY <2>1, SameLog, LogIsSequence DEF LogInv, CInv
  <2>3. \A s \in Sessions : Len(ran[s]) <= Len(ran'[s])
    BY <1>1 DEF LogInv, CInv, TInv, TypeOK
  <2> QED BY <1>1, <1>2, <2>2, <2>3, OrderStays
<1>4. CASE chan' = Append(chan, r)
  <2>1. /\ r \in Records /\ r.session = here /\ r.block = block[t]
        /\ file \in Seq(Records) /\ batch \in Seq(Records) /\ chan \in Seq(Records)
        /\ TheLog \in Seq(Records)
    BY <1>1, RecordIsRecord, LogIsSequence DEF Serves, LogInv, CInv, TInv, TypeOK, Record
  <2>2. TheLog' = Append(TheLog, r)
    <3>1. TheLog' = file \o batch \o (chan \o <<r>>)
      BY <1>1, <1>4, <2>1, AppendIsConcat DEF TheLog
    <3>2. file \o batch \in Seq(Records) /\ <<r>> \in Seq(Records)
      BY <2>1, ConcatProperties
    <3>3. TheLog' = (file \o batch \o chan) \o <<r>>
      BY <2>1, <3>1, <3>2, ConcatAssociative
    <3> QED BY <2>1, <3>3, AppendIsConcat DEF TheLog
  <2>3. /\ Len(TheLog') = Len(TheLog) + 1 /\ Len(TheLog) \in Nat
        /\ \A i \in 1 .. Len(TheLog) : TheLog'[i] = TheLog[i]
        /\ TheLog'[Len(TheLog) + 1] = r
    BY <2>1, <2>2, AppendProperties
  <2>4. Ordered(TheLog')
    <3> SUFFICES ASSUME NEW i \in 1 .. Len(TheLog'), NEW j \in 1 .. Len(TheLog'), i < j,
                        TheLog'[i].session = TheLog'[j].session
                 PROVE  TheLog'[i].block.n < TheLog'[j].block.n
      BY DEF Ordered
    <3>1. i \in 1 .. Len(TheLog) /\ TheLog'[i] = TheLog[i]
      BY <2>3
    <3>2. CASE j = Len(TheLog) + 1
      <4>1. TheLog[i].session = here /\ Behind(TheLog[i])
        BY <2>1, <2>3, <3>1, <3>2 DEF LogInv
      <4>2. TheLog[i].block.n < block[t].n
        BY <1>1, <4>1 DEF Behind
      <4> QED BY <2>1, <2>3, <3>1, <3>2, <4>2
    <3>3. CASE j # Len(TheLog) + 1
      <4>1. j \in 1 .. Len(TheLog) /\ TheLog'[j] = TheLog[j]
        BY <2>3, <3>3
      <4> QED BY <3>1, <4>1 DEF LogInv, Ordered
    <3> QED BY <3>2, <3>3
  <2>5. ASSUME NEW i \in 1 .. Len(TheLog') PROVE Behind(TheLog[i])'
    <3>1. CASE i = Len(TheLog) + 1
      <4>1. block[t].n <= Len(ran[here])
        <5>1. CASE ran[here] = <<>>
          BY <1>1, <5>1 DEF Tip, Genesis
        <5>2. CASE ran[here] # <<>>
          BY <1>1, <5>2, TipPlace DEF LogInv
        <5> QED BY <5>1, <5>2
      <4>2. \A u \in Threads : pc'[u] = "log" => session[u] # here
        BY <1>1, <1>2 DEF LogInv, CInv, Exclusive, Serves, Serving
      <4>3. TheLog'[i] = r
        BY <2>3, <3>1
      <4> HIDE DEF r
      <4> QED BY <1>1, <2>1, <4>1, <4>2, <4>3 DEF Behind
    <3>2. CASE i # Len(TheLog) + 1
      <4>1. TheLog'[i] = TheLog[i] /\ Behind(TheLog[i])
        BY <2>3, <3>2 DEF LogInv
      <4> QED BY <1>1, <1>2, <4>1 DEF Behind
    <3> QED BY <3>1, <3>2
  <2> QED BY <2>4, <2>5 DEF LogInv, Ordered
<1> QED BY <1>1, <1>3, <1>4

(* The other steps of the server threads touch neither log nor sessions.   *)
LEMMA WorkOrdered ==
    ASSUME LogInv, CInv', Work
    PROVE  LogInv'
<1>1. ASSUME NEW t \in Threads, pc'[t] # "log", UNCHANGED <<file, batch, chan, ran>>,
             \A u \in Threads \ {t} :
                 pc'[u] = pc[u] /\ session'[u] = session[u] /\ block'[u] = block[u]
      PROVE  LogInv'
  <2>1. LeftOf(TheLog', TheLog)
    BY <1>1, SameLog, LogIsSequence DEF TheLog, LogInv, CInv
  <2>2. \A s \in Sessions : Len(ran[s]) <= Len(ran'[s])
    BY <1>1 DEF LogInv, CInv, TInv, TypeOK
  <2> QED BY <1>1, <2>1, <2>2, OrderStays
<1>2. /\ pc \in [Threads -> {"accept", "read", "swap", "log", "reply", "stopped"}]
      /\ block \in [Threads -> Blocks] /\ session \in [Threads -> Sessions \cup {0}]
  BY DEF LogInv, CInv, TInv, TypeOK
<1> USE DEF wal
<1>3. ASSUME NEW t \in Threads, RefuseSwap(t) PROVE LogInv'
  BY <1>1, <1>2, <1>3 DEF RefuseSwap, Respond, Goto
<1>4. ASSUME NEW w \in Workers, Accept(w) PROVE LogInv'
  <2>1. w \in Threads /\ pc' = [pc EXCEPT ![w] = "read"]
    BY <1>4 DEF Accept, Goto, Threads
  <2> QED BY <1>1, <1>2, <1>4, <2>1 DEF Accept
<1>5. ASSUME NEW t \in Threads, NEW f, Validate(t, f),
             UNCHANGED <<file, batch, chan, ran, session>>
      PROVE  LogInv'
  <2>1. \E there \in {"swap", "reply"} : pc' = [pc EXCEPT ![t] = there]
    BY <1>5 DEF Validate, Respond, Goto
  <2>2. \A u \in Threads \ {t} : block'[u] = block[u]
    BY <1>2, <1>5 DEF Validate
  <2>3. pc'[t] # "log" /\ \A u \in Threads \ {t} : pc'[u] = pc[u]
    BY <1>2, <2>1
  <2> QED BY <1>1, <1>5, <2>2, <2>3
<1>6. ASSUME NEW w \in Workers, ReadStream(w) PROVE LogInv'
  BY <1>5, <1>6 DEF ReadStream, Threads
<1>7. ASSUME NEW w \in Workers, EndStream(w) \/ ReplyStream(w) PROVE LogInv'
  <2>1. w \in Threads /\ \E there \in {"read", "accept"} : pc' = [pc EXCEPT ![w] = there]
    BY <1>7 DEF EndStream, ReplyStream, Goto, Threads
  <2>2. UNCHANGED <<file, batch, chan, ran, session, block>>
    BY <1>7 DEF EndStream, ReplyStream
  <2>3. pc'[w] # "log" /\ \A u \in Threads \ {w} : pc'[u] = pc[u]
    BY <1>2, <2>1
  <2> QED BY <1>1, <2>1, <2>2, <2>3
<1>8. CASE ReadDatagram
  BY <1>5, <1>8 DEF ReadDatagram, Threads
<1>9. CASE ReplyDatagram
  <2>1. Udp \in Threads /\ pc' = [pc EXCEPT ![Udp] = "read"]
    BY <1>9 DEF ReplyDatagram, Goto, Threads
  <2> QED BY <1>1, <1>2, <1>9, <2>1 DEF ReplyDatagram
<1> QED BY <1>3, <1>4, <1>6, <1>7, <1>8, <1>9, SwapOrdered, LogOrdered DEF Work, Serve

(* Every step keeps the log in order.                                      *)
LEMMA LogStep == LogInv /\ [Next]_vars => LogInv'
<1> SUFFICES ASSUME LogInv, [Next]_vars PROVE LogInv'
  OBVIOUS
<1>1. CInv' /\ TInv /\ TInv'
  BY ChainStep DEF LogInv, CInv
<1>2. \A s \in Sessions : ran' = ran => Len(ran[s]) <= Len(ran'[s])
  BY DEF LogInv, CInv, TInv, TypeOK
<1>3. ASSUME UNCHANGED <<pc, session, block, file, batch, chan, ran>> PROVE LogInv'
  <2>1. LeftOf(TheLog', TheLog)
    BY <1>1, <1>3, SameLog, LogIsSequence DEF TheLog
  <2> QED BY <1>1, <1>2, <1>3, <2>1, OrderStays
<1>4. CASE UNCHANGED vars
  BY <1>3, <1>4 DEF vars, threads, wal
<1>5. CASE \E c \in Clients : Open(c) \/ Send(c) \/ Receive(c) \/ Close(c)
  BY <1>3, <1>5 DEF Open, Send, Receive, Close, threads, wal
<1>6. CASE Wal
  <2>1. UNCHANGED <<pc, session, block, ran>>
    BY <1>6 DEF Wal, OpenFile, FailOpen, RecvRecord, WriteRecord, EndFlush, threads
  <2> QED BY <1>1, <1>2, <1>6, <2>1, RecordsMove, OrderStays
<1>7. CASE MainReturns \/ Crash
  <2>1. Stop
    BY <1>7 DEF MainReturns, Crash
  <2>2. ran' = ran /\ \A t \in Threads : pc'[t] = "stopped"
    BY <2>1 DEF Stop
  <2> QED BY <1>1, <1>2, <2>1, <2>2, RecordsMove, OrderStays
<1>8. CASE Restart
  <2>1. UNCHANGED <<file, batch, chan, ran>> /\ \A t \in Threads : pc'[t] # "log"
    BY <1>8 DEF Restart, Idle
  <2>2. LeftOf(TheLog', TheLog)
    BY <1>1, <2>1, SameLog, LogIsSequence DEF TheLog
  <2> QED BY <1>1, <1>2, <2>1, <2>2, OrderStays
<1> QED BY <1>1, <1>4, <1>5, <1>6, <1>7, <1>8, WorkOrdered DEF Next

(* The log, from the file to what is still in the channel, has the swaps   *)
(* of a session in the order of its chain, and so can be replayed.         *)
THEOREM WalKeepsSessionOrderHolds == Spec => []WalKeepsSessionOrder
<1>1. Init => LogInv
  <2> SUFFICES ASSUME Init PROVE LogInv
    OBVIOUS
  <2>1. CInv /\ TInv /\ file = <<>> /\ batch = <<>> /\ chan = <<>>
    BY InitChained DEF Init, CInv
  <2>2. Len(TheLog) = 0
    BY <2>1, LogIsSequence
  <2> QED BY <2>1, <2>2 DEF LogInv, Ordered
<1>2. LogInv => WalKeepsSessionOrder
  BY DEF LogInv, Ordered, TheLog, WalKeepsSessionOrder
<1> QED BY <1>1, <1>2, LogStep, PTL DEF Spec

-----------------------------------------------------------------------------
(* A connection is not open, waits for a worker, has one worker, or is     *)
(* closed; one that no worker accepted yet has got no answer.  The UDP     *)
(* thread answers UDP sockets only.                                        *)
Connected ==
    /\ \A c \in TcpClients : client[c] = "off" \/ c \in backlog =>
          /\ oks[c] = 0
          /\ answer[c] = {}
          /\ client[c] \in {"off", "ready"} => request[c] = {}
    /\ \A c \in backlog : client[c] # "off"
    /\ \A w \in Workers : Serves(w) => peer[w] \in TcpClients \ backlog /\ client[peer[w]] # "off"
    /\ \A v, w \in Workers : Serves(v) /\ Serves(w) /\ peer[v] = peer[w] => v = w
    /\ pc[Udp] \in {"swap", "log", "reply"} => peer[Udp] \in UdpClients

(* One side of a connection speaks at a time: it is the client's turn, or  *)
(* there is a frame to read, or a worker has it, or there is an answer to  *)
(* read.                                                                   *)
TakesTurns(w) ==
    /\ client[peer[w]] = "ready" => pc[w] = "read" /\ request[peer[w]] = {} /\ answer[peer[w]] = {}
    /\ pc[w] # "read" => request[peer[w]] = {} /\ answer[peer[w]] = {}
    /\ request[peer[w]] # {} => answer[peer[w]] = {}
    /\ \A r, s \in answer[peer[w]] : r = s

(* The OKs of a connection are the swaps of its session.                   *)
OksMatch(w) ==
    Len(ran[session[w]]) = oks[peer[w]]
        + (IF "OK" \in answer[peer[w]] THEN 1 ELSE 0)
        + (IF pc[w] = "log" \/ (pc[w] = "reply" /\ status[w] = "OK") THEN 1 ELSE 0)

InOrder(w) == Serves(w) /\ client[peer[w]] # "closed" => TakesTurns(w) /\ OksMatch(w)

ConnInv == CInv /\ Connected /\ \A w \in Workers : InOrder(w)

(* The types the connections need.                                         *)
ConnTypes ==
    /\ pc \in [Threads -> {"accept", "read", "swap", "log", "reply", "stopped"}]
    /\ peer \in [Threads -> Clients]
    /\ status \in [Threads -> Statuses]
    /\ session \in [Threads -> Sessions \cup {0}]
    /\ client \in [Clients -> {"off", "ready", "waiting", "closed"}]
    /\ backlog \subseteq TcpClients
    /\ request \in [Clients -> SUBSET Frames]
    /\ answer \in [Clients -> SUBSET Statuses]
    /\ ran \in [Sessions -> Seq(Blocks)]
    /\ oks \in [Clients -> Nat]
    /\ Workers \subseteq Threads /\ Udp \in Threads /\ Udp \notin Workers
    /\ TcpClients \subseteq Clients /\ TcpClients \cap UdpClients = {}

(* They follow from the types of all variables.                            *)
LEMMA ConnTyped == ConnInv => ConnTypes
BY ThreadsAssumption, ClientsAssumption
   DEF ConnInv, CInv, TInv, TypeOK, ConnTypes, Threads, Clients

(* A worker whose connection a step does not touch stays in order.         *)
LEMMA OthersInOrder ==
    ASSUME NEW w \in Workers, InOrder(w),
           Serves(w)' => /\ pc'[w] = pc[w] /\ status'[w] = status[w]
                         /\ peer'[w] = peer[w] /\ session'[w] = session[w]
                         /\ client'[peer[w]] = client[peer[w]]
                         /\ request'[peer[w]] = request[peer[w]]
                         /\ answer'[peer[w]] = answer[peer[w]]
                         /\ oks'[peer[w]] = oks[peer[w]]
                         /\ ran'[session[w]] = ran[session[w]]
    PROVE  InOrder(w)'
BY DEF InOrder, TakesTurns, OksMatch, Serves

(* The steps of the clients.                                               *)
LEMMA ClientInOrder ==
    ASSUME ConnInv, CInv', NEW c \in Clients, Open(c) \/ Send(c) \/ Receive(c) \/ Close(c)
    PROVE  ConnInv'
<1>1. ConnTypes
  BY ConnTyped
<1>2. UNCHANGED <<pc, peer, status, session, ran>>
  BY DEF Open, Send, Receive, Close, threads
<1>3. \A d \in Clients \ {c} :
          /\ client'[d] = client[d] /\ request'[d] = request[d]
          /\ answer'[d] = answer[d] /\ oks'[d] = oks[d]
          /\ d \in backlog' <=> d \in backlog
  BY <1>1 DEF Open, Send, Receive, Close, ConnTypes
<1>4. /\ Open(c) => client[c] = "off" /\ client'[c] = "ready"
      /\ Send(c) => client[c] = "ready" /\ client'[c] = "waiting"
      /\ Receive(c) => client[c] = "waiting" /\ client'[c] = "ready" /\ answer[c] # {}
      /\ Close(c) => client[c] \in {"ready", "waiting"} /\ client'[c] = "closed"
  BY <1>1 DEF Open, Send, Receive, Close, ConnTypes
<1>5. Connected'
  <2>1. ASSUME NEW d \in TcpClients, client'[d] = "off" \/ d \in backlog'
        PROVE  /\ oks'[d] = 0
               /\ answer'[d] = {}
               /\ client'[d] \in {"off", "ready"} => request'[d] = {}
    <3>1. CASE d # c
      BY <1>1, <1>3, <2>1, <3>1 DEF ConnInv, Connected, ConnTypes
    <3>2. CASE d = c /\ Open(c)
      BY <1>1, <1>4, <2>1, <3>2 DEF ConnInv, Connected, ConnTypes, Open
    <3>3. CASE d = c /\ (Send(c) \/ Receive(c) \/ Close(c))
      BY <1>1, <1>4, <2>1, <3>3 DEF ConnInv, Connected, ConnTypes, Send, Receive, Close
    <3> QED BY <3>1, <3>2, <3>3
  <2>2. \A d \in backlog' : client'[d] # "off"
    BY <1>1, <1>3, <1>4 DEF ConnInv, Connected, ConnTypes, Clients, Open, Send, Receive, Close
  <2>3. ASSUME NEW w \in Workers, Serves(w)
        PROVE  peer[w] \in TcpClients \ backlog' /\ client'[peer[w]] # "off"
    <3>1. peer[w] \in TcpClients \ backlog /\ client[peer[w]] # "off" /\ peer[w] \in Clients
      BY <1>1, <2>3 DEF ConnInv, Connected, ConnTypes
    <3>2. CASE peer[w] # c
      BY <1>3, <3>1, <3>2
    <3>3. CASE peer[w] = c
      BY <1>4, <3>1, <3>3 DEF Send, Receive, Close
    <3> QED BY <3>2, <3>3
  <2> QED BY <1>2, <2>1, <2>2, <2>3 DEF ConnInv, Connected, Serves
<1>6. ASSUME NEW w \in Workers PROVE InOrder(w)'
  <2>1. InOrder(w)
    BY DEF ConnInv
  <2>2. CASE ~Serves(w)
    BY <1>2, <2>2 DEF InOrder, Serves
  <2>3. CASE Serves(w) /\ peer[w] # c
    <3>1. peer[w] \in Clients \ {c}
      BY <1>1, <2>3 DEF ConnTypes
    <3> QED BY <1>2, <1>3, <2>1, <3>1, OthersInOrder
  <2>4. CASE Serves(w) /\ peer[w] = c
    <3>1. client[c] # "off"
      BY <2>4 DEF ConnInv, Connected
    <3>2. CASE Close(c)
      BY <1>2, <1>4, <2>4, <3>2 DEF InOrder
    <3>3. CASE Send(c)
      <4>1. TakesTurns(w) /\ OksMatch(w) /\ client'[c] = "waiting" /\ client[c] = "ready"
        BY <1>4, <2>1, <2>4, <3>3 DEF InOrder
      <4>2. UNCHANGED <<answer, oks>>
        BY <3>3 DEF Send
      <4>3. TakesTurns(w)'
        BY <1>2, <2>4, <4>1, <4>2 DEF TakesTurns
      <4>4. OksMatch(w)'
        BY <1>2, <4>1, <4>2 DEF OksMatch
      <4> QED BY <4>3, <4>4 DEF InOrder
    <3>4. CASE Receive(c)
      <4>1. TakesTurns(w) /\ OksMatch(w) /\ client'[c] = "ready" /\ answer[c] # {}
        BY <1>4, <2>1, <2>4, <3>4 DEF InOrder
      <4>2. c \in TcpClients
        BY <2>4 DEF ConnInv, Connected
      <4>3. /\ answer'[c] = {} /\ request' = request
            /\ oks'[c] = IF "OK" \in answer[c] THEN oks[c] + 1 ELSE oks[c]
        <5>1. PICK s \in answer[c] : oks' = IF s = "OK" THEN [oks EXCEPT ![c] = @ + 1] ELSE oks
          BY <3>4 DEF Receive
        <5>2. s = "OK" <=> "OK" \in answer[c]
          BY <2>4, <4>1 DEF TakesTurns
        <5> QED BY <1>1, <3>4, <4>2, <5>1, <5>2 DEF Receive, ConnTypes
      <4>4. pc[w] = "read" /\ request[c] = {}
        BY <2>4, <4>1 DEF TakesTurns
      <4>5. TakesTurns(w)'
        BY <1>2, <2>4, <4>1, <4>3, <4>4 DEF TakesTurns
      <4>6. OksMatch(w)'
        <5>1. oks[c] \in Nat
          BY <1>1 DEF ConnTypes
        <5> QED BY <1>2, <2>4, <4>1, <4>3, <4>4, <5>1 DEF OksMatch
      <4> QED BY <4>5, <4>6 DEF InOrder
    <3> QED BY <1>4, <3>1, <3>2, <3>3, <3>4
  <2> QED BY <2>2, <2>3, <2>4
<1> QED BY <1>5, <1>6 DEF ConnInv

(* A thread that swaps, is refused or logs.                                *)
LEMMA ServeInOrder ==
    ASSUME ConnInv, CInv', NEW t \in Threads, Serve(t)
    PROVE  ConnInv'
<1>1. ConnTypes
  BY ConnTyped
<1>2. UNCHANGED <<peer, session, client, backlog, request, answer, oks>>
  BY DEF Serve, RefuseSwap, ExecuteSwap, Log, clients
<1>3. /\ pc[t] \in {"swap", "log"} /\ pc'[t] \in {"log", "reply"}
      /\ \A u \in Threads \ {t} : pc'[u] = pc[u] /\ status'[u] = status[u]
  BY <1>1 DEF Serve, RefuseSwap, ExecuteSwap, Log, Respond, Goto, ConnTypes
<1>4. Serves(t) /\ session[t] \in Sessions
  BY <1>3 DEF Serves, Serving, ConnInv, CInv, TInv, Supported
<1>5. \A s \in Sessions \ {session[t]} : ran'[s] = ran[s]
  BY <1>1, <1>4 DEF Serve, RefuseSwap, ExecuteSwap, Log, ConnTypes
<1>6. \A u \in Threads : Serves(u)' => Serves(u)
  BY <1>3, <1>4 DEF Serves
<1>7. Connected'
  BY <1>1, <1>2, <1>3, <1>6 DEF ConnInv, Connected, ConnTypes
<1>8. ASSUME NEW w \in Workers PROVE InOrder(w)'
  <2>1. InOrder(w) /\ w \in Threads
    BY <1>1 DEF ConnInv, ConnTypes
  <2>2. CASE w # t
    <3>1. Serves(w) => session[w] \in Sessions \ {session[t]}
      BY <1>4, <2>1, <2>2 DEF ConnInv, CInv, Exclusive, TInv, Supported, Serves
    <3> QED BY <1>2, <1>3, <1>5, <1>6, <2>1, <2>2, <3>1, OthersInOrder
  <2>3. CASE w = t /\ client[peer[w]] # "closed"
    <3>1. TakesTurns(w) /\ OksMatch(w)
      BY <1>4, <2>1, <2>3 DEF InOrder
    <3>2. TakesTurns(w)'
      BY <1>2, <1>3, <2>3, <3>1 DEF TakesTurns
    <3>3. Len(ran[session[w]]) \in Nat /\ oks[peer[w]] \in Nat
      BY <1>1, <1>4, <2>3 DEF ConnTypes
    <3>4. answer[peer[w]] = {}
      BY <1>3, <2>3, <3>1 DEF TakesTurns
    <3>5. CASE RefuseSwap(t)
      <4>1. pc[t] = "swap" /\ pc'[t] = "reply" /\ status'[t] = "INSUFFICIENT_FUNDS" /\ ran' = ran
        BY <1>1, <3>5 DEF RefuseSwap, Respond, Goto, ConnTypes
      <4>2. OksMatch(w)'
        BY <1>2, <2>3, <3>1, <3>3, <3>4, <4>1 DEF OksMatch
      <4> QED BY <3>2, <4>2 DEF InOrder
    <3>6. CASE ExecuteSwap(t)
      <4>1. /\ pc[t] = "swap" /\ pc'[t] = "log"
            /\ ran'[session[t]] = Append(ran[session[t]], block[t])
        BY <1>1, <1>4, <3>6 DEF ExecuteSwap, Goto, ConnTypes
      <4>2. Len(ran'[session[t]]) = Len(ran[session[t]]) + 1
        BY <1>1, <1>4, <4>1 DEF ConnTypes
      <4>3. OksMatch(w)'
        BY <1>2, <2>3, <3>1, <3>3, <3>4, <4>1, <4>2 DEF OksMatch
      <4> QED BY <3>2, <4>3 DEF InOrder
    <3>7. CASE Log(t)
      <4>1. pc[t] = "log" /\ pc'[t] = "reply" /\ status'[t] = "OK" /\ ran' = ran
        BY <1>1, <3>7 DEF Log, Respond, Goto, ConnTypes
      <4>2. OksMatch(w)'
        BY <1>2, <2>3, <3>1, <3>3, <3>4, <4>1 DEF OksMatch
      <4> QED BY <3>2, <4>2 DEF InOrder
    <3> QED BY <3>5, <3>6, <3>7 DEF Serve
  <2>4. CASE w = t /\ client[peer[w]] = "closed"
    BY <1>2, <2>4 DEF InOrder
  <2> QED BY <2>2, <2>3, <2>4
<1> QED BY <1>7, <1>8 DEF ConnInv

(* A worker accepts a connection nobody has served before.                 *)
LEMMA AcceptInOrder ==
    ASSUME ConnInv, CInv', NEW w \in Workers, Accept(w)
    PROVE  ConnInv'
<1>1. ConnTypes
  BY ConnTyped
<1>2. PICK c \in backlog : backlog' = backlog \ {c} /\ peer' = [peer EXCEPT ![w] = c]
  BY DEF Accept
<1>3. /\ pc[w] = "accept" /\ pc' = [pc EXCEPT ![w] = "read"]
      /\ session' = [session EXCEPT ![w] = sessions + 1]
      /\ UNCHANGED <<status, client, request, answer, oks, ran>>
  BY DEF Accept, Goto
<1>4. /\ w \in Threads /\ w # Udp /\ c \in TcpClients /\ c \in Clients
      /\ pc'[w] = "read" /\ peer'[w] = c /\ session'[w] = sessions + 1
      /\ \A u \in Threads \ {w} : pc'[u] = pc[u] /\ peer'[u] = peer[u] /\ session'[u] = session[u]
  BY <1>1, <1>2, <1>3 DEF ConnTypes
<1>5. ~Serves(w) /\ \A u \in Threads : Serves(u)' => u = w \/ Serves(u)
  BY <1>3, <1>4 DEF Serves, Serving
<1>6. \A v \in Workers : Serves(v) => peer[v] # c
  BY <1>2 DEF ConnInv, Connected
<1>7. Connected'
  <2>1. \A v \in Workers : Serves(v)' => peer'[v] \in TcpClients \ backlog' /\ client[peer'[v]] # "off"
    BY <1>1, <1>2, <1>4, <1>5 DEF ConnInv, Connected, ConnTypes
  <2>2. \A v, x \in Workers : Serves(v)' /\ Serves(x)' /\ peer'[v] = peer'[x] => v = x
    BY <1>1, <1>4, <1>5, <1>6 DEF ConnInv, Connected, ConnTypes
  <2>3. pc'[Udp] = pc[Udp] /\ peer'[Udp] = peer[Udp]
    BY <1>1, <1>4 DEF ConnTypes
  <2> QED BY <1>2, <1>3, <2>1, <2>2, <2>3 DEF ConnInv, Connected
<1>8. ASSUME NEW v \in Workers PROVE InOrder(v)'
  <2>1. InOrder(v) /\ v \in Threads
    BY <1>1 DEF ConnInv, ConnTypes
  <2>2. CASE v # w
    BY <1>3, <1>4, <1>5, <2>1, <2>2, OthersInOrder
  <2>3. CASE v = w
    <3>1. oks[c] = 0 /\ answer[c] = {} /\ (client[c] = "ready" => request[c] = {})
      BY <1>2, <1>4 DEF ConnInv, Connected
    <3>2. sessions + 1 \in Sessions /\ sessions + 1 > sessions
      BY MaxSessionsAssumption DEF Accept, Sessions, ConnInv, CInv, TInv, TypeOK
    <3>3. ran[sessions + 1] = <<>>
      BY <3>2 DEF ConnInv, CInv, Exclusive
    <3>4. TakesTurns(v)'
      BY <1>3, <1>4, <2>3, <3>1 DEF TakesTurns
    <3>5. OksMatch(v)'
      BY <1>3, <1>4, <2>3, <3>1, <3>3 DEF OksMatch
    <3> QED BY <3>4, <3>5 DEF InOrder
  <2> QED BY <2>2, <2>3
<1> QED BY <1>7, <1>8 DEF ConnInv

(* A worker reads a frame: it is the worker's turn now.                    *)
LEMMA ReadInOrder ==
    ASSUME ConnInv, CInv', NEW w \in Workers, ReadStream(w)
    PROVE  ConnInv'
<1>1. ConnTypes
  BY ConnTyped
<1>2. PICK f \in request[peer[w]] : Validate(w, f)
  BY DEF ReadStream
<1>3. /\ pc[w] = "read" /\ request' = [request EXCEPT ![peer[w]] = {}]
      /\ UNCHANGED <<peer, session, client, backlog, answer, oks, ran>>
  BY DEF ReadStream
<1>4. /\ w \in Threads /\ w # Udp /\ Serves(w) /\ peer[w] \in Clients
      /\ request'[peer[w]] = {} /\ \A c \in Clients \ {peer[w]} : request'[c] = request[c]
  BY <1>1, <1>3 DEF ConnTypes, Serves, Serving
<1>5. /\ pc'[w] = "swap" \/ (pc'[w] = "reply" /\ status'[w] # "OK")
      /\ \A u \in Threads \ {w} : pc'[u] = pc[u] /\ status'[u] = status[u]
  BY <1>1, <1>2, <1>4 DEF Validate, Respond, Goto, ConnTypes
<1>6. \A u \in Threads : Serves(u)' => Serves(u)
  BY <1>4, <1>5 DEF Serves
<1>7. Connected'
  <2>1. pc'[Udp] = pc[Udp]
    BY <1>1, <1>4, <1>5 DEF ConnTypes
  <2>2. \A c \in TcpClients : request[c] = {} => request'[c] = {}
    BY <1>1, <1>4 DEF ConnTypes
  <2> QED BY <1>1, <1>3, <1>6, <2>1, <2>2 DEF ConnInv, Connected, ConnTypes
<1>8. ASSUME NEW v \in Workers PROVE InOrder(v)'
  <2>1. InOrder(v) /\ v \in Threads
    BY <1>1 DEF ConnInv, ConnTypes
  <2>2. CASE v # w
    <3>1. Serves(v) => peer[v] \in Clients \ {peer[w]}
      BY <1>1, <1>4, <2>1, <2>2 DEF ConnInv, Connected, ConnTypes
    <3> QED BY <1>3, <1>4, <1>5, <1>6, <2>1, <2>2, <3>1, OthersInOrder
  <2>3. CASE v = w /\ client[peer[w]] # "closed"
    <3>1. TakesTurns(w) /\ OksMatch(w)
      BY <1>4, <2>1, <2>3 DEF InOrder
    <3>2. request[peer[w]] # {}
      BY <1>2
    <3>3. answer[peer[w]] = {} /\ client[peer[w]] # "ready"
      BY <3>1, <3>2 DEF TakesTurns
    <3>4. TakesTurns(v)'
      BY <1>3, <1>4, <2>3, <3>3 DEF TakesTurns
    <3>5. OksMatch(v)'
      BY <1>3, <1>5, <2>3, <3>1 DEF OksMatch
    <3> QED BY <3>4, <3>5 DEF InOrder
  <2>4. CASE v = w /\ client[peer[w]] = "closed"
    BY <1>3, <2>4 DEF InOrder
  <2> QED BY <2>2, <2>3, <2>4
<1> QED BY <1>7, <1>8 DEF ConnInv

(* A worker answers, or leaves a connection that was closed.               *)
LEMMA ReplyInOrder ==
    ASSUME ConnInv, CInv', NEW w \in Workers, EndStream(w) \/ ReplyStream(w)
    PROVE  ConnInv'
<1>1. ConnTypes
  BY ConnTyped
<1>2. /\ UNCHANGED <<peer, status, session, client, backlog, oks, ran>>
      /\ pc[w] \in {"read", "reply"}
      /\ \E there \in {"read", "accept"} : pc' = [pc EXCEPT ![w] = there]
  BY DEF EndStream, ReplyStream, Goto
<1>3. /\ w \in Threads /\ w # Udp /\ Serves(w) /\ peer[w] \in Clients /\ pc'[w] \in {"read", "accept"}
      /\ \A u \in Threads \ {w} : pc'[u] = pc[u]
  BY <1>1, <1>2 DEF ConnTypes, Serves, Serving
<1>4. /\ \A c \in Clients \ {peer[w]} : request'[c] = request[c] /\ answer'[c] = answer[c]
      /\ request'[peer[w]] \in {request[peer[w]], {}}
  BY <1>1 DEF EndStream, ReplyStream, ConnTypes
<1>5. \A u \in Threads : Serves(u)' => Serves(u)
  BY <1>3 DEF Serves
<1>6. Connected'
  <2>1. pc'[Udp] = pc[Udp]
    BY <1>1, <1>3 DEF ConnTypes
  <2>2. client[peer[w]] # "off" /\ peer[w] \notin backlog
    BY <1>3 DEF ConnInv, Connected
  <2> QED BY <1>1, <1>2, <1>4, <1>5, <2>1, <2>2 DEF ConnInv, Connected, ConnTypes
<1>7. ASSUME NEW v \in Workers PROVE InOrder(v)'
  <2>1. InOrder(v) /\ v \in Threads
    BY <1>1 DEF ConnInv, ConnTypes
  <2>2. CASE v # w
    <3>1. Serves(v) => peer[v] \in Clients \ {peer[w]}
      BY <1>1, <1>3, <2>1, <2>2 DEF ConnInv, Connected, ConnTypes
    <3> QED BY <1>2, <1>3, <1>4, <1>5, <2>1, <2>2, <3>1, OthersInOrder
  <2>3. CASE v = w /\ client[peer[w]] # "closed"
    <3>1. ReplyStream(w) /\ pc[w] = "reply" /\ pc'[w] = "read"
      BY <1>1, <1>3, <2>3 DEF EndStream, ReplyStream, Goto, ConnTypes
    <3>2. answer'[peer[w]] = {status[w]} /\ request' = request
      BY <1>1, <1>3, <2>3, <3>1 DEF ReplyStream, ConnTypes
    <3>3. TakesTurns(w) /\ OksMatch(w)
      BY <1>3, <2>1, <2>3 DEF InOrder
    <3>4. request[peer[w]] = {} /\ answer[peer[w]] = {} /\ client[peer[w]] # "ready"
      BY <3>1, <3>3 DEF TakesTurns
    <3>5. TakesTurns(v)'
      BY <1>2, <2>3, <3>1, <3>2, <3>4 DEF TakesTurns
    <3>6. OksMatch(v)'
      <4>1. oks[peer[w]] \in Nat
        BY <1>1, <1>3 DEF ConnTypes
      <4> QED BY <1>2, <2>3, <3>1, <3>2, <3>3, <3>4, <4>1 DEF OksMatch
    <3> QED BY <3>5, <3>6 DEF InOrder
  <2>4. CASE v = w /\ client[peer[w]] = "closed"
    BY <1>2, <2>4 DEF InOrder
  <2> QED BY <2>2, <2>3, <2>4
<1> QED BY <1>6, <1>7 DEF ConnInv

(* The UDP thread has no part in connections.                              *)
LEMMA DatagramInOrder ==
    ASSUME ConnInv, CInv', ReadDatagram \/ ReplyDatagram
    PROVE  ConnInv'
<1>1. ConnTypes
  BY ConnTyped
<1>2. /\ pc[Udp] \in {"read", "reply"}
      /\ UNCHANGED <<session, client, backlog, request, oks, ran>>
      /\ \A u \in Threads \ {Udp} : pc'[u] = pc[u] /\ status'[u] = status[u] /\ peer'[u] = peer[u]
  BY <1>1 DEF ReadDatagram, ReplyDatagram, Validate, Respond, Goto, clients, ConnTypes
<1>3. pc'[Udp] \in {"swap", "log", "reply"} => peer'[Udp] \in UdpClients
  BY <1>1 DEF ReadDatagram, ReplyDatagram, Goto, ConnTypes
<1>4. \A c \in TcpClients : answer'[c] = answer[c]
  <2>1. CASE ReadDatagram
    BY <2>1 DEF ReadDatagram, clients
  <2>2. CASE ReplyDatagram
    <3>1. peer[Udp] \in UdpClients
      BY <2>2 DEF ReplyDatagram, ConnInv, Connected
    <3> QED BY <1>1, <2>2, <3>1 DEF ReplyDatagram, ConnTypes
  <2> QED BY <2>1, <2>2
<1>5. \A w \in Workers : w \in Threads \ {Udp} /\ (Serves(w)' <=> Serves(w))
  BY <1>1, <1>2 DEF ConnTypes, Serves
<1>6. Connected'
  BY <1>2, <1>3, <1>4, <1>5 DEF ConnInv, Connected
<1>7. ASSUME NEW w \in Workers PROVE InOrder(w)'
  <2>1. Serves(w) => peer[w] \in TcpClients
    BY DEF ConnInv, Connected
  <2>2. InOrder(w)
    BY DEF ConnInv
  <2> QED BY <1>2, <1>4, <1>5, <2>1, <2>2, OthersInOrder
<1> QED BY <1>6, <1>7 DEF ConnInv

(* No connection outlives the process.                                     *)
LEMMA ProcessInOrder ==
    ASSUME ConnInv, CInv', MainReturns \/ Crash \/ Restart
    PROVE  ConnInv'
<1>1. ConnTypes
  BY ConnTyped
<1>2. \A w \in Workers : ~Serves(w)'
  BY <1>1 DEF MainReturns, Crash, Stop, Restart, Idle, Serves, Serving, ConnTypes
<1>3. pc'[Udp] \in {"read", "stopped"}
  BY <1>1 DEF MainReturns, Crash, Stop, Restart, Idle, ConnTypes
<1>4. CASE MainReturns \/ Crash
  <2>1. /\ backlog' = {} /\ oks' = oks
        /\ \A c \in TcpClients : /\ client'[c] \in {"off", "closed"}
                                 /\ client'[c] = "off" => client[c] = "off"
                                 /\ request'[c] = {} /\ answer'[c] = {}
    BY <1>1, <1>4 DEF MainReturns, Crash, Stop, ConnTypes
  <2>2. Connected'
    BY <1>2, <1>3, <2>1 DEF ConnInv, Connected
  <2> QED BY <1>2, <2>2 DEF ConnInv, InOrder
<1>5. CASE Restart
  <2>1. UNCHANGED <<client, backlog, request, answer, oks>>
    BY <1>5 DEF Restart, clients
  <2>2. Connected'
    BY <1>2, <1>3, <2>1 DEF ConnInv, Connected
  <2> QED BY <1>2, <2>2 DEF ConnInv, InOrder
<1> QED BY <1>4, <1>5

(* On a TCP connection the OKs the client has read, or is about to read,   *)
(* are exactly the swaps its session executed.                             *)
THEOREM TcpOksMatchSwapsHolds == Spec => []TcpOksMatchSwaps
<1>1. Init => ConnInv
  <2> SUFFICES ASSUME Init PROVE ConnInv
    OBVIOUS
  <2>1. \A w \in Workers : ~Serves(w)
    BY ThreadsAssumption DEF Init, Idle, Threads, Serves, Serving
  <2>2. /\ pc[Udp] = "read" /\ backlog = {}
        /\ \A c \in TcpClients : oks[c] = 0 /\ answer[c] = {} /\ request[c] = {}
    BY DEF Init, Idle, Threads, Clients
  <2>3. Connected
    BY <2>1, <2>2 DEF Connected
  <2> QED BY <2>1, <2>3, InitChained DEF ConnInv, InOrder
<1>2. ConnInv /\ [Next]_vars => ConnInv'
  <2> SUFFICES ASSUME ConnInv, [Next]_vars PROVE ConnInv'
    OBVIOUS
  <2>1. CInv'
    BY ChainStep DEF ConnInv
  <2>2. CASE UNCHANGED vars \/ Wal
    <3>1. UNCHANGED <<pc, peer, status, session, client, backlog, request, answer, oks, ran>>
      BY <2>2 DEF vars, threads, clients, Wal, OpenFile, FailOpen, RecvRecord, WriteRecord, EndFlush
    <3>2. Connected'
      BY <3>1 DEF ConnInv, Connected, Serves
    <3> QED BY <2>1, <3>1, <3>2, OthersInOrder DEF ConnInv
  <2> QED BY <2>1, <2>2, ClientInOrder, ServeInOrder, AcceptInOrder, ReadInOrder, ReplyInOrder,
             DatagramInOrder, ProcessInOrder DEF Next, Work
<1>3. ConnInv => TcpOksMatchSwaps
  BY DEF ConnInv, InOrder, OksMatch, TcpOksMatchSwaps, Serves, Serving
<1> QED BY <1>1, <1>2, <1>3, PTL DEF Spec

=============================================================================
