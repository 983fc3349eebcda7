----------------------------- MODULE SocketTcp ----------------------------
(* socket-tcp: each message and each reply is a block of bytes on a TCP     *)
(* connection, and the block itself is the token.  send() and recv() may    *)
(* transfer fewer bytes than asked for, so both sides loop until nothing is *)
(* left: socket_tcp_write_data() and socket_tcp_read_data().                *)
(*                                                                          *)
(* The connection is the kernel's: in each direction it holds what was sent *)
(* and not yet received, at most Capacity bytes.  The socket that accept()  *)
(* returns does not inherit O_NONBLOCK, so -N makes only the client's data  *)
(* socket non-blocking.  MSG_WAITALL (-w) gathers what several calls would  *)
(* return and needs no behaviour of its own.                                *)
EXTENDS Integers, Sequences

CONSTANTS
    Size,         \* args->size, of both processes
    Capacity,     \* the bytes the kernel buffers in each direction
    Room,         \* the bytes before the buffer that are in the process's memory
    Counts,       \* the values -c may be given
    MaxRetries    \* bound: how often a call may return EAGAIN in one transfer

ASSUME SizeAssumption == Size \in Nat \ {0} /\ Capacity \in Nat \ {0} /\ Room \in Nat
ASSUME CountsAssumption == Counts \subseteq Int
ASSUME RetriesAssumption == MaxRetries \in Nat

VARIABLES
    pc,           \* what each process is doing
    wire,         \* bytes on their way to each process
    buf,          \* each process's buffer, and the heap before it
    left_size,    \* what the current transfer has still to move
    message,      \* the server's loop variable
    left,         \* the client's args->count, which its loop counts down
    count,        \* -c of each process
    isDebug,      \* -D of each process
    isNonblock    \* -N of each process

vars == <<pc, wire, buf, left_size, message, left, count, isDebug, isNonblock>>
Options == <<count, isDebug, isNonblock>>

Procs == {"server", "client"}
Peer(p) == IF p = "server" THEN "client" ELSE "server"

(* A byte and, as history, the round it was written for.  What malloc()     *)
(* keeps before the buffer, and the buffer before the first transfer, is    *)
(* neither side's.                                                          *)
STC(k) == [byte |-> "0xAA", round |-> k]
CTS(k) == [byte |-> "0x55", round |-> k]
Alien == [byte |-> "other", round |-> 0]
Words == [byte : {"0xAA", "0x55", "other"}, round : Nat]
Index == 0 .. Size - 1
Heap == -Room .. -1
Memory == Heap \cup Index
Uniform(w) == [i \in Index |-> w]
Block(memory) == [i \in Index |-> memory[i]]

(* A process that exits does so before it has a connection, when malloc()   *)
(* fails, or in a transfer, at perror("recv()") or perror("send()").        *)
Labels == {"off", "exited", "listen", "begin", "failed", "read", "write", "evaluate",
           "done", "aborted", "mismatch", "norecv", "nosend"}

Replied == count["client"] - left
Taken == Replied + (IF pc["client"] \in {"write", "nosend", "mismatch"} THEN 1 ELSE 0)
Sent == message + (IF pc["server"] \in {"read", "norecv", "mismatch"} THEN 1 ELSE 0)

Init == /\ pc = [p \in Procs |-> "off"]
        /\ wire = [p \in Procs |-> <<>>]
        /\ buf = [p \in Procs |-> [i \in Memory |-> Alien]]
        /\ left_size = [p \in Procs |-> Size]
        /\ count \in [Procs -> Counts]
        /\ isDebug \in [Procs -> BOOLEAN]
        /\ isNonblock \in [Procs -> BOOLEAN]
        /\ message = 0
        /\ left = count["client"]

Goes(p, to) == pc' = [pc EXCEPT ![p] = to]
Loads(p, w) == buf' = [buf EXCEPT ![p] = [i \in Memory |-> IF i \in Index THEN w ELSE @[i]]]

(* A process that has ended has closed its socket.                          *)
Closed(p) == pc[p] \in {"exited", "failed", "done", "aborted", "mismatch", "norecv", "nosend"}
DataNonblock(p) == p = "client" /\ isNonblock[p]
---------------------------------------------------------------------------
(* The head of the server's loop with its variable at m: the buffer is      *)
(* filled with the next message.                                            *)
ServerLoop(m) ==
    /\ message' = m
    /\ IF m < count["server"]
       THEN Goes("server", "write") /\ Loads("server", STC(m + 1))
       ELSE Goes("server", "evaluate") /\ UNCHANGED buf

(* Mutation: the loop ends with the last round still to be done.            *)
ClientLoopEndsEarly(n) ==
    /\ left' = n
    /\ Goes("client", IF n > 1 THEN "read" ELSE "done")

(* The head of the client's loop with args->count at n.                     *)
ClientLoop(n) ==
    /\ left' = n
    /\ Goes("client", IF n > 0 THEN "read" ELSE "done")

(* Mutation: the client prepares its next round before it has counted this. *)
AfterWriteUncounted(p) ==
    IF p = "server" THEN Goes(p, "read") /\ UNCHANGED <<buf, message, left>>
    ELSE Goes("client", "read") /\ UNCHANGED <<buf, message, left>>

(* What follows a complete write, and a complete read: with -D a block with *)
(* another byte than the peer's ends the process.                           *)
AfterWrite(p) ==
    IF p = "server" THEN Goes(p, "read") /\ UNCHANGED <<buf, message, left>>
    ELSE ClientLoop(left - 1) /\ UNCHANGED <<buf, message>>

Rejects(p, block) ==
    isDebug[p] /\ \E i \in Index : block[i].byte # (IF p = "server" THEN "0x55" ELSE "0xAA")

AfterRead(p, block) ==
    IF Rejects(p, block)
    THEN Goes(p, "mismatch") /\ buf' = [buf EXCEPT ![p] = block] /\ UNCHANGED <<message, left>>
    ELSE IF p = "server" THEN ServerLoop(message + 1) /\ UNCHANGED left
         ELSE Goes(p, "write") /\ Loads(p, CTS(Replied + 1)) /\ UNCHANGED <<message, left>>
---------------------------------------------------------------------------
(* The transfer stands before the buffer when more than Size is left.       *)
InReach(p) == left_size[p] <= Size + Room

(* socket_tcp_write_data(): send() takes n bytes from where it stands.      *)
Send(p) ==
    /\ pc[p] = "write" /\ InReach(p)
    /\ \E n \in 1 .. left_size[p] :
         LET from == Size - left_size[p]
         IN  /\ Len(wire[Peer(p)]) + n <= Capacity
             /\ wire' = [wire EXCEPT ![Peer(p)] = @ \o [i \in 1 .. n |-> buf[p][from + i - 1]]]
             /\ IF n = left_size[p]
                THEN left_size' = [left_size EXCEPT ![p] = Size] /\ AfterWrite(p)
                ELSE /\ left_size' = [left_size EXCEPT ![p] = @ - n]
                     /\ UNCHANGED <<pc, buf, message, left>>
    /\ UNCHANGED Options

(* Mutation: every call of recv() writes from the start of the buffer.      *)
ReceivedAtStart(p, n) ==
    [i \in Memory |-> IF i \in 0 .. n - 1 THEN wire[p][i + 1] ELSE buf[p][i]]

(* socket_tcp_read_data(): recv() puts n bytes where the transfer stands.   *)
Received(p, n) ==
    LET to == Size - left_size[p]
    IN  [i \in Memory |-> IF i - to \in 0 .. n - 1 THEN wire[p][i - to + 1] ELSE buf[p][i]]

(* Mutation: one call of recv() is taken for the whole transfer.            *)
ReceiveOnce(p) ==
    /\ pc[p] = "read" /\ InReach(p)
    /\ \E n \in 1 .. left_size[p] :
         /\ n <= Len(wire[p])
         /\ wire' = [wire EXCEPT ![p] = SubSeq(@, n + 1, Len(@))]
         /\ left_size' = [left_size EXCEPT ![p] = Size]
         /\ AfterRead(p, Received(p, n))
    /\ UNCHANGED Options

Receive(p) ==
    /\ pc[p] = "read" /\ InReach(p)
    /\ \E n \in 1 .. left_size[p] :
         /\ n <= Len(wire[p])
         /\ wire' = [wire EXCEPT ![p] = SubSeq(@, n + 1, Len(@))]
         /\ IF n = left_size[p]
            THEN left_size' = [left_size EXCEPT ![p] = Size] /\ AfterRead(p, Received(p, n))
            ELSE /\ left_size' = [left_size EXCEPT ![p] = @ - n]
                 /\ buf' = [buf EXCEPT ![p] = Received(p, n)]
                 /\ UNCHANGED <<pc, message, left>>
    /\ UNCHANGED Options

(* EAGAIN: the call returned -1, and -1 is subtracted from what is left.    *)
Again(p) ==
    /\ DataNonblock(p)
    /\ \/ pc[p] = "read" /\ wire[p] = <<>> /\ ~Closed(Peer(p))
       \/ pc[p] = "write" /\ Len(wire[Peer(p)]) = Capacity
    /\ left_size[p] < Size + MaxRetries
    /\ left_size' = [left_size EXCEPT ![p] = @ + 1]
    /\ UNCHANGED <<pc, wire, buf, message, left>> /\ UNCHANGED Options

(* A call that has bytes to move fails with EFAULT, neither EAGAIN nor      *)
(* EINTR, when it would move them beyond the memory before the buffer.      *)
Faults(p) ==
    /\ ~InReach(p)
    /\ \/ pc[p] = "write" /\ Len(wire[Peer(p)]) < Capacity /\ Goes(p, "nosend")
       \/ pc[p] = "read" /\ wire[p] # <<>> /\ Goes(p, "norecv")
    /\ UNCHANGED <<wire, buf, left_size, message, left>> /\ UNCHANGED Options

(* A peer that closed its socket with bytes unread, or is sent some after   *)
(* that, resets the connection, and the next call fails.  So does a server  *)
(* that exits before it has accepted it.  At the end of any other stream    *)
(* recv() returns 0, which gets the loop nowhere.                           *)
Reset(p) ==
    /\ Closed(Peer(p)) /\ (wire[Peer(p)] # <<>> \/ pc[Peer(p)] = "exited")
    /\ \/ pc[p] = "write" /\ Goes(p, "nosend")
       \/ pc[p] = "read" /\ Goes(p, "norecv")
    /\ UNCHANGED <<wire, buf, left_size, message, left>> /\ UNCHANGED Options
---------------------------------------------------------------------------
ServerLaunch ==
    /\ pc["server"] = "off"
    /\ Goes("server", "listen")
    /\ UNCHANGED <<wire, buf, left_size, message, left>> /\ UNCHANGED Options

(* The server accepts a connection that the client has made.                *)
ServerAccepts ==
    /\ pc["server"] = "listen" /\ pc["client"] \notin {"off", "exited"}
    /\ Goes("server", "begin")
    /\ UNCHANGED <<wire, buf, left_size, message, left>> /\ UNCHANGED Options

ServerBegins ==
    /\ pc["server"] = "begin"
    /\ ServerLoop(0)
    /\ UNCHANGED <<wire, left_size, left>> /\ UNCHANGED Options

ServerEvaluates ==
    /\ pc["server"] = "evaluate"
    /\ Goes("server", IF count["server"] > 0 THEN "done" ELSE "aborted")
    /\ UNCHANGED <<wire, buf, left_size, message, left>> /\ UNCHANGED Options

(* connect() succeeds as soon as the server listens; before that it is      *)
(* refused, and the client exits.                                           *)
ClientConnects ==
    /\ pc["client"] = "off" /\ pc["server"] = "listen"
    /\ Goes("client", "begin")
    /\ UNCHANGED <<wire, buf, left_size, message, left>> /\ UNCHANGED Options

ClientBegins ==
    /\ pc["client"] = "begin"
    /\ ClientLoop(count["client"])
    /\ UNCHANGED <<wire, buf, left_size, message>> /\ UNCHANGED Options

(* A call that sets up the socket, accept() among them, fails; or malloc()  *)
(* does, when the connection has been made.                                 *)
Fails(p) ==
    /\ \/ pc[p] \in {"off", "listen"} /\ Goes(p, "exited")
       \/ pc[p] = "begin" /\ Goes(p, "failed")
    /\ UNCHANGED <<wire, buf, left_size, message, left>> /\ UNCHANGED Options

Transfer(p) == Send(p) \/ Receive(p) \/ Again(p) \/ Faults(p) \/ Reset(p)
ServerStep == ServerAccepts \/ ServerBegins \/ ServerEvaluates \/ Transfer("server")
ClientStep == ClientBegins \/ Transfer("client")

Next == ServerLaunch \/ ServerStep \/ ClientConnects \/ ClientStep \/ \E p \in Procs : Fails(p)

(* The processes run, and the kernel delivers; users need not start them.   *)
Spec == /\ Init /\ [][Next]_vars
        /\ WF_vars(ServerStep)
        /\ WF_vars(ClientStep)
---------------------------------------------------------------------------
TypeOK ==
    /\ pc \in [Procs -> Labels]
    /\ wire \in [Procs -> Seq(Words)] /\ \A p \in Procs : Len(wire[p]) <= Capacity
    /\ buf \in [Procs -> [Memory -> Words]]
    /\ left_size \in [Procs -> 1 .. Size + MaxRetries]
    /\ message \in Nat /\ left \in Int /\ left <= count["client"]
    /\ count \in [Procs -> Counts]
    /\ isDebug \in [Procs -> BOOLEAN] /\ isNonblock \in [Procs -> BOOLEAN]

(* The connection is used in one direction at a time, and what is on it is  *)
(* never more than the rest of the one block that is being transferred.     *)
OneBlock ==
    ~isNonblock["client"]
      => /\ wire["server"] = <<>> \/ wire["client"] = <<>>
         /\ \A p \in Procs : ~Closed(p) /\ pc[p] = "read" => Len(wire[p]) <= left_size[p]

(* A transfer that ends has brought one whole block, the one its round is   *)
(* due, however the kernel cut it up: no byte is skipped, received twice or *)
(* taken for a byte of another block.                                       *)
Due(p) == IF p = "server" THEN CTS(message + 1) ELSE STC(Replied + 1)
WholeBlocks ==
    [][\A p \in Procs :
         ~isNonblock["client"] /\ pc[p] = "read" /\ pc'[p] \notin {"read", "norecv"}
           => Block(Received(p, left_size[p])) = Uniform(Due(p))]_vars

(* Two processes that got as far as their loops, none of the sockets being  *)
(* non-blocking: with enough rounds on the client's side the server         *)
(* finishes, and a client with no more rounds than the server finishes too. *)
Connected == pc["server"] \notin {"off", "exited", "listen", "begin", "failed"}
BothBegan == Connected /\ pc["client"] \notin {"begin", "failed"}
BothFinish ==
    /\ (BothBegan /\ ~isNonblock["client"] /\ 0 < count["server"] /\ count["server"] <= count["client"])
           ~> (pc["server"] = "done")
    /\ (BothBegan /\ ~isNonblock["client"] /\ count["client"] <= count["server"])
           ~> (pc["client"] = "done")

(* With -N, one EAGAIN in a read is enough: the transfer wants more bytes   *)
(* than the block has.  From then on, and from when the client has written  *)
(* to the heap before its buffer, the round is lost: the client reads for   *)
(* ever, or until a call fails, the server is not done with its rounds, and *)
(* free() never sees what has become of the heap.                           *)
Overdrawn ==
    /\ pc["client"] = "read" /\ Connected /\ Replied = message /\ message < count["server"]
    /\ left_size["client"] > Len(wire["client"])
                              + (IF pc["server"] = "write" THEN left_size["server"] ELSE 0)
Overrun == \E i \in Heap : buf["client"][i] # Alien
RoundLost ==
    /\ pc["client"] \in {"read", "norecv"}
    /\ Replied = message /\ message < count["server"]
OverdrawnForGood == [](Overdrawn \/ Overrun => []RoundLost)

(* What -N promises: the benchmark runs, in non-blocking mode, to its end.  *)
NonblockFinishes ==
    (BothBegan /\ 0 < count["server"] /\ count["server"] = count["client"])
        ~> (pc["server"] = "done")

(* Blocks alone, without a word for the turn, implement the alternation, as *)
(* long as no call returns EAGAIN: a retried write sends a byte too many.   *)
P == INSTANCE PingPong WITH
        skew <- IF Connected THEN 0 ELSE -1,
        sent <- Sent, taken <- Taken, replied <- Replied, got <- message
PingPongSpec == P!Init /\ [][isNonblock["client"] \/ P!Next]_(P!vars)
===========================================================================
