----------------------------- MODULE SocketUdp ----------------------------
(* socket-udp: each message and each reply is one datagram, and so is the   *)
(* client's greeting, by which the server learns where to send.  Datagrams  *)
(* may be lost, duplicated and overtaken, nothing is ever sent again, and   *)
(* a datagram carries no number: socket_udp_read_data() only counts bytes.  *)
(*                                                                          *)
(* A send buffer has room for the one datagram that a process sends before  *)
(* it waits, so sendto() neither blocks nor returns EAGAIN.  MSG_WAITALL    *)
(* (-w) means nothing for datagrams.                                        *)
EXTENDS Integers, Sequences, SequencesExt

CONSTANTS
    Size,           \* args->size, of both processes
    Room,           \* the bytes before the buffer that are in the process's memory
    Counts,         \* the values -c may be given
    MaxRetries,     \* bound: how often recvfrom() may return EAGAIN in one transfer
    MaxLost,        \* bound: datagrams the network loses
    MaxDuplicated   \* bound: datagrams of each kind it duplicates

ASSUME SizeAssumption == Size \in Nat \ {0} /\ Room \in Nat
ASSUME CountsAssumption == Counts \subseteq Int
ASSUME BoundsAssumption == {MaxRetries, MaxLost, MaxDuplicated} \subseteq Nat

VARIABLES
    pc,           \* what each process is doing
    net,          \* the datagrams on their way to each process
    buf,          \* each process's buffer, and what is in memory before it; of
                  \* the server's, the first byte is also handshake_msg, which
                  \* is read before the buffer is, and has the stack before it
    left_size,    \* what the current read has still to bring
    message,      \* the server's loop variable
    left,         \* the client's args->count, which its loop counts down
    count,        \* -c of each process
    isDebug,      \* -D of each process
    isNonblock,   \* -N of each process
    lost,         \* history: datagrams lost
    duplicated    \* history: datagrams duplicated, by the byte they hold

vars == <<pc, net, buf, left_size, message, left, count, isDebug, isNonblock, lost, duplicated>>
Options == <<count, isDebug, isNonblock>>
History == <<lost, duplicated>>
Local == <<buf, left_size, message, left>>

Procs == {"server", "client"}
Peer(p) == IF p = "server" THEN "client" ELSE "server"

(* A byte with, as history, the round it was written for; a datagram is one *)
(* byte or Size bytes of a kind.                                            *)
STC(k) == [byte |-> "0xAA", round |-> k]
CTS(k) == [byte |-> "0x55", round |-> k]
Hello == [byte |-> "s", round |-> 0]
Unset == [byte |-> "other", round |-> 0]
Kinds == {"0xAA", "0x55", "s"}
Words == [byte : Kinds \cup {"other"}, round : Nat]
Datagrams == [word : Words, len : {1, Size}]
Index == 0 .. Size - 1
Below == -Room .. -1
Memory == Below \cup Index
Uniform(w) == [i \in Index |-> w]
Block(memory) == [i \in Index |-> memory[i]]

(* A process that exits does so before its loop, when -D or the handshake   *)
(* rejects what has come, or in the loop at perror("recvfrom()").           *)
Ended == {"exited", "done", "aborted", "mismatch", "unshaken", "norecv"}
Labels == Ended \cup {"off", "greet", "hello", "read", "write", "evaluate"}

Replied == count["client"] - left
Taken == Replied + (IF pc["client"] \in {"write", "mismatch"} THEN 1 ELSE 0)
Sent == message + (IF pc["server"] \in {"read", "norecv", "mismatch"} THEN 1 ELSE 0)

Init == /\ pc = [p \in Procs |-> "off"]
        /\ net = [p \in Procs |-> <<>>]
        /\ buf = [p \in Procs |-> [i \in Memory |-> Unset]]
        /\ left_size = [p \in Procs |-> Size]
        /\ count \in [Procs -> Counts]
        /\ isDebug \in [Procs -> BOOLEAN]
        /\ isNonblock \in [Procs -> BOOLEAN]
        /\ message = 0
        /\ left = count["client"]
        /\ lost = 0
        /\ duplicated = [k \in Kinds |-> 0]

Goes(p, to) == pc' = [pc EXCEPT ![p] = to]
Loads(p, w) == buf' = [buf EXCEPT ![p] = [i \in Memory |-> IF i \in Index THEN w ELSE @[i]]]

(* What is sent to a port that nobody has bound is gone.                    *)
Sends(p, w, n) ==
    net' = IF pc[Peer(p)] \in {"off"} \cup Ended THEN net
           ELSE [net EXCEPT ![Peer(p)] = Append(@, [word |-> w, len |-> n])]
---------------------------------------------------------------------------
(* The head of the server's loop with its variable at m.                    *)
ServerLoop(m) ==
    /\ message' = m
    /\ IF m < count["server"]
       THEN Goes("server", "write") /\ Loads("server", STC(m + 1))
       ELSE Goes("server", "evaluate") /\ UNCHANGED buf

(* Mutation: the loop ends with the last round still to be done.            *)
ClientLoopEndsEarly(n) ==
    /\ left' = n
    /\ Goes("client", IF n > 1 THEN "read" ELSE "done")

(* A read has overwritten what is before the buffer: what malloc() keeps    *)
(* there, so that free() may abort, or what the stack does.                 *)
Overrun(p) == \E i \in Below : buf[p][i] # Unset

(* The head of the client's loop with args->count at n.                     *)
ClientLoop(n) ==
    /\ left' = n
    /\ \/ Goes("client", IF n > 0 THEN "read" ELSE "done")
       \/ n <= 0 /\ Overrun("client") /\ Goes("client", "aborted")

Rejects(p, block) ==
    isDebug[p] /\ \E i \in Index : block[i].byte # (IF p = "server" THEN "0x55" ELSE "0xAA")

(* What follows a complete read that has left block in the buffer.          *)
AfterRead(p, block) ==
    IF pc[p] = "hello"
    THEN IF block[0].byte = "s"
         THEN ServerLoop(0) /\ UNCHANGED left
         ELSE Goes(p, "unshaken") /\ UNCHANGED <<buf, message, left>>
    ELSE IF Rejects(p, block)
    THEN Goes(p, "mismatch") /\ buf' = [buf EXCEPT ![p] = block] /\ UNCHANGED <<message, left>>
    ELSE IF p = "server"
    THEN ServerLoop(message + 1) /\ UNCHANGED left
    ELSE Goes(p, "write") /\ Loads(p, CTS(Replied + 1)) /\ UNCHANGED <<message, left>>

(* socket_udp_read_data(): one call takes one datagram, in the order the    *)
(* network brings them, and drops what is too long for it.                  *)
Reading == {"hello", "read"}
Wanted(p) == IF pc[p] = "hello" THEN 1 ELSE Size
Got(p, d) == IF d.len < left_size[p] THEN d.len ELSE left_size[p]
Received(p, d) ==
    LET to == Wanted(p) - left_size[p]
    IN  [i \in Memory |-> IF i - to \in 0 .. Got(p, d) - 1 THEN d.word ELSE buf[p][i]]

(* The transfer stands before the buffer when more is left than was asked.  *)
InReach(p) == left_size[p] <= Wanted(p) + Room

(* Mutation: one call of recvfrom() is taken for the whole transfer.        *)
ReceiveOnce(p) ==
    /\ pc[p] \in Reading /\ InReach(p)
    /\ \E i \in DOMAIN net[p] :
         LET d == net[p][i]
         IN  /\ net' = [net EXCEPT ![p] = RemoveAt(@, i)]
             /\ left_size' = [left_size EXCEPT ![p] = Size]
             /\ AfterRead(p, Received(p, d))
    /\ UNCHANGED Options /\ UNCHANGED History

(* Mutation: a read gives up when nothing comes.                            *)
ReceiveTimesOut(p) ==
    /\ pc[p] \in Reading /\ net[p] = <<>>
    /\ Goes(p, "exited")
    /\ UNCHANGED net /\ UNCHANGED Local /\ UNCHANGED Options /\ UNCHANGED History

Receive(p) ==
    /\ pc[p] \in Reading /\ InReach(p)
    /\ \E i \in DOMAIN net[p] :
         LET d == net[p][i]
         IN  /\ net' = [net EXCEPT ![p] = RemoveAt(@, i)]
             /\ IF Got(p, d) = left_size[p]
                THEN left_size' = [left_size EXCEPT ![p] = Size] /\ AfterRead(p, Received(p, d))
                ELSE /\ left_size' = [left_size EXCEPT ![p] = @ - Got(p, d)]
                     /\ buf' = [buf EXCEPT ![p] = Received(p, d)]
                     /\ UNCHANGED <<pc, message, left>>
    /\ UNCHANGED Options /\ UNCHANGED History

(* A datagram that would be put beyond the memory before the buffer is      *)
(* gone, and the call fails with EFAULT, neither EAGAIN nor EINTR.  One     *)
(* that lands on the stack, before handshake_msg, may end the process too.  *)
Faults(p) ==
    /\ pc[p] \in Reading
    /\ ~InReach(p) \/ (pc[p] = "hello" /\ left_size[p] > Wanted(p))
    /\ \E i \in DOMAIN net[p] : net' = [net EXCEPT ![p] = RemoveAt(@, i)]
    /\ Goes(p, IF pc[p] = "hello" THEN "exited" ELSE "norecv")
    /\ UNCHANGED Local /\ UNCHANGED Options /\ UNCHANGED History

(* EAGAIN: the call returned -1, and -1 is subtracted from what is left.    *)
Again(p) ==
    /\ isNonblock[p] /\ pc[p] \in Reading /\ net[p] = <<>>
    /\ left_size[p] < Wanted(p) + MaxRetries
    /\ left_size' = [left_size EXCEPT ![p] = @ + 1]
    /\ UNCHANGED <<pc, net, buf, message, left>> /\ UNCHANGED Options /\ UNCHANGED History

(* Mutation: the client counts its rounds upwards.                          *)
SendCountsUp(p) ==
    /\ pc[p] = "write"
    /\ Sends(p, buf[p][0], Size)
    /\ IF p = "server" THEN Goes(p, "read") /\ UNCHANGED left ELSE ClientLoop(left + 1)
    /\ UNCHANGED <<buf, left_size, message>> /\ UNCHANGED Options /\ UNCHANGED History

(* socket_udp_write_data() of a block.                                      *)
Send(p) ==
    /\ pc[p] = "write"
    /\ Sends(p, buf[p][0], Size)
    /\ IF p = "server" THEN Goes(p, "read") /\ UNCHANGED left ELSE ClientLoop(left - 1)
    /\ UNCHANGED <<buf, left_size, message>> /\ UNCHANGED Options /\ UNCHANGED History
---------------------------------------------------------------------------
(* Mutation: the server does not wait for the greeting.                     *)
ServerLaunchUnshaken ==
    /\ pc["server"] = "off"
    /\ ServerLoop(0)
    /\ UNCHANGED <<net, left_size, left>> /\ UNCHANGED Options /\ UNCHANGED History

(* The server binds its port and waits for a greeting.                      *)
ServerLaunch ==
    /\ pc["server"] = "off"
    /\ Goes("server", "hello")
    /\ left_size' = [left_size EXCEPT !["server"] = 1]
    /\ UNCHANGED <<net, buf, message, left>> /\ UNCHANGED Options /\ UNCHANGED History

(* evaluate() asserts that there was a message at all; then comes free().   *)
ServerEvaluates ==
    /\ pc["server"] = "evaluate"
    /\ \/ Goes("server", IF count["server"] > 0 THEN "done" ELSE "aborted")
       \/ Overrun("server") /\ Goes("server", "aborted")
    /\ UNCHANGED net /\ UNCHANGED Local /\ UNCHANGED Options /\ UNCHANGED History

ClientLaunch ==
    /\ pc["client"] = "off"
    /\ Goes("client", "greet")
    /\ UNCHANGED net /\ UNCHANGED Local /\ UNCHANGED Options /\ UNCHANGED History

(* Mutation: the client greets twice, to be safe.                           *)
ClientGreetsTwice ==
    /\ pc["client"] = "greet"
    /\ net' = IF pc["server"] # "hello" THEN net
              ELSE [net EXCEPT !["server"] = [i \in 1 .. 2 |-> [word |-> Hello, len |-> 1]]]
    /\ ClientLoop(count["client"])
    /\ UNCHANGED <<buf, left_size, message>> /\ UNCHANGED Options /\ UNCHANGED History

ClientGreets ==
    /\ pc["client"] = "greet"
    /\ Sends("client", Hello, 1)
    /\ ClientLoop(count["client"])
    /\ UNCHANGED <<buf, left_size, message>> /\ UNCHANGED Options /\ UNCHANGED History

Fails(p) ==
    /\ pc[p] = "off"
    /\ Goes(p, "exited")
    /\ UNCHANGED net /\ UNCHANGED Local /\ UNCHANGED Options /\ UNCHANGED History

Transfer(p) == Send(p) \/ Receive(p) \/ Faults(p) \/ Again(p)
ServerStep == ServerEvaluates \/ Transfer("server")
ClientStep == ClientGreets \/ Transfer("client")

(* The network.                                                             *)
Lose(p) ==
    /\ lost < MaxLost
    /\ \E i \in DOMAIN net[p] : net' = [net EXCEPT ![p] = RemoveAt(@, i)]
    /\ lost' = lost + 1
    /\ UNCHANGED <<pc, duplicated>> /\ UNCHANGED Local /\ UNCHANGED Options

Duplicate(p) ==
    /\ \E i \in DOMAIN net[p] :
         LET k == net[p][i].word.byte
         IN  /\ duplicated[k] < MaxDuplicated
             /\ duplicated' = [duplicated EXCEPT ![k] = @ + 1]
             /\ net' = [net EXCEPT ![p] = Append(@, @[i])]
    /\ UNCHANGED <<pc, lost>> /\ UNCHANGED Local /\ UNCHANGED Options

Next == \/ ServerLaunch \/ ServerStep \/ ClientLaunch \/ ClientStep
        \/ \E p \in Procs : Fails(p) \/ Lose(p) \/ Duplicate(p)

(* The processes run; users need not start them.                            *)
Spec == /\ Init /\ [][Next]_vars
        /\ WF_vars(ServerStep)
        /\ WF_vars(ClientStep)
---------------------------------------------------------------------------
TypeOK ==
    /\ pc \in [Procs -> Labels]
    /\ net \in [Procs -> Seq(Datagrams)]
    /\ buf \in [Procs -> [Memory -> Words]]
    /\ left_size \in [Procs -> 1 .. Size + MaxRetries]
    /\ message \in Nat /\ left \in Int /\ left <= count["client"]
    /\ count \in [Procs -> Counts]
    /\ isDebug \in [Procs -> BOOLEAN] /\ isNonblock \in [Procs -> BOOLEAN]
    /\ lost \in 0 .. MaxLost /\ duplicated \in [Kinds -> 0 .. MaxDuplicated]

(* Bytes are counted, so no loop is completed with fewer bytes than were    *)
(* sent to it: the client is ahead of the messages by the duplicates of     *)
(* messages only, and the server ahead of the replies by the duplicates of  *)
(* replies and what duplicated greetings are worth.                         *)
LeadBounded ==
    /\ Taken <= Sent + duplicated["0xAA"]
    /\ message * Size <= (Replied + duplicated["0x55"]) * Size + duplicated["s"]

(* A process rejects nothing unless a greeting came twice: then the server  *)
(* may have taken the second one for the first byte of a reply.  What else  *)
(* the network does goes unnoticed, with -D too.                            *)
RejectionsNeedGreetings ==
    /\ pc["client"] # "mismatch" /\ pc["server"] # "unshaken"
    /\ pc["server"] = "mismatch" => duplicated["s"] > 0

(* Once both processes wait and nothing is on its way, they wait for ever.  *)
Stalled == \A p \in Procs : pc[p] \in Reading /\ net[p] = <<>>
StalledForGood == [](Stalled => []Stalled)

(* A client that greets before the server has bound its port is not heard,  *)
(* and neither side ever gets through a round.                              *)
ClientFirstStalls ==
    [](pc["server"] = "off" /\ pc["client"] = "read" => [](message = 0 /\ Replied = 0 /\ Taken = 0))

(* What a read brings is the whole block its round is due.                  *)
Due(p) == IF p = "server" THEN CTS(message + 1) ELSE STC(Replied + 1)
WholeBlocks ==
    [][\A p \in Procs : pc[p] = "read" /\ pc'[p] \notin {"read", "norecv"} =>
         \E i \in DOMAIN net[p] : Block(Received(p, net[p][i])) = Uniform(Due(p))]_vars

(* Once the greeting is heard, and with enough rounds on the other side, a  *)
(* process finishes, if no read meets EAGAIN.                               *)
Greeted == pc["server"] \notin {"off", "exited", "hello"}
Blocking == \A p \in Procs : ~isNonblock[p]
BothFinish ==
    /\ (Blocking /\ Greeted /\ 0 < count["server"] /\ count["server"] <= count["client"])
           ~> (pc["server"] = "done")
    /\ (Blocking /\ Greeted /\ count["client"] <= count["server"]) ~> (pc["client"] = "done")

(* With -N, a process whose read has met EAGAIN once never gets through it: *)
(* it reads for ever, unless the call fails.                                *)
RetryStalls ==
    \A p \in Procs :
        [](pc[p] \in Reading /\ left_size[p] > Wanted(p)
             => [](pc[p] \in Reading \cup {"exited", "norecv"}))

(* On a network that neither loses nor duplicates, single datagrams without *)
(* a number implement the alternation.                                      *)
P == INSTANCE PingPong WITH
        skew <- IF Greeted THEN 0 ELSE -1,
        sent <- Sent, taken <- Taken, replied <- Replied, got <- message
PingPongSpec == P!Spec
===========================================================================
