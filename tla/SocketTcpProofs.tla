-------------------------- MODULE SocketTcpProofs -------------------------
(* What SocketTcp.tla's runs show on small blocks, for blocks and kernel    *)
(* buffers of any size, every -c and any number of retries, and what the    *)
(* exchange that they implement promises.                                   *)
EXTENDS SocketTcp, SequenceTheorems, TLAPS

(* What a process writes, and what the other one is due to read.            *)
Own(p) == IF p = "server" THEN STC(message + 1) ELSE CTS(Replied + 1)
Blocking == ~isNonblock["client"]

(* How much is on its way to a process.                                     *)
OnWire(p) == Len(wire[p])

(* Before the server is in its loop, nothing has been sent, nor before the  *)
(* client is in its own has anything been answered.                         *)
StartInv ==
    /\ pc["server"] = "off" => pc["client"] \in {"off", "exited"}
    /\ pc["client"] \in {"off", "exited"} => pc["server"] \in {"off", "exited", "listen"}
    /\ pc["client"] \in {"off", "begin", "failed"} => Replied = 0 /\ left_size["client"] = Size
    /\ pc["client"] \notin {"listen", "evaluate", "aborted"}
    /\ ~Connected => /\ message = 0 /\ Replied = 0
                     /\ pc["client"] \notin {"write", "mismatch", "nosend"}
                     /\ pc["client"] = "norecv" => pc["server"] = "exited"
                     /\ OnWire("server") = 0 /\ OnWire("client") = 0
                     /\ left_size["server"] = Size

(* Without EAGAIN one block is on its way, and what its reader still wants  *)
(* is what is on the connection and what its writer has left.               *)
Sending == /\ Replied = message /\ pc["client"] \in {"begin", "failed", "read", "done"}
           /\ OnWire("server") = 0
           /\ left_size["client"] = left_size["server"] + OnWire("client")
Passed == /\ Replied = message /\ pc["client"] \in {"begin", "failed", "read", "done"}
         /\ OnWire("server") = 0 /\ left_size["server"] = Size
         /\ left_size["client"] = OnWire("client")
Replying == /\ Replied = message /\ pc["client"] = "write"
            /\ OnWire("client") = 0
            /\ left_size["server"] = left_size["client"] + OnWire("server")
Answered == /\ Replied = message + 1 /\ pc["client"] \in {"read", "done"}
            /\ OnWire("client") = 0 /\ left_size["client"] = Size
            /\ left_size["server"] = OnWire("server")
Over == /\ Replied = message /\ pc["client"] \in {"begin", "failed", "read", "done"}
        /\ OnWire("server") = 0 /\ OnWire("client") = 0 /\ left_size["client"] = Size
TurnInv ==
    Blocking =>
        /\ \A p \in Procs : left_size[p] <= Size
        /\ pc["server"] # "mismatch" /\ pc["client"] \notin {"mismatch", "nosend"}
        /\ pc["client"] = "norecv" => ~Connected
        /\ ~Connected => left_size["client"] = Size
        /\ pc["server"] = "write" => Sending
        /\ pc["server"] = "read" => Passed \/ Replying \/ Answered
        /\ pc["server"] \in {"evaluate", "done", "aborted"} => Over
        /\ pc["server"] \in {"norecv", "nosend"}
             => pc["client"] \in {"failed", "done"} /\ OnWire("server") = 0

BlockInv ==
    Blocking => \A p \in Procs :
        /\ pc[p] = "write" => \A i \in Index : buf[p][i] = Own(p)
        /\ \A j \in 1 .. OnWire(p) : wire[p][j] = Due(p)
        /\ pc[p] = "read" => \A i \in Index : i < Size - left_size[p] => buf[p][i] = Due(p)

IInv == TypeOK /\ StartInv /\ TurnInv /\ BlockInv
---------------------------------------------------------------------------
(* What send() does to a stream, and recv().                                *)
LEMMA Appended ==
  ASSUME NEW s \in Seq(Words), NEW n \in Nat, NEW f \in [1 .. n -> Words]
  PROVE  /\ s \o f \in Seq(Words)
         /\ Len(s \o f) = Len(s) + n
         /\ \A j \in 1 .. Len(s \o f) :
              (s \o f)[j] = IF j <= Len(s) THEN s[j] ELSE f[j - Len(s)]
<1>1. f \in Seq(Words) /\ Len(f) = n
  BY SeqDef
<1> QED BY <1>1, ConcatProperties

LEMMA Removed ==
  ASSUME NEW s \in Seq(Words), NEW n \in 1 .. Len(s)
  PROVE  /\ SubSeq(s, n + 1, Len(s)) \in Seq(Words)
         /\ Len(SubSeq(s, n + 1, Len(s))) = Len(s) - n
         /\ \A j \in 1 .. Len(s) - n : SubSeq(s, n + 1, Len(s))[j] = s[n + j]
<1>1. Len(s) \in Nat /\ \A i \in n + 1 .. Len(s) : s[i] \in Words
  BY LenProperties, ElementOfSeq
<1>2. n + 1 \in Int /\ Len(s) \in Int
  BY <1>1
<1>3. /\ SubSeq(s, n + 1, Len(s)) \in Seq(Words)
      /\ Len(SubSeq(s, n + 1, Len(s))) = IF n + 1 <= Len(s) THEN Len(s) - (n + 1) + 1 ELSE 0
      /\ \A i \in 1 .. Len(s) - (n + 1) + 1 : SubSeq(s, n + 1, Len(s))[i] = s[n + 1 + i - 1]
  BY <1>1, <1>2, SubSeqProperties
<1> QED BY <1>1, <1>3

LEMMA Numbers ==
  ASSUME TypeOK
  PROVE  /\ Size \in Nat \ {0} /\ Capacity \in Nat \ {0} /\ MaxRetries \in Nat
         /\ "server" \in Procs /\ "client" \in Procs
         /\ message \in Nat /\ left \in Int
         /\ \A p \in Procs : count[p] \in Int /\ left_size[p] \in Nat \ {0} /\ OnWire(p) \in Nat
         /\ \A p \in Procs : wire[p] = <<>> <=> OnWire(p) = 0
         /\ Replied \in Nat
<1>1. \A p \in Procs : OnWire(p) \in Nat /\ (wire[p] = <<>> <=> OnWire(p) = 0)
  BY LenProperties, EmptySeq DEF TypeOK, OnWire
<1>2. \A p \in Procs : count[p] \in Int
  BY CountsAssumption DEF TypeOK
<1>3. "server" \in Procs /\ "client" \in Procs
  BY DEF Procs
<1>4. \A p \in Procs : left_size[p] \in Nat \ {0}
  BY SizeAssumption, RetriesAssumption DEF TypeOK
<1> QED BY <1>1, <1>2, <1>3, <1>4, SizeAssumption, RetriesAssumption DEF TypeOK, Replied

(* The words that are written are words.                                    *)
LEMMA WordTypes ==
  ASSUME TypeOK
  PROVE  /\ Alien \in Words
         /\ \A p \in Procs : Own(p) \in Words /\ Due(p) \in Words
<1>1. Alien \in Words
  BY DEF Alien, Words
<1>2. \A k \in Nat : STC(k) \in Words /\ CTS(k) \in Words
  BY DEF STC, CTS, Words
<1> QED BY <1>1, <1>2, Numbers DEF Own, Due

(* What a process writes to its buffer leaves the heap before it alone.     *)
LEMMA Fills ==
  ASSUME TypeOK, NEW p \in Procs, NEW w \in Words, Loads(p, w)
  PROVE  /\ buf' \in [Procs -> [Memory -> Words]] /\ buf'[Peer(p)] = buf[Peer(p)]
         /\ \A i \in Index : buf'[p][i] = w
         /\ \A i \in Heap : buf'[p][i] = buf[p][i]
<1>1. buf' = [buf EXCEPT ![p] = [i \in Memory |-> IF i \in Index THEN w ELSE buf[p][i]]]
  BY DEF Loads, TypeOK
<1>2. \A i \in Heap : i \in Memory /\ i \notin Index
  BY SizeAssumption DEF Heap, Memory, Index
<1>3. buf \in [Procs -> [Memory -> Words]] /\ Peer(p) # p /\ Peer(p) \in Procs
  BY DEF TypeOK, Peer, Procs
<1>4. [i \in Memory |-> IF i \in Index THEN w ELSE buf[p][i]] \in [Memory -> Words]
  BY <1>3
<1> QED BY <1>1, <1>2, <1>3, <1>4 DEF Memory

LEMMA InitInv == Init => IInv
<1> SUFFICES ASSUME Init PROVE IInv
  OBVIOUS
<1>1. TypeOK
  <2>1. Alien \in Words
    BY DEF Alien, Words
  <2>2. <<>> \in Seq(Words) /\ Len(<<>>) = 0
    BY EmptySeq
  <2>3. left = count["client"] /\ left \in Int
    BY CountsAssumption DEF Init, Procs
  <2> QED BY <2>1, <2>2, <2>3, SizeAssumption, RetriesAssumption
          DEF Init, TypeOK, Labels
<1>2. \A p \in Procs : OnWire(p) = 0
  BY EmptySeq DEF Init, OnWire
<1>3. Replied = 0
  BY CountsAssumption DEF Init, Replied, Procs
<1>4. StartInv /\ TurnInv
  BY <1>2, <1>3, SizeAssumption DEF Init, StartInv, TurnInv, Connected, Procs, Labels
<1>5. BlockInv
  BY <1>2, SizeAssumption DEF Init, BlockInv, Procs, Index
<1> QED BY <1>1, <1>4, <1>5 DEF IInv

(* What a call of send() does, and a call of recv(), besides what follows a *)
(* transfer that it completes.                                              *)
Moved(p, n) == IF n = left_size[p] THEN Size ELSE left_size[p] - n

LEMMA Moves ==
  ASSUME TypeOK, NEW p \in Procs, NEW n \in 1 .. left_size[p],
         left_size' = [left_size EXCEPT ![p] = Moved(p, n)]
  PROVE  /\ left_size' \in [Procs -> 1 .. Size + MaxRetries]
         /\ left_size'[p] = Moved(p, n) /\ left_size'[Peer(p)] = left_size[Peer(p)]
<1>1. Moved(p, n) \in 1 .. Size + MaxRetries
  <2>1. left_size[p] \in 1 .. Size + MaxRetries
    BY DEF TypeOK
  <2> QED BY <2>1, SizeAssumption, RetriesAssumption DEF Moved
<1> QED BY <1>1 DEF TypeOK, Peer, Procs

LEMMA Sends ==
  ASSUME TypeOK, NEW p \in Procs, Send(p)
  PROVE  \E n \in 1 .. left_size[p] :
           /\ wire' \in [Procs -> Seq(Words)]
           /\ OnWire(Peer(p))' = OnWire(Peer(p)) + n /\ OnWire(Peer(p))' <= Capacity
           /\ wire'[p] = wire[p] /\ OnWire(p)' = OnWire(p)
           /\ \A j \in 1 .. OnWire(Peer(p)) : wire'[Peer(p)][j] = wire[Peer(p)][j]
           /\ \A j \in 1 .. n :
                wire'[Peer(p)][OnWire(Peer(p)) + j] = buf[p][Size - left_size[p] + j - 1]
           /\ left_size' = [left_size EXCEPT ![p] = Moved(p, n)]
           /\ IF n = left_size[p] THEN AfterWrite(p) ELSE UNCHANGED <<pc, buf, message, left>>
<1>1. PICK n \in 1 .. left_size[p] :
         /\ OnWire(Peer(p)) + n <= Capacity
         /\ wire' = [wire EXCEPT ![Peer(p)]
                       = @ \o [i \in 1 .. n |-> buf[p][Size - left_size[p] + i - 1]]]
         /\ left_size' = [left_size EXCEPT ![p] = Moved(p, n)]
         /\ IF n = left_size[p] THEN AfterWrite(p) ELSE UNCHANGED <<pc, buf, message, left>>
  BY DEF Send, OnWire, Moved
<1> DEFINE f == [i \in 1 .. n |-> buf[p][Size - left_size[p] + i - 1]]
<1>2. Peer(p) \in Procs /\ Peer(p) # p /\ n \in Nat
  BY Numbers DEF Peer, Procs
<1>3. f \in [1 .. n -> Words] /\ \A j \in 1 .. n : f[j] = buf[p][Size - left_size[p] + j - 1]
  <2>1. left_size[p] <= Size + Room /\ left_size[p] \in Nat /\ Size \in Nat /\ Room \in Nat
    BY Numbers, SizeAssumption DEF Send, InReach
  <2>2. \A j \in 1 .. n : Size - left_size[p] + j - 1 \in Memory
    BY <2>1, <1>2 DEF Memory, Heap, Index
  <2> QED BY <2>2 DEF TypeOK
<1>4. wire \in [Procs -> Seq(Words)] /\ wire[Peer(p)] \in Seq(Words)
  BY <1>2 DEF TypeOK
<1>5. wire' = [wire EXCEPT ![Peer(p)] = wire[Peer(p)] \o f]
  BY <1>1, <1>2, <1>4
<1> HIDE DEF f
<1> DEFINE s == wire[Peer(p)] \o f
<1>6. wire'[Peer(p)] = s /\ wire'[p] = wire[p]
  BY <1>2, <1>4, <1>5
<1>7. /\ s \in Seq(Words) /\ Len(s) = Len(wire[Peer(p)]) + n
      /\ \A j \in 1 .. Len(s) :
           s[j] = IF j <= Len(wire[Peer(p)]) THEN wire[Peer(p)][j] ELSE f[j - Len(wire[Peer(p)])]
  BY <1>2, <1>3, <1>4, Appended
<1>8. Len(wire[Peer(p)]) \in Nat
  BY <1>4, LenProperties
<1>9. wire' \in [Procs -> Seq(Words)]
  BY <1>4, <1>5, <1>7
<1> HIDE DEF s
<1>10. /\ OnWire(Peer(p))' = OnWire(Peer(p)) + n /\ OnWire(p)' = OnWire(p)
       /\ OnWire(Peer(p)) = Len(wire[Peer(p)])
  BY <1>6, <1>7 DEF OnWire
<1>11. \A j \in 1 .. Len(wire[Peer(p)]) : s[j] = wire[Peer(p)][j]
  BY <1>2, <1>7, <1>8
<1>12. \A j \in 1 .. n : s[Len(wire[Peer(p)]) + j] = f[j]
  <2>1. TAKE j \in 1 .. n
  <2>2. /\ Len(wire[Peer(p)]) + j \in 1 .. Len(s) /\ ~(Len(wire[Peer(p)]) + j <= Len(wire[Peer(p)]))
        /\ Len(wire[Peer(p)]) + j - Len(wire[Peer(p)]) = j
    BY <2>1, <1>2, <1>7, <1>8
  <2> QED BY <2>2, <1>7
<1>13. /\ left_size' = [left_size EXCEPT ![p] = Moved(p, n)] /\ OnWire(Peer(p)) + n <= Capacity
       /\ IF n = left_size[p] THEN AfterWrite(p) ELSE UNCHANGED <<pc, buf, message, left>>
  BY <1>1
<1>14. /\ \A j \in 1 .. OnWire(Peer(p)) : wire'[Peer(p)][j] = wire[Peer(p)][j]
       /\ \A j \in 1 .. n :
            wire'[Peer(p)][OnWire(Peer(p)) + j] = buf[p][Size - left_size[p] + j - 1]
  BY <1>3, <1>6, <1>10, <1>11, <1>12
<1> QED BY <1>6, <1>9, <1>10, <1>13, <1>14

LEMMA Receives ==
  ASSUME TypeOK, NEW p \in Procs, Receive(p)
  PROVE  \E n \in 1 .. left_size[p] :
           /\ wire' \in [Procs -> Seq(Words)]
           /\ n <= OnWire(p) /\ OnWire(p)' = OnWire(p) - n
           /\ wire'[Peer(p)] = wire[Peer(p)] /\ OnWire(Peer(p))' = OnWire(Peer(p))
           /\ \A r \in Procs : Len(wire'[r]) <= Capacity
           /\ \A j \in 1 .. OnWire(p)' : wire'[p][j] = wire[p][n + j]
           /\ Received(p, n) \in [Memory -> Words]
           /\ left_size' = [left_size EXCEPT ![p] = Moved(p, n)]
           /\ IF n = left_size[p] THEN AfterRead(p, Received(p, n))
              ELSE buf' = [buf EXCEPT ![p] = Received(p, n)] /\ UNCHANGED <<pc, message, left>>
<1>1. PICK n \in 1 .. left_size[p] :
         /\ n <= Len(wire[p])
         /\ wire' = [wire EXCEPT ![p] = SubSeq(@, n + 1, Len(@))]
         /\ left_size' = [left_size EXCEPT ![p] = Moved(p, n)]
         /\ IF n = left_size[p] THEN AfterRead(p, Received(p, n))
            ELSE buf' = [buf EXCEPT ![p] = Received(p, n)] /\ UNCHANGED <<pc, message, left>>
  BY DEF Receive, Moved
<1> DEFINE s == SubSeq(wire[p], n + 1, Len(wire[p]))
<1>2. Peer(p) \in Procs /\ Peer(p) # p
  BY DEF Peer, Procs
<1>3. wire \in [Procs -> Seq(Words)] /\ wire[p] \in Seq(Words) /\ Len(wire[p]) \in Nat
  BY LenProperties DEF TypeOK
<1>4. n \in 1 .. Len(wire[p])
  BY <1>1, <1>3
<1>5. wire' = [wire EXCEPT ![p] = s]
  BY <1>1, <1>3
<1>6. /\ s \in Seq(Words) /\ Len(s) = Len(wire[p]) - n
      /\ \A j \in 1 .. Len(s) : s[j] = wire[p][n + j]
  BY <1>3, <1>4, Removed
<1> HIDE DEF s
<1>7. wire' \in [Procs -> Seq(Words)] /\ wire'[p] = s /\ wire'[Peer(p)] = wire[Peer(p)]
  BY <1>2, <1>3, <1>5, <1>6
<1>8. OnWire(p)' = OnWire(p) - n /\ n <= OnWire(p) /\ OnWire(Peer(p))' = OnWire(Peer(p))
      /\ OnWire(p)' = Len(s)
  BY <1>1, <1>6, <1>7 DEF OnWire
<1>9. \A r \in Procs : Len(wire'[r]) <= Capacity
  <2>1. Capacity \in Int /\ \A r \in Procs : Len(wire[r]) <= Capacity
    BY Numbers DEF TypeOK
  <2>2. Len(s) <= Capacity
    BY <2>1, <1>3, <1>4, <1>6
  <2> QED BY <2>1, <2>2, <1>7 DEF Peer, Procs
<1>10. Received(p, n) \in [Memory -> Words]
  <2> DEFINE to == Size - left_size[p]
  <2>1. ASSUME NEW i \in Memory, i - to \in 0 .. n - 1
        PROVE  wire[p][i - to + 1] \in Words
    <3>1. i - to + 1 \in 1 .. Len(wire[p])
      <4>1. i \in Int /\ to \in Int
        BY <2>1, Numbers, SizeAssumption DEF Memory, Heap, Index
      <4> HIDE DEF to
      <4> QED BY <2>1, <4>1, <1>3, <1>4
    <3> QED BY <3>1, <1>3, ElementOfSeq
  <2>2. \A i \in Memory : buf[p][i] \in Words
    BY DEF TypeOK
  <2> QED BY <2>1, <2>2 DEF Received
<1> QED BY <1>1, <1>6, <1>7, <1>8, <1>9, <1>10

(* The numbers of both processes, by name.                                  *)
Numeric == /\ {Size, Capacity, left_size["server"], left_size["client"]} \subseteq Nat \ {0}
           /\ {message, Replied, OnWire("server"), OnWire("client")} \subseteq Nat

LEMMA Named ==
  TypeOK => Numeric /\ count["server"] \in Int /\ count["client"] \in Int /\ left \in Int
<1>1. ASSUME TypeOK PROVE Numeric /\ {count["server"], count["client"], left} \subseteq Int
  BY <1>1, Numbers DEF Numeric
<1> QED BY <1>1

(* Whose turn it was when the server's read completes, when the client's    *)
(* does, and while the client writes.                                       *)
LEMMA ServerTurn ==
  ASSUME IInv, Blocking, pc["server"] = "read", left_size["server"] <= OnWire("server")
  PROVE  Answered
<1>1. TurnInv /\ Numeric
  BY Named DEF IInv
<1>2. ~Passed /\ ~Replying
  BY <1>1 DEF Passed, Replying, Numeric
<1> QED BY <1>1, <1>2 DEF TurnInv

LEMMA ClientTurn ==
  ASSUME IInv, Blocking, pc["client"] = "read", left_size["client"] <= OnWire("client")
  PROVE  Connected /\ Passed /\ pc["server"] = "read"
<1>1. TypeOK /\ StartInv /\ TurnInv /\ Numeric
  BY Named DEF IInv
<1>2. Connected
  BY <1>1 DEF StartInv, Numeric
<1>3. ~Sending /\ ~Over /\ ~Answered
  BY <1>1 DEF Sending, Over, Answered, Numeric
<1> QED BY <1>1, <1>2, <1>3 DEF TurnInv, Replying, Connected, TypeOK, Labels, Procs

LEMMA ClientWrites ==
  ASSUME IInv, Blocking, pc["client"] = "write"
  PROVE  Connected /\ Replying /\ pc["server"] = "read"
<1>1. TypeOK /\ StartInv /\ TurnInv
  BY DEF IInv
<1>2. Connected
  BY <1>1 DEF StartInv, Connected
<1> QED BY <1>1, <1>2 DEF TurnInv, Sending, Passed, Answered, Over, Connected, TypeOK, Labels, Procs

(* Once the server is in its loop, only a client that is not yet in its own *)
(* has something left of the start.                                         *)
LEMMA Running ==
  ASSUME Connected', pc'["client"] \notin {"off", "exited", "listen", "evaluate", "aborted"},
         pc'["client"] \in {"begin", "failed"} => Replied' = 0 /\ left_size'["client"] = Size
  PROVE  StartInv'
BY DEF StartInv, Connected

(* What a call of send() does to the invariant.                             *)
LEMMA SendInv == ASSUME IInv, NEW p \in Procs, Send(p) PROVE IInv'
<1> DEFINE q == Peer(p)
<1>1. TypeOK /\ StartInv /\ TurnInv /\ BlockInv /\ Numeric
  BY Named DEF IInv
<1>2. PICK n \in 1 .. left_size[p] :
         /\ wire' \in [Procs -> Seq(Words)]
         /\ OnWire(q)' = OnWire(q) + n /\ OnWire(q)' <= Capacity
         /\ wire'[p] = wire[p] /\ OnWire(p)' = OnWire(p)
         /\ \A j \in 1 .. OnWire(q) : wire'[q][j] = wire[q][j]
         /\ \A j \in 1 .. n : wire'[q][OnWire(q) + j] = buf[p][Size - left_size[p] + j - 1]
         /\ left_size' = [left_size EXCEPT ![p] = Moved(p, n)]
         /\ IF n = left_size[p] THEN AfterWrite(p) ELSE UNCHANGED <<pc, buf, message, left>>
  BY <1>1, Sends
<1>3. /\ pc[p] = "write" /\ q \in Procs /\ q # p /\ \A r \in Procs : r = p \/ r = q
      /\ isNonblock' = isNonblock /\ count' = count /\ isDebug' = isDebug
      /\ Blocking' = Blocking
  BY DEF Send, Options, Blocking, Peer, Procs
<1>4. n \in Nat \ {0} /\ n <= left_size[p] /\ left_size[p] \in Nat /\ OnWire(q) \in Nat
  BY <1>1, <1>3, Numbers
<1>5. /\ left_size' \in [Procs -> 1 .. Size + MaxRetries]
      /\ left_size'[p] = Moved(p, n) /\ left_size'[q] = left_size[q]
  BY <1>1, <1>2, Moves
<1>6. \A r \in Procs : Len(wire'[r]) <= Capacity
  BY <1>1, <1>2, <1>3 DEF TypeOK, OnWire
<1>7. ASSUME Blocking PROVE \A j \in 1 .. OnWire(q)' : wire'[q][j] = Due(q)
  <2>1. Own(p) = Due(q)
    BY <1>1, <1>3, <1>7, ClientWrites DEF TurnInv, Sending, Replying, Own, Due, Peer, Procs
  <2>2. \A j \in 1 .. OnWire(q) : wire[q][j] = Due(q)
    BY <1>1, <1>3, <1>7 DEF BlockInv
  <2>3. left_size[p] <= Size /\ (\A i \in Index : buf[p][i] = Own(p)) /\ Size \in Nat
    BY <1>1, <1>3, <1>7, Numbers DEF TurnInv, BlockInv
  <2>4. ASSUME NEW j \in 1 .. n PROVE buf[p][Size - left_size[p] + j - 1] = Own(p)
    <3>1. Size - left_size[p] + j - 1 \in Index
      BY <2>3, <2>4, <1>4 DEF Index
    <3> QED BY <2>3, <3>1
  <2>5. TAKE j \in 1 .. OnWire(q)'
  <2>6. CASE j <= OnWire(q)
    <3>1. j \in 1 .. OnWire(q)
      BY <2>5, <2>6, <1>2, <1>4
    <3> QED BY <2>2, <3>1, <1>2
  <2>7. CASE ~(j <= OnWire(q))
    <3>1. j - OnWire(q) \in 1 .. n /\ OnWire(q) + (j - OnWire(q)) = j
      BY <2>5, <2>7, <1>2, <1>4
    <3>2. wire'[q][j] = buf[p][Size - left_size[p] + (j - OnWire(q)) - 1]
      BY <3>1, <1>2
    <3> QED BY <2>1, <2>4, <3>1, <3>2
  <2> QED BY <2>6, <2>7
<1>8. TypeOK' <=> /\ pc' \in [Procs -> Labels] /\ buf' \in [Procs -> [Memory -> Words]]
                 /\ message' \in Nat /\ left' \in Int /\ left' <= count["client"]
  BY <1>1, <1>2, <1>3, <1>5, <1>6 DEF TypeOK
<1>9. CASE n # left_size[p]
  <2>1. UNCHANGED <<pc, buf, message, left>> /\ left_size'[p] = left_size[p] - n
    BY <1>2, <1>5, <1>9 DEF Moved
  <2>2. /\ Replied' = Replied /\ Connected' = Connected
        /\ \A r \in Procs : Own(r)' = Own(r) /\ Due(r)' = Due(r)
    BY <2>1, <1>3 DEF Own, Due, Replied, Connected
  <2>3. Connected
    BY <1>1, <1>3 DEF StartInv, Connected, Procs
  <2>4. TypeOK' /\ StartInv'
    <3>1. TypeOK'
      BY <2>1, <1>1, <1>8 DEF TypeOK
    <3>2. pc["client"] \in {"begin", "failed"} => left_size'["client"] = left_size["client"]
      BY <1>3, <1>5 DEF Peer, Procs
    <3> QED BY <3>1, <3>2, <2>1, <2>2, <2>3, <1>1, Running DEF StartInv, Connected
  <2>5. TurnInv'
    <3>1. CASE p = "server"
      <4>1. q = "client" /\ pc["server"] = "write"
        BY <3>1, <1>3 DEF Procs
      <4>2. Sending => Sending'
        BY <4>1, <3>1, <2>1, <2>2, <1>1, <1>2, <1>4, <1>5 DEF Sending, Numeric
      <4> QED BY <4>1, <4>2, <2>1, <2>2, <2>3, <3>1, <1>1, <1>3, <1>4, <1>5 DEF TurnInv, Procs, Numeric
    <3>2. CASE p = "client"
      <4>1. q = "server" /\ pc["client"] = "write"
        BY <3>2, <1>3 DEF Procs
      <4>2. Blocking => Replying /\ pc["server"] = "read"
        BY <4>1, ClientWrites
      <4>3. Replying => Replying'
        BY <4>1, <3>2, <2>1, <2>2, <1>1, <1>2, <1>4, <1>5 DEF Replying, Numeric
      <4> QED BY <4>1, <4>2, <4>3, <2>1, <2>2, <2>3, <3>2, <1>1, <1>3, <1>4, <1>5 DEF TurnInv, Procs, Numeric
    <3> QED BY <3>1, <3>2 DEF Procs
  <2>6. BlockInv'
    <3>1. SUFFICES ASSUME Blocking, NEW r \in Procs
          PROVE  /\ pc[r] = "write" => \A i \in Index : buf[r][i] = Own(r)
                 /\ \A j \in 1 .. OnWire(r)' : wire'[r][j] = Due(r)
                 /\ pc[r] = "read" => \A i \in Index : i < Size - left_size'[r] => buf[r][i] = Due(r)
      BY <2>1, <2>2, <1>3 DEF BlockInv
    <3>2. CASE r = p
      BY <3>1, <3>2, <1>1, <1>2, <1>3 DEF BlockInv
    <3>3. CASE r = q
      BY <3>1, <3>3, <1>1, <1>3, <1>5, <1>7 DEF BlockInv
    <3> QED BY <3>2, <3>3, <1>3
  <2> QED BY <2>4, <2>5, <2>6 DEF IInv
<1>10. CASE n = left_size[p] /\ p = "server"
  <2>1. /\ pc' = [pc EXCEPT !["server"] = "read"] /\ UNCHANGED <<buf, message, left>>
        /\ left_size'["server"] = Size
        /\ q = "client" /\ pc["server"] = "write"
    BY <1>2, <1>3, <1>5, <1>10 DEF AfterWrite, Peer, Goes, Moved
  <2>2. pc'["server"] = "read" /\ pc'["client"] = pc["client"]
    BY <2>1, <1>1 DEF TypeOK, Procs
  <2>3. Connected /\ Connected'
    BY <2>1, <2>2 DEF Connected
  <2>5. /\ Replied' = Replied
        /\ \A r \in Procs : Own(r)' = Own(r) /\ Due(r)' = Due(r)
    BY <2>1, <1>3 DEF Own, Due, Replied
  <2>4. TypeOK' /\ StartInv'
    <3>1. TypeOK'
      BY <2>1, <1>1, <1>8 DEF TypeOK, Labels
    <3> QED BY <3>1, <2>1, <2>2, <2>3, <2>5, <1>1, <1>5, Running DEF StartInv, Connected
  <2>6. Sending => Passed'
    BY <2>1, <2>2, <2>5, <1>1, <1>2, <1>5, <1>10 DEF Sending, Passed, Numeric
  <2>7. TurnInv'
    BY <2>1, <2>2, <2>3, <2>6, <1>1, <1>3, <1>5, <1>10 DEF TurnInv, Procs, Numeric
  <2>8. BlockInv'
    <3>1. SUFFICES ASSUME Blocking, NEW r \in Procs
          PROVE  /\ pc'[r] = "write" => \A i \in Index : buf[r][i] = Own(r)
                 /\ \A j \in 1 .. OnWire(r)' : wire'[r][j] = Due(r)
                 /\ pc'[r] = "read" => \A i \in Index : i < Size - left_size'[r] => buf[r][i] = Due(r)
      BY <2>1, <2>5, <1>3 DEF BlockInv
    <3>2. CASE r = "server"
      <4>1. \A i \in Index : ~(i < Size - Size)
        BY SizeAssumption DEF Index
      <4> QED BY <3>1, <3>2, <4>1, <2>1, <2>2, <1>1, <1>2, <1>10 DEF BlockInv
    <3>3. CASE r = "client"
      BY <3>1, <3>3, <2>1, <2>2, <1>1, <1>5, <1>7 DEF BlockInv
    <3> QED BY <3>2, <3>3 DEF Procs
  <2> QED BY <2>4, <2>7, <2>8 DEF IInv
<1>11. CASE n = left_size[p] /\ p = "client"
  <2>1. /\ pc' = [pc EXCEPT !["client"] = IF left - 1 > 0 THEN "read" ELSE "done"]
        /\ left' = left - 1 /\ UNCHANGED <<buf, message>>
        /\ left_size'["client"] = Size
        /\ q = "server" /\ pc["client"] = "write"
    BY <1>2, <1>3, <1>5, <1>11 DEF AfterWrite, Peer, Goes, ClientLoop, Moved
  <2>2. /\ pc'["client"] \in {"read", "done"} /\ pc'["server"] = pc["server"]
        /\ left_size'["server"] = left_size["server"]
    BY <2>1, <1>1, <1>5 DEF TypeOK, Procs
  <2>3. Connected /\ Connected' /\ Replied' = Replied + 1
    <3>1. Connected /\ Connected'
      BY <2>1, <2>2, <1>1 DEF StartInv, Connected
    <3>2. count["client"] \in Int /\ left \in Int
      BY <1>1, Named
    <3> QED BY <2>1, <3>1, <3>2, <1>3 DEF Replied
  <2>4. TypeOK'
    <3>1. left' \in Int /\ left' <= count["client"]
      <4>1. count["client"] \in Int /\ left \in Int /\ left <= count["client"]
        BY <1>1, Named DEF TypeOK
      <4> QED BY <2>1, <4>1
    <3> QED BY <2>1, <3>1, <1>1, <1>8 DEF TypeOK, Labels
  <2>5. StartInv'
    BY <2>1, <2>2, <2>3, <1>1 DEF StartInv, Connected, Labels, TypeOK
  <2>6. Own("server")' = Own("server") /\ Due("server")' = Due("server")
    BY <2>1, <1>3 DEF Own, Due, Replied
  <2>7. Blocking => Replying /\ pc["server"] = "read"
    BY <2>1, ClientWrites
  <2>8. Replying => Answered'
    BY <2>1, <2>2, <2>3, <1>1, <1>2, <1>11 DEF Replying, Answered, Numeric
  <2>9. TurnInv'
    BY <2>1, <2>2, <2>3, <2>7, <2>8, <1>1, <1>3 DEF TurnInv, Procs, Numeric
  <2>10. BlockInv'
    <3>1. SUFFICES ASSUME Blocking, NEW r \in Procs
          PROVE  /\ pc'[r] = "write" => \A i \in Index : buf[r][i] = Own(r)'
                 /\ \A j \in 1 .. OnWire(r)' : wire'[r][j] = Due(r)'
                 /\ pc'[r] = "read" => \A i \in Index : i < Size - left_size'[r] => buf[r][i] = Due(r)'
      BY <2>1, <1>3 DEF BlockInv
    <3>2. CASE r = "server"
      BY <3>1, <3>2, <2>1, <2>2, <2>6, <2>7, <1>1, <1>7 DEF BlockInv
    <3>3. CASE r = "client"
      <4>1. \A i \in Index : ~(i < Size - Size)
        BY SizeAssumption DEF Index
      <4>2. OnWire("client")' = 0
        BY <3>1, <2>7, <1>2, <1>11 DEF Replying
      <4> QED BY <3>3, <4>1, <4>2, <2>1, <2>2
    <3> QED BY <3>2, <3>3 DEF Procs
  <2> QED BY <2>4, <2>5, <2>9, <2>10 DEF IInv
<1> QED BY <1>9, <1>10, <1>11 DEF Procs

(* The block that a transfer completes is the one its round is due, and     *)
(* passes -D.                                                               *)
LEMMA Whole ==
  ASSUME IInv, Blocking, NEW p \in Procs, pc[p] = "read", left_size[p] <= OnWire(p)
  PROVE  Block(Received(p, left_size[p])) = Uniform(Due(p)) /\ ~Rejects(p, Received(p, left_size[p]))
<1>1. TypeOK /\ TurnInv /\ BlockInv
  BY DEF IInv
<1>2. left_size[p] \in Nat \ {0} /\ left_size[p] <= Size /\ OnWire(p) \in Nat /\ Size \in Nat
  BY <1>1, Numbers DEF TurnInv
<1> DEFINE to == Size - left_size[p]
<1>3. ASSUME NEW i \in Index PROVE Received(p, left_size[p])[i] = Due(p)
  <2>1. i \in 0 .. Size - 1
    BY DEF Index
  <2>2. CASE i - to \in 0 .. left_size[p] - 1
    <3>1. i - to + 1 \in 1 .. OnWire(p)
      BY <1>2, <2>1, <2>2
    <3>2. Received(p, left_size[p])[i] = wire[p][i - to + 1]
      BY <2>2 DEF Received, Memory
    <3> QED BY <1>1, <3>1, <3>2 DEF BlockInv
  <2>3. CASE ~(i - to \in 0 .. left_size[p] - 1)
    <3>1. i < to
      BY <1>2, <2>1, <2>3
    <3>2. Received(p, left_size[p])[i] = buf[p][i]
      BY <2>3 DEF Received, Memory
    <3> QED BY <1>1, <3>1, <3>2 DEF BlockInv
  <2> QED BY <2>2, <2>3
<1>4. Block(Received(p, left_size[p])) = Uniform(Due(p))
  BY <1>3 DEF Block, Uniform
<1>5. Due(p).byte = IF p = "server" THEN "0x55" ELSE "0xAA"
  BY DEF Due, CTS, STC
<1> QED BY <1>3, <1>4, <1>5 DEF Rejects

(* What a call of recv() does to it.                                        *)
LEMMA ReceiveInv == ASSUME IInv, NEW p \in Procs, Receive(p) PROVE IInv'
<1> DEFINE q == Peer(p)
<1>1. TypeOK /\ StartInv /\ TurnInv /\ BlockInv /\ Numeric
  BY Named DEF IInv
<1>2. PICK n \in 1 .. left_size[p] :
         /\ wire' \in [Procs -> Seq(Words)]
         /\ n <= OnWire(p) /\ OnWire(p)' = OnWire(p) - n
         /\ wire'[q] = wire[q] /\ OnWire(q)' = OnWire(q)
         /\ \A r \in Procs : Len(wire'[r]) <= Capacity
         /\ \A j \in 1 .. OnWire(p)' : wire'[p][j] = wire[p][n + j]
         /\ Received(p, n) \in [Memory -> Words]
         /\ left_size' = [left_size EXCEPT ![p] = Moved(p, n)]
         /\ IF n = left_size[p] THEN AfterRead(p, Received(p, n))
            ELSE buf' = [buf EXCEPT ![p] = Received(p, n)] /\ UNCHANGED <<pc, message, left>>
  BY <1>1, Receives
<1>3. /\ pc[p] = "read" /\ q \in Procs /\ q # p /\ \A r \in Procs : r = p \/ r = q
      /\ isNonblock' = isNonblock /\ count' = count /\ isDebug' = isDebug
      /\ Blocking' = Blocking
  BY DEF Receive, Options, Blocking, Peer, Procs
<1>4. /\ n \in Nat \ {0} /\ n <= left_size[p] /\ Size \in Nat
      /\ \A r \in Procs : left_size[r] \in Nat /\ OnWire(r) \in Nat
  BY <1>1, <1>3, Numbers
<1>5. /\ left_size' \in [Procs -> 1 .. Size + MaxRetries]
      /\ left_size'[p] = Moved(p, n) /\ left_size'[q] = left_size[q]
  BY <1>1, <1>2, Moves
<1>6. \A r \in Procs : Len(wire'[r]) <= Capacity
  BY <1>2
<1>7. ASSUME Blocking PROVE \A j \in 1 .. OnWire(p)' : wire'[p][j] = Due(p)
  <2>1. TAKE j \in 1 .. OnWire(p)'
  <2>2. n + j \in 1 .. OnWire(p)
    BY <1>2, <1>4
  <2> QED BY <2>2, <1>1, <1>2, <1>7 DEF BlockInv
<1>8. TypeOK' <=> /\ pc' \in [Procs -> Labels] /\ buf' \in [Procs -> [Memory -> Words]]
                 /\ message' \in Nat /\ left' \in Int /\ left' <= count["client"]
  BY <1>1, <1>2, <1>3, <1>5, <1>6 DEF TypeOK
<1>9. Connected
  BY <1>1, <1>2, <1>4 DEF StartInv, Procs
<1>10. CASE n # left_size[p]
  <2>1. /\ buf' = [buf EXCEPT ![p] = Received(p, n)] /\ UNCHANGED <<pc, message, left>>
        /\ left_size'[p] = left_size[p] - n
    BY <1>2, <1>5, <1>10 DEF Moved
  <2>2. buf' \in [Procs -> [Memory -> Words]] /\ buf'[p] = Received(p, n) /\ buf'[q] = buf[q]
    BY <2>1, <1>1, <1>2, <1>3 DEF TypeOK
  <2>3. /\ Replied' = Replied /\ Connected' = Connected
        /\ \A r \in Procs : Own(r)' = Own(r) /\ Due(r)' = Due(r)
    BY <2>1, <1>3 DEF Own, Due, Replied, Connected
  <2>4. TypeOK' /\ StartInv'
    <3>1. TypeOK'
      BY <2>1, <2>2, <1>1, <1>8 DEF TypeOK
    <3>2. pc["client"] \in {"begin", "failed"} => left_size'["client"] = left_size["client"]
      BY <1>3, <1>5 DEF Peer, Procs
    <3> QED BY <3>1, <3>2, <2>1, <2>3, <1>1, <1>9, Running DEF StartInv, Connected
  <2>5. TurnInv'
    <3>1. CASE p = "server"
      <4>1. q = "client" /\ pc["server"] = "read"
        BY <3>1, <1>3 DEF Procs
      <4>2. Replying => Replying'
        BY <4>1, <3>1, <2>1, <2>3, <1>1, <1>2, <1>4, <1>5 DEF Replying, Numeric
      <4>3. Answered => Answered'
        BY <4>1, <3>1, <2>1, <2>3, <1>1, <1>2, <1>4, <1>5 DEF Answered, Numeric
      <4>4. ~Passed
        BY <3>1, <1>1, <1>2, <1>4 DEF Passed, Numeric
      <4> QED BY <4>1, <4>2, <4>3, <4>4, <2>1, <2>3, <3>1, <1>1, <1>3, <1>4, <1>5, <1>9
              DEF TurnInv, Procs, Numeric
    <3>2. CASE p = "client"
      <4>1. q = "server" /\ pc["client"] = "read"
        BY <3>2, <1>3 DEF Procs
      <4>a. /\ left_size'["client"] = left_size["client"] - n /\ left_size'["server"] = left_size["server"]
            /\ OnWire("client")' = OnWire("client") - n /\ OnWire("server")' = OnWire("server")
            /\ pc' = pc /\ message' = message /\ Replied' = Replied
        BY <4>1, <3>2, <2>1, <2>3, <1>2, <1>5
      <4>2. Sending => Sending'
        BY <4>a, <1>1, <1>4 DEF Sending, Numeric
      <4>3. Passed => Passed'
        BY <4>a, <1>1, <1>4 DEF Passed, Numeric
      <4>4. ~Replying /\ ~Answered /\ ~Over
        BY <3>2, <1>1, <1>2, <1>3, <1>4 DEF Replying, Answered, Over, Numeric
      <4>5. Blocking => pc["server"] \in {"write", "read"}
        BY <4>1, <4>4, <1>1, <1>9 DEF TurnInv, Connected, TypeOK, Labels, Procs
      <4> QED BY <4>1, <4>2, <4>3, <4>4, <4>5, <2>1, <2>3, <3>2, <1>1, <1>3, <1>4, <1>5, <1>9
              DEF TurnInv, Procs, Numeric
    <3> QED BY <3>1, <3>2 DEF Procs
  <2>6. BlockInv'
    <3>1. SUFFICES ASSUME Blocking, NEW r \in Procs
          PROVE  /\ pc[r] = "write" => \A i \in Index : buf'[r][i] = Own(r)
                 /\ \A j \in 1 .. OnWire(r)' : wire'[r][j] = Due(r)
                 /\ pc[r] = "read" => \A i \in Index : i < Size - left_size'[r] => buf'[r][i] = Due(r)
      BY <2>1, <2>3, <1>3 DEF BlockInv
    <3>2. CASE r = p
      <4>1. SUFFICES ASSUME NEW i \in Index, i < Size - left_size'[p] PROVE buf'[p][i] = Due(p)
        BY <3>1, <3>2, <1>3, <1>7
      <4> DEFINE to == Size - left_size[p]
      <4>2. i \in Nat /\ to \in Int /\ OnWire(p) \in Nat /\ n \in Nat /\ n <= OnWire(p)
        BY <1>2, <1>4 DEF Index
      <4>3. CASE i - to \in 0 .. n - 1
        <5>1. i - to + 1 \in 1 .. OnWire(p)
          <6> HIDE DEF to
          <6> QED BY <4>2, <4>3
        <5>2. buf'[p][i] = wire[p][i - to + 1]
          BY <4>3, <2>2 DEF Received, Memory
        <5> QED BY <5>1, <5>2, <3>1, <1>1 DEF BlockInv
      <4>4. CASE ~(i - to \in 0 .. n - 1)
        <5>1. i < to
          BY <4>1, <4>2, <4>4, <2>1, <1>4
        <5>2. buf'[p][i] = buf[p][i]
          BY <4>4, <2>2 DEF Received, Memory
        <5> QED BY <5>1, <5>2, <3>1, <1>1, <1>3 DEF BlockInv
      <4> QED BY <4>3, <4>4
    <3>3. CASE r = q
      BY <3>1, <3>3, <2>2, <1>1, <1>2, <1>3, <1>5 DEF BlockInv
    <3> QED BY <3>2, <3>3, <1>3
  <2> QED BY <2>4, <2>5, <2>6 DEF IInv
<1>11. CASE n = left_size[p] /\ Rejects(p, Received(p, n))
  <2>1. /\ pc' = [pc EXCEPT ![p] = "mismatch"]
        /\ buf' = [buf EXCEPT ![p] = Received(p, n)]
        /\ UNCHANGED <<message, left>>
    BY <1>2, <1>11 DEF AfterRead, Goes
  <2>2. ~Blocking
    BY <1>2, <1>3, <1>11, Whole
  <2>3. TypeOK'
    <3>1. buf' \in [Procs -> [Memory -> Words]] /\ pc' \in [Procs -> Labels]
      BY <2>1, <1>1, <1>2 DEF TypeOK, Labels
    <3> QED BY <2>1, <3>1, <1>1, <1>8 DEF TypeOK
  <2>4. pc'[p] = "mismatch" /\ pc'[q] = pc[q]
    BY <2>1, <1>3, <1>1 DEF TypeOK
  <2>5. Connected'
    BY <2>4, <1>3, <1>9 DEF Connected, Procs
  <2>6. StartInv'
    <3>1. Replied' = Replied
      BY <2>1, <1>3 DEF Replied
    <3>2. pc'["client"] \in {"begin", "failed"}
            => pc["client"] = pc'["client"] /\ left_size'["client"] = left_size["client"]
      BY <2>4, <1>3, <1>5 DEF Peer, Procs
    <3>3. pc'["client"] \in {pc["client"], "mismatch"}
      BY <2>4, <1>3 DEF Procs
    <3> QED BY <3>1, <3>2, <3>3, <2>5, <1>1, <1>9, Running DEF StartInv, Connected
  <2> QED BY <2>2, <2>3, <2>6, <1>3 DEF IInv, TurnInv, BlockInv
<1>12. CASE n = left_size[p] /\ ~Rejects(p, Received(p, n)) /\ p = "server"
  <2>1. /\ message' = message + 1 /\ left' = left
        /\ \/ /\ pc' = [pc EXCEPT !["server"] = "write"]
              /\ Loads("server", STC(message + 1 + 1))
           \/ /\ pc' = [pc EXCEPT !["server"] = "evaluate"]
              /\ UNCHANGED buf
        /\ left_size'["server"] = Size /\ q = "client" /\ pc["server"] = "read"
    BY <1>2, <1>3, <1>5, <1>12 DEF AfterRead, ServerLoop, Goes, Peer, Moved
  <2>a. STC(message + 1 + 1) \in Words /\ message' \in Nat
    BY <2>1, <1>1 DEF STC, Words, Numeric
  <2>2. /\ pc'["server"] \in {"write", "evaluate"} /\ pc'["client"] = pc["client"]
        /\ buf' \in [Procs -> [Memory -> Words]] /\ buf'["client"] = buf["client"]
        /\ pc'["server"] = "write" => \A i \in Index : buf'["server"][i] = STC(message' + 1)
    <3>1. pc'["server"] \in {"write", "evaluate"} /\ pc'["client"] = pc["client"]
      BY <2>1, <1>1 DEF TypeOK, Procs
    <3>2. CASE Loads("server", STC(message + 1 + 1))
      BY <3>1, <3>2, <2>1, <2>a, <1>1, Fills DEF Peer, Procs
    <3>3. CASE pc' = [pc EXCEPT !["server"] = "evaluate"] /\ UNCHANGED buf
      BY <3>1, <3>3, <1>1 DEF TypeOK, Procs
    <3> QED BY <3>2, <3>3, <2>1
  <2>3. TypeOK'
    <3>4. pc' \in [Procs -> Labels]
      BY <2>1, <1>1 DEF TypeOK, Labels
    <3> QED BY <2>1, <2>2, <2>a, <3>4, <1>1, <1>8 DEF TypeOK
  <2>4. Connected' /\ Replied' = Replied
    BY <2>1, <2>2, <1>3 DEF Connected, Replied
  <2>5. StartInv'
    BY <2>1, <2>2, <2>4, <1>1, <1>5, <1>9, Running DEF StartInv, Connected
  <2>6. Blocking => Answered
    BY <2>1, <1>2, <1>12, ServerTurn
  <2>7. Answered => Sending' /\ Over'
    <3>1. Answered => OnWire("server")' = 0 /\ OnWire("client")' = 0 /\ left_size'["client"] = Size
      BY <2>1, <1>1, <1>2, <1>5, <1>12 DEF Answered, Numeric
    <3> QED BY <3>1, <2>1, <2>2, <2>4, <1>1 DEF Answered, Sending, Over, Numeric
  <2>8. TurnInv'
    BY <2>1, <2>2, <2>4, <2>6, <2>7, <1>1, <1>3, <1>4, <1>5, <1>9 DEF TurnInv, Procs, Numeric
  <2>9. BlockInv'
    <3>1. SUFFICES ASSUME Blocking, NEW r \in Procs
          PROVE  /\ pc'[r] = "write" => \A i \in Index : buf'[r][i] = Own(r)'
                 /\ \A j \in 1 .. OnWire(r)' : wire'[r][j] = Due(r)'
                 /\ pc'[r] = "read" => \A i \in Index : i < Size - left_size'[r] => buf'[r][i] = Due(r)'
      BY <1>3 DEF BlockInv
    <3>2. OnWire(r)' = 0
      BY <2>6, <2>7, <3>1 DEF Over, Procs
    <3>3. CASE r = "server"
      BY <2>2, <3>2, <3>3 DEF Own
    <3>4. CASE r = "client"
      <4>1. pc["client"] # "write" /\ left_size'["client"] = Size
        BY <2>1, <2>6, <3>1, <1>5 DEF Answered
      <4>2. \A i \in Index : ~(i < Size - Size)
        BY SizeAssumption DEF Index
      <4> QED BY <2>2, <3>2, <3>4, <4>1, <4>2
    <3> QED BY <3>3, <3>4 DEF Procs
  <2> QED BY <2>3, <2>5, <2>8, <2>9 DEF IInv
<1>13. CASE n = left_size[p] /\ ~Rejects(p, Received(p, n)) /\ p = "client"
  <2>1. /\ pc' = [pc EXCEPT !["client"] = "write"]
        /\ Loads("client", CTS(Replied + 1))
        /\ UNCHANGED <<message, left>>
        /\ left_size'["client"] = Size /\ q = "server" /\ pc["client"] = "read"
    BY <1>2, <1>3, <1>5, <1>13 DEF AfterRead, Goes, Peer, Moved
  <2>2. /\ pc'["client"] = "write" /\ pc'["server"] = pc["server"]
        /\ buf' \in [Procs -> [Memory -> Words]] /\ buf'["server"] = buf["server"]
        /\ \A i \in Index : buf'["client"][i] = CTS(Replied + 1)
        /\ left_size'["server"] = left_size["server"]
    <3>1. CTS(Replied + 1) \in Words
      BY <1>1 DEF CTS, Words, Numeric
    <3>2. pc'["client"] = "write" /\ pc'["server"] = pc["server"]
      BY <2>1, <1>1 DEF TypeOK, Procs
    <3> QED BY <3>1, <3>2, <2>1, <1>1, <1>5, Fills DEF Peer, Procs
  <2>3. TypeOK'
    <3>1. pc' \in [Procs -> Labels]
      BY <2>1, <1>1 DEF TypeOK, Labels
    <3> QED BY <2>1, <2>2, <3>1, <1>1, <1>8 DEF TypeOK
  <2>4. /\ Connected' /\ Replied' = Replied
        /\ \A r \in Procs : Own(r)' = Own(r) /\ Due(r)' = Due(r)
    BY <2>1, <2>2, <1>3, <1>9 DEF Own, Due, Connected, Replied
  <2>5. StartInv'
    BY <2>2, <2>4, <1>1, <1>9 DEF StartInv, Connected, Labels, TypeOK, Procs
  <2>6. Blocking => Passed /\ pc["server"] = "read"
    BY <2>1, <1>2, <1>13, ClientTurn
  <2>7. Passed => Replying'
    BY <2>1, <2>2, <2>4, <1>1, <1>2, <1>13 DEF Passed, Replying, Numeric
  <2>8. TurnInv'
    BY <2>1, <2>2, <2>4, <2>6, <2>7, <1>1, <1>3, <1>4 DEF TurnInv, Procs, Numeric
  <2>9. BlockInv'
    <3>1. SUFFICES ASSUME Blocking, NEW r \in Procs
          PROVE  /\ pc'[r] = "write" => \A i \in Index : buf'[r][i] = Own(r)
                 /\ \A j \in 1 .. OnWire(r)' : wire'[r][j] = Due(r)
                 /\ pc'[r] = "read" => \A i \in Index : i < Size - left_size'[r] => buf'[r][i] = Due(r)
      BY <2>4, <1>3 DEF BlockInv
    <3>2. CASE r = "server"
      BY <3>1, <3>2, <2>1, <2>2, <2>6, <1>1, <1>2 DEF BlockInv
    <3>3. CASE r = "client"
      BY <3>1, <3>3, <2>2, <1>7, <1>13 DEF Own
    <3> QED BY <3>2, <3>3 DEF Procs
  <2> QED BY <2>3, <2>5, <2>8, <2>9 DEF IInv
<1> QED BY <1>10, <1>11, <1>12, <1>13 DEF Procs

LEMMA AgainInv == ASSUME IInv, NEW p \in Procs, Again(p) PROVE IInv'
<1>1. ~Blocking /\ isNonblock' = isNonblock
  BY DEF Again, DataNonblock, Blocking, Options
<1>2. TypeOK'
  <2>1. left_size[p] < Size + MaxRetries /\ left_size' = [left_size EXCEPT ![p] = @ + 1]
    BY DEF Again
  <2>2. left_size' \in [Procs -> 1 .. Size + MaxRetries]
    BY <2>1, SizeAssumption, RetriesAssumption DEF IInv, TypeOK
  <2> QED BY <2>2 DEF Again, IInv, TypeOK, Options
<1>3. StartInv'
  BY DEF Again, IInv, StartInv, Connected, Replied, OnWire, Options, DataNonblock, TypeOK, Procs
<1> QED BY <1>1, <1>2, <1>3 DEF IInv, TurnInv, BlockInv, Blocking

(* A call that fails ends its process, in the middle of a transfer.         *)
LEMMA FaultsInv == ASSUME IInv, NEW p \in Procs, Faults(p) PROVE IInv'
<1>1. TypeOK /\ StartInv /\ TurnInv /\ BlockInv /\ Numeric
  BY Named DEF IInv
<1>2. /\ pc' \in {[pc EXCEPT ![p] = "nosend"], [pc EXCEPT ![p] = "norecv"]}
      /\ \/ pc[p] = "write"
         \/ pc[p] = "read" /\ OnWire(p) # 0 /\ pc' = [pc EXCEPT ![p] = "norecv"]
      /\ UNCHANGED <<wire, buf, left_size, message, left>> /\ UNCHANGED Options
  BY <1>1, Numbers DEF Faults, Goes
<1>3. Connected
  BY <1>1, <1>2 DEF StartInv, Connected, Procs
<1>4. ~Blocking
  BY <1>1, SizeAssumption DEF Faults, InReach, TurnInv, Numeric, TypeOK, Procs
<1>5. TypeOK'
  BY <1>1, <1>2 DEF TypeOK, Options, Labels
<1>6. /\ pc'[p] \in {"norecv", "nosend"} /\ pc'[Peer(p)] = pc[Peer(p)]
      /\ Peer(p) \in Procs /\ Peer(p) # p
  BY <1>1, <1>2 DEF TypeOK, Peer, Procs
<1>7. Connected' /\ Replied' = Replied
  BY <1>2, <1>3, <1>6 DEF Connected, Replied, Options, Peer, Procs
<1>8. StartInv'
  <2>1. pc'["client"] \in {pc["client"], "norecv", "nosend"}
    BY <1>6 DEF Peer, Procs
  <2> QED BY <2>1, <1>1, <1>2, <1>3, <1>7, Running DEF StartInv, Connected
<1> QED BY <1>2, <1>4, <1>5, <1>8 DEF IInv, TurnInv, BlockInv, Blocking, Options

LEMMA ResetInv == ASSUME IInv, NEW p \in Procs, Reset(p) PROVE IInv'
<1>1. /\ pc' \in {[pc EXCEPT ![p] = "nosend"], [pc EXCEPT ![p] = "norecv"]}
      /\ \/ pc[p] = "write"
         \/ pc[p] = "read" /\ pc' = [pc EXCEPT ![p] = "norecv"]
      /\ Closed(Peer(p)) /\ (OnWire(Peer(p)) # 0 \/ pc[Peer(p)] = "exited")
      /\ UNCHANGED <<wire, buf, left_size, message, left>> /\ UNCHANGED Options
  BY Numbers DEF IInv, Reset, Goes, Peer, Procs
<1>2. TypeOK /\ StartInv /\ TurnInv /\ BlockInv
  BY DEF IInv
<1>3. pc'[p] \in {"nosend", "norecv"} /\ pc'[Peer(p)] = pc[Peer(p)] /\ Peer(p) \in Procs /\ Peer(p) # p
  BY <1>1, <1>2 DEF TypeOK, Peer, Procs
<1>4. Connected' = Connected
  BY <1>1, <1>3 DEF Connected, Peer, Procs
<1>5. TypeOK'
  BY <1>1, <1>2 DEF TypeOK, Options, Labels
<1>6. /\ Blocking' = Blocking /\ Replied' = Replied
      /\ \A r \in Procs : Own(r)' = Own(r) /\ Due(r)' = Due(r) /\ OnWire(r)' = OnWire(r)
  BY <1>1 DEF Blocking, Replied, Own, Due, OnWire, Options
<1>7. BlockInv'
  BY <1>1, <1>2, <1>3, <1>6 DEF BlockInv, TypeOK
<1>8. CASE p = "server"
  <2>1. /\ pc["client"] \in {"exited", "failed", "done", "aborted", "mismatch", "norecv", "nosend"}
        /\ pc["server"] \in {"read", "write"} /\ Connected
        /\ pc'["server"] \in {"nosend", "norecv"} /\ pc'["client"] = pc["client"]
    BY <1>1, <1>2, <1>3, <1>8 DEF Peer, Closed, Connected
  <2>2. OnWire("client") # 0
    BY <2>1, <1>1, <1>2, <1>8 DEF Peer, StartInv
  <2>3. StartInv'
    BY <2>1, <1>1, <1>2, <1>4, <1>6, Running DEF StartInv, Connected
  <2>4. Blocking => pc["client"] \in {"failed", "done"} /\ OnWire("server") = 0
    BY <2>1, <2>2, <1>2 DEF TurnInv, Sending, Passed, Replying, Answered
  <2>5. TurnInv'
    BY <2>1, <2>4, <1>1, <1>2, <1>4, <1>6 DEF TurnInv, Procs
  <2> QED BY <2>3, <2>5, <1>5, <1>7 DEF IInv
<1>9. CASE p = "client"
  <2>1. /\ pc["server"] \in {"exited", "failed", "done", "aborted", "mismatch", "norecv", "nosend"}
        /\ pc["client"] \in {"read", "write"}
        /\ pc'["client"] \in {"nosend", "norecv"} /\ pc'["server"] = pc["server"]
        /\ pc["client"] = "read" => pc'["client"] = "norecv"
    BY <1>1, <1>2, <1>3, <1>9 DEF Peer, Closed, TypeOK, Procs
  <2>2. ~Connected => pc["client"] = "read" /\ pc["server"] = "exited"
    BY <2>1, <1>1, <1>2, <1>9 DEF Peer, StartInv
  <2>3. StartInv'
    <3>1. CASE Connected
      BY <3>1, <2>1, <1>2, <1>4, Running DEF StartInv, Connected
    <3>2. CASE ~Connected
      <4>1. OnWire("server")' = OnWire("server") /\ OnWire("client")' = OnWire("client")
        BY <1>1 DEF OnWire
      <4> QED BY <3>2, <4>1, <2>1, <2>2, <1>1, <1>2, <1>4, <1>6 DEF StartInv
    <3> QED BY <3>1, <3>2
  <2>4. Blocking => ~Connected
    BY <2>1, <1>1, <1>2, <1>9 DEF TurnInv, Over, Connected, Peer
  <2>5. TurnInv'
    BY <2>1, <2>2, <2>4, <1>1, <1>2, <1>4, <1>6 DEF TurnInv, Connected
  <2> QED BY <2>3, <2>5, <1>5, <1>7 DEF IInv
<1> QED BY <1>8, <1>9 DEF Procs

(* The steps that set up the connection, or fail to.                        *)
LEMMA StartsInv ==
  ASSUME IInv, NEW p \in Procs, ServerLaunch \/ ServerAccepts \/ ClientConnects \/ Fails(p)
  PROVE  IInv'
<1>1. TypeOK /\ StartInv /\ TurnInv /\ BlockInv
  BY DEF IInv
<1>2. UNCHANGED <<wire, buf, left_size, message, left>> /\ UNCHANGED Options
  BY DEF ServerLaunch, ServerAccepts, ClientConnects, Fails
<1>3. \/ /\ pc'["client"] = pc["client"]
         /\ <<pc["server"], pc'["server"]>> \in {<<"off", "listen">>, <<"listen", "begin">>,
               <<"off", "exited">>, <<"listen", "exited">>, <<"begin", "failed">>}
         /\ pc'["server"] = "begin" => pc["client"] \notin {"off", "exited"}
      \/ /\ pc'["server"] = pc["server"]
         /\ <<pc["client"], pc'["client"]>> \in
               {<<"off", "begin">>, <<"off", "exited">>, <<"begin", "failed">>}
         /\ pc'["client"] = "begin" => pc["server"] = "listen"
  BY <1>1 DEF ServerLaunch, ServerAccepts, ClientConnects, Fails, Goes, TypeOK, StartInv, Procs
<1>4. TypeOK'
  <2>1. pc' \in [Procs -> Labels]
    BY <1>1 DEF ServerLaunch, ServerAccepts, ClientConnects, Fails, Goes, TypeOK, Labels
  <2> QED BY <2>1, <1>1, <1>2 DEF TypeOK, Options
<1>5. /\ Blocking' = Blocking /\ Replied' = Replied /\ Connected' = Connected
      /\ \A r \in Procs : OnWire(r)' = OnWire(r)
  BY <1>2, <1>3 DEF Blocking, Replied, Connected, OnWire, Options
<1>6. OnWire("server")' = OnWire("server") /\ OnWire("client")' = OnWire("client")
  BY <1>5 DEF Procs
<1>7. StartInv'
  BY <1>1, <1>2, <1>3, <1>5, <1>6 DEF StartInv, Connected
<1>8. TurnInv'
  BY <1>1, <1>2, <1>3, <1>5, <1>6 DEF TurnInv, Connected, StartInv, Sending, Passed, Replying, Answered, Over
<1>9. BlockInv'
  <2>1. \A r \in Procs : Own(r)' = Own(r) /\ Due(r)' = Due(r)
    BY <1>2, <1>5 DEF Own, Due
  <2>2. \A r \in Procs : pc'[r] \in {"read", "write"} => pc[r] = pc'[r]
    BY <1>3 DEF Procs
  <2> QED BY <2>1, <2>2, <1>1, <1>2, <1>5 DEF BlockInv
<1> QED BY <1>4, <1>7, <1>8, <1>9 DEF IInv

LEMMA ServerBeginsInv == ASSUME IInv, ServerBegins PROVE IInv'
<1>1. TypeOK /\ StartInv /\ TurnInv /\ BlockInv
  BY DEF IInv
<1>2. /\ pc["server"] = "begin" /\ message' = 0
      /\ \/ /\ pc' = [pc EXCEPT !["server"] = "write"]
            /\ Loads("server", STC(1))
         \/ /\ pc' = [pc EXCEPT !["server"] = "evaluate"]
            /\ UNCHANGED buf
      /\ UNCHANGED <<wire, left_size, left>> /\ UNCHANGED Options
  BY DEF ServerBegins, ServerLoop, Goes
<1>3. /\ pc'["server"] \in {"write", "evaluate"} /\ pc'["client"] = pc["client"]
      /\ buf' \in [Procs -> [Memory -> Words]] /\ buf'["client"] = buf["client"]
      /\ pc'["server"] = "write" => \A i \in Index : buf'["server"][i] = STC(1)
  <2>1. pc'["server"] \in {"write", "evaluate"} /\ pc'["client"] = pc["client"]
    BY <1>1, <1>2 DEF TypeOK, Procs
  <2>2. STC(1) \in Words
    BY DEF STC, Words
  <2>3. CASE Loads("server", STC(1))
    BY <2>1, <2>2, <2>3, <1>1, Fills DEF Peer, Procs
  <2>4. CASE pc' = [pc EXCEPT !["server"] = "evaluate"] /\ UNCHANGED buf
    BY <2>1, <2>4, <1>1 DEF TypeOK, Procs
  <2> QED BY <2>3, <2>4, <1>2
<1>4. TypeOK'
  <2>1. pc' \in [Procs -> Labels]
    BY <1>1, <1>2 DEF TypeOK, Labels
  <2> QED BY <2>1, <1>1, <1>2, <1>3 DEF TypeOK, Options
<1>5. /\ ~Connected /\ Connected' /\ Replied = 0 /\ message = 0 /\ OnWire("server") = 0 /\ OnWire("client") = 0
      /\ left_size["server"] = Size /\ pc["client"] \in {"begin", "failed", "read", "done"}
  BY <1>1, <1>2, <1>3 DEF StartInv, Connected, TypeOK, Labels, Procs
<1>6. /\ Blocking' = Blocking /\ Replied' = Replied /\ message' = message
      /\ \A r \in Procs : Own(r)' = Own(r) /\ Due(r)' = Due(r) /\ OnWire(r)' = OnWire(r)
  BY <1>2, <1>5 DEF Blocking, Replied, Own, Due, OnWire, Options
<1>7. StartInv'
  BY <1>1, <1>2, <1>3, <1>5, <1>6, Running DEF StartInv, Connected
<1>8. Size \in Nat /\ "server" \in Procs /\ "client" \in Procs
  BY SizeAssumption DEF Procs
<1>9. TurnInv'
  <2>1. Blocking => left_size["client"] = Size
    BY <1>1, <1>5 DEF TurnInv
  <2>2. Blocking => Sending' /\ Over'
    BY <2>1, <1>2, <1>3, <1>5, <1>6, <1>8 DEF Sending, Over
  <2> QED BY <2>2, <1>1, <1>2, <1>3, <1>5, <1>6 DEF TurnInv
<1>10. BlockInv'
  <2>1. SUFFICES ASSUME Blocking, NEW r \in Procs
        PROVE  /\ pc'[r] = "write" => \A i \in Index : buf'[r][i] = Own(r)
               /\ \A j \in 1 .. OnWire(r) : wire[r][j] = Due(r)
               /\ pc'[r] = "read" => \A i \in Index : i < Size - left_size[r] => buf'[r][i] = Due(r)
    BY <1>2, <1>6 DEF BlockInv
  <2>2. CASE r = "server"
    BY <2>2, <1>3, <1>5, <1>8 DEF Own
  <2>3. CASE r = "client"
    BY <2>1, <2>3, <1>1, <1>3, <1>5 DEF BlockInv
  <2> QED BY <2>2, <2>3 DEF Procs
<1> QED BY <1>4, <1>7, <1>9, <1>10 DEF IInv

LEMMA EvaluatesInv == ASSUME IInv, ServerEvaluates PROVE IInv'
<1>1. TypeOK /\ StartInv /\ TurnInv /\ BlockInv
  BY DEF IInv
<1>2. /\ pc["server"] = "evaluate"
      /\ pc' \in {[pc EXCEPT !["server"] = "done"], [pc EXCEPT !["server"] = "aborted"]}
      /\ UNCHANGED <<wire, buf, left_size, message, left>> /\ UNCHANGED Options
  BY DEF ServerEvaluates, Goes
<1>3. TypeOK'
  BY <1>1, <1>2 DEF TypeOK, Options, Labels
<1>4. pc'["server"] \in {"done", "aborted"} /\ pc'["client"] = pc["client"] /\ Connected /\ Connected'
  BY <1>1, <1>2 DEF TypeOK, Connected, Procs
<1>6. /\ Blocking' = Blocking /\ Replied' = Replied
      /\ \A r \in Procs : Own(r)' = Own(r) /\ Due(r)' = Due(r) /\ OnWire(r)' = OnWire(r)
  BY <1>2 DEF Blocking, Replied, Own, Due, OnWire, Options
<1>5. StartInv'
  BY <1>1, <1>2, <1>4, <1>6, Running DEF StartInv, Connected
<1>7. TurnInv'
  BY <1>1, <1>2, <1>4, <1>6 DEF TurnInv, Over, Procs
<1>8. BlockInv'
  BY <1>1, <1>2, <1>4, <1>6 DEF BlockInv, Procs
<1> QED BY <1>3, <1>5, <1>7, <1>8 DEF IInv

LEMMA ClientBeginsInv == ASSUME IInv, ClientBegins PROVE IInv'
<1>1. TypeOK /\ StartInv /\ TurnInv /\ BlockInv
  BY DEF IInv
<1>2. /\ pc["client"] = "begin" /\ left' = count["client"]
      /\ pc' \in {[pc EXCEPT !["client"] = "read"], [pc EXCEPT !["client"] = "done"]}
      /\ UNCHANGED <<wire, buf, left_size, message>> /\ UNCHANGED Options
  BY DEF ClientBegins, ClientLoop, Goes
<1>3. count["client"] \in Int
  BY <1>1, Numbers DEF Procs
<1>4. TypeOK'
  <2>1. pc' \in [Procs -> Labels]
    BY <1>1, <1>2 DEF TypeOK, Labels
  <2>2. left' \in Int /\ left' <= count'["client"]
    BY <1>2, <1>3 DEF Options
  <2> QED BY <2>1, <2>2, <1>1, <1>2 DEF TypeOK, Options
<1>5. pc'["client"] \in {"read", "done"} /\ pc'["server"] = pc["server"] /\ Connected' = Connected
  BY <1>1, <1>2 DEF TypeOK, Connected, Procs
<1>6. Replied = 0 /\ Replied' = 0
  BY <1>1, <1>2, <1>3 DEF StartInv, Replied, Options
<1>7. StartInv'
  <2>1. CASE Connected
    BY <2>1, <1>5, Running
  <2>2. CASE ~Connected
    <3>1. OnWire("server")' = OnWire("server") /\ OnWire("client")' = OnWire("client")
      BY <1>2 DEF OnWire
    <3> QED BY <2>2, <3>1, <1>1, <1>2, <1>5, <1>6 DEF StartInv, Connected
  <2> QED BY <2>1, <2>2
<1>8. /\ Blocking' = Blocking
      /\ \A r \in Procs : Own(r)' = Own(r) /\ Due(r)' = Due(r) /\ OnWire(r)' = OnWire(r)
  BY <1>2, <1>6 DEF Blocking, Own, Due, OnWire, Options
<1>9. TurnInv'
  <2>1. OnWire("server")' = OnWire("server") /\ OnWire("client")' = OnWire("client")
    BY <1>2 DEF OnWire
  <2>2. /\ (Sending => Sending') /\ (Passed => Passed') /\ (Over => Over')
        /\ ~Replying /\ ~Answered
    BY <2>1, <1>1, <1>2, <1>5, <1>6, Named DEF Sending, Passed, Replying, Answered, Over, Numeric
  <2>3. pc["server"] \notin {"norecv", "nosend"} \/ ~Blocking
    BY <1>1, <1>2 DEF TurnInv
  <2>4. left_size' = left_size /\ Size' = Size
    BY <1>2
  <2>5. SUFFICES ASSUME Blocking PROVE TurnInv'
    BY <1>8 DEF TurnInv
  <2>6. /\ \A p \in Procs : left_size[p] <= Size
        /\ pc["server"] # "mismatch" /\ (~Connected => left_size["client"] = Size)
        /\ pc["server"] = "write" => Sending
        /\ pc["server"] = "read" => Passed
        /\ pc["server"] \in {"evaluate", "done", "aborted"} => Over
    BY <2>2, <2>5, <1>1 DEF TurnInv
  <2> QED BY <2>2, <2>3, <2>4, <2>5, <2>6, <1>5 DEF TurnInv
<1>10. BlockInv'
  <2>1. SUFFICES ASSUME Blocking, NEW r \in Procs
        PROVE  /\ pc'[r] = "write" => \A i \in Index : buf[r][i] = Own(r)
               /\ \A j \in 1 .. OnWire(r) : wire[r][j] = Due(r)
               /\ pc'[r] = "read" => \A i \in Index : i < Size - left_size[r] => buf[r][i] = Due(r)
    BY <1>2, <1>8 DEF BlockInv
  <2>2. CASE r = "server"
    BY <2>1, <2>2, <1>1, <1>5 DEF BlockInv
  <2>3. CASE r = "client"
    <3>1. \A i \in Index : ~(i < Size - left_size["client"])
      BY <1>1, <1>2, SizeAssumption DEF StartInv, Index
    <3> QED BY <3>1, <2>1, <2>3, <1>1, <1>5 DEF BlockInv
  <2> QED BY <2>2, <2>3 DEF Procs
<1> QED BY <1>4, <1>7, <1>9, <1>10 DEF IInv

LEMMA NextInv == IInv /\ [Next]_vars => IInv'
<1> SUFFICES ASSUME IInv, [Next]_vars PROVE IInv'
  OBVIOUS
<1>1. CASE Next
  BY <1>1, SendInv, ReceiveInv, AgainInv, FaultsInv, ResetInv, StartsInv, ServerBeginsInv,
     EvaluatesInv, ClientBeginsInv DEF Next, ServerStep, ClientStep, Transfer, Procs
<1>2. CASE UNCHANGED vars
  BY <1>2 DEF vars, IInv, TypeOK, StartInv, TurnInv, BlockInv, OnWire, Connected, Replied, Blocking, Own,
     Due, Sending, Passed, Replying, Answered, Over
<1> QED BY <1>1, <1>2

(* The strengthened invariant: without EAGAIN one block is on its way, and  *)
(* its bytes are where the two transfers say they are.                      *)
THEOREM Invariant == Spec => []IInv
BY InitInv, NextInv, PTL DEF Spec

(* The state keeps its types, and no buffer of the kernel overflows.        *)
THEOREM TypeCorrect == Spec => []TypeOK
BY Invariant, PTL DEF IInv

(* The connection carries bytes in one direction at a time, and never more  *)
(* than the reader's transfer still wants.                                  *)
THEOREM OneBlockAtATime == Spec => []OneBlock
<1>1. IInv => OneBlock
  <2>1. SUFFICES ASSUME IInv, Blocking PROVE OneBlock
    BY DEF OneBlock, Blocking
  <2>2. TypeOK /\ StartInv /\ TurnInv /\ Numeric
    BY <2>1, Named DEF IInv
  <2>3. /\ OnWire("server") = 0 \/ OnWire("client") = 0
        /\ pc["server"] = "read" => OnWire("server") <= left_size["server"]
        /\ pc["client"] = "read" => OnWire("client") <= left_size["client"]
    <3>1. CASE ~Connected
      BY <3>1, <2>2 DEF StartInv, Numeric
    <3>2. CASE Connected
      <4>1. pc["server"] \in {"read", "write", "evaluate", "done", "aborted", "norecv", "nosend"}
        BY <3>2, <2>1, <2>2 DEF Connected, TurnInv, TypeOK, Labels, Procs
      <4>2. \/ (Sending /\ pc["server"] # "read") \/ Passed \/ Replying
            \/ Answered \/ (Over /\ pc["server"] # "read")
            \/ pc["client"] \in {"failed", "done"} /\ OnWire("server") = 0 /\ pc["server"] # "read"
        BY <4>1, <2>1, <2>2 DEF TurnInv
      <4> QED BY <4>2, <2>2 DEF Sending, Passed, Replying, Answered, Over, Numeric
    <3> QED BY <3>1, <3>2
  <2>4. /\ wire["server"] = <<>> <=> OnWire("server") = 0
        /\ wire["client"] = <<>> <=> OnWire("client") = 0
    BY <2>2, Numbers
  <2> QED BY <2>3, <2>4 DEF OneBlock, OnWire, Procs
<1> QED BY <1>1, Invariant, PTL

(* A read is left by its last call, or by one that fails.                   *)
LEMMA ReadEnds ==
  ASSUME TypeOK, [Next]_vars, NEW p \in Procs, pc[p] = "read", pc'[p] # "read"
  PROVE  \/ pc'[p] = "norecv"
         \/ Receive(p) /\ left_size[p] <= OnWire(p)
<1>1. CASE UNCHANGED vars
  BY <1>1 DEF vars
<1>2. ASSUME NEW r \in Procs, r # p, Transfer(r) \/ Fails(r) PROVE FALSE
  <2>1. \E l \in Labels : pc' = [pc EXCEPT ![r] = l] \/ pc' = pc
    BY <1>2 DEF Transfer, Send, Receive, Again, Faults, Reset, Fails, AfterWrite, AfterRead, ServerLoop, ClientLoop,
       Goes, Labels, Procs
  <2> QED BY <2>1, <1>2 DEF TypeOK
<1>3. CASE Send(p) \/ Again(p) \/ Faults(p) \/ Reset(p) \/ Fails(p)
  BY <1>3 DEF Send, Again, Faults, Reset, Fails, Goes, TypeOK
<1>4. CASE Receive(p)
  <2>1. PICK n \in 1 .. left_size[p] :
           /\ n <= OnWire(p)
           /\ n # left_size[p] => UNCHANGED pc
    BY <1>4 DEF Receive, OnWire
  <2> QED BY <2>1, <1>4
<1>5. CASE \/ ServerLaunch \/ ServerAccepts \/ ServerBegins \/ ServerEvaluates
            \/ ClientConnects \/ ClientBegins
  BY <1>5 DEF ServerLaunch, ServerAccepts, ServerBegins, ServerEvaluates, ClientConnects,
     ClientBegins, ServerLoop, ClientLoop, Goes, TypeOK, Procs
<1> QED BY <1>1, <1>2, <1>3, <1>4, <1>5 DEF Next, ServerStep, ClientStep, Transfer, Procs

(* A transfer that ends has brought the whole block that its round is due.  *)
THEOREM BlocksArriveWhole == Spec => WholeBlocks
<1>1. IInv /\ [Next]_vars
        => [\A p \in Procs :
              ~isNonblock["client"] /\ pc[p] = "read" /\ pc'[p] \notin {"read", "norecv"}
                => Block(Received(p, left_size[p])) = Uniform(Due(p))]_vars
  BY ReadEnds, Whole DEF IInv, Blocking
<1> QED BY <1>1, Invariant, PTL DEF Spec, WholeBlocks

(* One step of the processes is one step of the exchange or none.           *)
LEMMA SendMaps == ASSUME IInv, Blocking, NEW p \in Procs, Send(p) PROVE P!Next \/ UNCHANGED P!vars
<1>1. TypeOK /\ StartInv /\ TurnInv
  BY DEF IInv
<1>2. /\ pc[p] = "write" /\ UNCHANGED Options
      /\ (left_size' = [left_size EXCEPT ![p] = Size] /\ AfterWrite(p)) \/ UNCHANGED <<pc, buf, message, left>>
  BY DEF Send
<1>3. CASE UNCHANGED <<pc, buf, message, left>>
  BY <1>2, <1>3 DEF P!vars, Connected, Sent, Taken, Replied, Options
<1>4. CASE AfterWrite(p) /\ p = "server"
  <2>1. /\ pc' = [pc EXCEPT !["server"] = "read"] /\ UNCHANGED <<message, left>>
        /\ pc["server"] = "write"
    BY <1>2, <1>4 DEF AfterWrite, Goes
  <2>2. pc'["server"] = "read" /\ pc'["client"] = pc["client"] /\ Connected /\ Connected'
    BY <2>1, <1>1 DEF TypeOK, Connected, Procs
  <2>3. Replied = message /\ message \in Nat /\ Replied \in Nat
    BY <2>1, <1>1, Numbers DEF TurnInv, Sending
  <2>4. Replied' = Replied
    BY <2>1, <1>2 DEF Replied, Options
  <2> QED BY <2>1, <2>2, <2>3, <2>4 DEF P!Next, P!Send, P!Met, Sent, Taken
<1>5. CASE AfterWrite(p) /\ p = "client"
  <2>1. /\ pc' \in {[pc EXCEPT !["client"] = "read"], [pc EXCEPT !["client"] = "done"]}
        /\ message' = message /\ left' = left - 1 /\ pc["client"] = "write" /\ count' = count
    BY <1>2, <1>5 DEF AfterWrite, Goes, ClientLoop, Options
  <2>2. pc'["client"] \in {"read", "done"} /\ pc'["server"] = pc["server"] /\ Connected /\ Connected'
    <3>1. pc'["client"] \in {"read", "done"} /\ pc'["server"] = pc["server"]
      BY <2>1, <1>1 DEF TypeOK, Procs
    <3> QED BY <3>1, <2>1, ClientWrites DEF Connected
  <2>3. Replied' = Replied + 1 /\ message \in Nat /\ Replied \in Nat
    BY <2>1, <1>1, Named DEF Replied, Numeric
  <2> QED BY <2>1, <2>2, <2>3 DEF P!Next, P!Reply, P!Met, Sent, Taken
<1> QED BY <1>2, <1>3, <1>4, <1>5 DEF Procs

LEMMA ReceiveMaps ==
  ASSUME IInv, Blocking, NEW p \in Procs, Receive(p) PROVE P!Next \/ UNCHANGED P!vars
<1>1. TypeOK /\ StartInv /\ TurnInv
  BY DEF IInv
<1>2. /\ pc[p] = "read" /\ UNCHANGED Options
      /\ \/ left_size[p] <= OnWire(p) /\ AfterRead(p, Received(p, left_size[p]))
         \/ UNCHANGED <<pc, message, left>>
  BY DEF Receive, OnWire
<1>3. CASE UNCHANGED <<pc, message, left>>
  BY <1>2, <1>3 DEF P!vars, Connected, Sent, Taken, Replied, Options
<1>4. CASE /\ left_size[p] <= OnWire(p) /\ AfterRead(p, Received(p, left_size[p]))
           /\ p = "server"
  <2>1. /\ pc' \in {[pc EXCEPT !["server"] = "write"], [pc EXCEPT !["server"] = "evaluate"]}
        /\ message' = message + 1 /\ left' = left /\ pc["server"] = "read"
    BY <1>2, <1>4, Whole DEF AfterRead, ServerLoop, Goes
  <2>2. /\ pc'["server"] \in {"write", "evaluate"} /\ pc'["client"] = pc["client"]
        /\ Connected /\ Connected'
    BY <2>1, <1>1 DEF TypeOK, Connected, Procs
  <2>3. Replied = message + 1 /\ Replied' = Replied /\ message \in Nat /\ Replied \in Nat
    BY <2>1, <1>1, <1>2, <1>4, Numbers, ServerTurn DEF Answered, Replied, Options
  <2> QED BY <2>1, <2>2, <2>3 DEF P!Next, P!Get, P!Met, Sent, Taken
<1>5. CASE /\ left_size[p] <= OnWire(p) /\ AfterRead(p, Received(p, left_size[p]))
           /\ p = "client"
  <2>1. /\ pc' = [pc EXCEPT !["client"] = "write"] /\ UNCHANGED <<message, left>>
        /\ pc["client"] = "read"
    BY <1>2, <1>5, Whole DEF AfterRead, Goes
  <2>2. /\ pc'["client"] = "write" /\ pc'["server"] = "read" /\ pc["server"] = "read"
        /\ Connected /\ Connected' /\ Replied = message
    BY <2>1, <1>1, <1>5, ClientTurn DEF TypeOK, Connected, Procs, Passed
  <2>3. Replied' = Replied /\ message \in Nat /\ Replied \in Nat
    BY <2>1, <1>1, <1>2, Numbers DEF Replied, Options
  <2> QED BY <2>1, <2>2, <2>3 DEF P!Next, P!Take, P!Met, Sent, Taken
<1> QED BY <1>2, <1>3, <1>4, <1>5 DEF Procs

LEMMA BeginsMaps == ASSUME IInv, ServerBegins PROVE P!Next
<1>1. TypeOK /\ StartInv
  BY DEF IInv
<1>2. /\ pc["server"] = "begin" /\ message' = 0 /\ left' = left /\ UNCHANGED Options
      /\ pc' \in {[pc EXCEPT !["server"] = "write"], [pc EXCEPT !["server"] = "evaluate"]}
  BY DEF ServerBegins, ServerLoop, Goes
<1>3. /\ pc'["server"] \in {"write", "evaluate"} /\ pc'["client"] = pc["client"]
      /\ ~Connected /\ Connected' /\ message = 0 /\ Replied = 0 /\ Replied' = 0
      /\ pc["client"] \notin {"write", "nosend", "mismatch"}
  BY <1>1, <1>2 DEF TypeOK, StartInv, Connected, Replied, Options, Procs
<1> QED BY <1>2, <1>3 DEF P!Next, P!Meet, P!Met, Sent, Taken

(* The other steps are none of the exchange's.                              *)
Silent(p) == \/ ServerLaunch \/ ServerAccepts \/ ServerEvaluates \/ ClientConnects \/ ClientBegins
             \/ Again(p) \/ Faults(p) \/ Reset(p) \/ Fails(p)

LEMMA OtherMaps ==
  ASSUME IInv, NEW p \in Procs, Silent(p)
  PROVE  UNCHANGED P!vars
<1>1. TypeOK /\ StartInv /\ count["client"] \in Int
  BY Numbers DEF IInv, Procs
<1> USE DEF Silent, ServerLaunch, ServerAccepts, ServerEvaluates, ClientConnects, ClientBegins,
            ClientLoop, Again, Faults, Reset, Fails
<1>2. message' = message /\ UNCHANGED Options
  OBVIOUS
<1>3. Replied' = Replied
  BY <1>1 DEF Replied, Options, StartInv
<1>4. Connected' = Connected
  BY <1>1 DEF Goes, Connected, TypeOK, Procs
<1>5. /\ pc'["server"] \in {"read", "norecv", "mismatch"}
           <=> pc["server"] \in {"read", "norecv", "mismatch"}
      /\ pc'["client"] \in {"write", "nosend", "mismatch"}
           <=> pc["client"] \in {"write", "nosend", "mismatch"}
  BY <1>1 DEF Goes, TypeOK, Procs
<1> QED BY <1>2, <1>3, <1>4, <1>5 DEF P!vars, Sent, Taken

(* Without EAGAIN, blocks on a stream implement the exchange.               *)
THEOREM Implements == Spec => PingPongSpec
<1>1. Init => P!Init
  BY CountsAssumption DEF Init, P!Init, Connected, Sent, Taken, Replied, Procs
<1>2. ASSUME IInv, [Next]_vars PROVE [isNonblock["client"] \/ P!Next]_(P!vars)
  <2>1. CASE ~Blocking
    BY <2>1 DEF Blocking
  <2>2. CASE Blocking /\ Next
    BY <1>2, <2>2, SendMaps, ReceiveMaps, BeginsMaps, OtherMaps
    DEF Next, ServerStep, ClientStep, Transfer, Silent, Procs
  <2>3. CASE UNCHANGED vars
    BY <2>3 DEF vars, P!vars, Connected, Sent, Taken, Replied
  <2> QED BY <1>2, <2>1, <2>2, <2>3
<1> QED BY <1>1, <1>2, Invariant, PTL DEF Spec, PingPongSpec

(* What the server has of a reply it is reading, and how much of one may be *)
(* there before it is due: an EAGAIN in a write, which takes a full buffer  *)
(* smaller than a block, makes the client send a byte too many.             *)
Begun == IF pc["server"] = "read" THEN Size - left_size["server"] ELSE 0
Slack == IF Capacity < Size THEN Capacity ELSE 0

(* What is still to come to the client in its round.                        *)
Coming == OnWire("client") + (IF pc["server"] = "write" THEN left_size["server"] ELSE 0)

(* With EAGAIN or without, the client is due a message, replies, is due the *)
(* next while the server still reads, or still writes bytes too many.       *)
DueMessage ==
    /\ Replied = message
    /\ pc["client"] \in {"begin", "failed", "read", "done", "norecv", "mismatch"}
    /\ pc["server"] # "mismatch"
    /\ OnWire("server") + Begun <= Slack
    /\ Coming <= Size
    /\ pc["client"] \in {"begin", "read"} =>
         /\ pc["server"] \in {"write", "read", "evaluate", "done", "aborted"}
         /\ left_size["client"] >= Coming
         /\ pc["server"] \in {"evaluate", "done", "aborted"} => OnWire("client") = 0
DueReply ==
    /\ Replied = message /\ pc["client"] \in {"write", "nosend"}
    /\ pc["server"] \in {"read", "mismatch"} /\ OnWire("client") = 0
    /\ Capacity >= Size => OnWire("server") + Begun + left_size["client"] <= Size
Early ==
    /\ Replied = message + 1 /\ pc["client"] \in {"read", "done", "norecv"}
    /\ pc["server"] \in {"read", "mismatch"} /\ OnWire("client") = 0
    /\ pc["client"] = "read" => left_size["client"] >= Size
    /\ Capacity >= Size => OnWire("server") + Begun <= Size
Excess ==
    /\ Replied = message - 1 /\ pc["client"] \in {"write", "nosend"} /\ Capacity < Size
    /\ \/ pc["server"] \in {"write", "evaluate", "done", "aborted"}
       \/ pc["server"] = "nosend" /\ pc["client"] = "nosend"
    /\ pc["server"] = "write" => OnWire("client") + left_size["server"] = Size
    /\ pc["server"] \in {"evaluate", "done", "aborted"} => OnWire("client") = 0
RetryInv ==
    /\ left_size["server"] <= Size
    /\ pc["server"] \in {"evaluate", "done", "aborted"} => message >= count["server"]
    /\ pc["server"] \in {"write", "read"} => message < count["server"]
    /\ ~Connected => left_size["client"] >= Size
    /\ Connected => DueMessage \/ DueReply \/ Early \/ Excess

LEMMA SendRetries == ASSUME IInv, RetryInv, NEW p \in Procs, Send(p) PROVE RetryInv'
<1>1. TypeOK /\ StartInv /\ Numeric /\ count["server"] \in Int
  BY Named DEF IInv
<1>2. PICK n \in 1 .. left_size[p] :
         /\ OnWire(Peer(p))' = OnWire(Peer(p)) + n /\ OnWire(Peer(p))' <= Capacity
         /\ OnWire(p)' = OnWire(p)
         /\ left_size' = [left_size EXCEPT ![p] = Moved(p, n)]
         /\ IF n = left_size[p] THEN AfterWrite(p) ELSE UNCHANGED <<pc, buf, message, left>>
  BY <1>1, Sends
<1>3. left_size'[p] = Moved(p, n) /\ left_size'[Peer(p)] = left_size[Peer(p)]
  BY <1>1, <1>2, Moves
<1>4. pc[p] = "write" /\ UNCHANGED count
  BY DEF Send, Options
<1>5. Connected
  BY <1>1, <1>4 DEF StartInv, Connected, Procs
<1>6. CASE p = "server"
  <2>1. /\ n \in Nat \ {0} /\ n <= left_size["server"]
        /\ left_size'["server"] = IF n = left_size["server"] THEN Size ELSE left_size["server"] - n
        /\ left_size'["client"] = left_size["client"]
        /\ OnWire("server")' = OnWire("server") /\ OnWire("client")' = OnWire("client") + n
        /\ OnWire("client")' <= Capacity
    BY <1>1, <1>2, <1>3, <1>6 DEF Moved, Peer, Numeric
  <2>2. /\ UNCHANGED <<message, left>> /\ pc["server"] = "write" /\ pc'["client"] = pc["client"]
        /\ pc'["server"] = IF n = left_size["server"] THEN "read" ELSE "write"
    <3>1. CASE n = left_size["server"]
      BY <1>1, <1>2, <1>4, <1>6, <3>1 DEF AfterWrite, Goes, TypeOK, Procs
    <3>2. CASE n # left_size["server"]
      BY <1>2, <1>4, <1>6, <3>2
    <3> QED BY <3>1, <3>2
  <2>3. Replied' = Replied /\ Connected'
    BY <2>2, <1>4 DEF Replied, Connected
  <2>4. DueMessage => DueMessage'
    <3>1. SUFFICES ASSUME DueMessage PROVE DueMessage'
      OBVIOUS
    <3>2. Begun = 0 /\ Begun' = 0 /\ Slack' = Slack
      BY <2>1, <2>2, <1>1 DEF Begun, Slack, Numeric
    <3>3. Coming' = Coming
      BY <2>1, <2>2, <1>1 DEF Coming, Numeric
    <3> QED BY <3>1, <3>2, <3>3, <2>1, <2>2, <2>3 DEF DueMessage
  <2>5. Excess => Excess'
    BY <2>1, <2>2, <2>3, <1>1 DEF Excess, Numeric
  <2>6. left_size'["server"] <= Size
    BY <2>1, <1>1 DEF RetryInv, Numeric
  <2> QED BY <2>2, <2>3, <2>4, <2>5, <2>6, <1>4, <1>5 DEF RetryInv, DueReply, Early
<1>7. CASE p = "client"
  <2>1. /\ n \in Nat \ {0} /\ n <= left_size["client"]
        /\ left_size'["client"] = IF n = left_size["client"] THEN Size ELSE left_size["client"] - n
        /\ left_size'["server"] = left_size["server"]
        /\ OnWire("client")' = OnWire("client") /\ OnWire("server")' = OnWire("server") + n
        /\ OnWire("server")' <= Capacity
    BY <1>1, <1>2, <1>3, <1>7 DEF Moved, Peer, Numeric
  <2>2. /\ message' = message /\ pc["client"] = "write" /\ pc'["server"] = pc["server"]
        /\ n = left_size["client"] => left' = left - 1 /\ pc'["client"] \in {"read", "done"}
        /\ n # left_size["client"] => left' = left /\ pc'["client"] = "write"
    <3>1. CASE n = left_size["client"]
      BY <1>1, <1>2, <1>4, <1>7, <3>1 DEF AfterWrite, ClientLoop, Goes, TypeOK, Procs
    <3>2. CASE n # left_size["client"]
      BY <1>2, <1>4, <1>7, <3>2
    <3> QED BY <3>1, <3>2
  <2>3. /\ Replied' = IF n = left_size["client"] THEN Replied + 1 ELSE Replied
        /\ Connected' /\ Begun' = Begun /\ Slack' = Slack
    BY <2>1, <2>2, <1>1, <1>4, <1>5, Named DEF Replied, Connected, Begun, Slack
  <2>4. Begun \in Nat
    BY <1>1 DEF Begun, RetryInv, Numeric
  <2>5. DueReply => DueReply' \/ Early'
    <3>1. CASE n = left_size["client"]
      BY <2>1, <2>2, <2>3, <2>4, <1>1, <3>1 DEF DueReply, Early, Numeric
    <3>2. CASE n # left_size["client"]
      BY <2>1, <2>2, <2>3, <2>4, <1>1, <3>2 DEF DueReply, Numeric
    <3> QED BY <3>1, <3>2
  <2>6. Excess => Excess' \/ DueMessage'
    <3>1. SUFFICES ASSUME Excess PROVE Excess' \/ DueMessage'
      OBVIOUS
    <3>2. /\ Replied = message - 1 /\ Capacity < Size
          /\ pc["server"] \in {"write", "evaluate", "done", "aborted"}
          /\ pc["server"] = "write" => OnWire("client") + left_size["server"] = Size
          /\ pc["server"] \in {"evaluate", "done", "aborted"} => OnWire("client") = 0
      BY <3>1, <2>2 DEF Excess
    <3>3. CASE n = left_size["client"]
      <4>1. Replied' = message' /\ pc'["client"] \in {"read", "done"}
        BY <3>2, <3>3, <2>2, <2>3, <1>1 DEF Numeric
      <4>2. OnWire("server")' + Begun' <= Slack'
        BY <3>2, <2>1, <2>2, <2>3, <1>1 DEF Begun, Slack, Numeric
      <4>3. /\ Coming' <= Size /\ left_size'["client"] >= Coming'
            /\ pc'["server"] \in {"evaluate", "done", "aborted"} => OnWire("client")' = 0
        BY <3>2, <3>3, <2>1, <2>2, <1>1 DEF Coming, Numeric
      <4> QED BY <4>1, <4>2, <4>3, <3>2, <2>2 DEF DueMessage
    <3>4. CASE n # left_size["client"]
      BY <3>2, <3>4, <2>1, <2>2, <2>3 DEF Excess
    <3> QED BY <3>3, <3>4
  <2> QED BY <2>1, <2>2, <2>3, <2>5, <2>6, <1>4, <1>5 DEF RetryInv, DueMessage, Early
<1> QED BY <1>6, <1>7 DEF Procs

LEMMA ReceiveRetries == ASSUME IInv, RetryInv, NEW p \in Procs, Receive(p) PROVE RetryInv'
<1>1. TypeOK /\ StartInv /\ Numeric /\ count["server"] \in Int
  BY Named DEF IInv
<1>2. PICK n \in 1 .. left_size[p] :
         /\ n <= OnWire(p) /\ OnWire(p)' = OnWire(p) - n /\ OnWire(Peer(p))' = OnWire(Peer(p))
         /\ left_size' = [left_size EXCEPT ![p] = Moved(p, n)]
         /\ IF n = left_size[p] THEN AfterRead(p, Received(p, n))
            ELSE buf' = [buf EXCEPT ![p] = Received(p, n)] /\ UNCHANGED <<pc, message, left>>
  BY <1>1, Receives
<1>3. left_size'[p] = Moved(p, n) /\ left_size'[Peer(p)] = left_size[Peer(p)]
  BY <1>1, <1>2, Moves
<1>4. pc[p] = "read" /\ UNCHANGED count
  BY DEF Receive, Options
<1>5. Connected
  BY <1>1, <1>2 DEF StartInv, Numeric, Procs
<1>6. OnWire("server") <= Capacity
  BY <1>1 DEF TypeOK, Procs, OnWire
<1>7. CASE p = "server"
  <2>1. /\ n \in Nat \ {0} /\ n <= left_size["server"]
        /\ left_size'["server"] = IF n = left_size["server"] THEN Size ELSE left_size["server"] - n
        /\ left_size'["client"] = left_size["client"]
        /\ OnWire("client")' = OnWire("client") /\ OnWire("server")' = OnWire("server") - n
        /\ n <= OnWire("server")
    BY <1>1, <1>2, <1>3, <1>7 DEF Moved, Peer, Numeric
  <2>2. /\ left' = left /\ pc["server"] = "read" /\ pc'["client"] = pc["client"]
        /\ n # left_size["server"] => pc'["server"] = "read" /\ message' = message
        /\ n = left_size["server"] =>
             \/ pc'["server"] = "mismatch" /\ message' = message
             \/ pc'["server"] = "write" /\ message' = message + 1 /\ message' < count["server"]
             \/ pc'["server"] = "evaluate" /\ message' = message + 1 /\ message' >= count["server"]
    <3>1. CASE n = left_size["server"]
      <4>1. AfterRead("server", Received("server", n))
        BY <1>2, <1>7, <3>1
      <4>2. /\ left' = left
            /\ \/ pc' = [pc EXCEPT !["server"] = "mismatch"] /\ message' = message
               \/ /\ pc' = [pc EXCEPT !["server"] = "write"]
                  /\ message' = message + 1 /\ message' < count["server"]
               \/ /\ pc' = [pc EXCEPT !["server"] = "evaluate"]
                  /\ message' = message + 1 /\ ~(message' < count["server"])
        BY <4>1 DEF AfterRead, ServerLoop, Goes
      <4>3. message \in Nat /\ (~(message' < count["server"]) /\ message' = message + 1
                                  => message' >= count["server"])
        BY <1>1 DEF Numeric
      <4>4. /\ pc'["client"] = pc["client"]
            /\ \/ pc'["server"] = "mismatch" /\ message' = message
               \/ pc'["server"] = "write" /\ message' = message + 1 /\ message' < count["server"]
               \/ pc'["server"] = "evaluate" /\ message' = message + 1 /\ ~(message' < count["server"])
        BY <4>2, <1>1 DEF TypeOK, Procs
      <4> QED BY <1>4, <1>7, <3>1, <4>2, <4>3, <4>4
    <3>2. CASE n # left_size["server"]
      BY <1>2, <1>4, <1>7, <3>2
    <3> QED BY <3>1, <3>2
  <2>3. Replied' = Replied /\ Connected' /\ left_size["server"] <= Size /\ Slack' = Slack
    BY <2>2, <1>4 DEF Replied, Connected, RetryInv, Slack
  <2>4. /\ Begun = Size - left_size["server"]
        /\ pc'["server"] = "read" => Begun' = Size - left_size'["server"]
        /\ pc'["server"] # "read" => Begun' = 0
    BY <2>2 DEF Begun
  <2>5. DueMessage => DueMessage'
    <3>1. SUFFICES ASSUME DueMessage PROVE DueMessage'
      OBVIOUS
    <3>2. n # left_size["server"]
      BY <3>1, <2>1, <2>3, <2>4, <1>1 DEF DueMessage, Slack, Numeric
    <3>3. OnWire("server")' + Begun' = OnWire("server") + Begun
      BY <3>2, <2>1, <2>2, <2>4, <1>1 DEF Numeric
    <3>4. Coming' = Coming
      BY <3>2, <2>1, <2>2, <1>1 DEF Coming, Numeric
    <3> QED BY <3>1, <3>2, <3>3, <3>4, <2>1, <2>2, <2>3 DEF DueMessage
  <2>6. DueReply => DueReply' \/ Excess'
    <3>1. CASE pc'["server"] \in {"write", "evaluate"}
      <4>1. n = left_size["server"] /\ message' = message + 1
        BY <2>2, <3>1
      <4>2. DueReply => Capacity < Size
        BY <2>1, <2>3, <2>4, <4>1, <1>1 DEF DueReply, Numeric
      <4> QED BY <2>1, <2>2, <2>3, <1>1, <3>1, <4>1, <4>2 DEF DueReply, Excess, Numeric
    <3>2. CASE pc'["server"] \in {"mismatch", "read"}
      BY <2>1, <2>2, <2>3, <2>4, <1>1, <3>2 DEF DueReply, Numeric
    <3> QED BY <2>2, <3>1, <3>2
  <2>7. Early => Early' \/ DueMessage'
    <3>1. CASE pc'["server"] \in {"write", "evaluate"}
      <4>1. n = left_size["server"] /\ message' = message + 1
        BY <2>2, <3>1
      <4>2. Early => OnWire("server")' + Begun' <= Slack'
        BY <2>1, <2>3, <2>4, <1>1, <3>1, <4>1, <1>6 DEF Early, Slack, Numeric
      <4>3. Early => Coming' <= Size
        BY <2>1, <3>1, <4>1, <1>1 DEF Early, Coming, Numeric
      <4> QED BY <2>1, <2>2, <2>3, <1>1, <3>1, <4>1, <4>2, <4>3 DEF Early, DueMessage, Coming, Numeric
    <3>2. CASE pc'["server"] \in {"mismatch", "read"}
      BY <2>1, <2>2, <2>3, <2>4, <1>1, <3>2 DEF Early, Numeric
    <3> QED BY <2>2, <3>1, <3>2
  <2>8. left_size'["server"] <= Size
    BY <2>1, <2>3, <1>1 DEF Numeric
  <2>9. ~Excess
    BY <2>2 DEF Excess
  <2>10. /\ pc'["server"] \in {"evaluate", "done", "aborted"} => message' >= count'["server"]
         /\ pc'["server"] \in {"write", "read"} => message' < count'["server"]
    BY <2>2, <1>4 DEF RetryInv
  <2> QED BY <2>3, <2>5, <2>6, <2>7, <2>8, <2>9, <2>10, <1>5 DEF RetryInv
<1>8. CASE p = "client"
  <2>1. /\ n \in Nat \ {0} /\ n <= left_size["client"]
        /\ left_size'["client"] = IF n = left_size["client"] THEN Size ELSE left_size["client"] - n
        /\ left_size'["server"] = left_size["server"]
        /\ OnWire("server")' = OnWire("server") /\ OnWire("client")' = OnWire("client") - n
        /\ n <= OnWire("client")
    BY <1>1, <1>2, <1>3, <1>8 DEF Moved, Peer, Numeric
  <2>2. /\ UNCHANGED <<message, left>> /\ pc["client"] = "read" /\ pc'["server"] = pc["server"]
        /\ n # left_size["client"] => pc'["client"] = "read"
        /\ n = left_size["client"] => pc'["client"] \in {"write", "mismatch"}
    <3>1. CASE n = left_size["client"]
      BY <1>1, <1>2, <1>4, <1>8, <3>1 DEF AfterRead, Goes, TypeOK, Procs
    <3>2. CASE n # left_size["client"]
      BY <1>2, <1>4, <1>8, <3>2
    <3> QED BY <3>1, <3>2
  <2>3. Replied' = Replied /\ Connected' /\ Begun' = Begun /\ Slack' = Slack
    BY <2>1, <2>2, <1>4, <1>5 DEF Replied, Connected, Begun, Slack
  <2>4. Begun \in Nat
    BY <1>1 DEF Begun, RetryInv, Numeric
  <2>5. DueMessage => DueMessage' \/ DueReply'
    <3>1. SUFFICES ASSUME DueMessage PROVE DueMessage' \/ DueReply'
      OBVIOUS
    <3>2. n = left_size["client"] =>
            pc["server"] = "read" /\ OnWire("client")' = 0
      BY <3>1, <2>1, <2>2, <1>1 DEF DueMessage, Coming, Numeric
    <3>3. CASE pc'["client"] = "write"
      <4>1. Capacity >= Size => OnWire("server")' + Begun' + left_size'["client"] <= Size
        BY <3>1, <3>3, <2>1, <2>2, <2>3, <2>4, <1>1 DEF DueMessage, Slack, Numeric
      <4> QED BY <3>1, <3>2, <3>3, <4>1, <2>2, <2>3 DEF DueMessage, DueReply
    <3>4. CASE pc'["client"] = "mismatch"
      <4>1. Coming' <= Size
        BY <3>1, <2>1, <2>2, <1>1 DEF DueMessage, Coming, Numeric
      <4> QED BY <3>1, <3>4, <4>1, <2>1, <2>2, <2>3 DEF DueMessage
    <3>5. CASE pc'["client"] = "read"
      <4>1. n # left_size["client"]
        BY <3>5, <2>2
      <4>2. /\ Coming' <= Size /\ left_size'["client"] >= Coming'
            /\ pc'["server"] \in {"evaluate", "done", "aborted"} => OnWire("client")' = 0
        BY <3>1, <4>1, <2>1, <2>2, <1>1 DEF DueMessage, Coming, Numeric
      <4> QED BY <3>1, <3>5, <4>2, <2>1, <2>2, <2>3 DEF DueMessage
    <3> QED BY <2>2, <3>3, <3>4, <3>5
  <2>6. ~Early
    BY <2>1, <2>2, <1>1 DEF Early, Numeric
  <2>7. ~DueReply /\ ~Excess
    BY <2>2 DEF DueReply, Excess
  <2> QED BY <2>1, <2>2, <2>3, <2>5, <2>6, <2>7, <1>4, <1>5 DEF RetryInv
<1> QED BY <1>7, <1>8 DEF Procs

LEMMA AgainRetries == ASSUME IInv, RetryInv, NEW p \in Procs, Again(p) PROVE RetryInv'
<1>1. TypeOK
  BY DEF IInv
<1>2. Numeric /\ count["server"] \in Int
  BY <1>1, Named
<1>3. /\ p = "client" /\ UNCHANGED <<pc, message, left, count, OnWire("server"), OnWire("client")>>
      /\ \/ pc["client"] = "read"
         \/ pc["client"] = "write" /\ OnWire("server") = Capacity
      /\ left_size'["client"] = left_size["client"] + 1 /\ left_size'["server"] = left_size["server"]
  BY <1>1 DEF Again, DataNonblock, Options, Peer, OnWire, TypeOK, Procs
<1>4. Replied' = Replied /\ Connected' = Connected /\ Begun' = Begun
  BY <1>3 DEF Replied, Connected, Begun
<1>5. Begun >= 0 /\ Begun \in Int
  BY <1>2 DEF RetryInv, Begun, Numeric
<1>6. (DueMessage => DueMessage') /\ (Early => Early') /\ (Excess => Excess')
  <2>1. Coming' = Coming /\ Coming \in Nat
    BY <1>2, <1>3 DEF Coming, Numeric
  <2> QED BY <2>1, <1>2, <1>3, <1>4 DEF DueMessage, Early, Excess, Numeric
<1>7. DueReply => DueReply'
  BY <1>2, <1>3, <1>4, <1>5 DEF DueReply, Numeric
<1> QED BY <1>2, <1>3, <1>4, <1>6, <1>7 DEF RetryInv, Numeric

(* A call that fails leaves the numbers alone.                              *)
LEMMA FailedCallRetries ==
  ASSUME IInv, RetryInv, NEW p \in Procs, Faults(p) \/ Reset(p) PROVE RetryInv'
<1>1. TypeOK /\ StartInv
  BY DEF IInv
<1>2. Numeric /\ count["server"] \in Int
  BY <1>1, Named
<1>3. /\ UNCHANGED <<left_size, message, left, count, OnWire("server"), OnWire("client")>>
      /\ pc'[Peer(p)] = pc[Peer(p)]
      /\ \/ pc[p] = "read" /\ pc'[p] = "norecv"
         \/ pc[p] = "write" /\ pc'[p] = "nosend"
  BY <1>1 DEF Faults, Reset, Goes, Options, Peer, OnWire, TypeOK, Procs
<1>4. Connected' = Connected /\ Replied' = Replied /\ Slack' = Slack
  BY <1>3 DEF Connected, Replied, Slack, Peer, Procs
<1>5. CASE p = "server"
  <2>1. /\ Closed("client") /\ (OnWire("client") # 0 \/ pc["client"] = "exited") /\ Connected
        /\ pc["server"] \in {"read", "write"} /\ pc'["server"] \in {"norecv", "nosend"}
        /\ pc["server"] = "write" => pc'["server"] = "nosend"
        /\ pc'["client"] = pc["client"]
    <3>1. ~Faults("server")
      BY <1>2, SizeAssumption DEF Faults, InReach, RetryInv, Numeric
    <3> QED BY <3>1, <1>1, <1>3, <1>5, Numbers DEF Reset, Connected, Peer, Procs
  <2>2. DueMessage => DueMessage'
    <3>1. /\ Begun' = 0 /\ Begun \in Nat /\ Coming' <= Coming /\ Coming \in Nat /\ Coming' \in Nat
      BY <2>1, <1>2, <1>3 DEF Begun, Coming, RetryInv, Numeric
    <3> QED BY <3>1, <2>1, <1>2, <1>3, <1>4 DEF DueMessage, Slack, Numeric, Closed
  <2>3. Excess => Excess'
    BY <2>1, <1>2, <1>3, <1>4 DEF Excess, Numeric, Closed
  <2> QED BY <2>1, <2>2, <2>3, <1>1, <1>3, <1>4 DEF RetryInv, DueReply, Early, StartInv
<1>6. CASE p = "client"
  <2>1. /\ Begun' = Begun /\ Coming' = Coming /\ pc'["server"] = pc["server"]
        /\ \/ pc["client"] = "read" /\ pc'["client"] = "norecv"
           \/ pc["client"] = "write" /\ pc'["client"] = "nosend"
    BY <1>3, <1>6 DEF Begun, Coming, Numeric, Peer
  <2>2. DueMessage => DueMessage'
    BY <2>1, <1>2, <1>3, <1>4 DEF DueMessage, Numeric
  <2>3. DueReply => DueReply'
    BY <2>1, <1>2, <1>3, <1>4 DEF DueReply, Numeric
  <2>4. Early => Early'
    BY <2>1, <1>2, <1>3, <1>4 DEF Early, Numeric
  <2>5. Excess => Excess'
    BY <2>1, <1>2, <1>3, <1>4 DEF Excess, Numeric
  <2> QED BY <2>1, <2>2, <2>3, <2>4, <2>5, <1>3, <1>4 DEF RetryInv
<1> QED BY <1>5, <1>6 DEF Procs

LEMMA ServerBeginsRetries == ASSUME IInv, RetryInv, ServerBegins PROVE RetryInv'
<1>1. TypeOK /\ StartInv /\ Numeric /\ count["server"] \in Int
  BY Named DEF IInv
<1>2. /\ pc["server"] = "begin" /\ message' = 0
      /\ UNCHANGED <<left_size, left, count, OnWire("server"), OnWire("client")>>
      /\ pc' = [pc EXCEPT !["server"] = IF 0 < count["server"] THEN "write" ELSE "evaluate"]
  BY DEF ServerBegins, ServerLoop, Goes, Options, OnWire
<1>3. /\ ~Connected /\ Connected' /\ Replied' = Replied /\ pc'["client"] = pc["client"]
      /\ pc'["server"] = IF 0 < count["server"] THEN "write" ELSE "evaluate"
  BY <1>1, <1>2 DEF Connected, Replied, TypeOK, Procs
<1>4. /\ message = 0 /\ Replied = 0 /\ pc["client"] \in {"begin", "failed", "read", "done"}
      /\ OnWire("server") = 0 /\ OnWire("client") = 0 /\ left_size["server"] = Size
  BY <1>1, <1>2, <1>3 DEF StartInv, TypeOK, Labels, Procs
<1>5. left_size["client"] >= Size
  BY <1>3 DEF RetryInv
<1>6. DueMessage'
  BY <1>1, <1>2, <1>3, <1>4, <1>5 DEF DueMessage, Begun, Slack, Coming, Numeric
<1> QED BY <1>1, <1>2, <1>3, <1>4, <1>5, <1>6 DEF RetryInv, Numeric

LEMMA EvaluatesRetries == ASSUME IInv, RetryInv, ServerEvaluates PROVE RetryInv'
<1>1. TypeOK
  BY DEF IInv
<1>2. /\ pc["server"] = "evaluate" /\ pc'["server"] \in {"done", "aborted"}
      /\ pc'["client"] = pc["client"]
      /\ UNCHANGED <<left_size, message, left, count, OnWire("server"), OnWire("client")>>
  BY <1>1 DEF ServerEvaluates, Goes, Options, OnWire, TypeOK, Procs
<1>3. Connected /\ Connected' /\ Replied' = Replied /\ Begun' = Begun /\ Coming' = Coming
  BY <1>2 DEF Connected, Replied, Begun, Coming
<1>4. (DueMessage => DueMessage') /\ (Excess => Excess')
  BY <1>2, <1>3 DEF DueMessage, Excess, Numeric
<1> QED BY <1>2, <1>3, <1>4 DEF RetryInv, DueReply, Early

(* The steps before the connection is made.                                 *)
LEMMA StartRetries ==
  ASSUME IInv, RetryInv, NEW p \in Procs,
         \/ ServerLaunch \/ ServerAccepts \/ ClientConnects \/ Fails(p) \/ ClientBegins
  PROVE  RetryInv'
<1>1. TypeOK /\ StartInv /\ Numeric
  BY Named DEF IInv
<1>2. UNCHANGED <<left_size, message, count, wire>>
  BY DEF ServerLaunch, ServerAccepts, ClientConnects, ClientBegins, Fails, Options
<1>3. \/ ~Connected /\ pc'["server"] \in {pc["server"], "listen", "begin", "exited", "failed"}
      \/ /\ pc'["server"] = pc["server"] /\ Connected /\ pc["client"] = "begin"
         /\ pc'["client"] \in {"read", "done", "failed"}
  BY <1>1 DEF ServerLaunch, ServerAccepts, ClientConnects, ClientBegins, ClientLoop, Fails, Goes,
     TypeOK, StartInv, Connected, Procs
<1>4. CASE ~Connected /\ pc'["server"] \in {pc["server"], "listen", "begin", "exited", "failed"}
  BY <1>2, <1>4 DEF RetryInv, Connected
<1>5. CASE /\ pc'["server"] = pc["server"] /\ Connected /\ pc["client"] = "begin"
           /\ pc'["client"] \in {"read", "done", "failed"}
  <2>1. DueMessage
    BY <1>5 DEF RetryInv, DueReply, Early, Excess
  <2>2. Replied = 0 /\ Replied' = 0
    <3>1. count["client"] \in Int
      BY <1>1, Named
    <3> QED BY <3>1, <1>1, <1>2, <1>5
        DEF StartInv, Replied, ClientBegins, ClientLoop, Fails, ServerLaunch, ServerAccepts, ClientConnects
  <2>3. Begun' = Begun /\ Coming' = Coming /\ OnWire("server")' = OnWire("server")
        /\ OnWire("client")' = OnWire("client") /\ Connected' /\ Slack' = Slack
    BY <1>2, <1>5 DEF Begun, Coming, OnWire, Connected, Slack
  <2>4. DueMessage'
    BY <2>1, <2>2, <2>3, <1>2, <1>5 DEF DueMessage
  <2> QED BY <2>3, <2>4, <1>2, <1>5 DEF RetryInv
<1> QED BY <1>3, <1>4, <1>5

LEMMA RetriesInv == IInv /\ RetryInv /\ [Next]_vars => RetryInv'
<1> SUFFICES ASSUME IInv, RetryInv, [Next]_vars PROVE RetryInv'
  OBVIOUS
<1>1. CASE Next
  BY <1>1, SendRetries, ReceiveRetries, AgainRetries, FailedCallRetries, ServerBeginsRetries,
     EvaluatesRetries, StartRetries DEF Next, ServerStep, ClientStep, Transfer, Procs
<1>2. CASE UNCHANGED vars
  BY <1>2 DEF vars, RetryInv, DueMessage, DueReply, Early, Excess, Begun, Coming, Connected, Replied,
     OnWire
<1> QED BY <1>1, <1>2

LEMMA InitRetries == Init => RetryInv
BY SizeAssumption DEF Init, RetryInv, Connected, Procs

(* With EAGAIN, a read never asks for less than what is still to come to it.*)
THEOREM Retries == Spec => [](IInv /\ RetryInv)
BY InitInv, NextInv, InitRetries, RetriesInv, PTL DEF Spec

(* One EAGAIN is enough: a read that waits for more than its block has is   *)
(* never done with it, nor is the server with its reply.  The client reads  *)
(* on, and writes before its buffer, or it exits because a call failed.     *)
Stuck ==
    /\ pc["client"] \in {"read", "norecv"} /\ Connected
    /\ Replied = message /\ message < count["server"]
    /\ pc["client"] = "read" => left_size["client"] > Coming

LEMMA OverdrawnStuck == Overdrawn => Stuck /\ pc["client"] = "read"
BY DEF Overdrawn, Stuck, Coming, OnWire

LEMMA StaysStuck == ASSUME IInv, RetryInv, Stuck, [Next]_vars PROVE Stuck'
<1>1. TypeOK /\ StartInv
  BY DEF IInv
<1>2. Numeric /\ count["server"] \in Int
  BY <1>1, Named
<1>3. /\ pc["client"] \in {"read", "norecv"} /\ Connected
      /\ Replied = message /\ message < count["server"]
      /\ pc["client"] = "read" => left_size["client"] > Coming
  BY DEF Stuck
<1>4. /\ DueMessage /\ pc["server"] \notin {"evaluate", "done", "aborted", "mismatch"}
      /\ pc["client"] = "read" => pc["server"] \in {"write", "read"}
      /\ left_size["server"] <= Size
  <2>1. DueMessage
    BY <1>2, <1>3 DEF RetryInv, DueReply, Early, Excess, Numeric
  <2> QED BY <2>1, <1>2, <1>3 DEF RetryInv, DueMessage, Numeric
<1>5. CASE Send("server")
  <2>1. PICK n \in 1 .. left_size["server"] :
           /\ OnWire("client")' = OnWire("client") + n
           /\ left_size' = [left_size EXCEPT !["server"] = Moved("server", n)]
           /\ IF n = left_size["server"] THEN AfterWrite("server")
              ELSE UNCHANGED <<pc, buf, message, left>>
    BY <1>1, <1>5, Sends DEF Peer, Procs
  <2>2. left_size'["server"] = Moved("server", n) /\ left_size'["client"] = left_size["client"]
    BY <1>1, <2>1, Moves DEF Peer, Procs
  <2>3. pc["server"] = "write" /\ UNCHANGED count
    BY <1>5 DEF Send, Options
  <2>4. /\ pc'["server"] = IF n = left_size["server"] THEN "read" ELSE "write"
        /\ pc'["client"] = pc["client"] /\ UNCHANGED <<message, left>>
    <3>1. CASE n = left_size["server"]
      BY <3>1, <2>1, <1>1 DEF AfterWrite, Goes, TypeOK, Procs
    <3>2. CASE n # left_size["server"]
      BY <3>2, <2>1, <2>3
    <3> QED BY <3>1, <3>2
  <2>5. Coming' = Coming
    BY <2>1, <2>2, <2>3, <2>4, <1>2 DEF Coming, Moved, Numeric
  <2> QED BY <2>2, <2>3, <2>4, <2>5, <1>3 DEF Stuck, Connected, Replied
<1>6. CASE Receive("server")
  <2>1. PICK n \in 1 .. left_size["server"] :
           /\ n <= OnWire("server") /\ OnWire("client")' = OnWire("client")
           /\ left_size' = [left_size EXCEPT !["server"] = Moved("server", n)]
           /\ IF n = left_size["server"] THEN AfterRead("server", Received("server", n))
              ELSE /\ buf' = [buf EXCEPT !["server"] = Received("server", n)]
                   /\ UNCHANGED <<pc, message, left>>
    BY <1>1, <1>6, Receives DEF Peer, Procs
  <2>2. left_size'["client"] = left_size["client"]
    BY <1>1, <2>1, Moves DEF Peer, Procs
  <2>3. pc["server"] = "read" /\ UNCHANGED count
    BY <1>6 DEF Receive, Options
  <2>4. n # left_size["server"]
    BY <2>1, <2>3, <1>2, <1>4 DEF DueMessage, Begun, Slack, Numeric
  <2>5. UNCHANGED <<pc, message, left>>
    BY <2>1, <2>4
  <2>6. Coming' = Coming
    BY <2>1, <2>3, <2>5 DEF Coming
  <2> QED BY <2>2, <2>3, <2>5, <2>6, <1>3 DEF Stuck, Connected, Replied
<1>7. CASE Receive("client")
  <2>1. PICK n \in 1 .. left_size["client"] :
           /\ n <= OnWire("client") /\ OnWire("client")' = OnWire("client") - n
           /\ left_size' = [left_size EXCEPT !["client"] = Moved("client", n)]
           /\ IF n = left_size["client"] THEN AfterRead("client", Received("client", n))
              ELSE /\ buf' = [buf EXCEPT !["client"] = Received("client", n)]
                   /\ UNCHANGED <<pc, message, left>>
    BY <1>1, <1>7, Receives DEF Procs
  <2>2. /\ left_size'["client"] = Moved("client", n) /\ left_size'["server"] = left_size["server"]
        /\ UNCHANGED count /\ pc["client"] = "read"
    BY <1>1, <1>7, <2>1, Moves DEF Peer, Procs, Receive, Options
  <2>3. left_size["client"] > OnWire("client")
    BY <2>2, <1>2, <1>3 DEF Coming, Numeric
  <2>4. n # left_size["client"]
    BY <2>1, <2>3, <1>2 DEF Numeric
  <2>5. UNCHANGED <<pc, message, left>>
    BY <2>1, <2>4
  <2>6. left_size'["client"] > Coming'
    BY <2>1, <2>2, <2>4, <2>5, <1>2, <1>3 DEF Moved, Coming, Numeric
  <2> QED BY <2>2, <2>5, <2>6, <1>3 DEF Stuck, Connected, Replied
<1>8. CASE Again("client")
  <2>1. /\ UNCHANGED <<pc, wire, message, left, count>>
        /\ left_size'["client"] = left_size["client"] + 1 /\ left_size'["server"] = left_size["server"]
    BY <1>1, <1>8 DEF Again, Options, TypeOK, Procs
  <2>2. Coming' = Coming /\ Coming \in Nat
    BY <2>1, <1>2 DEF Coming, OnWire, Numeric
  <2>3. left_size["client"] > Coming => left_size'["client"] > Coming'
    BY <2>1, <2>2, <1>2 DEF Numeric
  <2> QED BY <2>1, <2>3, <1>3 DEF Stuck, Connected, Replied
<1>9. CASE Faults("client") \/ Reset("client")
  <2>1. /\ pc'["client"] = "norecv" /\ pc'["server"] = pc["server"]
        /\ UNCHANGED <<message, left, count>>
    BY <1>1, <1>3, <1>9 DEF Faults, Reset, Goes, Options, TypeOK, Procs
  <2> QED BY <2>1, <1>3 DEF Stuck, Connected, Replied
<1>10. CASE Reset("server")
  <2>1. /\ pc["client"] = "norecv" /\ pc'["client"] = "norecv"
        /\ pc'["server"] \in {"norecv", "nosend"} /\ UNCHANGED <<message, left, count>>
    BY <1>1, <1>3, <1>10 DEF Reset, Closed, Peer, Goes, Options, TypeOK, Procs
  <2> QED BY <2>1, <1>3 DEF Stuck, Connected, Replied
<1>11. /\ ~Send("client") /\ ~Again("server") /\ ~Faults("server")
       /\ ~ServerLaunch /\ ~ServerAccepts /\ ~ServerBegins /\ ~ServerEvaluates
       /\ ~ClientConnects /\ ~ClientBegins /\ \A p \in Procs : ~Fails(p)
  <2>1. ~Faults("server")
    BY <1>2, <1>4, SizeAssumption DEF Faults, InReach, Numeric
  <2>2. pc["server"] \notin {"off", "listen", "begin", "evaluate"}
    BY <1>3, <1>4 DEF Connected
  <2> QED BY <2>1, <2>2, <1>3 DEF Send, Again, DataNonblock, ServerLaunch, ServerAccepts,
          ServerBegins, ServerEvaluates, ClientConnects, ClientBegins, Fails, Procs
<1>12. CASE UNCHANGED vars
  BY <1>3, <1>12 DEF vars, Stuck, Connected, Replied, Coming, OnWire
<1> QED BY <1>5, <1>6, <1>7, <1>8, <1>9, <1>10, <1>11, <1>12 DEF Next, ServerStep, ClientStep, Transfer, Procs

(* Only a read that waits for too much reaches the heap before the buffer.  *)
LEMMA OverrunStuck ==
  ASSUME IInv, RetryInv, Overrun => Stuck, [Next]_vars PROVE Overrun' => Stuck'
<1>1. TypeOK /\ StartInv /\ Numeric /\ count["server"] \in Int
  BY Named DEF IInv
<1>2. CASE Stuck
  BY <1>2, StaysStuck
<1>3. CASE ~Stuck
  <2>1. \A i \in Heap : buf["client"][i] = Alien
    BY <1>3 DEF Overrun
  <2>2. SUFFICES ASSUME NEW i \in Heap PROVE buf'["client"][i] = buf["client"][i]
    BY <2>1, <2>2 DEF Overrun
  <2>3. i \in Memory /\ i \notin Index /\ i \in Int /\ i < 0
    BY SizeAssumption DEF Heap, Memory, Index
  <2>4. ASSUME NEW p \in Procs, NEW w, Loads(p, w) PROVE buf'["client"][i] = buf["client"][i]
    BY <2>3, <2>4, <1>1 DEF Loads, TypeOK, Procs
  <2>5. CASE Receive("client")
    <3>1. pc["client"] = "read"
      BY <2>5 DEF Receive
    <3>2. PICK n \in 1 .. left_size["client"] :
             /\ n <= OnWire("client")
             /\ IF n = left_size["client"] THEN AfterRead("client", Received("client", n))
                ELSE buf' = [buf EXCEPT !["client"] = Received("client", n)]
      BY <2>5, <1>1, Receives DEF Procs
    <3>3. left_size["client"] <= Size
      <4>1. Connected
        BY <3>2, <1>1 DEF StartInv, Numeric
      <4>2. DueMessage
        BY <3>1, <3>2, <4>1, <1>1 DEF RetryInv, DueReply, Early, Excess, Numeric
      <4>3. pc["server"] \in {"write", "read"} /\ message < count["server"] /\ Replied = message
        BY <3>1, <3>2, <4>2, <1>1 DEF DueMessage, RetryInv, Numeric
      <4>4. ~(left_size["client"] > Coming)
        BY <3>1, <4>1, <4>3, <1>3 DEF Stuck
      <4>5. Coming \in Nat /\ Coming <= Size
        BY <4>2, <1>1 DEF DueMessage, Coming, Numeric
      <4> QED BY <4>4, <4>5, <1>1 DEF Numeric
    <3>4. Received("client", n)[i] = buf["client"][i]
      <4>1. ~(i - (Size - left_size["client"]) \in 0 .. n - 1)
        BY <3>3, <2>3, <1>1 DEF Numeric
      <4> QED BY <4>1, <2>3 DEF Received
    <3>5. CASE buf' = [buf EXCEPT !["client"] = Received("client", n)]
      BY <3>4, <3>5, <1>1 DEF TypeOK, Procs
    <3>6. CASE Loads("client", CTS(Replied + 1))
      BY <3>6, <2>4 DEF Procs
    <3> QED BY <3>2, <3>5, <3>6 DEF AfterRead
  <2>6. CASE Receive("server")
    <3>1. PICK n \in 1 .. left_size["server"] :
             \/ AfterRead("server", Received("server", n))
             \/ buf' = [buf EXCEPT !["server"] = Received("server", n)]
      BY <2>6, <1>1, Receives DEF Procs
    <3>2. \/ buf' = [buf EXCEPT !["server"] = Received("server", n)]
          \/ \E w : Loads("server", w)
          \/ UNCHANGED buf
      BY <3>1 DEF AfterRead, ServerLoop
    <3> QED BY <3>2, <2>4, <1>1 DEF TypeOK, Procs
  <2>7. CASE ServerBegins
    <3>1. (\E w : Loads("server", w)) \/ UNCHANGED buf
      BY <2>7 DEF ServerBegins, ServerLoop
    <3> QED BY <3>1, <2>4 DEF Procs
  <2>8. ASSUME NEW p \in Procs,
               \/ Send(p) \/ Again(p) \/ Faults(p) \/ Reset(p) \/ Fails(p) \/ UNCHANGED vars
               \/ ServerLaunch \/ ServerAccepts \/ ServerEvaluates \/ ClientConnects \/ ClientBegins
        PROVE  UNCHANGED buf
    BY <2>8 DEF Send, AfterWrite, Again, Faults, Reset, Fails, ServerLaunch, ServerAccepts,
       ServerEvaluates, ClientConnects, ClientBegins, vars
  <2> QED BY <2>5, <2>6, <2>7, <2>8 DEF Next, ServerStep, ClientStep, Transfer, Procs
<1> QED BY <1>2, <1>3

(* A client that asks for more than ever comes, or has written to the heap  *)
(* before its buffer, never completes the round, and never gets to free().  *)
THEOREM Overdraws == Spec => OverdrawnForGood
<1>1. Init => (Overrun => Stuck)
  BY SizeAssumption DEF Init, Overrun, Heap, Memory, Procs
<1>2. IInv /\ RetryInv /\ (Overrun => Stuck) /\ [Next]_vars => (Overrun => Stuck)'
  BY OverrunStuck
<1>3. IInv /\ RetryInv /\ Stuck /\ [Next]_vars => Stuck'
  BY StaysStuck
<1>4. Stuck => RoundLost
  BY DEF Stuck, RoundLost
<1>5. Overdrawn => Stuck
  BY OverdrawnStuck
<1> QED BY <1>1, <1>2, <1>3, <1>4, <1>5, Retries, PTL DEF Spec, OverdrawnForGood
---------------------------------------------------------------------------
(* The exchange that these blocks implement, by itself.                     *)
VARIABLES skew, sent, taken, replied, got
A == INSTANCE PingPong

(* The alternation is inductive once it is known that nothing was sent      *)
(* before the meeting.                                                      *)
Quiet == ~A!Met => sent = 0 /\ taken = 0 /\ replied = 0 /\ got = 0
Exchange == A!TypeOK /\ Quiet /\ A!Alternation

LEMMA InitExchange == A!Init => Exchange
BY DEF A!Init, Exchange, A!TypeOK, Quiet, A!Alternation, A!Met

LEMMA NextExchange == Exchange /\ [A!Next]_(A!vars) => Exchange'
<1> SUFFICES ASSUME Exchange, [A!Next]_(A!vars) PROVE Exchange'
  OBVIOUS
<1> USE DEF Exchange, A!TypeOK, Quiet, A!Alternation, A!Met
<1>1. CASE A!Meet
  <2>1. sent' = 0 /\ taken' = 0 /\ replied' = 0 /\ got' = 0
    BY <1>1 DEF A!Meet
  <2>2. skew' = 0 \/ skew' = 1
    BY <1>1 DEF A!Meet
  <2> QED BY <2>1, <2>2
<1>2. CASE A!Send
  BY <1>2 DEF A!Send
<1>3. CASE A!Take
  BY <1>3 DEF A!Take
<1>4. CASE A!Reply
  BY <1>4 DEF A!Reply
<1>5. CASE A!Get
  BY <1>5 DEF A!Get
<1>6. CASE UNCHANGED A!vars
  BY <1>6 DEF A!vars
<1> QED BY <1>1, <1>2, <1>3, <1>4, <1>5, <1>6 DEF A!Next

(* Once the processes have met, message and reply alternate in every round, *)
(* however many there are.                                                  *)
THEOREM Alternates == A!Spec => []A!Alternation
<1>1. Exchange => A!Alternation
  BY DEF Exchange
<1> QED BY <1>1, InitExchange, NextExchange, PTL DEF A!Spec
===========================================================================
