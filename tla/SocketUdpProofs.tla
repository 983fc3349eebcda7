-------------------------- MODULE SocketUdpProofs -------------------------
(* What SocketUdp.tla's runs show on small blocks, for blocks of any size,  *)
(* every -c, any number of retries, and any number of datagrams lost and    *)
(* duplicated.                                                              *)
EXTENDS SocketUdp, SequenceTheorems, FiniteSetTheorems, TLAPS

(* What one place for the token holds.                                      *)
One(b) == IF b THEN 1 ELSE 0

(* What the network does to a stream of datagrams.                          *)
LEMMA Grown ==
  ASSUME NEW s \in Seq(Datagrams), NEW d \in Datagrams
  PROVE  /\ Append(s, d) \in Seq(Datagrams)
         /\ DOMAIN s = 1 .. Len(s) /\ Len(s) \in Nat
         /\ DOMAIN Append(s, d) = 1 .. Len(s) + 1 /\ Len(Append(s, d)) = Len(s) + 1
         /\ \A j \in 1 .. Len(s) : Append(s, d)[j] = s[j]
         /\ Append(s, d)[Len(s) + 1] = d
BY AppendProperties, LenProperties

LEMMA Shrunk ==
  ASSUME NEW s \in Seq(Datagrams), NEW i \in DOMAIN s
  PROVE  /\ RemoveAt(s, i) \in Seq(Datagrams)
         /\ DOMAIN s = 1 .. Len(s) /\ Len(s) \in Nat \ {0}
         /\ DOMAIN RemoveAt(s, i) = 1 .. Len(s) - 1 /\ Len(RemoveAt(s, i)) = Len(s) - 1
         /\ \A j \in 1 .. Len(s) - 1 : RemoveAt(s, i)[j] = IF j < i THEN s[j] ELSE s[j + 1]
<1>1. PICK n \in Nat \ {0} : n = Len(s) /\ i \in 1 .. n /\ DOMAIN s = 1 .. n
  BY LenProperties
<1>2. \A j \in 1 .. n : s[j] \in Datagrams
  BY <1>1, ElementOfSeq
<1> DEFINE a == SubSeq(s, 1, i - 1)
           b == SubSeq(s, i + 1, n)
<1>3. a \in Seq(Datagrams) /\ Len(a) = i - 1 /\ \A j \in 1 .. i - 1 : a[j] = s[j]
  <2>1. \A j \in 1 .. i - 1 : s[j] \in Datagrams
    BY <1>1, <1>2
  <2>2. 1 \in Int /\ i - 1 \in Int
    BY <1>1
  <2>3. /\ a \in Seq(Datagrams) /\ Len(a) = IF 1 <= i - 1 THEN i - 1 - 1 + 1 ELSE 0
        /\ \A j \in 1 .. i - 1 - 1 + 1 : a[j] = s[1 + j - 1]
    BY <2>1, <2>2, SubSeqProperties
  <2> QED BY <2>3, <1>1
<1>4. b \in Seq(Datagrams) /\ Len(b) = n - i /\ \A j \in 1 .. n - i : b[j] = s[i + j]
  <2>1. \A j \in i + 1 .. n : s[j] \in Datagrams
    BY <1>1, <1>2
  <2>2. i + 1 \in Int /\ n \in Int
    BY <1>1
  <2>3. /\ b \in Seq(Datagrams) /\ Len(b) = IF i + 1 <= n THEN n - (i + 1) + 1 ELSE 0
        /\ \A j \in 1 .. n - (i + 1) + 1 : b[j] = s[i + 1 + j - 1]
    BY <2>1, <2>2, SubSeqProperties
  <2>4. \A j \in 1 .. n - i : j \in 1 .. n - (i + 1) + 1 /\ i + 1 + j - 1 = i + j
    BY <1>1
  <2>5. (IF i + 1 <= n THEN n - (i + 1) + 1 ELSE 0) = n - i
    BY <1>1
  <2> HIDE DEF b
  <2> QED BY <2>3, <2>4, <2>5
<1>5. RemoveAt(s, i) = a \o b
  BY <1>1 DEF RemoveAt
<1> HIDE DEF a, b
<1> DEFINE t == a \o b
<1>6. /\ t \in Seq(Datagrams) /\ Len(t) = Len(a) + Len(b)
      /\ \A j \in 1 .. Len(a) + Len(b) : t[j] = IF j <= Len(a) THEN a[j] ELSE b[j - Len(a)]
  BY <1>3, <1>4, ConcatProperties
<1> HIDE DEF t
<1>7. Len(a) + Len(b) = n - 1
  <2>1. Len(a) = i - 1 /\ Len(b) = n - i
    BY <1>3, <1>4
  <2>2. i - 1 + (n - i) = n - 1
    BY <1>1
  <2> QED BY <2>1, <2>2
<1>8. t \in Seq(Datagrams) /\ Len(t) = n - 1 /\ DOMAIN t = 1 .. n - 1
  BY <1>6, <1>7, LenProperties
<1>9. ASSUME NEW j \in 1 .. n - 1 PROVE t[j] = IF j < i THEN s[j] ELSE s[j + 1]
  <2>1. t[j] = IF j <= i - 1 THEN a[j] ELSE b[j - (i - 1)]
    BY <1>3, <1>6, <1>7
  <2>2. CASE j < i
    <3>1. j <= i - 1 /\ j \in 1 .. i - 1
      BY <2>2, <1>1
    <3> QED BY <3>1, <2>1, <2>2, <1>3
  <2>3. CASE ~(j < i)
    <3>1. j - (i - 1) \in 1 .. n - i /\ i + (j - (i - 1)) = j + 1 /\ ~(j <= i - 1)
      BY <2>3, <1>1
    <3>2. b[j - (i - 1)] = s[i + (j - (i - 1))]
      BY <3>1, <1>4
    <3> QED BY <3>1, <3>2, <2>1, <2>3
  <2> QED BY <2>2, <2>3
<1>10. Len(s) = n /\ DOMAIN s = 1 .. n /\ RemoveAt(s, i) = t
  BY <1>1, <1>5 DEF t
<1> QED BY <1>8, <1>9, <1>10

(* How many datagrams of a kind a stream has.                               *)
Having(s, k) == {i \in DOMAIN s : s[i].word.byte = k}
Tally(s, k) == Cardinality(Having(s, k))

LEMMA Finite ==
  ASSUME NEW s \in Seq(Datagrams), NEW k
  PROVE  IsFiniteSet(Having(s, k)) /\ Tally(s, k) \in Nat
<1>1. DOMAIN s = 1 .. Len(s) /\ Len(s) \in Int
  BY LenProperties
<1>2. IsFiniteSet(1 .. Len(s)) /\ Having(s, k) \in SUBSET (1 .. Len(s))
  BY <1>1, FS_Interval DEF Having
<1>3. IsFiniteSet(Having(s, k))
  BY <1>2, FS_Subset
<1> QED BY <1>3, FS_CardinalityType DEF Tally

LEMMA TallyGrown ==
  ASSUME NEW s \in Seq(Datagrams), NEW d \in Datagrams, NEW k
  PROVE  Tally(Append(s, d), k) = Tally(s, k) + One(d.word.byte = k)
<1> DEFINE n == Len(s) + 1
           t == Append(s, d)
<1>1. /\ DOMAIN s = 1 .. Len(s) /\ Len(s) \in Nat /\ DOMAIN t = 1 .. n
      /\ (\A j \in 1 .. Len(s) : t[j] = s[j]) /\ t[n] = d
  BY Grown
<1> HIDE DEF t
<1>2. IsFiniteSet(Having(s, k)) /\ Tally(s, k) \in Nat
  BY Finite
<1>3. DOMAIN t = DOMAIN s \cup {n} /\ n \notin DOMAIN s
  BY <1>1
<1>4. CASE d.word.byte = k
  <2>1. Having(t, k) = Having(s, k) \cup {n} /\ n \notin Having(s, k)
    BY <1>1, <1>3, <1>4 DEF Having
  <2>2. Cardinality(Having(t, k)) = Cardinality(Having(s, k)) + 1
    BY <2>1, <1>2, FS_AddElement
  <2> QED BY <2>2, <1>4 DEF Tally, One, t
<1>5. CASE d.word.byte # k
  <2>1. Having(t, k) = Having(s, k)
    BY <1>1, <1>3, <1>5 DEF Having
  <2> QED BY <2>1, <1>2, <1>5 DEF Tally, One, t
<1> QED BY <1>4, <1>5

LEMMA TallyShrunk ==
  ASSUME NEW s \in Seq(Datagrams), NEW i \in DOMAIN s, NEW k
  PROVE  Tally(RemoveAt(s, i), k) = Tally(s, k) - One(s[i].word.byte = k)
<1> DEFINE t == RemoveAt(s, i)
           from(j) == IF j < i THEN j ELSE j + 1
           S == Having(s, k) \ {i}
           T == Having(t, k)
           f == [j \in T |-> from(j)]
<1>1. /\ DOMAIN s = 1 .. Len(s) /\ Len(s) \in Nat \ {0} /\ DOMAIN t = 1 .. Len(s) - 1
      /\ \A j \in 1 .. Len(s) - 1 : t[j] = s[from(j)]
      /\ t \in Seq(Datagrams)
  BY Shrunk
<1> HIDE DEF t
<1>2. IsFiniteSet(Having(s, k)) /\ Tally(s, k) \in Nat /\ IsFiniteSet(T)
  BY <1>1, Finite
<1>3. i \in 1 .. Len(s)
  BY <1>1
<1>4. ASSUME NEW j \in T PROVE j \in 1 .. Len(s) - 1 /\ from(j) \in S
  <2>1. j \in 1 .. Len(s) - 1 /\ t[j].word.byte = k
    BY <1>1, <1>4 DEF Having
  <2>2. from(j) \in 1 .. Len(s) /\ from(j) # i
    BY <2>1, <1>1, <1>3
  <2> QED BY <2>1, <2>2, <1>1 DEF Having
<1>5. \A j, h \in T : from(j) = from(h) => j = h
  <2>1. \A j, h \in 1 .. Len(s) - 1 : from(j) = from(h) => j = h
    BY <1>1, <1>3
  <2> QED BY <2>1, <1>4
<1>6. ASSUME NEW h \in S PROVE \E j \in T : from(j) = h
  <2>1. h \in 1 .. Len(s) /\ h # i /\ s[h].word.byte = k
    BY <1>1 DEF Having
  <2> DEFINE j == IF h < i THEN h ELSE h - 1
  <2>2. j \in 1 .. Len(s) - 1 /\ from(j) = h
    BY <2>1, <1>1, <1>3
  <2> HIDE DEF j
  <2>3. t[j] = s[h]
    BY <2>2, <1>1
  <2>4. j \in T
    BY <2>1, <2>2, <2>3, <1>1 DEF Having
  <2> QED BY <2>2, <2>4
<1> HIDE DEF from
<1>7. f \in Bijection(T, S)
  BY <1>4, <1>5, <1>6 DEF Bijection, Injection, Surjection, IsInjective
<1>8. Cardinality(S) = Cardinality(T)
  <2>1. ExistsBijection(T, S)
    BY <1>7 DEF ExistsBijection
  <2> HIDE DEF S, T, f
  <2> QED BY <2>1, <1>2, FS_Bijection
<1>9. Cardinality(S) = IF i \in Having(s, k) THEN Tally(s, k) - 1 ELSE Tally(s, k)
  BY <1>2, FS_RemoveElement DEF Tally
<1>10. i \in Having(s, k) <=> s[i].word.byte = k
  BY DEF Having
<1>11. Cardinality(T) = Tally(t, k) /\ Tally(s, k) \in Int
  BY <1>2 DEF Tally
<1> HIDE DEF S, T, t
<1>12. Tally(t, k) = IF s[i].word.byte = k THEN Tally(s, k) - 1 ELSE Tally(s, k)
  BY <1>8, <1>9, <1>10, <1>11
<1> QED BY <1>11, <1>12 DEF One, t

(* A stream with nothing but one kind, and one with none of a kind.         *)
LEMMA TallyAll ==
  ASSUME NEW s \in Seq(Datagrams), NEW k, \A i \in DOMAIN s : s[i].word.byte = k
  PROVE  Tally(s, k) = Len(s)
<1>1. DOMAIN s = 1 .. Len(s) /\ Len(s) \in Nat
  BY LenProperties
<1>2. Having(s, k) = 1 .. Len(s)
  BY <1>1 DEF Having
<1>3. Cardinality(1 .. Len(s)) = Len(s)
  BY <1>1, FS_Interval
<1> QED BY <1>2, <1>3 DEF Tally

LEMMA TallyNone ==
  ASSUME NEW s, NEW k, \A i \in DOMAIN s : s[i].word.byte # k
  PROVE  Tally(s, k) = 0
<1>1. Having(s, k) = {}
  BY DEF Having
<1> QED BY <1>1, FS_EmptySet DEF Tally
---------------------------------------------------------------------------
(* The datagrams on their way to a process, how many, and to the server how *)
(* many of a kind.                                                          *)
On(p) == {net[p][i] : i \in DOMAIN net[p]}
OnWay(p) == Len(net[p])
Count(k) == Tally(net["server"], k)
Bytes(n) == n * Size
Brought == IF left_size["server"] < Size THEN Size - left_size["server"] ELSE 0
Weight == Count("s") + Bytes(Count("0x55"))

(* What goes with the labels, before the server has heard the client and    *)
(* after.                                                                   *)
StartInv ==
    /\ pc["server"] \notin {"greet", "unshaken"}
    /\ pc["client"] \notin {"hello", "evaluate", "unshaken", "mismatch"}
    /\ pc["server"] = "off" => On("server") = {}
    /\ pc["client"] \in {"off", "greet", "exited"} =>
         ~Greeted /\ On("server") = {} /\ duplicated["s"] = 0
    /\ ~Greeted => /\ pc["client"] \in {"off", "greet", "exited", "read", "done", "aborted"}
                   /\ message = 0 /\ Replied = 0 /\ On("client") = {}
    /\ \A p \in Procs : pc[p] \notin Reading \cup {"exited", "norecv"} => left_size[p] = Size

(* What datagrams and buffers hold, whatever the network does.              *)
DataInv ==
    /\ \A d \in On("client") : d.word.byte = "0xAA" /\ d.len = Size
    /\ \A d \in On("server") : \/ d.word = Hello /\ d.len = 1
                               \/ Greeted /\ d.word.byte = "0x55" /\ d.len = Size
    /\ pc["server"] = "write" => \A i \in Index : buf["server"][i] = STC(message + 1)
    /\ pc["client"] = "write" => \A i \in Index : buf["client"][i] = CTS(Replied + 1)
    /\ pc["client"] = "read" =>
         \A i \in Index : i < Size - left_size["client"] => buf["client"][i].byte = "0xAA"

(* Unless a greeting came twice, the server has read one and then replies.  *)
GreetInv ==
    /\ pc["server"] = "hello" => OnWay("server") <= 1 + duplicated["s"]
    /\ Greeted /\ duplicated["s"] = 0 =>
         /\ pc["server"] # "mismatch"
         /\ \A d \in On("server") : d.word.byte = "0x55"
         /\ pc["server"] = "read" =>
              \A i \in Index : i < Size - left_size["server"] => buf["server"][i].byte = "0x55"

(* What was received and what is on its way was sent or duplicated: of      *)
(* messages, and of the bytes of replies and greetings.                     *)
LeadInv ==
    /\ Taken + OnWay("client") <= Sent + duplicated["0xAA"]
    /\ Greeted => Bytes(message) + Brought + Weight
                    <= Bytes(Replied + duplicated["0x55"]) + duplicated["s"]

(* Without a duplicate there is one token, or none.                         *)
Total == OnWay("server") + OnWay("client") + One(pc["server"] = "write")
           + One(pc["client"] = "write") + One(pc["client"] \in {"off", "greet"})
Turns ==
    /\ Total <= 1
    /\ pc["server"] = "write" => Replied = message
    /\ pc["server"] = "read" => Replied \in {message, message + 1}
    /\ pc["server"] \in {"evaluate", "done", "aborted"} => Replied = message /\ Total = 0
    /\ pc["client"] = "write" => pc["server"] = "read" /\ Replied = message
    /\ \A d \in On("client") : /\ pc["server"] = "read" /\ Replied = message
                               /\ d.word = STC(message + 1)
    /\ Greeted => \A d \in On("server") : /\ pc["server"] = "read" /\ Replied = message + 1
                                          /\ d.word = CTS(message + 1)
    /\ \A p \in Procs : pc[p] \in Reading => left_size[p] >= Wanted(p) \/ Total = 0
TurnInv == MaxDuplicated = 0 => Turns

IInv == TypeOK /\ StartInv /\ DataInv /\ GreetInv /\ LeadInv /\ TurnInv
---------------------------------------------------------------------------
(* What a datagram that is sent, or that comes or is lost, does to these.   *)
Adds(p, d) ==
    /\ net' \in [Procs -> Seq(Datagrams)]
    /\ OnWay(p)' = OnWay(p) + 1 /\ OnWay(Peer(p))' = OnWay(Peer(p))
    /\ On(p)' = On(p) \cup {d} /\ On(Peer(p))' = On(Peer(p))
    /\ Count("s")' = Count("s") + One(p = "server" /\ d.word.byte = "s")
    /\ Count("0x55")' = Count("0x55") + One(p = "server" /\ d.word.byte = "0x55")
Drops(p, d) ==
    /\ net' \in [Procs -> Seq(Datagrams)]
    /\ OnWay(p)' = OnWay(p) - 1 /\ OnWay(Peer(p))' = OnWay(Peer(p))
    /\ d \in On(p) /\ On(p)' \subseteq On(p) /\ On(Peer(p))' = On(Peer(p))
    /\ Count("s")' = Count("s") - One(p = "server" /\ d.word.byte = "s")
    /\ Count("0x55")' = Count("0x55") - One(p = "server" /\ d.word.byte = "0x55")
Same ==
    /\ net' = net
    /\ OnWay("server")' = OnWay("server") /\ OnWay("client")' = OnWay("client")
    /\ On("server")' = On("server") /\ On("client")' = On("client")
    /\ Count("s")' = Count("s") /\ Count("0x55")' = Count("0x55")

LEMMA Stays == ASSUME net' = net PROVE Same
BY DEF Same, OnWay, On, Count

LEMMA Joins ==
  ASSUME TypeOK, NEW p \in Procs, NEW d \in Datagrams,
         net' = [net EXCEPT ![p] = Append(net[p], d)]
  PROVE  Adds(p, d)
<1>1. Peer(p) \in Procs /\ Peer(p) # p /\ "server" \in Procs
  BY DEF Peer, Procs
<1>2. net \in [Procs -> Seq(Datagrams)] /\ net[p] \in Seq(Datagrams)
  BY DEF TypeOK
<1> DEFINE t == Append(net[p], d)
<1>3. /\ t \in Seq(Datagrams) /\ DOMAIN net[p] = 1 .. Len(net[p]) /\ Len(net[p]) \in Nat
      /\ DOMAIN t = 1 .. Len(net[p]) + 1 /\ Len(t) = Len(net[p]) + 1
      /\ (\A j \in 1 .. Len(net[p]) : t[j] = net[p][j]) /\ t[Len(net[p]) + 1] = d
  BY <1>2, Grown
<1>4. \A k : Tally(t, k) = Tally(net[p], k) + One(d.word.byte = k)
  BY <1>2, TallyGrown
<1>5. "server" # p => net'["server"] = net["server"]
  BY <1>1, <1>2
<1> HIDE DEF t
<1>6. net' \in [Procs -> Seq(Datagrams)] /\ net'[p] = t /\ net'[Peer(p)] = net[Peer(p)]
  BY <1>1, <1>2, <1>3 DEF t
<1>7. OnWay(p)' = OnWay(p) + 1 /\ OnWay(Peer(p))' = OnWay(Peer(p))
  BY <1>3, <1>6 DEF OnWay
<1>8. On(Peer(p))' = On(Peer(p))
  BY <1>6 DEF On
<1>9. {t[j] : j \in 1 .. Len(net[p]) + 1} = {net[p][j] : j \in 1 .. Len(net[p])} \cup {d}
  <2>1. \A j \in 1 .. Len(net[p]) + 1 : j \in 1 .. Len(net[p]) \/ j = Len(net[p]) + 1
    BY <1>3
  <2>2. /\ \A j \in 1 .. Len(net[p]) : j \in 1 .. Len(net[p]) + 1
        /\ Len(net[p]) + 1 \in 1 .. Len(net[p]) + 1
    BY <1>3
  <2> QED BY <2>1, <2>2, <1>3
<1>10. On(p)' = On(p) \cup {d}
  BY <1>3, <1>6, <1>9 DEF On
<1>11. ASSUME NEW k PROVE Count(k)' = Count(k) + One(p = "server" /\ d.word.byte = k)
  <2>1. CASE p = "server"
    BY <2>1, <1>4, <1>6 DEF Count, One
  <2>2. CASE p # "server"
    <3>1. Count(k)' = Count(k) /\ Count(k) \in Nat
      BY <2>2, <1>1, <1>2, <1>5, Finite DEF Count
    <3> QED BY <3>1, <2>2 DEF One
  <2> QED BY <2>1, <2>2
<1> QED BY <1>6, <1>7, <1>8, <1>10, <1>11 DEF Adds

LEMMA Leaves ==
  ASSUME TypeOK, NEW p \in Procs, NEW i \in DOMAIN net[p],
         net' = [net EXCEPT ![p] = RemoveAt(net[p], i)]
  PROVE  Drops(p, net[p][i]) /\ net[p][i] \in Datagrams
<1>1. Peer(p) \in Procs /\ Peer(p) # p /\ "server" \in Procs
  BY DEF Peer, Procs
<1>2. net \in [Procs -> Seq(Datagrams)] /\ net[p] \in Seq(Datagrams)
  BY DEF TypeOK
<1> DEFINE t == RemoveAt(net[p], i)
           n == Len(net[p])
<1>3. /\ t \in Seq(Datagrams) /\ DOMAIN net[p] = 1 .. n /\ n \in Nat \ {0}
      /\ DOMAIN t = 1 .. n - 1 /\ Len(t) = n - 1
      /\ \A j \in 1 .. n - 1 : t[j] = IF j < i THEN net[p][j] ELSE net[p][j + 1]
  BY <1>2, Shrunk
<1>4. \A k : Tally(t, k) = Tally(net[p], k) - One(net[p][i].word.byte = k)
  BY <1>2, TallyShrunk
<1>5. "server" # p => net'["server"] = net["server"]
  BY <1>1, <1>2
<1> HIDE DEF t
<1>6. net' \in [Procs -> Seq(Datagrams)] /\ net'[p] = t /\ net'[Peer(p)] = net[Peer(p)]
  BY <1>1, <1>2, <1>3 DEF t
<1>7. OnWay(p)' = OnWay(p) - 1 /\ OnWay(Peer(p))' = OnWay(Peer(p))
  BY <1>3, <1>6 DEF OnWay
<1>8. On(Peer(p))' = On(Peer(p))
  BY <1>6 DEF On
<1>9. \A j \in 1 .. n - 1 : \E h \in 1 .. n : t[j] = net[p][h]
  <2>1. \A j \in 1 .. n - 1 : j \in 1 .. n /\ j + 1 \in 1 .. n
    BY <1>3
  <2> QED BY <2>1, <1>3
<1>10. On(p)' \subseteq On(p) /\ net[p][i] \in On(p)
  <2>1. On(p)' = {t[j] : j \in 1 .. n - 1} /\ On(p) = {net[p][j] : j \in 1 .. n}
    BY <1>3, <1>6 DEF On
  <2>2. i \in 1 .. n
    BY <1>3
  <2> HIDE DEF n
  <2> QED BY <2>1, <2>2, <1>9
<1>11. ASSUME NEW k PROVE Count(k)' = Count(k) - One(p = "server" /\ net[p][i].word.byte = k)
  <2>1. CASE p = "server"
    BY <2>1, <1>4, <1>6 DEF Count, One
  <2>2. CASE p # "server"
    <3>1. Count(k)' = Count(k) /\ Count(k) \in Nat
      BY <2>2, <1>1, <1>2, <1>5, Finite DEF Count
    <3> QED BY <3>1, <2>2 DEF One
  <2> QED BY <2>1, <2>2
<1>12. net[p][i] \in Datagrams
  BY <1>2, <1>3, ElementOfSeq
<1> QED BY <1>6, <1>7, <1>8, <1>10, <1>11, <1>12 DEF Drops

(* The numbers of both processes and of the network, by name.               *)
Numeric ==
    /\ {Size, left_size["server"], left_size["client"]} \subseteq Nat \ {0}
    /\ {message, Replied, OnWay("server"), OnWay("client"), Count("s"), Count("0x55")} \subseteq Nat
    /\ {duplicated["s"], duplicated["0x55"], duplicated["0xAA"]} \subseteq Nat
    /\ {left, count["server"], count["client"]} \subseteq Int

LEMMA Named ==
  ASSUME TypeOK
  PROVE  /\ Numeric
         /\ \A p \in Procs : On(p) \subseteq Datagrams
         /\ \A p \in Procs : (On(p) = {} <=> OnWay(p) = 0) /\ (net[p] = <<>> <=> OnWay(p) = 0)
<1>1. ASSUME NEW p \in Procs
      PROVE  /\ On(p) \subseteq Datagrams /\ OnWay(p) \in Nat
             /\ (On(p) = {} <=> OnWay(p) = 0) /\ (net[p] = <<>> <=> OnWay(p) = 0)
  <2>1. net[p] \in Seq(Datagrams)
    BY DEF TypeOK
  <2>2. /\ Len(net[p]) \in Nat /\ DOMAIN net[p] = 1 .. Len(net[p])
        /\ \A i \in 1 .. Len(net[p]) : net[p][i] \in Datagrams
    BY <2>1, LenProperties, ElementOfSeq
  <2>3. net[p] = <<>> <=> OnWay(p) = 0
    BY <2>1, EmptySeq DEF OnWay
  <2>4. On(p) = {net[p][i] : i \in 1 .. OnWay(p)} /\ OnWay(p) \in Nat
    BY <2>2 DEF On, OnWay
  <2>5. OnWay(p) # 0 => 1 \in 1 .. OnWay(p)
    BY <2>4
  <2>6. OnWay(p) = 0 => \A i \in 1 .. OnWay(p) : FALSE
    BY <2>4
  <2>7. On(p) = {} <=> OnWay(p) = 0
    BY <2>4, <2>5, <2>6
  <2>8. On(p) \subseteq Datagrams
    BY <2>2 DEF On
  <2>9. OnWay(p) \in Nat
    BY <2>4
  <2> QED BY <2>3, <2>7, <2>8, <2>9
<1>2. \A p \in Procs : count[p] \in Int /\ left_size[p] \in Nat \ {0}
  <2>1. \A p \in Procs : count[p] \in Counts /\ left_size[p] \in 1 .. Size + MaxRetries
    BY DEF TypeOK
  <2>2. MaxRetries \in Nat /\ Size \in Nat \ {0}
    BY SizeAssumption, BoundsAssumption
  <2>3. \A p \in Procs : left_size[p] \in Nat \ {0}
    BY <2>1, <2>2
  <2>4. \A p \in Procs : count[p] \in Int
    BY <2>1, CountsAssumption
  <2> QED BY <2>3, <2>4
<1>3. "server" \in Procs /\ "client" \in Procs
  BY DEF Procs
<1>4. Count("s") \in Nat /\ Count("0x55") \in Nat
  BY <1>3, Finite DEF TypeOK, Count
<1>5. {duplicated["s"], duplicated["0x55"], duplicated["0xAA"]} \subseteq Nat
  BY BoundsAssumption DEF TypeOK, Kinds
<1>6. Replied \in Nat
  BY <1>2, <1>3 DEF TypeOK, Replied
<1> QED BY <1>1, <1>2, <1>3, <1>4, <1>5, <1>6, SizeAssumption DEF TypeOK, Numeric

(* Nothing on its way is nothing to count, and if there are only greetings  *)
(* they are what there is to count.                                         *)
LEMMA Contents ==
  ASSUME NEW s \in Seq(Datagrams)
  PROVE  Len(s) \in Nat /\ ({s[i] : i \in DOMAIN s} = {} <=> Len(s) = 0)
<1>1. Len(s) \in Nat /\ DOMAIN s = 1 .. Len(s)
  BY LenProperties
<1>2. Len(s) # 0 => 1 \in DOMAIN s
  BY <1>1
<1>3. Len(s) = 0 => DOMAIN s = {}
  BY <1>1
<1> QED BY <1>1, <1>2, <1>3

LEMMA Later ==
  ASSUME net' \in [Procs -> Seq(Datagrams)]
  PROVE  /\ \A p \in Procs : OnWay(p)' \in Nat /\ (On(p)' = {} <=> OnWay(p)' = 0)
         /\ (\A d \in On("server")' : d.word.byte = "s") =>
              Count("s")' = OnWay("server")' /\ Count("0x55")' = 0
<1>1. ASSUME NEW p \in Procs PROVE OnWay(p)' \in Nat /\ (On(p)' = {} <=> OnWay(p)' = 0)
  <2>1. net'[p] \in Seq(Datagrams)
    OBVIOUS
  <2>2. Len(net'[p]) \in Nat /\ ({net'[p][i] : i \in DOMAIN net'[p]} = {} <=> Len(net'[p]) = 0)
    BY <2>1, Contents
  <2> QED BY <2>2 DEF OnWay, On
<1>2. ASSUME \A d \in On("server")' : d.word.byte = "s"
      PROVE  Count("s")' = OnWay("server")' /\ Count("0x55")' = 0
  <2> DEFINE s == net'["server"]
  <2>1. s \in Seq(Datagrams) /\ \A i \in DOMAIN s : s[i].word.byte = "s"
    BY <1>2 DEF On, Procs
  <2> HIDE DEF s
  <2>2. Tally(s, "s") = Len(s) /\ Tally(s, "0x55") = 0
    BY <2>1, TallyAll, TallyNone
  <2> QED BY <2>2 DEF Count, OnWay, s
<1> QED BY <1>1, <1>2

LEMMA ByteCounts ==
  /\ Bytes(0) = 0
  /\ \A n \in Int : /\ Bytes(n) \in Int
                    /\ Bytes(n + 1) = Bytes(n) + Size /\ Bytes(n - 1) = Bytes(n) - Size
BY SizeAssumption DEF Bytes

(* The words that are written are words.                                    *)
LEMMA WordTypes ==
  /\ Unset \in Words /\ Hello \in Words
  /\ \A k \in Nat : STC(k) \in Words /\ CTS(k) \in Words
  /\ \A w \in Words : /\ [word |-> w, len |-> Size] \in Datagrams
                      /\ [word |-> w, len |-> 1] \in Datagrams
BY DEF Unset, Hello, STC, CTS, Words, Kinds, Datagrams

(* A process fills its whole buffer, and nothing before it.                 *)
LEMMA Fills ==
  ASSUME TypeOK, NEW p \in Procs, NEW w \in Words, Loads(p, w)
  PROVE  /\ buf' \in [Procs -> [Memory -> Words]] /\ buf'[Peer(p)] = buf[Peer(p)]
         /\ \A i \in Index : buf'[p][i] = w
<1>1. buf' = [buf EXCEPT ![p] = [i \in Memory |-> IF i \in Index THEN w ELSE buf[p][i]]]
  BY DEF Loads, TypeOK
<1>2. buf \in [Procs -> [Memory -> Words]] /\ Peer(p) # p /\ Peer(p) \in Procs
  BY DEF TypeOK, Peer, Procs
<1>3. [i \in Memory |-> IF i \in Index THEN w ELSE buf[p][i]] \in [Memory -> Words]
  BY <1>2
<1> QED BY <1>1, <1>2, <1>3 DEF Memory

(* What the server reads weighs less than what it was sent.                 *)
LEMMA Lighter ==
  ASSUME IInv, Greeted, NEW d \in On("server"), Drops("server", d)
  PROVE  Weight \in Int /\ Weight' = Weight - d.len /\ d.len \in Nat
<1>1. /\ Count("s") \in Nat /\ Count("0x55") \in Nat /\ Size \in Nat
      /\ \/ d.word.byte = "s" /\ d.len = 1
         \/ d.word.byte = "0x55" /\ d.len = Size
  <2>1. Numeric
    BY Named DEF IInv
  <2>2. Count("s") \in Nat /\ Count("0x55") \in Nat /\ Size \in Nat
    BY <2>1 DEF Numeric
  <2> QED BY <2>2 DEF IInv, DataInv, Hello
<1>2. /\ Count("s")' = Count("s") - One(d.word.byte = "s")
      /\ Count("0x55")' = Count("0x55") - One(d.word.byte = "0x55")
  BY DEF Drops, One
<1>3. Weight' = Count("s")' + Bytes(Count("0x55")')
  BY DEF Weight, Bytes
<1>4. Bytes(Count("0x55")) \in Int /\ Bytes(Count("0x55") - 1) = Bytes(Count("0x55")) - Size
  BY <1>1, ByteCounts
<1>5. CASE d.word.byte = "s" /\ d.len = 1
  <2>1. Count("s")' = Count("s") - 1 /\ Count("0x55")' = Count("0x55")
    BY <1>1, <1>2, <1>5 DEF One
  <2> QED BY <2>1, <1>1, <1>3, <1>4, <1>5 DEF Weight
<1>6. CASE d.word.byte = "0x55" /\ d.len = Size
  <2>1. Count("s")' = Count("s") /\ Count("0x55")' = Count("0x55") - 1
    BY <1>1, <1>2, <1>6 DEF One
  <2> QED BY <2>1, <1>1, <1>3, <1>4, <1>6 DEF Weight
<1> QED BY <1>1, <1>5, <1>6

(* The second part of LeadInv, in the terms in which a read changes it.     *)
LEMMA Weighed ==
  ASSUME TypeOK
  PROVE  /\ Bytes(message) \in Int /\ Bytes(Replied + duplicated["0x55"]) \in Int
         /\ Weight \in Int /\ Brought \in Nat /\ Brought >= Size - left_size["server"]
         /\ Bytes(message + 1) = Bytes(message) + Size
         /\ LeadInv /\ Greeted =>
              Bytes(message) + Brought + Weight
                <= Bytes(Replied + duplicated["0x55"]) + duplicated["s"]
<1>1. Numeric
  BY Named
<1>2. message \in Int /\ Replied + duplicated["0x55"] \in Int /\ Count("0x55") \in Int
  BY <1>1 DEF Numeric
<1>3. /\ Bytes(message) \in Int /\ Bytes(Replied + duplicated["0x55"]) \in Int
      /\ Bytes(Count("0x55")) \in Int /\ Bytes(message + 1) = Bytes(message) + Size
  BY <1>2, ByteCounts
<1>4. Brought \in Nat /\ Brought >= Size - left_size["server"]
  BY <1>1 DEF Brought, Numeric
<1> QED BY <1>1, <1>3, <1>4 DEF LeadInv, Weight, Numeric
---------------------------------------------------------------------------
LEMMA InitInv == Init => IInv
<1> SUFFICES ASSUME Init PROVE IInv
  OBVIOUS
<1>1. TypeOK
  <2>1. <<>> \in Seq(Datagrams)
    BY EmptySeq
  <2>2. left = count["client"] /\ left \in Int
    BY CountsAssumption DEF Init, Procs
  <2>3. MaxRetries \in Nat /\ MaxLost \in Nat /\ MaxDuplicated \in Nat
    BY BoundsAssumption
  <2>4. buf \in [Procs -> [Memory -> Words]]
    BY WordTypes DEF Init
  <2>5. left_size \in [Procs -> 1 .. Size + MaxRetries]
    BY <2>3, SizeAssumption DEF Init
  <2>6. duplicated \in [Kinds -> 0 .. MaxDuplicated] /\ lost \in 0 .. MaxLost
    BY <2>3 DEF Init
  <2>7. pc \in [Procs -> Labels] /\ net \in [Procs -> Seq(Datagrams)]
    BY <2>1 DEF Init, Labels
  <2> QED BY <2>2, <2>4, <2>5, <2>6, <2>7 DEF Init, TypeOK
<1>2. OnWay("server") = 0 /\ OnWay("client") = 0 /\ On("server") = {} /\ On("client") = {}
  BY EmptySeq DEF Init, OnWay, On, Procs
<1>3. Replied = 0 /\ ~Greeted /\ pc = [p \in Procs |-> "off"] /\ message = 0
  BY CountsAssumption DEF Init, Replied, Procs, Greeted
<1>4. StartInv
  BY <1>2, <1>3 DEF Init, StartInv, Procs, Kinds
<1>5. DataInv /\ GreetInv
  BY <1>2, <1>3 DEF DataInv, GreetInv, Procs
<1>6. LeadInv
  BY <1>2, <1>3 DEF Init, LeadInv, Taken, Sent, Procs, Kinds
<1>7. Total = 1
  BY <1>2, <1>3 DEF Total, One, Procs
<1>8. Turns
  BY <1>2, <1>3, <1>7 DEF Turns, Procs, Reading
<1> QED BY <1>1, <1>4, <1>5, <1>6, <1>8 DEF IInv, TurnInv

(* What is sent joins the others, or nobody hears it.                       *)
LEMMA Sending ==
  ASSUME TypeOK, NEW p \in Procs, NEW w \in Words, NEW n \in {1, Size}, Sends(p, w, n)
  PROVE  /\ net' \in [Procs -> Seq(Datagrams)]
         /\ \/ pc[Peer(p)] \in {"off"} \cup Ended /\ Same
            \/ pc[Peer(p)] \notin {"off"} \cup Ended /\ Adds(Peer(p), [word |-> w, len |-> n])
<1>1. [word |-> w, len |-> n] \in Datagrams /\ Peer(p) \in Procs
  BY DEF Datagrams, Peer, Procs
<1>2. CASE pc[Peer(p)] \in {"off"} \cup Ended
  <2>1. net' = net
    BY <1>2 DEF Sends
  <2>2. net' \in [Procs -> Seq(Datagrams)]
    BY <2>1 DEF TypeOK
  <2>3. Same
    BY <2>1, Stays
  <2> QED BY <2>2, <2>3, <1>2
<1>3. CASE pc[Peer(p)] \notin {"off"} \cup Ended
  <2>1. net' = [net EXCEPT ![Peer(p)] = Append(net[Peer(p)], [word |-> w, len |-> n])]
    BY <1>3 DEF Sends
  <2>2. Adds(Peer(p), [word |-> w, len |-> n])
    BY <2>1, <1>1, Joins
  <2> QED BY <2>2, <1>3 DEF Adds
<1> QED BY <1>2, <1>3

(* Whoever holds the token, it is the only one.                             *)
LEMMA Tokens ==
  ASSUME Numeric, Turns
  PROVE  /\ pc["server"] = "write" => /\ Total = 1 /\ OnWay("server") = 0 /\ OnWay("client") = 0
                                      /\ pc["client"] \notin {"write", "off", "greet"}
         /\ pc["client"] = "write" => /\ Total = 1 /\ OnWay("server") = 0 /\ OnWay("client") = 0
                                      /\ pc["server"] # "write"
         /\ \A p \in Procs : OnWay(p) # 0 => Total = 1 /\ OnWay(p) = 1
<1>1. Total <= 1 /\ OnWay("server") \in Nat /\ OnWay("client") \in Nat
  BY DEF Turns, Numeric
<1> QED BY <1>1 DEF Total, One, Procs

LEMMA ServerSendInv == ASSUME IInv, Send("server") PROVE IInv'
<1>1. /\ TypeOK /\ StartInv /\ DataInv /\ GreetInv /\ LeadInv /\ TurnInv /\ Numeric
      /\ (On("server") = {} <=> OnWay("server") = 0) /\ (On("client") = {} <=> OnWay("client") = 0)
  BY Named DEF IInv, Procs
<1>2. /\ pc["server"] = "write" /\ Sends("server", buf["server"][0], Size)
      /\ pc' = [pc EXCEPT !["server"] = "read"]
      /\ UNCHANGED <<buf, left_size, message, left, count, isDebug, isNonblock, lost, duplicated>>
  BY DEF Send, Goes, Options, History
<1>3. pc'["server"] = "read" /\ pc'["client"] = pc["client"]
  BY <1>1, <1>2 DEF TypeOK, Procs
<1> DEFINE d == [word |-> STC(message + 1), len |-> Size]
<1>4. STC(message + 1) \in Words /\ buf["server"][0] = STC(message + 1)
  <2>1. message + 1 \in Nat /\ buf["server"][0] = STC(message + 1)
    BY <1>1, <1>2, SizeAssumption DEF DataInv, Numeric, Index
  <2>2. STC(message + 1) \in Words
    BY <2>1, WordTypes
  <2> QED BY <2>1, <2>2, WordTypes
<1>5. Same \/ (Adds("client", d) /\ pc["client"] \notin {"off"} \cup Ended)
  <2>1. Sends("server", STC(message + 1), Size) /\ Peer("server") = "client" /\ "server" \in Procs
    BY <1>2, <1>4 DEF Peer, Procs
  <2>2. Size \in {1, Size}
    OBVIOUS
  <2>3. \/ pc[Peer("server")] \in {"off"} \cup Ended /\ Same
        \/ pc[Peer("server")] \notin {"off"} \cup Ended /\ Adds(Peer("server"), d)
    BY <2>1, <2>2, <1>1, <1>4, Sending
  <2> QED BY <2>1, <2>3
<1>6. /\ net' \in [Procs -> Seq(Datagrams)]
      /\ OnWay("server")' = OnWay("server") /\ On("server")' = On("server")
      /\ OnWay("client")' \in {OnWay("client"), OnWay("client") + 1}
      /\ On("client")' \in {On("client"), On("client") \cup {d}}
      /\ Count("s")' = Count("s") /\ Count("0x55")' = Count("0x55")
  BY <1>1, <1>5 DEF Same, Adds, Peer, One, Numeric, TypeOK
<1>7. d.word.byte = "0xAA" /\ d.len = Size /\ d.word = STC(message + 1)
  BY DEF STC
<1> HIDE DEF d
<1>8. Replied' = Replied /\ Greeted /\ Greeted' /\ left_size["server"] = Size
  BY <1>1, <1>2, <1>3 DEF Replied, Greeted, StartInv, Procs, Reading
<1>9. TypeOK'
  BY <1>1, <1>2, <1>6 DEF TypeOK, Labels
<1>10. StartInv'
  BY <1>1, <1>2, <1>3, <1>6, <1>8 DEF StartInv, Procs, Reading
<1>11. DataInv'
  BY <1>1, <1>2, <1>3, <1>6, <1>7, <1>8 DEF DataInv
<1>12. GreetInv'
  <2>1. \A i \in Index : ~(i < Size - left_size["server"])
    BY <1>1, <1>8 DEF Index, Numeric
  <2> QED BY <2>1, <1>1, <1>2, <1>3, <1>6, <1>8 DEF GreetInv
<1>13. LeadInv'
  <2>1. Taken' = Taken /\ Sent' = Sent + 1 /\ Taken \in Nat /\ Sent \in Nat
    BY <1>1, <1>2, <1>3, <1>8 DEF Taken, Sent, Numeric
  <2>2. Taken' + OnWay("client")' <= Sent' + duplicated["0xAA"]
    <3>1. /\ OnWay("client") \in Nat /\ duplicated["0xAA"] \in Nat
          /\ Taken + OnWay("client") <= Sent + duplicated["0xAA"]
      BY <1>1 DEF LeadInv, Numeric
    <3>2. OnWay("client")' = OnWay("client") \/ OnWay("client")' = OnWay("client") + 1
      BY <1>6
    <3> QED BY <2>1, <3>1, <3>2
  <2>3. /\ Weight' = Weight /\ Brought' = Brought /\ Bytes(message)' = Bytes(message)
        /\ Bytes(Replied + duplicated["0x55"])' = Bytes(Replied + duplicated["0x55"])
    BY <1>2, <1>6, <1>8 DEF Weight, Brought, Bytes
  <2>4. Bytes(message)' + Brought' + Weight'
          <= Bytes(Replied + duplicated["0x55"])' + duplicated'["s"]
    BY <2>3, <1>1, <1>2, <1>8 DEF LeadInv
  <2> QED BY <2>2, <2>4, <1>2 DEF LeadInv
<1>14. ASSUME MaxDuplicated = 0 PROVE Turns'
  <2>1. Turns
    BY <1>1, <1>14 DEF TurnInv
  <2>2. /\ Total = 1 /\ Total' <= 1
        /\ OnWay("server") = 0 /\ OnWay("client") = 0 /\ pc["client"] \notin {"write", "off", "greet"}
    <3>1. /\ Total = 1 /\ OnWay("server") = 0 /\ OnWay("client") = 0
          /\ pc["client"] \notin {"write", "off", "greet"}
      BY <2>1, <1>1, <1>2, Tokens
    <3> QED BY <3>1, <1>2, <1>3, <1>6 DEF Total, One
  <2>3. On("server") = {} /\ On("client") = {} /\ Replied = message
    BY <2>1, <2>2, <1>1, <1>2 DEF Turns
  <2>4. \A p \in Procs : pc'[p] \in Reading => left_size'[p] >= Wanted(p)'
    BY <2>1, <2>2, <1>1, <1>2, <1>3, <1>8 DEF Turns, Procs, Wanted, Reading, Numeric
  <2>5. \A e \in On("client")' : e.word = STC(message + 1)
    BY <2>3, <1>6, <1>7
  <2> QED BY <2>2, <2>3, <2>4, <2>5, <1>2, <1>3, <1>6, <1>8 DEF Turns
<1> QED BY <1>9, <1>10, <1>11, <1>12, <1>13, <1>14 DEF IInv, TurnInv

LEMMA ClientSendInv == ASSUME IInv, Send("client") PROVE IInv'
<1>1. /\ TypeOK /\ StartInv /\ DataInv /\ GreetInv /\ LeadInv /\ TurnInv /\ Numeric
      /\ (On("server") = {} <=> OnWay("server") = 0) /\ (On("client") = {} <=> OnWay("client") = 0)
  BY Named DEF IInv, Procs
<1>2. /\ pc["client"] = "write" /\ Sends("client", buf["client"][0], Size)
      /\ \E to \in {"read", "done", "aborted"} : pc' = [pc EXCEPT !["client"] = to]
      /\ left' = left - 1
      /\ UNCHANGED <<buf, left_size, message, count, isDebug, isNonblock, lost, duplicated>>
  BY DEF Send, Goes, ClientLoop, Options, History
<1>3. pc'["server"] = pc["server"] /\ pc'["client"] \in {"read", "done", "aborted"}
  BY <1>1, <1>2 DEF TypeOK, Procs
<1> DEFINE d == [word |-> CTS(Replied + 1), len |-> Size]
<1>4. CTS(Replied + 1) \in Words /\ buf["client"][0] = CTS(Replied + 1)
  <2>1. Replied + 1 \in Nat /\ buf["client"][0] = CTS(Replied + 1)
    BY <1>1, <1>2, SizeAssumption DEF DataInv, Numeric, Index
  <2>2. CTS(Replied + 1) \in Words
    BY <2>1, WordTypes
  <2> QED BY <2>1, <2>2, WordTypes
<1>5. \/ Same /\ pc["server"] \in {"off"} \cup Ended
      \/ Adds("server", d) /\ pc["server"] \notin {"off"} \cup Ended
  <2>1. Sends("client", CTS(Replied + 1), Size) /\ Peer("client") = "server" /\ "client" \in Procs
    BY <1>2, <1>4 DEF Peer, Procs
  <2>2. Size \in {1, Size}
    OBVIOUS
  <2> QED BY <2>1, <2>2, <1>1, <1>4, Sending
<1>6. d.word.byte = "0x55" /\ d.len = Size /\ d.word = CTS(Replied + 1)
  BY DEF CTS
<1> HIDE DEF d
<1>7. /\ net' \in [Procs -> Seq(Datagrams)]
      /\ OnWay("client")' = OnWay("client") /\ On("client")' = On("client")
      /\ OnWay("server")' \in {OnWay("server"), OnWay("server") + 1}
      /\ On("server")' \in {On("server"), On("server") \cup {d}}
      /\ Count("s")' = Count("s") /\ Count("0x55")' \in {Count("0x55"), Count("0x55") + 1}
  <2>1. Count("s") + 0 = Count("s")
    BY <1>1 DEF Numeric
  <2>2. CASE Same
    BY <2>2, <1>1 DEF Same, TypeOK
  <2>3. CASE Adds("server", d)
    BY <2>1, <2>3, <1>6 DEF Adds, Peer, One
  <2> QED BY <2>2, <2>3, <1>5
<1>8. /\ Replied' = Replied + 1 /\ Greeted /\ Greeted' /\ left_size["client"] = Size
      /\ pc["server"] \notin {"off", "exited", "hello"}
  BY <1>1, <1>2, <1>3 DEF Replied, Greeted, StartInv, Procs, Reading, Numeric
<1>9. TypeOK'
  <2>1. left' \in Int /\ left' <= count["client"]
    BY <1>1, <1>2 DEF TypeOK, Numeric
  <2>2. pc' \in [Procs -> Labels]
    BY <1>1, <1>2 DEF TypeOK, Labels, Ended
  <2>3. /\ buf' \in [Procs -> [Memory -> Words]] /\ left_size' \in [Procs -> 1 .. Size + MaxRetries]
        /\ message' \in Nat /\ lost' \in 0 .. MaxLost
        /\ duplicated' \in [Kinds -> 0 .. MaxDuplicated]
        /\ count' \in [Procs -> Counts] /\ count'["client"] = count["client"]
        /\ isDebug' \in [Procs -> BOOLEAN] /\ isNonblock' \in [Procs -> BOOLEAN]
    BY <1>1, <1>2 DEF TypeOK
  <2> QED BY <2>1, <2>2, <2>3, <1>7 DEF TypeOK
<1>10. StartInv'
  BY <1>1, <1>2, <1>3, <1>7, <1>8 DEF StartInv, Procs, Reading
<1>11. DataInv'
  <2>1. \A i \in Index : ~(i < Size - left_size["client"])
    BY <1>1, <1>8 DEF Index, Numeric
  <2> QED BY <2>1, <1>1, <1>2, <1>3, <1>6, <1>7, <1>8 DEF DataInv
<1>12. GreetInv'
  BY <1>1, <1>2, <1>3, <1>6, <1>7, <1>8 DEF GreetInv
<1>13. LeadInv'
  <2>1. Taken' = Taken /\ Sent' = Sent
    BY <1>1, <1>2, <1>3, <1>8 DEF Taken, Sent, Numeric
  <2>2. Replied' + duplicated["0x55"] = (Replied + duplicated["0x55"]) + 1
    BY <1>1, <1>8 DEF Numeric
  <2>3. /\ Bytes(Replied' + duplicated["0x55"]) = Bytes(Replied + duplicated["0x55"]) + Size
        /\ Bytes(Count("0x55") + 1) = Bytes(Count("0x55")) + Size
        /\ {Bytes(Replied + duplicated["0x55"]), Bytes(Count("0x55")), Bytes(message)} \subseteq Int
    <3>1. Replied + duplicated["0x55"] \in Int /\ Count("0x55") \in Int /\ message \in Int
      BY <1>1 DEF Numeric
    <3> QED BY <3>1, <2>2, ByteCounts
  <2>4. Bytes(Count("0x55")') \in {Bytes(Count("0x55")), Bytes(Count("0x55")) + Size}
    BY <2>3, <1>7
  <2>5. /\ Bytes(message)' = Bytes(message) /\ Bytes(Count("0x55"))' = Bytes(Count("0x55")')
        /\ Bytes(Replied + duplicated["0x55"])' = Bytes(Replied' + duplicated["0x55"])
        /\ Brought' = Brought
    BY <1>2 DEF Bytes, Brought
  <2>6. Bytes(message)' + Brought' + Weight'
          <= Bytes(Replied + duplicated["0x55"])' + duplicated["s"]
    <3>1. Weight' \in {Weight, Weight + Size} /\ Weight \in Int
      <4>1. Count("s") \in Int /\ Count("s")' = Count("s") /\ Size \in Int
        BY <1>1, <1>7 DEF Numeric
      <4>2. Weight' = Count("s") + Bytes(Count("0x55")') /\ Weight = Count("s") + Bytes(Count("0x55"))
        BY <4>1, <2>5 DEF Weight
      <4> QED BY <4>1, <4>2, <2>3, <2>4
    <3>2. Weight' = Weight + Size \/ Weight' = Weight
      BY <3>1
    <3>3. /\ Bytes(message) + Brought + Weight
               <= Bytes(Replied + duplicated["0x55"]) + duplicated["s"]
          /\ Brought \in Int
      BY <1>1, <1>8, Weighed DEF LeadInv
    <3> QED BY <2>3, <2>5, <3>1, <3>2, <3>3, <1>1 DEF Numeric
  <2> QED BY <2>1, <2>6, <1>1, <1>2, <1>7 DEF LeadInv
<1>14. ASSUME MaxDuplicated = 0 PROVE Turns'
  <2>1. Turns
    BY <1>1, <1>14 DEF TurnInv
  <2>2. /\ Total = 1 /\ Total' <= 1
        /\ OnWay("server") = 0 /\ OnWay("client") = 0
    <3>1. Total = 1 /\ OnWay("server") = 0 /\ OnWay("client") = 0 /\ pc["server"] # "write"
      BY <2>1, <1>1, <1>2, Tokens
    <3> QED BY <3>1, <1>2, <1>3, <1>7 DEF Total, One
  <2>3. On("server") = {} /\ On("client") = {} /\ Replied = message /\ pc["server"] = "read"
    BY <2>1, <2>2, <1>1, <1>2 DEF Turns
  <2>4. \A p \in Procs : pc'[p] \in Reading => left_size'[p] >= Wanted(p)'
    BY <2>1, <2>2, <1>1, <1>2, <1>3, <1>8 DEF Turns, Procs, Wanted, Reading, Numeric
  <2>5. \A e \in On("server")' : e.word = CTS(message + 1)
    BY <2>3, <1>6, <1>7
  <2> QED BY <2>2, <2>3, <2>4, <2>5, <1>2, <1>3, <1>7, <1>8 DEF Turns
<1> QED BY <1>9, <1>10, <1>11, <1>12, <1>13, <1>14 DEF IInv, TurnInv

(* What a datagram that comes does to a read, whose it is.                  *)
LEMMA Receiving ==
  ASSUME TypeOK, NEW p \in Procs, Receive(p)
  PROVE  \E d \in On(p) :
           /\ d \in Datagrams /\ Drops(p, d)
           /\ Received(p, d) \in [Memory -> Words] /\ d.word \in Words
           /\ IF Got(p, d) = left_size[p]
              THEN left_size' = [left_size EXCEPT ![p] = Size] /\ AfterRead(p, Received(p, d))
              ELSE /\ left_size' = [left_size EXCEPT ![p] = left_size[p] - Got(p, d)]
                   /\ buf' = [buf EXCEPT ![p] = Received(p, d)]
                   /\ UNCHANGED <<pc, message, left>>
<1>1. PICK i \in DOMAIN net[p] :
        LET d == net[p][i]
        IN  /\ net' = [net EXCEPT ![p] = RemoveAt(@, i)]
            /\ IF Got(p, d) = left_size[p]
               THEN left_size' = [left_size EXCEPT ![p] = Size] /\ AfterRead(p, Received(p, d))
               ELSE /\ left_size' = [left_size EXCEPT ![p] = @ - Got(p, d)]
                    /\ buf' = [buf EXCEPT ![p] = Received(p, d)]
                    /\ UNCHANGED <<pc, message, left>>
  BY DEF Receive
<1>2. net' = [net EXCEPT ![p] = RemoveAt(net[p], i)]
  BY <1>1 DEF TypeOK
<1>3. Drops(p, net[p][i]) /\ net[p][i] \in Datagrams
  BY <1>2, Leaves
<1>4. net[p][i].word \in Words /\ net[p][i] \in On(p)
  BY <1>3 DEF Datagrams, Drops
<1>5. Received(p, net[p][i]) \in [Memory -> Words]
  <2>1. \A j \in Memory : buf[p][j] \in Words
    BY DEF TypeOK
  <2> QED BY <2>1, <1>4 DEF Received
<1>6. left_size' = [left_size EXCEPT ![p] = left_size[p] - Got(p, net[p][i])]
        \/ Got(p, net[p][i]) = left_size[p]
  BY <1>1 DEF TypeOK
<1> QED BY <1>1, <1>3, <1>4, <1>5, <1>6

(* How much it brings, and that what has come remains of one byte, as long  *)
(* as whole blocks of that byte come.                                       *)
LEMMA Brings ==
  ASSUME TypeOK, NEW p \in Procs, NEW d \in Datagrams
  PROVE  /\ Got(p, d) \in 1 .. left_size[p] /\ Got(p, d) <= d.len
         /\ Got(p, d) # left_size[p] => Got(p, d) = d.len /\ d.len < left_size[p]
         /\ left_size[p] - Got(p, d) \in 0 .. Size + MaxRetries
<1>1. d.len \in Nat \ {0} /\ left_size[p] \in 1 .. Size + MaxRetries /\ Size + MaxRetries \in Nat
  <2>1. d.len \in {1, Size}
    BY DEF Datagrams
  <2>2. MaxRetries \in Nat /\ Size \in Nat \ {0}
    BY SizeAssumption, BoundsAssumption
  <2> QED BY <2>1, <2>2 DEF TypeOK
<1> QED BY <1>1 DEF Got

LEMMA KeepsByte ==
  ASSUME TypeOK, NEW p \in Procs, NEW d \in Datagrams, NEW b,
         pc[p] = "read", d.len = Size, d.word.byte = b,
         \A i \in Index : i < Size - left_size[p] => buf[p][i].byte = b
  PROVE  /\ Got(p, d) = left_size[p] => \A i \in Index : Received(p, d)[i].byte = b
         /\ \A i \in Index : i < Size - (left_size[p] - Got(p, d)) => Received(p, d)[i].byte = b
<1> DEFINE to == Size - left_size[p]
           n == Got(p, d)
<1>1. to \in Int /\ n \in Nat \ {0} /\ Size \in Nat \ {0} /\ left_size[p] \in Nat \ {0}
  <2>1. Size \in Nat \ {0} /\ left_size[p] \in Nat \ {0}
    BY Named DEF Numeric, Procs
  <2>2. Got(p, d) \in 1 .. left_size[p]
    BY Brings
  <2> QED BY <2>1, <2>2
<1>2. \A i \in Index : Received(p, d)[i] = IF i - to \in 0 .. n - 1 THEN d.word ELSE buf[p][i]
  BY DEF Received, Wanted, Memory
<1>3. Size - (left_size[p] - n) = to + n
  BY <1>1
<1>4. n = left_size[p] => to + n = Size
  BY <1>1
<1> HIDE DEF to, n
<1>5. ASSUME NEW i \in Index, i < to + n PROVE Received(p, d)[i].byte = b
  <2>1. i \in Int
    BY <1>1 DEF Index
  <2>2. CASE i < to
    <3>1. ~(i - to \in 0 .. n - 1)
      BY <2>1, <2>2, <1>1
    <3> QED BY <3>1, <2>2, <1>2 DEF to
  <2>3. CASE ~(i < to)
    <3>1. i - to \in 0 .. n - 1
      BY <2>1, <2>3, <1>1, <1>5
    <3> QED BY <3>1, <1>2
  <2> QED BY <2>2, <2>3
<1>6. n = left_size[p] => \A i \in Index : i < to + n
  BY <1>1, <1>4 DEF Index
<1> QED BY <1>3, <1>5, <1>6 DEF n

LEMMA HelloInv == ASSUME IInv, Receive("server"), pc["server"] = "hello" PROVE IInv'
<1>1. /\ TypeOK /\ StartInv /\ DataInv /\ GreetInv /\ LeadInv /\ TurnInv /\ Numeric
      /\ (On("server") = {} <=> OnWay("server") = 0) /\ (On("client") = {} <=> OnWay("client") = 0)
  BY Named DEF IInv, Procs
<1>2. UNCHANGED <<count, isDebug, isNonblock, lost, duplicated>>
  BY DEF Receive, Options, History
<1>3. PICK d \in On("server") :
         /\ d \in Datagrams /\ Drops("server", d)
         /\ Received("server", d) \in [Memory -> Words]
         /\ IF Got("server", d) = left_size["server"]
            THEN /\ left_size' = [left_size EXCEPT !["server"] = Size]
                 /\ AfterRead("server", Received("server", d))
            ELSE /\ left_size' = [left_size EXCEPT !["server"] = left_size["server"] - Got("server", d)]
                 /\ buf' = [buf EXCEPT !["server"] = Received("server", d)]
                 /\ UNCHANGED <<pc, message, left>>
  BY <1>1, Receiving DEF Procs
<1>4. /\ ~Greeted /\ message = 0 /\ Replied = 0 /\ On("client") = {} /\ OnWay("client") = 0
      /\ pc["client"] \in {"read", "done", "aborted"}
      /\ \A e \in On("server") : e.word = Hello /\ e.len = 1 /\ e.word.byte = "s"
  BY <1>1, <1>3 DEF Greeted, StartInv, DataInv, Hello
<1>5. /\ net' \in [Procs -> Seq(Datagrams)]
      /\ OnWay("client")' = 0 /\ On("client")' = {} /\ On("server")' \subseteq On("server")
      /\ OnWay("server")' = OnWay("server") - 1
  BY <1>3, <1>4 DEF Drops, Peer
<1>6. Got("server", d) = 1 /\ left_size["server"] - 1 \in 0 .. Size + MaxRetries
  <2>1. d.len = 1
    BY <1>3, <1>4
  <2>2. left_size["server"] - Got("server", d) \in 0 .. Size + MaxRetries
    BY <1>1, <1>3, Brings DEF Procs
  <2>3. Got("server", d) = 1
    <3>1. left_size["server"] \in Nat \ {0}
      BY <1>1 DEF Numeric
    <3> QED BY <3>1, <2>1 DEF Got
  <2> QED BY <2>2, <2>3
<1>7. CASE left_size["server"] = 1
  <2>1. Received("server", d)[0].byte = "s"
    <3>1. 0 \in Index /\ Received("server", d)[0] = d.word
      BY <1>1, <1>3, <1>6, <1>7 DEF Received, Wanted, Memory, Index, Numeric
    <3> QED BY <3>1, <1>3, <1>4
  <2>2. /\ message' = 0 /\ left' = left /\ left_size' = [left_size EXCEPT !["server"] = Size]
        /\ \/ pc' = [pc EXCEPT !["server"] = "write"] /\ Loads("server", STC(0 + 1))
           \/ pc' = [pc EXCEPT !["server"] = "evaluate"] /\ buf' = buf
    BY <2>1, <1>3, <1>6, <1>7 DEF AfterRead, ServerLoop, Goes
  <2>3. /\ pc'["server"] \in {"write", "evaluate"} /\ pc'["client"] = pc["client"]
        /\ pc'["server"] = "write" => Loads("server", STC(0 + 1))
        /\ pc'["server"] = "evaluate" => buf' = buf
        /\ left_size'["server"] = Size /\ left_size'["client"] = left_size["client"]
    BY <2>2, <1>1 DEF TypeOK, Procs
  <2>fills. /\ pc'["server"] = "write" => \A i \in Index : buf'["server"][i] = STC(0 + 1)
         /\ buf'["client"] = buf["client"] /\ buf' \in [Procs -> [Memory -> Words]]
    <3>1. STC(0 + 1) \in Words /\ "server" \in Procs /\ Peer("server") = "client"
      BY WordTypes DEF Peer, Procs
    <3> QED BY <3>1, <2>3, <1>1, Fills DEF TypeOK
  <2>4. Replied' = 0 /\ Greeted'
    BY <2>2, <2>3, <1>2, <1>4 DEF Replied, Greeted
  <2>5. TypeOK'
    <3>1. left_size' \in [Procs -> 1 .. Size + MaxRetries]
      <4>1. Size \in 1 .. Size + MaxRetries
        BY SizeAssumption, BoundsAssumption
      <4> QED BY <4>1, <2>2, <1>1 DEF TypeOK
    <3>2. pc' \in [Procs -> Labels]
      BY <2>2, <1>1 DEF TypeOK, Labels
    <3> QED BY <3>1, <3>2, <2>2, <2>fills, <1>1, <1>2, <1>5 DEF TypeOK
  <2>6. StartInv'
    BY <2>3, <2>4, <1>1, <1>4 DEF StartInv, Procs, Reading
  <2>7. DataInv'
    BY <2>2, <2>3, <2>4, <2>fills, <1>1, <1>4, <1>5 DEF DataInv
  <2>8. OnWay("server")' <= duplicated["s"]
    BY <1>1, <1>5 DEF GreetInv, Numeric
  <2>9. GreetInv'
    <3>1. duplicated["s"] = 0 => On("server")' = {}
      BY <1>1, <1>2, <1>5, <2>8, Later DEF Procs
    <3> QED BY <3>1, <2>3, <1>2 DEF GreetInv
  <2>10. LeadInv'
    <3>1. Count("s")' = OnWay("server")' /\ Count("0x55")' = 0
      <4>1. \A e \in On("server")' : e.word.byte = "s"
        BY <1>4, <1>5
      <4> QED BY <4>1, <1>5, Later
    <3>2. Taken' = 0 /\ Sent' = 0
      BY <2>2, <2>3, <2>4, <1>4 DEF Taken, Sent
    <3>3. Bytes(message)' = 0 /\ Bytes(Count("0x55"))' = 0 /\ Bytes(Replied + duplicated["0x55"])' >= 0
      <4>1. 0 * Size = 0 /\ (0 + duplicated["0x55"]) * Size >= 0
        BY <1>1 DEF Numeric
      <4> QED BY <4>1, <3>1, <2>2, <2>4, <1>2 DEF Bytes
    <3>4. /\ Bytes(Replied + duplicated["0x55"])' \in Int /\ OnWay("server")' \in Int
          /\ duplicated' = duplicated
      <4>1. Replied' + duplicated'["0x55"] \in Int
        BY <2>4, <1>1, <1>2 DEF Numeric
      <4>2. Bytes(Replied + duplicated["0x55"])' = Bytes(Replied' + duplicated'["0x55"])
        BY DEF Bytes
      <4>3. Bytes(Replied' + duplicated'["0x55"]) \in Int
        BY <4>1, ByteCounts
      <4> QED BY <4>2, <4>3, <1>1, <1>2, <1>5, Later DEF Procs
    <3>5. Bytes(message)' + Brought' + Weight'
            <= Bytes(Replied + duplicated["0x55"])' + duplicated'["s"]
      <4>1. Brought' = 0
        BY <2>3, <1>1 DEF Brought, Numeric
      <4> QED BY <4>1, <3>1, <3>3, <3>4, <2>8, <1>1 DEF Weight, Numeric
    <3>6. Taken' + OnWay("client")' <= Sent' + duplicated'["0xAA"]
      BY <3>2, <1>1, <1>2, <1>5 DEF Numeric
    <3> QED BY <3>5, <3>6 DEF LeadInv
  <2>11. ASSUME MaxDuplicated = 0 PROVE Turns'
    <3>1. Turns
      BY <1>1, <2>11 DEF TurnInv
    <3>2. /\ Total = 1 /\ Total' <= 1 /\ (pc'["server"] = "evaluate" => Total' = 0)
          /\ OnWay("server")' = 0
      <4>1. Total = 1 /\ OnWay("server") = 1
        <5>1. OnWay("server") # 0
          BY <1>1, <1>3
        <5> QED BY <5>1, <3>1, <1>1, Tokens DEF Procs
      <4>2. OnWay("server")' = 0
        BY <4>1, <1>5
      <4> QED BY <4>1, <4>2, <2>3, <1>4, <1>5 DEF Total, One
    <3>3. On("server")' = {}
      BY <1>5, <3>2, Later DEF Procs
    <3>4. \A p \in Procs : pc'[p] \in Reading => left_size'[p] >= Wanted(p)'
      BY <3>1, <3>2, <2>3, <1>1 DEF Turns, Procs, Wanted, Reading
    <3> QED BY <3>2, <3>3, <3>4, <2>2, <2>3, <2>4, <1>4, <1>5 DEF Turns
  <2> QED BY <2>5, <2>6, <2>7, <2>9, <2>10, <2>11 DEF IInv, TurnInv
<1>8. CASE left_size["server"] # 1
  <2>1. /\ left_size' = [left_size EXCEPT !["server"] = left_size["server"] - 1]
        /\ buf' = [buf EXCEPT !["server"] = Received("server", d)]
        /\ UNCHANGED <<pc, message, left>>
    BY <1>3, <1>6, <1>8
  <2>2. /\ left_size'["server"] = left_size["server"] - 1 /\ left_size'["client"] = left_size["client"]
        /\ buf'["client"] = buf["client"] /\ left_size["server"] - 1 >= 1
    BY <2>1, <1>1, <1>8 DEF TypeOK, Procs, Numeric
  <2>3. Replied' = 0 /\ ~Greeted'
    BY <2>1, <1>2, <1>4 DEF Replied, Greeted
  <2>4. TypeOK'
    <3>1. left_size["server"] - 1 \in 1 .. Size + MaxRetries
      BY <2>2, <1>6
    <3>2. left_size' \in [Procs -> 1 .. Size + MaxRetries] /\ buf' \in [Procs -> [Memory -> Words]]
      BY <3>1, <2>1, <1>1, <1>3 DEF TypeOK
    <3> QED BY <3>2, <2>1, <1>1, <1>2, <1>5 DEF TypeOK
  <2>5. StartInv'
    BY <2>1, <2>2, <2>3, <1>1, <1>4, <1>5 DEF StartInv, Procs, Reading
  <2>6. DataInv' /\ GreetInv'
    <3>1. DataInv'
      BY <2>1, <2>2, <2>3, <1>1, <1>2, <1>4, <1>5 DEF DataInv
    <3>2. OnWay("server") \in Nat /\ OnWay("server") <= 1 + duplicated["s"] /\ duplicated["s"] \in Nat
      BY <1>1 DEF GreetInv, Numeric
    <3>3. OnWay("server")' <= 1 + duplicated'["s"]
      BY <3>2, <1>2, <1>5
    <3> QED BY <3>1, <3>3, <2>3 DEF GreetInv
  <2>7. LeadInv'
    BY <2>1, <2>3, <1>1, <1>2, <1>4, <1>5 DEF LeadInv, Taken, Sent
  <2>8. ASSUME MaxDuplicated = 0 PROVE Turns'
    <3>1. Turns
      BY <1>1, <2>8 DEF TurnInv
    <3>2. Total = 1 /\ Total' = 0
      <4>1. Total = 1 /\ OnWay("server") = 1
        <5>1. OnWay("server") # 0
          BY <1>1, <1>3
        <5> QED BY <5>1, <3>1, <1>1, Tokens DEF Procs
      <4>2. OnWay("server")' = 0
        BY <4>1, <1>5
      <4> QED BY <4>1, <4>2, <2>1, <1>1, <1>4, <1>5 DEF Total, One
    <3> QED BY <3>1, <3>2, <2>1, <2>2, <2>3, <1>4, <1>5 DEF Turns
  <2> QED BY <2>4, <2>5, <2>6, <2>7, <2>8 DEF IInv, TurnInv
<1> QED BY <1>7, <1>8

LEMMA ServerReadInv == ASSUME IInv, Receive("server"), pc["server"] = "read" PROVE IInv'
<1>1. /\ TypeOK /\ StartInv /\ DataInv /\ GreetInv /\ LeadInv /\ TurnInv /\ Numeric
      /\ (On("server") = {} <=> OnWay("server") = 0) /\ (On("client") = {} <=> OnWay("client") = 0)
  BY Named DEF IInv, Procs
<1>2. UNCHANGED <<count, isDebug, isNonblock, lost, duplicated>>
  BY DEF Receive, Options, History
<1>3. PICK d \in On("server") :
         /\ d \in Datagrams /\ Drops("server", d)
         /\ Received("server", d) \in [Memory -> Words]
         /\ IF Got("server", d) = left_size["server"]
            THEN /\ left_size' = [left_size EXCEPT !["server"] = Size]
                 /\ AfterRead("server", Received("server", d))
            ELSE /\ left_size' = [left_size EXCEPT !["server"] = left_size["server"] - Got("server", d)]
                 /\ buf' = [buf EXCEPT !["server"] = Received("server", d)]
                 /\ UNCHANGED <<pc, message, left>>
  BY <1>1, Receiving DEF Procs
<1>4. Greeted /\ OnWay("server") # 0
  BY <1>1, <1>3 DEF Greeted
<1>5. /\ net' \in [Procs -> Seq(Datagrams)]
      /\ OnWay("client")' = OnWay("client") /\ On("client")' = On("client")
      /\ On("server")' \subseteq On("server") /\ OnWay("server")' = OnWay("server") - 1
  BY <1>3 DEF Drops, Peer
<1>6. /\ Got("server", d) \in 1 .. left_size["server"] /\ Got("server", d) <= d.len
      /\ Got("server", d) # left_size["server"] =>
           Got("server", d) = d.len /\ d.len < left_size["server"]
      /\ left_size["server"] - Got("server", d) \in 0 .. Size + MaxRetries
  BY <1>1, <1>3, Brings DEF Procs
<1>7. Weight \in Int /\ Weight' = Weight - d.len /\ d.len \in Nat
  BY <1>3, <1>4, Lighter
<1>8. /\ Bytes(message) + Brought + Weight
           <= Bytes(Replied + duplicated["0x55"]) + duplicated["s"]
      /\ Bytes(message) \in Int /\ Bytes(Replied + duplicated["0x55"]) \in Int
      /\ Bytes(message + 1) = Bytes(message) + Size
      /\ Brought \in Nat /\ Brought >= Size - left_size["server"]
  BY <1>1, <1>4, Weighed
<1>9. duplicated["s"] = 0 =>
        /\ Got("server", d) = left_size["server"] => ~Rejects("server", Received("server", d))
        /\ \A i \in Index : i < Size - (left_size["server"] - Got("server", d)) =>
             Received("server", d)[i].byte = "0x55"
  <2>1. ASSUME duplicated["s"] = 0
        PROVE  /\ d.word.byte = "0x55" /\ d.len = Size
               /\ \A i \in Index : i < Size - left_size["server"] => buf["server"][i].byte = "0x55"
    BY <2>1, <1>1, <1>3, <1>4 DEF GreetInv, DataInv, Hello
  <2>2. ASSUME duplicated["s"] = 0
        PROVE  /\ Got("server", d) = left_size["server"] =>
                    \A i \in Index : Received("server", d)[i].byte = "0x55"
               /\ \A i \in Index : i < Size - (left_size["server"] - Got("server", d)) =>
                    Received("server", d)[i].byte = "0x55"
    BY <2>1, <2>2, <1>1, <1>3, KeepsByte DEF Procs
  <2> QED BY <2>2 DEF Rejects
<1>10. ASSUME MaxDuplicated = 0
       PROVE  /\ Turns /\ duplicated["s"] = 0
              /\ Total = 1 /\ OnWay("server") = 1 /\ OnWay("client") = 0 /\ On("client") = {}
              /\ pc["client"] # "write" /\ Replied = message + 1
              /\ \A p \in Procs : pc[p] \in Reading => left_size[p] >= Wanted(p)
  <2>1. Turns
    BY <1>1, <1>10 DEF TurnInv
  <2>2. duplicated["s"] = 0
    BY <1>1, <1>10 DEF TypeOK, Kinds
  <2>3. Total = 1 /\ OnWay("server") = 1 /\ OnWay("client") = 0 /\ pc["client"] # "write"
    BY <2>1, <1>1, <1>4 DEF Turns, Total, One, Numeric
  <2> QED BY <2>1, <2>2, <2>3, <1>1, <1>3, <1>4 DEF Turns
<1>11. CASE /\ Got("server", d) = left_size["server"]
            /\ ~Rejects("server", Received("server", d))
  <2>1. /\ message' = message + 1 /\ left' = left
        /\ left_size' = [left_size EXCEPT !["server"] = Size]
        /\ \/ pc' = [pc EXCEPT !["server"] = "write"] /\ Loads("server", STC(message + 1 + 1))
           \/ pc' = [pc EXCEPT !["server"] = "evaluate"] /\ buf' = buf
    BY <1>3, <1>11 DEF AfterRead, ServerLoop, Goes
  <2>2. /\ pc'["server"] \in {"write", "evaluate"} /\ pc'["client"] = pc["client"]
        /\ pc'["server"] = "write" => Loads("server", STC(message + 1 + 1))
        /\ pc'["server"] = "evaluate" => buf' = buf
        /\ left_size'["server"] = Size /\ left_size'["client"] = left_size["client"]
    BY <2>1, <1>1 DEF TypeOK, Procs
  <2>fills. /\ pc'["server"] = "write" => \A i \in Index : buf'["server"][i] = STC(message' + 1)
         /\ buf'["client"] = buf["client"] /\ buf' \in [Procs -> [Memory -> Words]]
    <3>1. message + 1 + 1 \in Nat
      BY <1>1 DEF Numeric
    <3>2. STC(message + 1 + 1) \in Words /\ "server" \in Procs /\ Peer("server") = "client"
      BY <3>1, WordTypes DEF Peer, Procs
    <3> QED BY <3>2, <2>1, <2>2, <1>1, Fills DEF TypeOK
  <2>3. Replied' = Replied /\ Greeted'
    BY <2>1, <2>2, <1>2 DEF Replied, Greeted
  <2>4. TypeOK'
    <3>1. left_size' \in [Procs -> 1 .. Size + MaxRetries]
      <4>1. Size \in 1 .. Size + MaxRetries
        BY SizeAssumption, BoundsAssumption
      <4> QED BY <4>1, <2>1, <1>1 DEF TypeOK
    <3>2. pc' \in [Procs -> Labels]
      BY <2>1, <1>1 DEF TypeOK, Labels
    <3>3. message' \in Nat
      BY <2>1, <1>1 DEF TypeOK
    <3> QED BY <3>1, <3>2, <3>3, <2>1, <2>fills, <1>1, <1>2, <1>5 DEF TypeOK
  <2>5. StartInv'
    BY <2>2, <2>3, <1>1, <1>2, <1>4, <1>5 DEF StartInv, Procs, Reading
  <2>6. DataInv'
    BY <2>2, <2>3, <2>fills, <1>1, <1>4, <1>5 DEF DataInv
  <2>7. GreetInv'
    BY <2>2, <1>1, <1>2, <1>4, <1>5 DEF GreetInv
  <2>8. LeadInv'
    <3>1. Taken' = Taken /\ Sent' = Sent
      BY <2>1, <2>2, <2>3, <1>1 DEF Taken, Sent, Numeric
    <3>2. /\ Bytes(message)' = Bytes(message + 1)
          /\ Bytes(Replied + duplicated["0x55"])' = Bytes(Replied + duplicated["0x55"])
      BY <2>1, <2>3, <1>2 DEF Bytes
    <3>3. Bytes(message)' + Brought' + Weight'
            <= Bytes(Replied + duplicated["0x55"])' + duplicated'["s"]
      <4>1. Brought' = 0 /\ Size <= Brought + d.len
        BY <2>2, <1>1, <1>6, <1>7, <1>8, <1>11 DEF Brought, Numeric
      <4> QED BY <4>1, <3>2, <1>1, <1>2, <1>7, <1>8 DEF Numeric
    <3>4. Taken' + OnWay("client")' <= Sent' + duplicated'["0xAA"]
      BY <3>1, <1>1, <1>2, <1>5 DEF LeadInv
    <3> QED BY <3>3, <3>4 DEF LeadInv
  <2>9. ASSUME MaxDuplicated = 0 PROVE Turns'
    <3>1. Total' <= 1 /\ (pc'["server"] = "evaluate" => Total' = 0) /\ OnWay("server")' = 0
      <4>1. /\ OnWay("server")' = 0 /\ OnWay("client")' = 0
            /\ pc["client"] \notin {"write", "off", "greet"}
        BY <1>10, <2>9, <1>5 DEF Total, One
      <4> QED BY <4>1, <2>2 DEF Total, One
    <3>2. On("server")' = {} /\ On("client")' = {}
      BY <3>1, <1>5, <1>10, <2>9, Later DEF Procs
    <3>3. \A p \in Procs : pc'[p] \in Reading => left_size'[p] >= Wanted(p)'
      BY <1>10, <2>9, <2>2 DEF Procs, Wanted, Reading
    <3> QED BY <3>1, <3>2, <3>3, <1>10, <2>9, <2>1, <2>2, <2>3 DEF Turns
  <2> QED BY <2>4, <2>5, <2>6, <2>7, <2>8, <2>9 DEF IInv, TurnInv
<1>12. CASE /\ Got("server", d) = left_size["server"]
            /\ Rejects("server", Received("server", d))
  <2>1. /\ pc' = [pc EXCEPT !["server"] = "mismatch"]
        /\ buf' = [buf EXCEPT !["server"] = Received("server", d)]
        /\ left_size' = [left_size EXCEPT !["server"] = Size]
        /\ UNCHANGED <<message, left>>
    BY <1>3, <1>12 DEF AfterRead, Goes
  <2>2. /\ pc'["server"] = "mismatch" /\ pc'["client"] = pc["client"]
        /\ buf'["client"] = buf["client"]
        /\ left_size'["server"] = Size /\ left_size'["client"] = left_size["client"]
    BY <2>1, <1>1 DEF TypeOK, Procs
  <2>3. Replied' = Replied /\ Greeted'
    BY <2>1, <2>2, <1>2 DEF Replied, Greeted
  <2>4. TypeOK'
    <3>1. buf' \in [Procs -> [Memory -> Words]]
      BY <2>1, <1>1, <1>3 DEF TypeOK
    <3>2. left_size' \in [Procs -> 1 .. Size + MaxRetries]
      <4>1. Size \in 1 .. Size + MaxRetries
        BY SizeAssumption, BoundsAssumption
      <4> QED BY <4>1, <2>1, <1>1 DEF TypeOK
    <3>3. pc' \in [Procs -> Labels]
      BY <2>1, <1>1 DEF TypeOK, Labels, Ended
    <3> QED BY <3>1, <3>2, <3>3, <2>1, <1>1, <1>2, <1>5 DEF TypeOK
  <2>5. StartInv'
    BY <2>2, <2>3, <1>1, <1>2, <1>4, <1>5 DEF StartInv, Procs, Reading
  <2>6. DataInv'
    BY <2>2, <2>3, <1>1, <1>4, <1>5 DEF DataInv
  <2>7. duplicated["s"] # 0
    BY <1>9, <1>12
  <2>8. GreetInv'
    BY <2>2, <2>7, <1>2 DEF GreetInv
  <2>9. LeadInv'
    <3>1. Taken' = Taken /\ Sent' = Sent
      BY <2>1, <2>2, <2>3 DEF Taken, Sent
    <3>2. /\ Bytes(message)' = Bytes(message)
          /\ Bytes(Replied + duplicated["0x55"])' = Bytes(Replied + duplicated["0x55"])
      BY <2>1, <2>3, <1>2 DEF Bytes
    <3>3. Bytes(message)' + Brought' + Weight'
            <= Bytes(Replied + duplicated["0x55"])' + duplicated'["s"]
      <4>1. Brought' = 0 /\ Size <= Brought + d.len
        BY <2>2, <1>1, <1>6, <1>7, <1>8, <1>12 DEF Brought, Numeric
      <4> QED BY <4>1, <3>2, <1>1, <1>2, <1>7, <1>8 DEF Numeric
    <3>4. Taken' + OnWay("client")' <= Sent' + duplicated'["0xAA"]
      BY <3>1, <1>1, <1>2, <1>5 DEF LeadInv
    <3> QED BY <3>3, <3>4 DEF LeadInv
  <2>10. MaxDuplicated # 0
    BY <2>7, <1>10
  <2> QED BY <2>4, <2>5, <2>6, <2>8, <2>9, <2>10 DEF IInv, TurnInv
<1>13. CASE Got("server", d) # left_size["server"]
  <2>1. /\ left_size' = [left_size EXCEPT !["server"] = left_size["server"] - Got("server", d)]
        /\ buf' = [buf EXCEPT !["server"] = Received("server", d)]
        /\ UNCHANGED <<pc, message, left>>
    BY <1>3, <1>13
  <2>2. /\ left_size'["server"] = left_size["server"] - Got("server", d)
        /\ left_size'["client"] = left_size["client"]
        /\ buf'["client"] = buf["client"] /\ buf'["server"] = Received("server", d)
    BY <2>1, <1>1 DEF TypeOK, Procs
  <2>3. Replied' = Replied /\ Greeted'
    BY <2>1, <1>2, <1>4 DEF Replied, Greeted
  <2>4. TypeOK'
    <3>1. left_size["server"] - Got("server", d) \in 1 .. Size + MaxRetries
      BY <1>1, <1>6, <1>13 DEF Numeric
    <3>2. left_size' \in [Procs -> 1 .. Size + MaxRetries] /\ buf' \in [Procs -> [Memory -> Words]]
      BY <3>1, <2>1, <1>1, <1>3 DEF TypeOK
    <3> QED BY <3>2, <2>1, <1>1, <1>2, <1>5 DEF TypeOK
  <2>5. StartInv'
    BY <2>1, <2>2, <2>3, <1>1, <1>2, <1>4, <1>5 DEF StartInv, Procs, Reading
  <2>6. DataInv'
    BY <2>1, <2>2, <2>3, <1>1, <1>4, <1>5 DEF DataInv
  <2>7. GreetInv'
    BY <2>1, <2>2, <2>3, <1>1, <1>2, <1>4, <1>5, <1>9 DEF GreetInv
  <2>8. LeadInv'
    <3>1. Taken' = Taken /\ Sent' = Sent
      BY <2>1, <2>3 DEF Taken, Sent
    <3>2. /\ Bytes(message)' = Bytes(message)
          /\ Bytes(Replied + duplicated["0x55"])' = Bytes(Replied + duplicated["0x55"])
      BY <2>1, <2>3, <1>2 DEF Bytes
    <3>3. Bytes(message)' + Brought' + Weight'
            <= Bytes(Replied + duplicated["0x55"])' + duplicated'["s"]
      <4>1. Brought' \in Nat /\ Brought' <= Brought + d.len
        BY <2>2, <1>1, <1>6, <1>7, <1>8, <1>13 DEF Brought, Numeric
      <4> QED BY <4>1, <3>2, <1>1, <1>2, <1>7, <1>8 DEF Numeric
    <3>4. Taken' + OnWay("client")' <= Sent' + duplicated'["0xAA"]
      BY <3>1, <1>1, <1>2, <1>5 DEF LeadInv
    <3> QED BY <3>3, <3>4 DEF LeadInv
  <2>9. ASSUME MaxDuplicated = 0 PROVE Turns'
    <3>1. Total' = 0 /\ OnWay("server")' = 0
      <4>1. /\ OnWay("server")' = 0 /\ OnWay("client")' = 0
            /\ pc["client"] \notin {"write", "off", "greet"}
        BY <1>10, <2>9, <1>5 DEF Total, One
      <4>2. pc'["server"] = "read"
        BY <2>1
      <4> QED BY <4>1, <4>2, <2>1 DEF Total, One
    <3>2. On("server")' = {} /\ On("client")' = {}
      BY <3>1, <1>5, <1>10, <2>9, Later DEF Procs
    <3> QED BY <3>1, <3>2, <1>10, <2>9, <2>1, <2>3 DEF Turns
  <2> QED BY <2>4, <2>5, <2>6, <2>7, <2>8, <2>9 DEF IInv, TurnInv
<1> QED BY <1>11, <1>12, <1>13

LEMMA ClientReadInv == ASSUME IInv, Receive("client") PROVE IInv'
<1>1. /\ TypeOK /\ StartInv /\ DataInv /\ GreetInv /\ LeadInv /\ TurnInv /\ Numeric
      /\ (On("server") = {} <=> OnWay("server") = 0) /\ (On("client") = {} <=> OnWay("client") = 0)
  BY Named DEF IInv, Procs
<1>2. UNCHANGED <<count, isDebug, isNonblock, lost, duplicated>> /\ pc["client"] = "read"
  BY <1>1 DEF Receive, Options, History, StartInv, Reading
<1>3. PICK d \in On("client") :
         /\ d \in Datagrams /\ Drops("client", d)
         /\ Received("client", d) \in [Memory -> Words]
         /\ IF Got("client", d) = left_size["client"]
            THEN /\ left_size' = [left_size EXCEPT !["client"] = Size]
                 /\ AfterRead("client", Received("client", d))
            ELSE /\ left_size' = [left_size EXCEPT !["client"] = left_size["client"] - Got("client", d)]
                 /\ buf' = [buf EXCEPT !["client"] = Received("client", d)]
                 /\ UNCHANGED <<pc, message, left>>
  BY <1>1, Receiving DEF Procs
<1>4. Greeted /\ OnWay("client") # 0 /\ d.len = Size /\ d.word.byte = "0xAA"
  BY <1>1, <1>3 DEF StartInv, DataInv
<1>5. /\ net' \in [Procs -> Seq(Datagrams)]
      /\ OnWay("server")' = OnWay("server") /\ On("server")' = On("server")
      /\ On("client")' \subseteq On("client") /\ OnWay("client")' = OnWay("client") - 1
      /\ Weight' = Weight
  <2>1. Count("s")' = Count("s") /\ Count("0x55")' = Count("0x55")
    BY <1>1, <1>3 DEF Drops, One, Numeric
  <2> QED BY <2>1, <1>3 DEF Drops, Peer, Weight, Bytes
<1>6. /\ Got("client", d) \in 1 .. left_size["client"]
      /\ left_size["client"] - Got("client", d) \in 0 .. Size + MaxRetries
  BY <1>1, <1>3, Brings DEF Procs
<1>7. /\ Got("client", d) = left_size["client"] =>
           \A i \in Index : Received("client", d)[i].byte = "0xAA"
      /\ \A i \in Index : i < Size - (left_size["client"] - Got("client", d)) =>
           Received("client", d)[i].byte = "0xAA"
  <2>1. \A i \in Index : i < Size - left_size["client"] => buf["client"][i].byte = "0xAA"
    BY <1>1, <1>2 DEF DataInv
  <2> QED BY <2>1, <1>1, <1>2, <1>3, <1>4, KeepsByte DEF Procs
<1>8. ASSUME MaxDuplicated = 0
      PROVE  /\ Turns /\ Total = 1 /\ OnWay("client") = 1 /\ OnWay("server") = 0 /\ On("server") = {}
             /\ pc["server"] = "read" /\ Replied = message
             /\ \A p \in Procs : pc[p] \in Reading => left_size[p] >= Wanted(p)
  <2>1. Turns
    BY <1>1, <1>8 DEF TurnInv
  <2>2. Total = 1 /\ OnWay("client") = 1 /\ OnWay("server") = 0
    BY <2>1, <1>1, <1>4 DEF Turns, Total, One, Numeric
  <2> QED BY <2>1, <2>2, <1>1, <1>3 DEF Turns
<1>9. CASE Got("client", d) = left_size["client"]
  <2>1. ~Rejects("client", Received("client", d))
    BY <1>7, <1>9 DEF Rejects
  <2>2. /\ pc' = [pc EXCEPT !["client"] = "write"]
        /\ Loads("client", CTS(Replied + 1))
        /\ left_size' = [left_size EXCEPT !["client"] = Size]
        /\ UNCHANGED <<message, left>>
    BY <2>1, <1>2, <1>3, <1>9 DEF AfterRead, Goes
  <2>fills. /\ \A i \in Index : buf'["client"][i] = CTS(Replied + 1)
         /\ buf'["server"] = buf["server"] /\ buf' \in [Procs -> [Memory -> Words]]
    <3>1. Replied + 1 \in Nat
      BY <1>1 DEF Numeric
    <3>2. CTS(Replied + 1) \in Words /\ "client" \in Procs /\ Peer("client") = "server"
      BY <3>1, WordTypes DEF Peer, Procs
    <3> QED BY <3>2, <2>2, <1>1, Fills
  <2>3. /\ pc'["client"] = "write" /\ pc'["server"] = pc["server"]
        /\ left_size'["client"] = Size /\ left_size'["server"] = left_size["server"]
    BY <2>2, <1>1 DEF TypeOK, Procs
  <2>4. Replied' = Replied /\ Greeted'
    BY <2>2, <2>3, <1>2, <1>4 DEF Replied, Greeted
  <2>5. TypeOK'
    <3>1. left_size' \in [Procs -> 1 .. Size + MaxRetries]
      <4>1. Size \in 1 .. Size + MaxRetries
        BY SizeAssumption, BoundsAssumption
      <4> QED BY <4>1, <2>2, <1>1 DEF TypeOK
    <3>2. pc' \in [Procs -> Labels]
      BY <2>2, <1>1 DEF TypeOK, Labels
    <3> QED BY <3>1, <3>2, <2>2, <2>fills, <1>1, <1>2, <1>5 DEF TypeOK
  <2>6. StartInv'
    BY <2>2, <2>3, <2>4, <1>1, <1>2, <1>4, <1>5 DEF StartInv, Procs, Reading
  <2>7. DataInv'
    BY <2>2, <2>3, <2>4, <2>fills, <1>1, <1>4, <1>5 DEF DataInv
  <2>8. GreetInv'
    BY <2>3, <2>fills, <1>1, <1>2, <1>4, <1>5 DEF GreetInv
  <2>9. LeadInv'
    <3>1. Taken' = Taken + 1 /\ Sent' = Sent /\ Taken \in Nat /\ Sent \in Nat
      BY <2>2, <2>3, <2>4, <1>1, <1>2 DEF Taken, Sent, Numeric
    <3>2. Taken' + OnWay("client")' <= Sent' + duplicated'["0xAA"]
      <4>1. /\ Taken + OnWay("client") <= Sent + duplicated["0xAA"]
            /\ OnWay("client") \in Int /\ duplicated["0xAA"] \in Int
        BY <1>1 DEF LeadInv, Numeric
      <4> QED BY <4>1, <3>1, <1>2, <1>5
    <3>3. /\ Bytes(message)' = Bytes(message) /\ Brought' = Brought
          /\ Bytes(Replied + duplicated["0x55"])' = Bytes(Replied + duplicated["0x55"])
      BY <2>2, <2>3, <2>4, <1>2 DEF Bytes, Brought
    <3>4. Bytes(message)' + Brought' + Weight'
            <= Bytes(Replied + duplicated["0x55"])' + duplicated'["s"]
      BY <3>3, <2>3, <1>1, <1>2, <1>4, <1>5 DEF LeadInv
    <3> QED BY <3>2, <3>4 DEF LeadInv
  <2>10. ASSUME MaxDuplicated = 0 PROVE Turns'
    <3>1. Total' = 1 /\ OnWay("client")' = 0 /\ OnWay("server")' = 0
      <4>1. OnWay("client")' = 0 /\ OnWay("server")' = 0
        BY <1>8, <2>10, <1>5
      <4> QED BY <4>1, <1>8, <2>10, <2>3 DEF Total, One
    <3>2. On("server")' = {} /\ On("client")' = {}
      BY <3>1, <1>5, Later DEF Procs
    <3>3. \A p \in Procs : pc'[p] \in Reading => left_size'[p] >= Wanted(p)'
      BY <1>8, <2>10, <2>3 DEF Procs, Wanted, Reading
    <3> QED BY <3>1, <3>2, <3>3, <1>8, <2>10, <2>2, <2>3, <2>4 DEF Turns
  <2> QED BY <2>5, <2>6, <2>7, <2>8, <2>9, <2>10 DEF IInv, TurnInv
<1>10. CASE Got("client", d) # left_size["client"]
  <2>1. /\ left_size' = [left_size EXCEPT !["client"] = left_size["client"] - Got("client", d)]
        /\ buf' = [buf EXCEPT !["client"] = Received("client", d)]
        /\ UNCHANGED <<pc, message, left>>
    BY <1>3, <1>10
  <2>2. /\ left_size'["client"] = left_size["client"] - Got("client", d)
        /\ left_size'["server"] = left_size["server"]
        /\ buf'["server"] = buf["server"] /\ buf'["client"] = Received("client", d)
    BY <2>1, <1>1 DEF TypeOK, Procs
  <2>3. Replied' = Replied /\ Greeted'
    BY <2>1, <1>2, <1>4 DEF Replied, Greeted
  <2>4. TypeOK'
    <3>1. left_size["client"] - Got("client", d) \in 1 .. Size + MaxRetries
      BY <1>1, <1>6, <1>10 DEF Numeric
    <3>2. left_size' \in [Procs -> 1 .. Size + MaxRetries] /\ buf' \in [Procs -> [Memory -> Words]]
      BY <3>1, <2>1, <1>1, <1>3 DEF TypeOK
    <3> QED BY <3>2, <2>1, <1>1, <1>2, <1>5 DEF TypeOK
  <2>5. StartInv'
    BY <2>1, <2>2, <2>3, <1>1, <1>2, <1>4, <1>5 DEF StartInv, Procs, Reading
  <2>6. DataInv'
    BY <2>1, <2>2, <2>3, <1>1, <1>2, <1>4, <1>5, <1>7 DEF DataInv
  <2>7. GreetInv'
    BY <2>1, <2>2, <2>3, <1>1, <1>2, <1>4, <1>5 DEF GreetInv
  <2>8. LeadInv'
    <3>1. Taken' = Taken /\ Sent' = Sent /\ Taken \in Nat /\ Sent \in Nat
      BY <2>1, <2>3, <1>1 DEF Taken, Sent, Numeric
    <3>2. Taken' + OnWay("client")' <= Sent' + duplicated'["0xAA"]
      <4>1. /\ Taken + OnWay("client") <= Sent + duplicated["0xAA"]
            /\ OnWay("client") \in Int /\ duplicated["0xAA"] \in Int
        BY <1>1 DEF LeadInv, Numeric
      <4> QED BY <4>1, <3>1, <1>2, <1>5
    <3>3. /\ Bytes(message)' = Bytes(message) /\ Brought' = Brought
          /\ Bytes(Replied + duplicated["0x55"])' = Bytes(Replied + duplicated["0x55"])
      BY <2>1, <2>2, <2>3, <1>2 DEF Bytes, Brought
    <3>4. Bytes(message)' + Brought' + Weight'
            <= Bytes(Replied + duplicated["0x55"])' + duplicated'["s"]
      BY <3>3, <2>2, <1>1, <1>2, <1>4, <1>5 DEF LeadInv
    <3> QED BY <3>2, <3>4 DEF LeadInv
  <2>9. ASSUME MaxDuplicated = 0 PROVE Turns'
    <3>1. Total' = 0 /\ OnWay("client")' = 0 /\ OnWay("server")' = 0
      <4>1. OnWay("client")' = 0 /\ OnWay("server")' = 0
        BY <1>8, <2>9, <1>5
      <4>2. pc["client"] = "read" /\ pc["server"] = "read"
        BY <1>2, <1>8, <2>9
      <4> QED BY <4>1, <4>2, <2>1 DEF Total, One
    <3>2. On("server")' = {} /\ On("client")' = {}
      BY <3>1, <1>5, Later DEF Procs
    <3> QED BY <3>1, <3>2, <1>8, <2>9, <2>1, <2>3 DEF Turns
  <2> QED BY <2>4, <2>5, <2>6, <2>7, <2>8, <2>9 DEF IInv, TurnInv
<1> QED BY <1>9, <1>10

LEMMA AgainInv == ASSUME IInv, NEW p \in Procs, Again(p) PROVE IInv'
<1>1. /\ TypeOK /\ StartInv /\ DataInv /\ GreetInv /\ LeadInv /\ TurnInv /\ Numeric
      /\ (On(p) = {} <=> net[p] = <<>>)
  BY Named DEF IInv
<1>2. /\ pc[p] \in Reading /\ net[p] = <<>> /\ left_size[p] < Wanted(p) + MaxRetries
      /\ left_size' = [left_size EXCEPT ![p] = left_size[p] + 1]
      /\ UNCHANGED <<pc, net, buf, message, left, count, isDebug, isNonblock, lost, duplicated>>
  BY <1>1 DEF Again, Options, History, TypeOK
<1>3. left_size'[p] = left_size[p] + 1 /\ \A q \in Procs : q # p => left_size'[q] = left_size[q]
  BY <1>1, <1>2 DEF TypeOK
<1>4. ASSUME NEW q \in Procs
      PROVE  left_size[q] \in Int /\ left_size'[q] \in Int /\ left_size'[q] >= left_size[q]
  <2>1. left_size[q] \in Int
    <3>1. left_size["server"] \in Int /\ left_size["client"] \in Int
      BY <1>1 DEF Numeric
    <3> QED BY <3>1 DEF Procs
  <2>2. left_size'[q] = left_size[q] \/ left_size'[q] = left_size[q] + 1
    BY <1>3
  <2> QED BY <2>1, <2>2
<1>5. Same /\ Replied' = Replied /\ Greeted' = Greeted
  BY <1>2, Stays DEF Replied, Greeted
<1>6. left_size[p] + 1 \in 1 .. Size + MaxRetries
  <2>1. left_size[p] \in Nat \ {0} /\ MaxRetries \in Nat /\ Size \in Nat \ {0}
    BY <1>1, BoundsAssumption DEF Numeric, Procs
  <2>2. Wanted(p) <= Size
    BY <2>1 DEF Wanted
  <2>3. Wanted(p) \in Int
    BY <2>1 DEF Wanted
  <2> QED BY <2>1, <2>2, <2>3, <1>2
<1>7. TypeOK'
  BY <1>1, <1>2, <1>6 DEF TypeOK
<1>8. StartInv'
  BY <1>1, <1>2, <1>3, <1>5 DEF StartInv, Same, Procs, Reading
<1>9. DataInv'
  <2>1. ASSUME pc["client"] = "read", NEW i \in Index, i < Size - left_size'["client"]
        PROVE  buf["client"][i].byte = "0xAA"
    <3>1. /\ left_size["client"] \in Int /\ left_size'["client"] \in Int
          /\ left_size'["client"] >= left_size["client"]
      BY <1>4 DEF Procs
    <3>2. i < Size - left_size["client"]
      BY <3>1, <2>1, SizeAssumption DEF Index
    <3> QED BY <3>2, <2>1, <1>1 DEF DataInv
  <2> QED BY <2>1, <1>1, <1>2, <1>5 DEF DataInv, Same
<1>10. GreetInv'
  <2>1. ASSUME Greeted, duplicated["s"] = 0, pc["server"] = "read",
               NEW i \in Index, i < Size - left_size'["server"]
        PROVE  buf["server"][i].byte = "0x55"
    <3>1. /\ left_size["server"] \in Int /\ left_size'["server"] \in Int
          /\ left_size'["server"] >= left_size["server"]
      BY <1>4 DEF Procs
    <3>2. i < Size - left_size["server"]
      BY <3>1, <2>1, SizeAssumption DEF Index
    <3> QED BY <3>2, <2>1, <1>1 DEF GreetInv
  <2> QED BY <2>1, <1>1, <1>2, <1>5 DEF GreetInv, Same
<1>11. LeadInv'
  <2>1. /\ Weight' = Weight /\ Bytes(message)' = Bytes(message)
        /\ Bytes(Replied + duplicated["0x55"])' = Bytes(Replied + duplicated["0x55"])
        /\ Taken' = Taken /\ Sent' = Sent
    BY <1>2, <1>5 DEF Weight, Bytes, Same, Taken, Sent
  <2>2. /\ Weight \in Int /\ Brought \in Nat /\ Bytes(message) \in Int /\ Bytes(Replied + duplicated["0x55"]) \in Int
        /\ LeadInv /\ Greeted =>
             Bytes(message) + Brought + Weight
               <= Bytes(Replied + duplicated["0x55"]) + duplicated["s"]
    BY <1>1, Weighed
  <2>3. /\ left_size["server"] \in Int /\ left_size'["server"] \in Int
        /\ left_size'["server"] >= left_size["server"]
    BY <1>4 DEF Procs
  <2>4. Greeted => Bytes(message)' + Brought' + Weight'
                     <= Bytes(Replied + duplicated["0x55"])' + duplicated'["s"]
    <3>1. Greeted => Bytes(message) + Brought + Weight
                       <= Bytes(Replied + duplicated["0x55"]) + duplicated["s"]
      BY <2>2, <1>1
    <3>2. duplicated'["s"] = duplicated["s"] /\ duplicated["s"] \in Int
      BY <1>1, <1>2 DEF Numeric
    <3>3. Brought' \in Nat /\ Brought' <= Brought
      BY <2>3, SizeAssumption DEF Brought
    <3> QED BY <2>1, <2>2, <3>1, <3>2, <3>3
  <2>5. Taken' + OnWay("client")' <= Sent' + duplicated'["0xAA"]
    BY <2>1, <1>1, <1>2, <1>5 DEF LeadInv, Same
  <2> QED BY <2>4, <2>5, <1>5 DEF LeadInv
<1>12. ASSUME MaxDuplicated = 0 PROVE Turns'
  <2>1. Turns
    BY <1>1, <1>12 DEF TurnInv
  <2>2. Total' = Total
    BY <1>2, <1>5 DEF Total, Same
  <2>3. ASSUME NEW q \in Procs, pc[q] \in Reading
        PROVE  left_size'[q] >= Wanted(q) \/ Total = 0
    <3>1. left_size'[q] >= left_size[q] /\ left_size'[q] \in Int /\ left_size[q] \in Int
      BY <1>1, <1>4 DEF Numeric, Procs
    <3>2. left_size[q] >= Wanted(q) \/ Total = 0
      BY <2>1, <2>3 DEF Turns
    <3>3. Wanted(q) \in Int
      BY <1>1 DEF Wanted, Numeric
    <3> QED BY <3>1, <3>2, <3>3
  <2>4. \A q \in Procs : pc'[q] \in Reading => left_size'[q] >= Wanted(q)' \/ Total' = 0
    BY <2>2, <2>3, <1>2 DEF Wanted
  <2> QED BY <2>1, <2>2, <2>4, <1>2, <1>5 DEF Turns, Same
<1> QED BY <1>7, <1>8, <1>9, <1>10, <1>11, <1>12 DEF IInv, TurnInv

LEMMA LaunchInv == ASSUME IInv, ServerLaunch PROVE IInv'
<1>1. /\ TypeOK /\ StartInv /\ DataInv /\ GreetInv /\ LeadInv /\ TurnInv /\ Numeric
      /\ (On("server") = {} <=> OnWay("server") = 0)
  BY Named DEF IInv, Procs
<1>2. /\ pc["server"] = "off" /\ pc' = [pc EXCEPT !["server"] = "hello"]
      /\ left_size' = [left_size EXCEPT !["server"] = 1]
      /\ UNCHANGED <<net, buf, message, left, count, isDebug, isNonblock, lost, duplicated>>
  BY DEF ServerLaunch, Goes, Options, History
<1>3. /\ pc'["server"] = "hello" /\ pc'["client"] = pc["client"]
      /\ left_size'["server"] = 1 /\ left_size'["client"] = left_size["client"]
  BY <1>1, <1>2 DEF TypeOK, Procs
<1>4. Same /\ Replied' = Replied /\ ~Greeted /\ ~Greeted'
  BY <1>2, <1>3, Stays DEF Replied, Greeted
<1>5. On("server") = {} /\ OnWay("server") = 0 /\ On("client") = {}
  BY <1>1, <1>2, <1>4 DEF StartInv
<1>6. TypeOK'
  <2>1. 1 \in 1 .. Size + MaxRetries
    BY SizeAssumption, BoundsAssumption
  <2> QED BY <2>1, <1>1, <1>2 DEF TypeOK, Labels
<1>7. StartInv'
  BY <1>1, <1>2, <1>3, <1>4 DEF StartInv, Same, Procs, Reading
<1>8. DataInv' /\ GreetInv'
  BY <1>1, <1>2, <1>3, <1>4, <1>5 DEF DataInv, GreetInv, Same, Numeric
<1>9. LeadInv'
  BY <1>1, <1>2, <1>3, <1>4 DEF LeadInv, Same, Taken, Sent
<1>10. ASSUME MaxDuplicated = 0 PROVE Turns'
  <2>1. Turns
    BY <1>1, <1>10 DEF TurnInv
  <2>2. Total' = Total
    BY <1>2, <1>3, <1>4 DEF Total, Same, One
  <2>3. \A p \in Procs : pc'[p] \in Reading => left_size'[p] >= Wanted(p)' \/ Total' = 0
    BY <2>1, <2>2, <1>3 DEF Turns, Procs, Wanted, Reading
  <2> QED BY <2>1, <2>2, <2>3, <1>2, <1>3, <1>4, <1>5 DEF Turns, Same
<1> QED BY <1>6, <1>7, <1>8, <1>9, <1>10 DEF IInv, TurnInv

LEMMA EvaluatesInv == ASSUME IInv, ServerEvaluates PROVE IInv'
<1>1. TypeOK /\ StartInv /\ DataInv /\ GreetInv /\ LeadInv /\ TurnInv
  BY DEF IInv
<1>2. /\ pc["server"] = "evaluate"
      /\ \E to \in {"done", "aborted"} : pc' = [pc EXCEPT !["server"] = to]
      /\ UNCHANGED <<net, buf, left_size, message, left, count, isDebug, isNonblock, lost, duplicated>>
  BY DEF ServerEvaluates, Goes, Local, Options, History
<1>3. pc'["server"] \in {"done", "aborted"} /\ pc'["client"] = pc["client"]
  BY <1>1, <1>2 DEF TypeOK, Procs
<1>4. Same /\ Replied' = Replied /\ Greeted /\ Greeted'
  BY <1>2, <1>3, Stays DEF Replied, Greeted
<1>5. TypeOK'
  BY <1>1, <1>2 DEF TypeOK, Labels, Ended
<1>6. StartInv'
  BY <1>1, <1>2, <1>3, <1>4 DEF StartInv, Same, Procs, Reading
<1>7. DataInv' /\ GreetInv'
  BY <1>1, <1>2, <1>3, <1>4 DEF DataInv, GreetInv, Same
<1>8. LeadInv'
  <2>1. /\ Weight' = Weight /\ Brought' = Brought /\ Bytes(message)' = Bytes(message)
        /\ Bytes(Replied + duplicated["0x55"])' = Bytes(Replied + duplicated["0x55"])
        /\ Taken' = Taken /\ Sent' = Sent
    BY <1>2, <1>3, <1>4 DEF Weight, Brought, Bytes, Same, Taken, Sent
  <2> QED BY <2>1, <1>1, <1>2, <1>4 DEF LeadInv, Same
<1>9. ASSUME MaxDuplicated = 0 PROVE Turns'
  <2>1. Turns
    BY <1>1, <1>9 DEF TurnInv
  <2>2. Total' = Total
    BY <1>2, <1>3, <1>4 DEF Total, Same, One
  <2>3. \A p \in Procs : pc'[p] \in Reading => left_size'[p] >= Wanted(p)' \/ Total' = 0
    BY <2>1, <2>2, <1>2, <1>3 DEF Turns, Procs, Wanted, Reading
  <2> QED BY <2>1, <2>2, <2>3, <1>2, <1>3, <1>4 DEF Turns, Same
<1> QED BY <1>5, <1>6, <1>7, <1>8, <1>9 DEF IInv, TurnInv

LEMMA ClientLaunchInv == ASSUME IInv, ClientLaunch PROVE IInv'
<1>1. TypeOK /\ StartInv /\ DataInv /\ GreetInv /\ LeadInv /\ TurnInv
  BY DEF IInv
<1>2. /\ pc["client"] = "off" /\ pc' = [pc EXCEPT !["client"] = "greet"]
      /\ UNCHANGED <<net, buf, left_size, message, left, count, isDebug, isNonblock, lost, duplicated>>
  BY DEF ClientLaunch, Goes, Local, Options, History
<1>3. pc'["client"] = "greet" /\ pc'["server"] = pc["server"]
  BY <1>1, <1>2 DEF TypeOK, Procs
<1>4. Same /\ Replied' = Replied /\ ~Greeted /\ ~Greeted' /\ On("client") = {}
  BY <1>1, <1>2, <1>3, Stays DEF Replied, Greeted, StartInv
<1>5. TypeOK'
  BY <1>1, <1>2 DEF TypeOK, Labels
<1>6. StartInv'
  BY <1>1, <1>2, <1>3, <1>4 DEF StartInv, Same, Procs, Reading
<1>7. DataInv' /\ GreetInv'
  BY <1>1, <1>2, <1>3, <1>4 DEF DataInv, GreetInv, Same
<1>8. LeadInv'
  BY <1>1, <1>2, <1>3, <1>4 DEF LeadInv, Same, Taken, Sent
<1>9. ASSUME MaxDuplicated = 0 PROVE Turns'
  <2>1. Turns
    BY <1>1, <1>9 DEF TurnInv
  <2>2. Total' = Total
    BY <1>2, <1>3, <1>4 DEF Total, Same, One
  <2>3. \A p \in Procs : pc'[p] \in Reading => left_size'[p] >= Wanted(p)' \/ Total' = 0
    BY <2>1, <2>2, <1>2, <1>3 DEF Turns, Procs, Wanted, Reading
  <2> QED BY <2>1, <2>2, <2>3, <1>2, <1>3, <1>4 DEF Turns, Same
<1> QED BY <1>5, <1>6, <1>7, <1>8, <1>9 DEF IInv, TurnInv

LEMMA GreetsInv == ASSUME IInv, ClientGreets PROVE IInv'
<1>1. /\ TypeOK /\ StartInv /\ DataInv /\ GreetInv /\ LeadInv /\ TurnInv /\ Numeric
      /\ (On("server") = {} <=> OnWay("server") = 0) /\ (On("client") = {} <=> OnWay("client") = 0)
  BY Named DEF IInv, Procs
<1>2. /\ pc["client"] = "greet" /\ Sends("client", Hello, 1) /\ left' = count["client"]
      /\ \E to \in {"read", "done", "aborted"} : pc' = [pc EXCEPT !["client"] = to]
      /\ UNCHANGED <<buf, left_size, message, count, isDebug, isNonblock, lost, duplicated>>
  BY DEF ClientGreets, Goes, ClientLoop, Options, History
<1>3. pc'["client"] \in {"read", "done", "aborted"} /\ pc'["server"] = pc["server"]
  BY <1>1, <1>2 DEF TypeOK, Procs
<1>4. /\ ~Greeted /\ ~Greeted' /\ On("server") = {} /\ On("client") = {}
      /\ OnWay("server") = 0 /\ OnWay("client") = 0
      /\ message = 0 /\ Replied = 0 /\ left_size["client"] = Size
      /\ pc["server"] \in {"off", "hello", "exited"}
  BY <1>1, <1>2, <1>3 DEF Greeted, StartInv, Procs, Reading
<1>5. Replied' = 0
  BY <1>1, <1>2 DEF Replied, Numeric
<1> DEFINE d == [word |-> Hello, len |-> 1]
<1>6. \/ Same /\ pc["server"] \in {"off", "exited"}
      \/ Adds("server", d) /\ pc["server"] = "hello"
  <2>1. Peer("client") = "server" /\ "client" \in Procs /\ 1 \in {1, Size} /\ Hello \in Words
    BY WordTypes DEF Peer, Procs
  <2>2. \/ pc[Peer("client")] \in {"off"} \cup Ended /\ Same
        \/ pc[Peer("client")] \notin {"off"} \cup Ended /\ Adds(Peer("client"), d)
    BY <2>1, <1>1, <1>2, Sending
  <2> QED BY <2>1, <2>2, <1>4 DEF Ended
<1>7. d.word = Hello /\ d.len = 1
  OBVIOUS
<1> HIDE DEF d
<1>8. /\ net' \in [Procs -> Seq(Datagrams)]
      /\ OnWay("client")' = OnWay("client") /\ On("client")' = On("client")
      /\ \/ OnWay("server")' = 0 /\ On("server")' = {}
         \/ OnWay("server")' = 1 /\ On("server")' = {d} /\ pc["server"] = "hello"
  BY <1>1, <1>4, <1>6 DEF Same, Adds, Peer, TypeOK
<1>9. TypeOK'
  <2>1. left' \in Int /\ left' <= count'["client"]
    BY <1>1, <1>2 DEF Numeric
  <2> QED BY <2>1, <1>1, <1>2, <1>8 DEF TypeOK, Labels, Ended
<1>10. StartInv'
  BY <1>1, <1>2, <1>3, <1>4, <1>5, <1>8 DEF StartInv, Procs, Reading
<1>11. DataInv' /\ GreetInv'
  <2>1. \A i \in Index : ~(i < Size - left_size["client"])
    BY <1>4, SizeAssumption DEF Index
  <2>2. DataInv'
    BY <2>1, <1>1, <1>2, <1>3, <1>4, <1>7, <1>8 DEF DataInv
  <2>3. GreetInv'
    BY <1>1, <1>2, <1>3, <1>4, <1>8 DEF GreetInv, Numeric
  <2> QED BY <2>2, <2>3
<1>12. LeadInv'
  <2>1. Taken' = 0 /\ Sent' = 0
    BY <1>2, <1>3, <1>4, <1>5 DEF Taken, Sent
  <2>2. OnWay("client")' = 0 /\ duplicated'["0xAA"] \in Nat
    BY <1>1, <1>2, <1>4, <1>8 DEF Numeric
  <2> QED BY <2>1, <2>2, <1>4 DEF LeadInv
<1>13. ASSUME MaxDuplicated = 0 PROVE Turns'
  <2>1. Turns
    BY <1>1, <1>13 DEF TurnInv
  <2>2. Total = 1 /\ Total' <= 1
    BY <1>2, <1>3, <1>4, <1>8 DEF Total, One
  <2>3. \A p \in Procs : pc'[p] \in Reading => left_size'[p] >= Wanted(p)'
    BY <2>1, <2>2, <1>1, <1>2, <1>3, <1>4 DEF Turns, Procs, Wanted, Reading, Numeric
  <2> QED BY <2>2, <2>3, <1>3, <1>4, <1>8 DEF Turns
<1> QED BY <1>9, <1>10, <1>11, <1>12, <1>13 DEF IInv, TurnInv

LEMMA FailsInv == ASSUME IInv, NEW p \in Procs, Fails(p) PROVE IInv'
<1>1. TypeOK /\ StartInv /\ DataInv /\ GreetInv /\ LeadInv /\ TurnInv /\ Numeric
  BY Named DEF IInv
<1>2. /\ pc[p] = "off" /\ pc' = [pc EXCEPT ![p] = "exited"]
      /\ UNCHANGED <<net, buf, left_size, message, left, count, isDebug, isNonblock, lost, duplicated>>
  BY DEF Fails, Goes, Local, Options, History
<1>3. pc'[p] = "exited" /\ \A q \in Procs : q # p => pc'[q] = pc[q]
  BY <1>1, <1>2 DEF TypeOK
<1>4. /\ Same /\ Replied' = Replied /\ ~Greeted /\ ~Greeted' /\ On("client") = {}
      /\ pc["server"] \in {"off", "hello", "exited"} /\ pc'["server"] \in {"off", "hello", "exited"}
  BY <1>1, <1>2, <1>3, Stays DEF Replied, Greeted, StartInv, Procs
<1>5. TypeOK'
  BY <1>1, <1>2 DEF TypeOK, Labels, Ended
<1>6. StartInv'
  BY <1>1, <1>2, <1>3, <1>4 DEF StartInv, Same, Procs, Reading
<1>7. DataInv' /\ GreetInv'
  BY <1>1, <1>2, <1>3, <1>4 DEF DataInv, GreetInv, Same, Procs
<1>8. LeadInv'
  BY <1>1, <1>2, <1>3, <1>4 DEF LeadInv, Same, Taken, Sent, Procs
<1>9. ASSUME MaxDuplicated = 0 PROVE Turns'
  <2>1. Turns
    BY <1>1, <1>9 DEF TurnInv
  <2>2. Total' <= 1 /\ (Total = 0 => Total' = 0)
    BY <2>1, <1>1, <1>2, <1>3, <1>4 DEF Turns, Total, Same, One, Procs, Numeric
  <2>3. ASSUME NEW q \in Procs, pc'[q] \in Reading
        PROVE  left_size'[q] >= Wanted(q)' \/ Total' = 0
    <3>1. pc'[q] = pc[q]
      BY <2>3, <1>3 DEF Reading
    <3> QED BY <3>1, <2>1, <2>2, <2>3, <1>2 DEF Turns, Wanted
  <2>4. pc'["client"] # "write"
    BY <2>1, <1>3, <1>4 DEF Turns, Procs
  <2> QED BY <2>2, <2>3, <2>4, <1>4 DEF Turns, Same
<1> QED BY <1>5, <1>6, <1>7, <1>8, <1>9 DEF IInv, TurnInv

(* A datagram that is gone leaves no place for another.                     *)
LEMMA OneGone ==
  ASSUME IInv, NEW p \in Procs, NEW d \in On(p), Drops(p, d),
         UNCHANGED <<left_size, message, left, count, duplicated>>,
         Greeted' = Greeted, Sent' = Sent, Taken' = Taken
  PROVE  /\ net' \in [Procs -> Seq(Datagrams)]
         /\ On("server")' \subseteq On("server") /\ On("client")' \subseteq On("client")
         /\ OnWay("server")' <= OnWay("server") /\ OnWay("client")' <= OnWay("client")
         /\ OnWay("server")' \in Nat /\ OnWay("client")' \in Nat
         /\ OnWay("server")' + OnWay("client")' = OnWay("server") + OnWay("client") - 1
         /\ Replied' = Replied /\ LeadInv'
<1>1. /\ TypeOK /\ LeadInv /\ Numeric
      /\ \A q \in Procs : On(q) = {} <=> OnWay(q) = 0
  BY Named DEF IInv
<1>2. /\ net' \in [Procs -> Seq(Datagrams)]
      /\ On("server")' \subseteq On("server") /\ On("client")' \subseteq On("client")
      /\ OnWay("server")' <= OnWay("server") /\ OnWay("client")' <= OnWay("client")
      /\ OnWay("server")' \in Nat /\ OnWay("client")' \in Nat
      /\ OnWay("server")' + OnWay("client")' = OnWay("server") + OnWay("client") - 1
      /\ Replied' = Replied
  <2>1. /\ net' \in [Procs -> Seq(Datagrams)]
        /\ On("server")' \subseteq On("server") /\ On("client")' \subseteq On("client")
        /\ \/ OnWay("server")' = OnWay("server") - 1 /\ OnWay("client")' = OnWay("client")
           \/ OnWay("client")' = OnWay("client") - 1 /\ OnWay("server")' = OnWay("server")
    BY DEF Drops, Peer, Procs
  <2>2. OnWay("server")' \in Nat /\ OnWay("client")' \in Nat
    BY <2>1, Later DEF Procs
  <2>3. OnWay("server") \in Nat /\ OnWay("client") \in Nat
    BY <1>1 DEF Numeric
  <2>4. /\ OnWay("server")' <= OnWay("server") /\ OnWay("client")' <= OnWay("client")
        /\ OnWay("server")' + OnWay("client")' = OnWay("server") + OnWay("client") - 1
    BY <2>1, <2>2, <2>3
  <2>5. Replied' = Replied
    BY DEF Replied
  <2> QED BY <2>1, <2>2, <2>4, <2>5
<1>3. Taken' + OnWay("client")' <= Sent' + duplicated'["0xAA"]
  <2>1. Taken \in Int /\ Sent \in Int
    BY <1>1 DEF Taken, Sent, Numeric
  <2>2. /\ OnWay("client") \in Nat /\ duplicated["0xAA"] \in Nat
        /\ Taken + OnWay("client") <= Sent + duplicated["0xAA"]
    BY <1>1 DEF LeadInv, Numeric
  <2> QED BY <2>1, <2>2, <1>2
<1>4. Weight \in Int /\ Bytes(message) \in Int /\ Bytes(Replied + duplicated["0x55"]) \in Int
  BY <1>1, Weighed
<1>5. ASSUME Greeted
      PROVE  Bytes(message)' + Brought' + Weight'
               <= Bytes(Replied + duplicated["0x55"])' + duplicated'["s"]
  <2>1. Weight' \in Int /\ Weight' <= Weight
    <3>1. CASE p = "server"
      <4>1. Weight' = Weight - d.len /\ d.len \in Nat
        BY <3>1, <1>5, Lighter
      <4> QED BY <4>1, <1>4
    <3>2. CASE p = "client"
      <4>1. Count("s")' = Count("s") /\ Count("0x55")' = Count("0x55")
        BY <3>2, <1>1 DEF Drops, One, Numeric
      <4> QED BY <4>1, <1>4 DEF Weight, Bytes
    <3> QED BY <3>1, <3>2 DEF Procs
  <2>2. /\ Bytes(message)' = Bytes(message)
        /\ Bytes(Replied + duplicated["0x55"])' = Bytes(Replied + duplicated["0x55"])
        /\ Brought' = Brought
    BY <1>2 DEF Bytes, Brought
  <2>3. /\ Bytes(message) + Brought + Weight
             <= Bytes(Replied + duplicated["0x55"]) + duplicated["s"]
        /\ Brought \in Int
    BY <1>5, <1>1, Weighed
  <2> QED BY <2>1, <2>2, <2>3, <1>1, <1>4 DEF Numeric
<1>6. LeadInv'
  BY <1>3, <1>5 DEF LeadInv
<1> QED BY <1>2, <1>6

(* Without duplicates it was the token, and nobody has it then.             *)
LEMMA TokenGone ==
  ASSUME IInv, MaxDuplicated = 0, NEW p \in Procs, NEW d \in On(p), Drops(p, d),
         OnWay("server")' \in Nat, OnWay("client")' \in Nat,
         OnWay("server")' + OnWay("client")' = OnWay("server") + OnWay("client") - 1,
         pc'["server"] = "write" => pc["server"] = "write",
         pc'["client"] \in {"write", "off", "greet"} => pc["client"] \in {"write", "off", "greet"}
  PROVE  /\ Turns /\ Total' = 0 /\ On("server")' = {} /\ On("client")' = {}
         /\ pc["client"] # "write" /\ pc["server"] \notin {"write", "evaluate", "done", "aborted"}
<1>1. /\ Turns /\ Numeric /\ On(p) # {} /\ OnWay(p) # 0 /\ net' \in [Procs -> Seq(Datagrams)]
  BY Named DEF IInv, TurnInv, Drops
<1>2. OnWay("server") \in Nat /\ OnWay("client") \in Nat
  BY <1>1 DEF Numeric
<1>3. /\ Total = 1 /\ OnWay("server") + OnWay("client") = 1
      /\ pc["server"] # "write" /\ pc["client"] \notin {"write", "off", "greet"}
  BY <1>1, <1>2 DEF Turns, Total, One, Procs
<1>4. OnWay("server")' = 0 /\ OnWay("client")' = 0
  BY <1>2, <1>3
<1>5. Total' = 0
  BY <1>3, <1>4 DEF Total, One
<1>6. On("server")' = {} /\ On("client")' = {}
  BY <1>1, <1>4, Later DEF Procs
<1> QED BY <1>1, <1>3, <1>5, <1>6 DEF Turns

LEMMA LoseInv == ASSUME IInv, NEW p \in Procs, Lose(p) PROVE IInv'
<1>1. TypeOK /\ StartInv /\ DataInv /\ GreetInv /\ LeadInv /\ TurnInv /\ Numeric
  BY Named DEF IInv
<1>2. /\ lost < MaxLost /\ lost' = lost + 1
      /\ UNCHANGED <<pc, buf, left_size, message, left, count, isDebug, isNonblock, duplicated>>
  BY DEF Lose, Local, Options
<1>3. PICK d \in On(p) : Drops(p, d)
  <2>1. PICK i \in DOMAIN net[p] : net' = [net EXCEPT ![p] = RemoveAt(net[p], i)]
    BY <1>1 DEF Lose, TypeOK
  <2>2. Drops(p, net[p][i])
    BY <2>1, <1>1, Leaves
  <2> QED BY <2>2 DEF Drops
<1>4. Greeted' = Greeted /\ Taken' = Taken /\ Sent' = Sent
  <2>1. Replied' = Replied
    BY <1>2 DEF Replied
  <2> QED BY <2>1, <1>2 DEF Greeted, Taken, Sent
<1>5. /\ net' \in [Procs -> Seq(Datagrams)]
      /\ On("server")' \subseteq On("server") /\ On("client")' \subseteq On("client")
      /\ OnWay("server")' <= OnWay("server") /\ OnWay("server")' \in Nat /\ OnWay("client")' \in Nat
      /\ OnWay("server")' + OnWay("client")' = OnWay("server") + OnWay("client") - 1
      /\ Replied' = Replied /\ LeadInv'
  BY <1>2, <1>3, <1>4, OneGone
<1>6. TypeOK'
  <2>1. lost' \in 0 .. MaxLost
    BY <1>1, <1>2, BoundsAssumption DEF TypeOK
  <2> QED BY <2>1, <1>1, <1>2, <1>5 DEF TypeOK
<1>7. StartInv'
  BY <1>1, <1>2, <1>4, <1>5 DEF StartInv
<1>8. DataInv'
  BY <1>1, <1>2, <1>4, <1>5 DEF DataInv
<1>9. GreetInv'
  <2>1. ASSUME pc["server"] = "hello" PROVE OnWay("server")' <= 1 + duplicated["s"]
    <3>1. OnWay("server") <= 1 + duplicated["s"]
      BY <2>1, <1>1 DEF GreetInv
    <3>2. {OnWay("server"), duplicated["s"]} \subseteq Nat
      BY <1>1 DEF Numeric
    <3> QED BY <3>1, <3>2, <1>5
  <2> QED BY <2>1, <1>1, <1>2, <1>4, <1>5 DEF GreetInv
<1>10. ASSUME MaxDuplicated = 0 PROVE Turns'
  <2>1. /\ Turns /\ Total' = 0 /\ On("server")' = {} /\ On("client")' = {}
        /\ pc["client"] # "write" /\ pc["server"] \notin {"write", "evaluate", "done", "aborted"}
    BY <1>2, <1>3, <1>5, <1>10, TokenGone
  <2> QED BY <2>1, <1>2, <1>5 DEF Turns
<1> QED BY <1>5, <1>6, <1>7, <1>8, <1>9, <1>10 DEF IInv, TurnInv

LEMMA FaultsInv == ASSUME IInv, NEW p \in Procs, Faults(p) PROVE IInv'
<1>1. TypeOK /\ StartInv /\ DataInv /\ GreetInv /\ LeadInv /\ TurnInv /\ Numeric
  BY Named DEF IInv
<1>2. /\ pc[p] \in Reading
      /\ pc' = [pc EXCEPT ![p] = IF pc[p] = "hello" THEN "exited" ELSE "norecv"]
      /\ UNCHANGED <<buf, left_size, message, left, count, isDebug, isNonblock, lost, duplicated>>
  BY DEF Faults, Goes, Local, Options, History
<1>3. PICK d \in On(p) : Drops(p, d)
  <2>1. PICK i \in DOMAIN net[p] : net' = [net EXCEPT ![p] = RemoveAt(net[p], i)]
    BY <1>1 DEF Faults, TypeOK
  <2>2. Drops(p, net[p][i])
    BY <2>1, <1>1, Leaves
  <2> QED BY <2>2 DEF Drops
<1>4. \/ /\ p = "client" /\ pc["client"] = "read" /\ pc'["client"] = "norecv" /\ Greeted
         /\ pc'["server"] = pc["server"]
      \/ /\ p = "server" /\ pc'["client"] = pc["client"]
         /\ \/ pc["server"] = "hello" /\ pc'["server"] = "exited"
            \/ pc["server"] = "read" /\ pc'["server"] = "norecv"
  <2>1. p = "client" => pc["client"] = "read" /\ Greeted
    BY <1>1, <1>2, <1>3 DEF StartInv, Reading
  <2> QED BY <2>1, <1>1, <1>2 DEF TypeOK, Procs, Reading
<1>5. Greeted' = Greeted /\ Taken' = Taken /\ Sent' = Sent
  <2>1. Replied' = Replied
    BY <1>2 DEF Replied
  <2> QED BY <2>1, <1>2, <1>4 DEF Greeted, Taken, Sent
<1>6. /\ net' \in [Procs -> Seq(Datagrams)]
      /\ On("server")' \subseteq On("server") /\ On("client")' \subseteq On("client")
      /\ OnWay("server")' \in Nat /\ OnWay("client")' \in Nat
      /\ OnWay("server")' + OnWay("client")' = OnWay("server") + OnWay("client") - 1
      /\ Replied' = Replied /\ LeadInv'
  BY <1>2, <1>3, <1>5, OneGone
<1>7. TypeOK'
  BY <1>1, <1>2, <1>6 DEF TypeOK, Labels, Ended
<1>8. StartInv'
  BY <1>1, <1>2, <1>4, <1>5, <1>6 DEF StartInv, Procs, Reading
<1>9. DataInv'
  BY <1>1, <1>2, <1>4, <1>5, <1>6 DEF DataInv
<1>10. GreetInv'
  <2>1. ASSUME pc'["server"] = "hello" PROVE OnWay("server")' <= 1 + duplicated["s"]
    <3>1. pc["server"] = "hello" /\ p = "client" /\ Greeted
      BY <2>1, <1>4
    <3> QED BY <3>1 DEF Greeted
  <2> QED BY <2>1, <1>1, <1>2, <1>4, <1>5, <1>6 DEF GreetInv
<1>11. ASSUME MaxDuplicated = 0 PROVE Turns'
  <2>1. /\ Turns /\ Total' = 0 /\ On("server")' = {} /\ On("client")' = {}
        /\ pc["client"] # "write" /\ pc["server"] \notin {"write", "evaluate", "done", "aborted"}
    BY <1>3, <1>4, <1>6, <1>11, TokenGone
  <2> QED BY <2>1, <1>2, <1>4, <1>6 DEF Turns
<1> QED BY <1>6, <1>7, <1>8, <1>9, <1>10, <1>11 DEF IInv, TurnInv

LEMMA DuplicateInv == ASSUME IInv, NEW p \in Procs, Duplicate(p) PROVE IInv'
<1>1. /\ TypeOK /\ StartInv /\ DataInv /\ GreetInv /\ LeadInv /\ Numeric
      /\ \A q \in Procs : On(q) \subseteq Datagrams
  BY Named DEF IInv
<1>2. UNCHANGED <<pc, buf, left_size, message, left, count, isDebug, isNonblock, lost>>
  BY DEF Duplicate, Local, Options
<1>3. PICK d \in On(p) :
        /\ duplicated[d.word.byte] < MaxDuplicated
        /\ duplicated' = [duplicated EXCEPT ![d.word.byte] = duplicated[d.word.byte] + 1]
        /\ Adds(p, d)
  <2>1. PICK i \in DOMAIN net[p] :
          LET k == net[p][i].word.byte
          IN  /\ duplicated[k] < MaxDuplicated
              /\ duplicated' = [duplicated EXCEPT ![k] = @ + 1]
              /\ net' = [net EXCEPT ![p] = Append(@, @[i])]
    BY DEF Duplicate
  <2>2. net[p][i] \in On(p) /\ net[p][i] \in Datagrams
    BY <1>1 DEF On
  <2>3. net' = [net EXCEPT ![p] = Append(net[p], net[p][i])]
    BY <2>1, <1>1 DEF TypeOK
  <2>4. Adds(p, net[p][i])
    BY <2>2, <2>3, <1>1, Joins
  <2>5. net[p][i].word.byte \in Kinds
    BY <2>2, <1>1 DEF DataInv, Hello, Kinds, Procs
  <2>6. duplicated' = [duplicated EXCEPT ![net[p][i].word.byte] = duplicated[net[p][i].word.byte] + 1]
    BY <2>1, <2>5, <1>1 DEF TypeOK
  <2> QED BY <2>1, <2>2, <2>4, <2>6
<1>4. d.word.byte \in Kinds
  BY <1>1, <1>3 DEF DataInv, Hello, Kinds, Procs
<1>5. /\ duplicated'[d.word.byte] = duplicated[d.word.byte] + 1
      /\ \A k \in Kinds : k # d.word.byte => duplicated'[k] = duplicated[k]
      /\ \A k \in Kinds : duplicated[k] \in Nat /\ duplicated'[k] \in 0 .. MaxDuplicated
      /\ duplicated' \in [Kinds -> 0 .. MaxDuplicated] /\ MaxDuplicated # 0
  <2>1. MaxDuplicated \in Nat /\ duplicated \in [Kinds -> 0 .. MaxDuplicated]
    BY <1>1, BoundsAssumption DEF TypeOK
  <2>2. duplicated[d.word.byte] + 1 \in 0 .. MaxDuplicated
    BY <2>1, <1>3, <1>4
  <2> QED BY <2>1, <2>2, <1>3, <1>4
<1>6. Replied' = Replied /\ Greeted' = Greeted /\ Taken' = Taken /\ Sent' = Sent
  <2>1. Replied' = Replied /\ Greeted' = Greeted
    BY <1>2 DEF Replied, Greeted
  <2> QED BY <2>1, <1>2 DEF Taken, Sent
<1>7. /\ net' \in [Procs -> Seq(Datagrams)]
      /\ On("server")' = On("server") /\ On("client")' = On("client")
      /\ p = "server" => OnWay("server")' = OnWay("server") + 1 /\ OnWay("client")' = OnWay("client")
      /\ p = "client" => OnWay("server")' = OnWay("server") /\ OnWay("client")' = OnWay("client") + 1
  <2>1. On(p) \cup {d} = On(p)
    OBVIOUS
  <2>2. /\ net' \in [Procs -> Seq(Datagrams)] /\ On(p)' = On(p) /\ On(Peer(p))' = On(Peer(p))
        /\ OnWay(p)' = OnWay(p) + 1 /\ OnWay(Peer(p))' = OnWay(Peer(p))
    BY <2>1, <1>3 DEF Adds
  <2>3. \/ p = "server" /\ Peer(p) = "client"
        \/ p = "client" /\ Peer(p) = "server"
    BY DEF Peer, Procs
  <2> QED BY <2>2, <2>3
<1>8. TypeOK'
  BY <1>1, <1>2, <1>5, <1>7 DEF TypeOK
<1>9. StartInv'
  <2>1. pc["client"] \in {"off", "greet", "exited"} => duplicated'["s"] = duplicated["s"]
    BY <1>1, <1>3, <1>5 DEF StartInv, DataInv, Procs, Kinds
  <2> QED BY <2>1, <1>1, <1>2, <1>6, <1>7 DEF StartInv, Procs
<1>10. DataInv'
  BY <1>1, <1>2, <1>6, <1>7 DEF DataInv, Procs
<1>11. GreetInv'
  <2>1. pc["server"] = "hello" => OnWay("server")' <= 1 + duplicated'["s"]
    <3>1. ASSUME pc["server"] = "hello", p = "server" PROVE d.word.byte = "s"
      BY <3>1, <1>1, <1>3 DEF DataInv, Greeted, Hello
    <3>2. ASSUME pc["server"] = "hello" PROVE p = "server"
      BY <3>2, <1>1, <1>3 DEF StartInv, Greeted, Procs
    <3>3. ASSUME pc["server"] = "hello"
          PROVE  /\ OnWay("server")' = OnWay("server") + 1
                 /\ duplicated'["s"] = duplicated["s"] + 1
      BY <3>1, <3>2, <3>3, <1>5, <1>7
    <3> QED BY <3>3, <1>1 DEF GreetInv, Numeric
  <2>2. duplicated'["s"] = 0 => duplicated["s"] = 0
    BY <1>1, <1>4, <1>5 DEF Numeric, Kinds
  <2> QED BY <2>1, <2>2, <1>1, <1>2, <1>6, <1>7 DEF GreetInv, Procs
<1>12. LeadInv'
  <2>1. Taken' + OnWay("client")' <= Sent' + duplicated'["0xAA"]
    <3>1. p = "client" => duplicated'["0xAA"] = duplicated["0xAA"] + 1
      BY <1>1, <1>3, <1>5 DEF DataInv
    <3>2. p = "server" => duplicated'["0xAA"] = duplicated["0xAA"]
      BY <1>1, <1>3, <1>5 DEF DataInv, Hello, Kinds
    <3>3. Taken \in Int /\ Sent \in Int
      BY <1>1 DEF Taken, Sent, Numeric
    <3>4. /\ OnWay("client") \in Nat /\ duplicated["0xAA"] \in Nat
          /\ Taken + OnWay("client") <= Sent + duplicated["0xAA"]
      BY <1>1 DEF LeadInv, Numeric
    <3>5. CASE p = "client"
      BY <3>1, <3>3, <3>4, <3>5, <1>6, <1>7
    <3>6. CASE p = "server"
      BY <3>2, <3>3, <3>4, <3>6, <1>6, <1>7
    <3> QED BY <3>5, <3>6 DEF Procs
  <2>2. ASSUME Greeted
        PROVE  Bytes(message)' + Brought' + Weight'
                 <= Bytes(Replied + duplicated["0x55"])' + duplicated'["s"]
    <3>1. /\ Count("s") \in Int /\ Count("0x55") \in Int /\ Replied + duplicated["0x55"] \in Int
          /\ Size \in Int /\ duplicated["s"] \in Int /\ Brought \in Int
      BY <1>1, Weighed DEF Numeric
    <3> DEFINE all == Replied + duplicated["0x55"]
    <3>2. /\ Bytes(Count("0x55")) \in Int /\ Bytes(all) \in Int /\ Bytes(message) \in Int
          /\ Bytes(Count("0x55") + 1) = Bytes(Count("0x55")) + Size
          /\ Bytes(all + 1) = Bytes(all) + Size
      BY <3>1, <1>1, ByteCounts, Weighed
    <3>3. Bytes(message) + Brought + Weight <= Bytes(all) + duplicated["s"]
      BY <2>2, <1>1, Weighed
    <3>4. /\ Bytes(message)' = Bytes(message) /\ Brought' = Brought
          /\ Weight' = Count("s")' + Bytes(Count("0x55")')
          /\ Bytes(all)' = Bytes(Replied + duplicated'["0x55"])
      BY <1>2, <1>6 DEF Bytes, Weight, Brought
    <3>5. /\ Count("s")' = Count("s") + One(p = "server" /\ d.word.byte = "s")
          /\ Count("0x55")' = Count("0x55") + One(p = "server" /\ d.word.byte = "0x55")
      BY <1>3 DEF Adds
    <3>6. CASE p = "server" /\ d.word.byte = "s"
      <4>1. /\ Count("s")' = Count("s") + 1 /\ Count("0x55")' = Count("0x55")
            /\ duplicated'["s"] = duplicated["s"] + 1 /\ duplicated'["0x55"] = duplicated["0x55"]
        BY <3>1, <3>5, <3>6, <1>5 DEF One, Kinds
      <4>2. Weight' = Weight + 1 /\ Bytes(all)' = Bytes(all) /\ Weight \in Int
        BY <4>1, <3>1, <3>2, <3>4 DEF Weight
      <4> QED BY <4>1, <4>2, <3>1, <3>2, <3>3, <3>4
    <3>7. CASE p = "server" /\ d.word.byte = "0x55"
      <4>1. /\ Count("s")' = Count("s") /\ Count("0x55")' = Count("0x55") + 1
            /\ duplicated'["s"] = duplicated["s"] /\ duplicated'["0x55"] = duplicated["0x55"] + 1
        BY <3>1, <3>5, <3>7, <1>5 DEF One, Kinds
      <4>2. Replied + duplicated'["0x55"] = all + 1
        BY <4>1, <1>1 DEF Numeric
      <4>3. Weight' = Weight + Size /\ Bytes(all)' = Bytes(all) + Size /\ Weight \in Int
        BY <4>1, <4>2, <3>1, <3>2, <3>4 DEF Weight
      <4> QED BY <4>1, <4>3, <3>1, <3>2, <3>3, <3>4
    <3>8. CASE p = "client"
      <4>1. /\ Count("s")' = Count("s") /\ Count("0x55")' = Count("0x55")
            /\ duplicated'["s"] = duplicated["s"] /\ duplicated'["0x55"] = duplicated["0x55"]
        BY <3>1, <3>5, <3>8, <1>1, <1>3, <1>5 DEF One, Kinds, DataInv
      <4>2. Weight' = Weight /\ Bytes(all)' = Bytes(all)
        BY <4>1, <3>4 DEF Weight
      <4> QED BY <4>1, <4>2, <3>3, <3>4
    <3> QED BY <3>6, <3>7, <3>8, <1>1, <1>3 DEF DataInv, Hello, Procs
  <2> QED BY <2>1, <2>2, <1>6 DEF LeadInv
<1> QED BY <1>5, <1>8, <1>9, <1>10, <1>11, <1>12 DEF IInv, TurnInv
---------------------------------------------------------------------------
LEMMA NextInv == IInv /\ [Next]_vars => IInv'
<1> SUFFICES ASSUME IInv, [Next]_vars PROVE IInv'
  OBVIOUS
<1>1. CASE UNCHANGED vars
  <2>1. Same
    BY <1>1, Stays DEF vars
  <2>2. UNCHANGED <<Replied, Greeted, Brought>>
    BY <1>1 DEF vars, Replied, Greeted, Brought
  <2>3. UNCHANGED <<Taken, Sent, Weight, Total>>
    BY <2>1, <2>2, <1>1 DEF vars, Taken, Sent, Weight, Bytes, Total, Same
  <2>4. TypeOK' /\ StartInv' /\ DataInv' /\ GreetInv'
    BY <2>1, <2>2, <1>1 DEF vars, IInv, TypeOK, StartInv, DataInv, GreetInv, Same
  <2>5. LeadInv'
    BY <2>1, <2>2, <2>3, <1>1 DEF vars, IInv, LeadInv, Bytes, Same
  <2>6. ASSUME Turns PROVE Turns'
    BY <2>1, <2>2, <2>3, <2>6, <1>1 DEF vars, Turns, Wanted, Same
  <2> QED BY <2>4, <2>5, <2>6 DEF IInv, TurnInv
<1>2. CASE ServerLaunch
  BY <1>2, LaunchInv
<1>3. CASE ServerStep
  <2>1. CASE ServerEvaluates
    BY <2>1, EvaluatesInv
  <2>2. CASE Send("server")
    BY <2>2, ServerSendInv
  <2>3. CASE Receive("server")
    <3>1. pc["server"] \in {"hello", "read"}
      BY <2>3 DEF Receive, Reading
    <3> QED BY <3>1, <2>3, HelloInv, ServerReadInv
  <2>4. CASE Again("server") \/ Faults("server")
    BY <2>4, AgainInv, FaultsInv DEF Procs
  <2> QED BY <1>3, <2>1, <2>2, <2>3, <2>4 DEF ServerStep, Transfer
<1>4. CASE ClientLaunch
  BY <1>4, ClientLaunchInv
<1>5. CASE ClientStep
  <2>1. CASE ClientGreets
    BY <2>1, GreetsInv
  <2>2. CASE Send("client")
    BY <2>2, ClientSendInv
  <2>3. CASE Receive("client")
    BY <2>3, ClientReadInv
  <2>4. CASE Again("client") \/ Faults("client")
    BY <2>4, AgainInv, FaultsInv DEF Procs
  <2> QED BY <1>5, <2>1, <2>2, <2>3, <2>4 DEF ClientStep, Transfer
<1>6. CASE \E p \in Procs : Fails(p) \/ Lose(p) \/ Duplicate(p)
  BY <1>6, FailsInv, LoseInv, DuplicateInv
<1> QED BY <1>1, <1>2, <1>3, <1>4, <1>5, <1>6 DEF Next

(* The strengthened invariant: on any network, what was received and what is*)
(* on its way was sent or duplicated; without duplicates there is one token.*)
THEOREM Invariant == Spec => []IInv
<1> QED BY InitInv, NextInv, PTL DEF Spec

(* Every variable has its type.                                             *)
THEOREM TypeCorrect == Spec => []TypeOK
<1>1. IInv => TypeOK
  BY DEF IInv
<1> QED BY <1>1, Invariant, PTL

(* Whatever the network does, no process is ahead of what the other has     *)
(* sent by more than the duplicates are worth, EAGAIN or not.               *)
THEOREM LeadsBounded == Spec => []LeadBounded
<1>1. ASSUME IInv PROVE LeadBounded
  <2>1. /\ TypeOK /\ StartInv /\ LeadInv /\ Numeric
        /\ Weight \in Int /\ Brought \in Nat /\ Bytes(message) \in Int
        /\ Bytes(Replied + duplicated["0x55"]) \in Int
    BY <1>1, Named, Weighed DEF IInv
  <2>2. Taken <= Sent + duplicated["0xAA"]
    <3>1. Taken \in Int /\ Sent \in Int
      BY <2>1 DEF Taken, Sent, Numeric
    <3>2. /\ OnWay("client") \in Nat /\ duplicated["0xAA"] \in Nat
          /\ Taken + OnWay("client") <= Sent + duplicated["0xAA"]
      BY <2>1 DEF LeadInv, Numeric
    <3> QED BY <3>1, <3>2
  <2>3. Bytes(message) <= Bytes(Replied + duplicated["0x55"]) + duplicated["s"]
    <3>1. duplicated["s"] \in Nat /\ Count("s") \in Nat /\ Count("0x55") \in Nat /\ Size \in Nat
      BY <2>1 DEF Numeric
    <3>2. Bytes(Count("0x55")) >= 0 /\ Bytes(Replied + duplicated["0x55"]) >= 0
      <4>1. \A n \in Nat : n * Size \in Nat
        BY <3>1
      <4>2. Replied + duplicated["0x55"] \in Nat
        BY <2>1 DEF Numeric
      <4> QED BY <3>1, <4>1, <4>2 DEF Bytes
    <3>3. CASE Greeted
      <4>1. Weight >= 0
        BY <3>1, <3>2, <2>1 DEF Weight, Bytes
      <4> QED BY <4>1, <3>1, <3>3, <2>1 DEF LeadInv
    <3>4. CASE ~Greeted
      <4>1. Bytes(message) = 0
        BY <3>4, <2>1, ByteCounts DEF StartInv
      <4> QED BY <4>1, <3>1, <3>2, <2>1
    <3> QED BY <3>3, <3>4
  <2> QED BY <2>2, <2>3 DEF LeadBounded, Bytes
<1> QED BY <1>1, Invariant, PTL

(* The client rejects nothing, and the server only after a greeting came    *)
(* twice.                                                                   *)
THEOREM Rejections == Spec => []RejectionsNeedGreetings
<1>1. ASSUME IInv PROVE RejectionsNeedGreetings
  <2>1. /\ pc["client"] # "mismatch" /\ pc["server"] # "unshaken"
        /\ pc["server"] = "mismatch" => duplicated["s"] # 0
    BY <1>1 DEF IInv, StartInv, GreetInv, Greeted
  <2>2. duplicated["s"] \in Nat
    BY <1>1, Named DEF IInv, Numeric
  <2> QED BY <2>1, <2>2 DEF RejectionsNeedGreetings
<1> QED BY <1>1, Invariant, PTL

(* Once both wait and nothing is on its way, both wait for ever, whatever   *)
(* was lost or duplicated before.                                           *)
THEOREM Stalls == Spec => StalledForGood
<1>1. Stalled /\ [Next]_vars => Stalled'
  <2> SUFFICES ASSUME Stalled, [Next]_vars PROVE Stalled'
    OBVIOUS
  <2>1. /\ pc["server"] \in Reading /\ pc["client"] \in Reading
        /\ \A p \in Procs : pc[p] \in Reading /\ net[p] = <<>> /\ DOMAIN net[p] = {}
    BY DEF Stalled, Procs
  <2>2. UNCHANGED <<pc, net>>
    BY <2>1 DEF Next, ServerLaunch, ServerStep, ServerEvaluates, ClientLaunch, ClientStep,
       ClientGreets, Transfer, Send, Receive, Faults, Again, Fails, Lose, Duplicate, Reading, Procs,
       vars
  <2> QED BY <2>1, <2>2 DEF Stalled
<1> QED BY <1>1, PTL DEF Spec, StalledForGood

(* A client that greeted a port nobody had bound waits for a message that   *)
(* the server, waiting for the greeting, never sends.                       *)
Unheard ==
    /\ pc["client"] = "read" /\ pc["server"] \in {"off", "hello", "exited"}
    /\ message = 0 /\ Replied = 0 /\ \A p \in Procs : DOMAIN net[p] = {}

LEMMA StaysUnheard == TypeOK /\ Unheard /\ [Next]_vars => Unheard'
<1> SUFFICES ASSUME TypeOK, Unheard, [Next]_vars PROVE Unheard'
  OBVIOUS
<1>1. CASE ServerLaunch
  <2>1. /\ pc' = [pc EXCEPT !["server"] = "hello"] /\ UNCHANGED <<net, message, left, count>>
    BY <1>1 DEF ServerLaunch, Goes, Options
  <2> QED BY <2>1 DEF Unheard, Replied, TypeOK, Procs
<1>2. ASSUME NEW p \in Procs, Fails(p) PROVE Unheard'
  <2>1. pc[p] = "off" /\ pc' = [pc EXCEPT ![p] = "exited"] /\ UNCHANGED <<net, message, left, count>>
    BY <1>2 DEF Fails, Goes, Local, Options
  <2> QED BY <2>1 DEF Unheard, Replied, TypeOK, Procs
<1>3. CASE UNCHANGED <<pc, net, message, left, count>>
  BY <1>3 DEF Unheard, Replied
<1>4. ASSUME NEW p \in Procs
      PROVE  ~Send(p) /\ ~Receive(p) /\ ~Faults(p) /\ ~Lose(p) /\ ~Duplicate(p)
  BY DEF Unheard, Send, Receive, Faults, Lose, Duplicate, Procs
<1>5. ~ServerEvaluates /\ ~ClientLaunch /\ ~ClientGreets
  BY DEF Unheard, ServerEvaluates, ClientLaunch, ClientGreets
<1>6. ASSUME NEW p \in Procs, Again(p) PROVE Unheard'
  BY <1>3, <1>6 DEF Again, Options
<1>7. CASE UNCHANGED vars
  BY <1>3, <1>7 DEF vars
<1> QED BY <1>1, <1>2, <1>4, <1>5, <1>6, <1>7
    DEF Next, ServerStep, ClientStep, Transfer, Procs

(* A client that greets before the server has bound its port is not heard,  *)
(* and no round is ever begun.                                              *)
THEOREM FirstStalls == Spec => ClientFirstStalls
<1>1. IInv /\ pc["server"] = "off" /\ pc["client"] = "read" => Unheard
  <2> SUFFICES ASSUME IInv, pc["server"] = "off", pc["client"] = "read" PROVE Unheard
    OBVIOUS
  <2>1. /\ StartInv /\ ~Greeted
        /\ \A p \in Procs : On(p) = {} <=> net[p] = <<>>
    BY Named DEF IInv, Greeted
  <2>2. On("server") = {} /\ On("client") = {} /\ message = 0 /\ Replied = 0
    BY <2>1 DEF StartInv
  <2>3. \A p \in Procs : net[p] = <<>>
    BY <2>1, <2>2 DEF Procs
  <2>4. \A p \in Procs : DOMAIN net[p] = {}
    BY <2>3
  <2> QED BY <2>2, <2>4 DEF Unheard
<1>2. Unheard => message = 0 /\ Replied = 0 /\ Taken = 0
  BY DEF Unheard, Taken
<1>3. IInv => TypeOK
  BY DEF IInv
<1> QED BY <1>1, <1>2, <1>3, StaysUnheard, Invariant, PTL DEF Spec, ClientFirstStalls
---------------------------------------------------------------------------
(* Without duplicates, what comes to a read is what it waits for.           *)
LEMMA Whole ==
  ASSUME IInv, MaxDuplicated = 0, NEW p \in Procs, pc[p] \in Reading, NEW d \in On(p)
  PROVE  /\ Total = 1 /\ OnWay(p) = 1 /\ left_size[p] >= Wanted(p) /\ d.len = Wanted(p)
         /\ pc[p] = "read" => /\ d.word = Due(p) /\ pc["server"] = "read" /\ Greeted
                              /\ Replied = IF p = "server" THEN message + 1 ELSE message
<1>1. /\ TypeOK /\ StartInv /\ DataInv /\ GreetInv /\ Turns /\ Numeric
      /\ \A q \in Procs : On(q) = {} <=> OnWay(q) = 0
  BY Named DEF IInv, TurnInv
<1>2. OnWay("server") \in Nat /\ OnWay("client") \in Nat /\ OnWay(p) # 0
  BY <1>1 DEF Numeric
<1>3. Total = 1 /\ OnWay(p) = 1
  BY <1>1, <1>2 DEF Turns, Total, One, Procs
<1>4. left_size[p] >= Wanted(p)
  BY <1>1, <1>3 DEF Turns
<1>5. CASE p = "server" /\ pc["server"] = "hello"
  BY <1>1, <1>3, <1>4, <1>5 DEF DataInv, Greeted, Wanted
<1>6. CASE p = "server" /\ pc["server"] = "read"
  <2>1. Greeted /\ duplicated["s"] = 0
    BY <1>1, <1>6 DEF Greeted, TypeOK, Kinds
  <2>2. d.word = CTS(message + 1) /\ Replied = message + 1
    BY <2>1, <1>1, <1>6 DEF Turns
  <2>3. d.len = Size
    BY <2>1, <1>1, <1>6 DEF GreetInv, DataInv, Hello
  <2> QED BY <2>1, <2>2, <2>3, <1>3, <1>4, <1>6 DEF Due, Wanted
<1>7. CASE p = "client"
  <2>1. pc["client"] = "read" /\ Greeted
    BY <1>1, <1>7 DEF StartInv, Reading
  <2>2. d.word = STC(message + 1) /\ pc["server"] = "read" /\ Replied = message
    BY <1>1, <1>7 DEF Turns
  <2>3. d.len = Size
    BY <1>1, <1>7 DEF DataInv
  <2> QED BY <2>1, <2>2, <2>3, <1>3, <1>4, <1>7 DEF Due, Wanted
<1> QED BY <1>5, <1>6, <1>7 DEF Procs, Reading

(* A read is complete with the datagram that comes, or never changes more   *)
(* than what is left to read.                                               *)
LEMMA Completes ==
  ASSUME IInv, MaxDuplicated = 0, NEW p \in Procs, Receive(p)
  PROVE  \E d \in On(p) :
           /\ UNCHANGED <<count, duplicated>> /\ d \in Datagrams /\ Drops(p, d)
           /\ \/ /\ left_size[p] = Wanted(p) /\ Got(p, d) = left_size[p]
                 /\ left_size' = [left_size EXCEPT ![p] = Size] /\ AfterRead(p, Received(p, d))
              \/ /\ left_size[p] > Wanted(p)
                 /\ left_size' = [left_size EXCEPT ![p] = left_size[p] - Wanted(p)]
                 /\ UNCHANGED <<pc, message, left>>
<1>1. TypeOK /\ Numeric /\ pc[p] \in Reading /\ UNCHANGED <<count, duplicated>>
  BY Named DEF IInv, Receive, Options, History
<1>2. PICK d \in On(p) :
        /\ d \in Datagrams /\ Drops(p, d)
        /\ IF Got(p, d) = left_size[p]
           THEN left_size' = [left_size EXCEPT ![p] = Size] /\ AfterRead(p, Received(p, d))
           ELSE /\ left_size' = [left_size EXCEPT ![p] = left_size[p] - Got(p, d)]
                /\ UNCHANGED <<pc, message, left>>
  BY <1>1, Receiving
<1>3. left_size[p] >= Wanted(p) /\ d.len = Wanted(p)
  BY <1>1, <1>2, Whole
<1>4. left_size[p] \in Int /\ Wanted(p) \in Int
  BY <1>1 DEF Numeric, Wanted, Procs
<1>5. \/ left_size[p] = Wanted(p) /\ Got(p, d) = left_size[p]
      \/ left_size[p] > Wanted(p) /\ Got(p, d) = Wanted(p) /\ Got(p, d) # left_size[p]
  BY <1>3, <1>4 DEF Got
<1> QED BY <1>1, <1>2, <1>5

(* Only a read that is complete or that fails leaves the label.             *)
LEMMA Leaving ==
  ASSUME IInv, Next, NEW p \in Procs, pc[p] \in Reading \cup {"exited", "norecv"}, pc'[p] # pc[p]
  PROVE  Receive(p) \/ Faults(p)
<1>1. ASSUME NEW q \in Procs, NEW to, pc' = [pc EXCEPT ![q] = to], q # p PROVE FALSE
  BY <1>1 DEF IInv, TypeOK
<1>2. ASSUME NEW q \in Procs, Receive(q), q # p PROVE FALSE
  <2>1. TypeOK /\ pc["client"] # "hello"
    BY DEF IInv, StartInv
  <2>2. PICK d \in On(q) : UNCHANGED pc \/ AfterRead(q, Received(q, d))
    BY <2>1, <1>2, Receiving
  <2>3. q = "server" \/ pc[q] # "hello"
    BY <2>1 DEF Procs
  <2>4. UNCHANGED pc \/ \E to \in Labels : pc' = [pc EXCEPT ![q] = to]
    BY <2>2, <2>3 DEF AfterRead, ServerLoop, Goes, Labels, Ended
  <2> QED BY <2>4, <1>1, <1>2
<1>3. ASSUME NEW q \in Procs PROVE ~Send(q) /\ ~Again(q) /\ ~Fails(q) /\ ~Lose(q) /\ ~Duplicate(q)
  <2>1. ASSUME Send(q) PROVE FALSE
    <3>1. pc[q] = "write" /\ \E to \in {"read", "done", "aborted"} : pc' = [pc EXCEPT ![q] = to]
      BY <2>1 DEF Send, ClientLoop, Goes, Procs
    <3> QED BY <3>1, <1>1 DEF Reading
  <2>2. ASSUME Fails(q) PROVE FALSE
    <3>1. pc[q] = "off" /\ pc' = [pc EXCEPT ![q] = "exited"]
      BY <2>2 DEF Fails, Goes
    <3> QED BY <3>1, <1>1 DEF Reading
  <2> QED BY <2>1, <2>2 DEF Again, Lose, Duplicate
<1>4. ASSUME NEW q \in Procs, Faults(q), q # p PROVE FALSE
  BY <1>1, <1>4 DEF Faults, Goes
<1>5. ~ServerLaunch /\ ~ServerEvaluates
  <2>1. ASSUME ServerLaunch \/ ServerEvaluates PROVE FALSE
    <3>1. /\ pc["server"] \in {"off", "evaluate"}
          /\ \E to \in {"hello", "done", "aborted"} : pc' = [pc EXCEPT !["server"] = to]
      BY <2>1 DEF ServerLaunch, ServerEvaluates, Goes
    <3> QED BY <3>1, <1>1 DEF Reading, Procs
  <2> QED BY <2>1
<1>6. ~ClientLaunch /\ ~ClientGreets
  <2>1. ASSUME ClientLaunch \/ ClientGreets PROVE FALSE
    <3>1. /\ pc["client"] \in {"off", "greet"}
          /\ \E to \in {"greet", "read", "done", "aborted"} : pc' = [pc EXCEPT !["client"] = to]
      BY <2>1 DEF ClientLaunch, ClientGreets, ClientLoop, Goes
    <3> QED BY <3>1, <1>1 DEF Reading, Procs
  <2> QED BY <2>1
<1> QED BY <1>2, <1>3, <1>4, <1>5, <1>6 DEF Next, ServerStep, ClientStep, Transfer, Procs

(* However many datagrams are lost, and with -N or without, what a complete *)
(* read brings is the one block that its round is due.                      *)
THEOREM BlocksArriveWhole == ASSUME MaxDuplicated = 0 PROVE Spec => WholeBlocks
<1>1. ASSUME IInv, [Next]_vars, NEW p \in Procs, pc[p] = "read", pc'[p] \notin {"read", "norecv"}
      PROVE  \E i \in DOMAIN net[p] : Block(Received(p, net[p][i])) = Uniform(Due(p))
  <2>1. TypeOK /\ Numeric /\ pc[p] \in Reading
    BY <1>1, Named DEF IInv, Reading
  <2>2. Receive(p)
    <3>1. Next
      BY <1>1 DEF vars
    <3>2. ~Faults(p)
      BY <2>1, <1>1 DEF Faults, Goes, TypeOK
    <3> QED BY <3>1, <3>2, <2>1, <1>1, Leaving
  <2>3. PICK d \in On(p) : left_size[p] = Wanted(p) /\ Got(p, d) = left_size[p]
    BY <2>2, <1>1, Completes
  <2>4. d.word = Due(p)
    BY <2>1, <1>1, Whole
  <2>5. \A i \in Index : i - 0 \in 0 .. Size - 1
    BY SizeAssumption DEF Index
  <2>6. \A i \in Index : Received(p, d)[i] = d.word
    <3>1. Wanted(p) - left_size[p] = 0 /\ Got(p, d) = Size
      BY <2>1, <2>3, <1>1 DEF Wanted, Numeric
    <3> QED BY <3>1, <2>5 DEF Received, Memory
  <2>7. Block(Received(p, d)) = Uniform(Due(p))
    BY <2>4, <2>6 DEF Block, Uniform
  <2> QED BY <2>7 DEF On
<1>2. IInv /\ [Next]_vars =>
        [\A p \in Procs : pc[p] = "read" /\ pc'[p] \notin {"read", "norecv"} =>
           \E i \in DOMAIN net[p] : Block(Received(p, net[p][i])) = Uniform(Due(p))]_vars
  BY <1>1
<1> QED BY <1>2, Invariant, PTL DEF Spec, WholeBlocks

LEMMA SendMaps == ASSUME IInv, MaxDuplicated = 0, NEW p \in Procs, Send(p) PROVE P!Send \/ P!Reply
<1>1. /\ TypeOK /\ StartInv /\ Turns /\ Numeric /\ pc[p] = "write" /\ UNCHANGED <<count, message>>
  BY Named DEF IInv, TurnInv, Send, Options
<1>2. CASE p = "server"
  <2>1. pc' = [pc EXCEPT !["server"] = "read"] /\ left' = left
    BY <1>2 DEF Send, Goes
  <2>2. pc'["server"] = "read" /\ pc'["client"] = pc["client"] /\ pc["server"] = "write"
    BY <2>1, <1>1, <1>2 DEF TypeOK, Procs
  <2>3. Replied' = Replied /\ Replied = message /\ Greeted /\ Greeted'
    BY <2>1, <2>2, <1>1 DEF Replied, Greeted, Turns
  <2>4. Sent' = Sent + 1 /\ Sent = message /\ Taken' = Taken
    BY <2>2, <2>3, <1>1 DEF Sent, Taken, Numeric
  <2> QED BY <2>3, <2>4, <1>1 DEF P!Send, P!Met, Numeric
<1>3. CASE p = "client"
  <2>1. left' = left - 1 /\ \E to \in {"read", "done", "aborted"} : pc' = [pc EXCEPT !["client"] = to]
    BY <1>3 DEF Send, ClientLoop, Goes
  <2>2. pc'["client"] \in {"read", "done", "aborted"} /\ pc'["server"] = pc["server"] /\ pc["client"] = "write"
    BY <2>1, <1>1, <1>3 DEF TypeOK, Procs
  <2>3. Replied' = Replied + 1 /\ Greeted /\ Greeted'
    BY <2>1, <2>2, <1>1 DEF Replied, Greeted, Turns, Numeric
  <2>4. Sent' = Sent /\ Taken' = Taken /\ Taken = Replied + 1
    BY <2>2, <2>3, <1>1 DEF Sent, Taken, Numeric
  <2> QED BY <2>3, <2>4, <1>1 DEF P!Reply, P!Met, Numeric
<1> QED BY <1>2, <1>3 DEF Procs

LEMMA ReceiveMaps ==
  ASSUME IInv, IInv', MaxDuplicated = 0, NEW p \in Procs, Receive(p) PROVE [P!Next]_(P!vars)
<1>1. PICK d \in On(p) :
        /\ UNCHANGED count
        /\ \/ AfterRead(p, Received(p, d))
           \/ UNCHANGED <<pc, message, left>>
  BY Completes
<1>2. /\ TypeOK /\ StartInv /\ Numeric /\ pc[p] \in Reading
  BY Named DEF IInv, Receive
<1>3. pc[p] = "read" => /\ pc["server"] = "read" /\ Greeted
                        /\ Replied = IF p = "server" THEN message + 1 ELSE message
  BY <1>2, Whole
<1>4. CASE UNCHANGED <<pc, message, left>>
  <2>1. UNCHANGED <<Replied, Greeted, message>>
    BY <1>1, <1>4 DEF Replied, Greeted
  <2>2. UNCHANGED <<Taken, Sent>>
    BY <2>1, <1>4 DEF Taken, Sent
  <2> QED BY <2>1, <2>2 DEF P!vars
<1>5. pc'["server"] # "unshaken"
  BY DEF IInv, StartInv
<1>6. MaxDuplicated = 0 => duplicated'["s"] = 0
  BY DEF IInv, TypeOK, Kinds
<1>7. CASE p = "server" /\ pc["server"] = "hello" /\ AfterRead(p, Received(p, d))
  <2>1. /\ message' = 0 /\ UNCHANGED <<left, count>>
        /\ \E to \in {"write", "evaluate"} : pc' = [pc EXCEPT !["server"] = to]
    <3>1. pc' # [pc EXCEPT !["server"] = "unshaken"]
      BY <1>2, <1>5 DEF TypeOK, Procs
    <3> QED BY <3>1, <1>1, <1>7 DEF AfterRead, ServerLoop, Goes
  <2>2. pc'["server"] \in {"write", "evaluate"} /\ pc'["client"] = pc["client"]
    BY <2>1, <1>2 DEF TypeOK, Procs
  <2>3. ~Greeted /\ Greeted' /\ Replied' = Replied /\ message = 0
    BY <2>1, <2>2, <1>2, <1>7 DEF Greeted, Replied, StartInv
  <2>4. Taken' = Taken /\ Sent' = Sent
    BY <2>1, <2>2, <2>3, <1>7 DEF Taken, Sent
  <2> QED BY <2>1, <2>3, <2>4 DEF P!Next, P!Meet, P!Met
<1>8. CASE p = "server" /\ pc["server"] = "read" /\ AfterRead(p, Received(p, d))
  <2>1. /\ message' = message + 1 /\ UNCHANGED <<left, count>>
        /\ \E to \in {"write", "evaluate"} : pc' = [pc EXCEPT !["server"] = to]
    <3>1. pc'["server"] # "mismatch"
      <4>1. Greeted' => pc'["server"] # "mismatch"
        BY <1>6 DEF IInv, GreetInv
      <4> QED BY <4>1 DEF Greeted
    <3>2. pc' # [pc EXCEPT !["server"] = "mismatch"]
      BY <3>1, <1>2 DEF TypeOK, Procs
    <3> QED BY <3>2, <1>1, <1>8 DEF AfterRead, ServerLoop, Goes
  <2>2. pc'["server"] \in {"write", "evaluate"} /\ pc'["client"] = pc["client"]
    BY <2>1, <1>2 DEF TypeOK, Procs
  <2>3. Greeted' /\ Replied' = Replied /\ Greeted /\ Replied = message + 1
    BY <2>1, <2>2, <1>3, <1>8 DEF Greeted, Replied
  <2>4. Taken' = Taken /\ Sent' = Sent /\ Sent = message + 1
    BY <2>1, <2>2, <2>3, <1>2, <1>8 DEF Taken, Sent, Numeric
  <2> QED BY <2>1, <2>3, <2>4, <1>2 DEF P!Next, P!Get, P!Met, Numeric
<1>9. CASE p = "client" /\ pc["client"] = "read" /\ AfterRead(p, Received(p, d))
  <2>1. /\ pc' = [pc EXCEPT !["client"] = "write"] /\ UNCHANGED <<message, left, count>>
    <3>1. pc'["client"] # "mismatch"
      BY DEF IInv, StartInv
    <3>2. pc' # [pc EXCEPT !["client"] = "mismatch"]
      BY <3>1, <1>2 DEF TypeOK, Procs
    <3> QED BY <3>2, <1>1, <1>9 DEF AfterRead, Goes
  <2>2. pc'["client"] = "write" /\ pc'["server"] = pc["server"]
    BY <2>1, <1>2 DEF TypeOK, Procs
  <2>3. Greeted' /\ Replied' = Replied /\ Greeted /\ Replied = message
    BY <2>1, <2>2, <1>3, <1>9 DEF Greeted, Replied
  <2>4. Taken' = Taken + 1 /\ Taken = Replied /\ Sent' = Sent /\ Sent = message + 1
    BY <2>1, <2>2, <2>3, <1>2, <1>3, <1>9 DEF Taken, Sent, Numeric
  <2> QED BY <2>1, <2>3, <2>4, <1>2 DEF P!Next, P!Take, P!Met, Numeric
<1> QED BY <1>1, <1>2, <1>4, <1>7, <1>8, <1>9 DEF Procs, Reading, StartInv

LEMMA OtherMaps ==
  ASSUME IInv, NEW p \in Procs,
         \/ ServerLaunch \/ ServerEvaluates \/ ClientLaunch \/ ClientGreets
         \/ Again(p) \/ Faults(p) \/ Fails(p) \/ Lose(p) \/ Duplicate(p)
  PROVE  UNCHANGED P!vars
<1>1. TypeOK /\ StartInv
  BY DEF IInv
<1>2. message' = message /\ UNCHANGED Options
  BY DEF ServerLaunch, ServerEvaluates, ClientLaunch, ClientGreets, Again, Faults, Fails, Lose,
     Duplicate, Local
<1>3. Replied' = Replied
  <2>1. CASE ClientGreets
    <3>1. left' = count["client"] /\ Replied = 0 /\ count["client"] \in Int /\ UNCHANGED count
      BY <2>1, <1>1, <1>2, CountsAssumption
      DEF ClientGreets, ClientLoop, StartInv, TypeOK, Procs, Options
    <3> QED BY <3>1 DEF Replied
  <2>2. CASE ~ClientGreets
    BY <2>2, <1>2 DEF ServerLaunch, ServerEvaluates, ClientLaunch, Again, Faults, Fails, Lose,
       Duplicate, Local, Replied, Options
  <2> QED BY <2>1, <2>2
<1>4. Greeted' = Greeted
  BY <1>1 DEF Faults, Reading, ServerLaunch, ServerEvaluates, ClientLaunch, ClientGreets, ClientLoop, Again, Fails,
     Lose, Duplicate, Goes, Greeted, TypeOK, Procs
<1>5. /\ pc'["server"] \in {"read", "norecv", "mismatch"}
           <=> pc["server"] \in {"read", "norecv", "mismatch"}
      /\ pc'["client"] \in {"write", "mismatch"} <=> pc["client"] \in {"write", "mismatch"}
  BY <1>1 DEF ServerLaunch, ServerEvaluates, ClientLaunch, ClientGreets, ClientLoop, Again, Faults,
     Fails, Lose, Duplicate, Goes, TypeOK, Procs, Reading
<1> QED BY <1>2, <1>3, <1>4, <1>5 DEF P!vars, Sent, Taken

(* Without duplicates, single datagrams without a number implement the      *)
(* exchange; one that is lost, or a read that met EAGAIN, only ends it.     *)
THEOREM Implements == ASSUME MaxDuplicated = 0 PROVE Spec => PingPongSpec
<1>1. Init => P!Init
  BY CountsAssumption DEF Init, P!Init, Greeted, Sent, Taken, Replied, Procs
<1>2. ASSUME IInv, IInv', [Next]_vars PROVE [P!Next]_(P!vars)
  <2>1. CASE Next
    BY <1>2, <2>1, SendMaps, ReceiveMaps, OtherMaps
    DEF Next, ServerStep, ClientStep, Transfer, Procs, P!Next
  <2>2. CASE UNCHANGED vars
    BY <2>2 DEF vars, P!vars, Greeted, Sent, Taken, Replied
  <2> QED BY <1>2, <2>1, <2>2
<1> QED BY <1>1, <1>2, Invariant, PTL DEF Spec, PingPongSpec, P!Spec

(* A read that has met EAGAIN asks for more than ever comes, and one that   *)
(* waits when the token is gone for what is never sent; or the call failed. *)
Failed(p) == pc[p] \in {"exited", "norecv"}
Stuck(p) == Failed(p) \/ (pc[p] \in Reading /\ (left_size[p] > Wanted(p) \/ Total = 0))

LEMMA TotalStaysNone == ASSUME IInv, MaxDuplicated = 0, Total = 0, Next PROVE Total' = 0
<1>1. /\ TypeOK /\ StartInv /\ OnWay("server") \in Nat /\ OnWay("client") \in Nat
      /\ \A p \in Procs : On(p) = {} <=> OnWay(p) = 0
  BY Named DEF IInv, Numeric
<1>2. /\ pc["server"] # "write" /\ pc["client"] \notin {"write", "off", "greet"}
      /\ OnWay("server") = 0 /\ OnWay("client") = 0
  BY <1>1 DEF Total, One
<1>3. \A p \in Procs : On(p) = {} /\ DOMAIN net[p] = {}
  BY <1>1, <1>2 DEF On, Procs
<1>4. ASSUME NEW p \in Procs
      PROVE  ~Send(p) /\ ~Receive(p) /\ ~Faults(p) /\ ~Lose(p) /\ ~Duplicate(p)
  BY <1>2, <1>3 DEF Send, Receive, Faults, Lose, Duplicate, Procs
<1>5. ~ClientLaunch /\ ~ClientGreets
  BY <1>2 DEF ClientLaunch, ClientGreets
<1>6. net' = net
  BY <1>4, <1>5 DEF Next, ServerStep, ClientStep, Transfer, ServerLaunch, ServerEvaluates, Again, Fails,
     Procs
<1>7. pc'["server"] # "write" /\ pc'["client"] \notin {"write", "off", "greet"}
  <2>1. CASE ServerLaunch \/ ServerEvaluates
    BY <2>1, <1>1, <1>2 DEF ServerLaunch, ServerEvaluates, Goes, TypeOK, Procs
  <2>2. ASSUME NEW p \in Procs, Again(p) \/ Fails(p)
        PROVE  pc'["server"] # "write" /\ pc'["client"] \notin {"write", "off", "greet"}
    BY <2>2, <1>1, <1>2 DEF Again, Fails, Goes, TypeOK, Procs
  <2> QED BY <2>1, <2>2, <1>4, <1>5 DEF Next, ServerStep, ClientStep, Transfer, Procs
<1>8. Same
  BY <1>6, Stays
<1> QED BY <1>2, <1>7, <1>8 DEF Total, One, Same

LEMMA StaysStuck ==
  ASSUME IInv, IInv', MaxDuplicated = 0, NEW p \in Procs, Stuck(p), [Next]_vars PROVE Stuck(p)'
<1>1. TypeOK /\ Numeric /\ Wanted(p) \in Int /\ left_size[p] \in Int
  BY Named DEF IInv, Wanted, Numeric, Procs
<1>2. CASE Receive(p)
  <2>1. PICK d \in On(p) :
          /\ Drops(p, d)
          /\ \/ left_size[p] = Wanted(p)
             \/ /\ left_size' = [left_size EXCEPT ![p] = left_size[p] - Wanted(p)]
                /\ UNCHANGED pc
    BY <1>2, Completes
  <2>2. pc[p] \in Reading /\ Total = 1 /\ OnWay(p) = 1
    BY <1>2, <2>1, Whole DEF Receive
  <2>3. left_size[p] > Wanted(p) /\ UNCHANGED pc
    BY <2>1, <2>2, <1>1 DEF Stuck, Failed, Reading
  <2>4. OnWay(p)' = 0 /\ OnWay(Peer(p))' = OnWay(Peer(p))
    BY <2>1, <2>2 DEF Drops
  <2>5. Total' = 0
    <3>1. OnWay("server") \in Nat /\ OnWay("client") \in Nat
      BY <1>1 DEF Numeric
    <3>2. /\ pc["server"] # "write" /\ pc["client"] \notin {"write", "off", "greet"}
          /\ OnWay("server") + OnWay("client") = 1
      BY <3>1, <2>2, <1>1 DEF Total, One, Procs
    <3>3. OnWay("server")' = 0 /\ OnWay("client")' = 0
      BY <3>1, <3>2, <2>2, <2>4 DEF Peer, Procs
    <3> QED BY <3>2, <3>3, <2>3 DEF Total, One
  <2> QED BY <2>2, <2>3, <2>5 DEF Stuck
<1>3. CASE Faults(p)
  <2>1. Failed(p)'
    BY <1>1, <1>3 DEF Faults, Goes, TypeOK, Failed
  <2> QED BY <2>1 DEF Stuck, Failed
<1>4. CASE ~Receive(p) /\ ~Faults(p) /\ Next /\ Failed(p)
  BY <1>4, Leaving DEF Stuck, Failed
<1>5. CASE ~Receive(p) /\ ~Faults(p) /\ Next /\ ~Failed(p)
  <2>1. pc'[p] = pc[p] /\ pc[p] \in Reading
    BY <1>5, Leaving DEF Stuck
  <2>2. Total = 0 => Total' = 0
    BY <1>5, TotalStaysNone
  <2>3. left_size'[p] = left_size[p] \/ left_size'[p] = left_size[p] + 1
    <3>1. ASSUME NEW q \in Procs, q # p, NEW n, left_size' = [left_size EXCEPT ![q] = n]
          PROVE  left_size'[p] = left_size[p]
      BY <3>1, <1>1 DEF TypeOK
    <3>2. ASSUME NEW q \in Procs, Receive(q) PROVE left_size'[p] = left_size[p]
      <4>1. q # p
        BY <3>2, <1>5
      <4>2. \E n : left_size' = [left_size EXCEPT ![q] = n]
        BY <3>2, Completes
      <4> QED BY <4>1, <4>2, <3>1
    <3>3. ASSUME ServerLaunch PROVE left_size'[p] = left_size[p]
      <4>1. "server" # p /\ left_size' = [left_size EXCEPT !["server"] = 1]
        BY <3>3, <2>1 DEF ServerLaunch, Reading
      <4> QED BY <4>1, <3>1 DEF Procs
    <3>4. ASSUME NEW q \in Procs, Again(q)
          PROVE  left_size'[p] = left_size[p] \/ left_size'[p] = left_size[p] + 1
      <4>1. left_size' = [left_size EXCEPT ![q] = left_size[q] + 1]
        BY <3>4, <1>1 DEF Again, TypeOK
      <4> QED BY <4>1, <1>1 DEF TypeOK
    <3>5. ASSUME \/ ServerEvaluates \/ ClientLaunch \/ ClientGreets
                 \/ \E q \in Procs : Send(q) \/ Faults(q) \/ Fails(q) \/ Lose(q) \/ Duplicate(q)
          PROVE  left_size' = left_size
      BY <3>5 DEF ServerEvaluates, ClientLaunch, ClientGreets, Send, Faults, Fails, Lose,
         Duplicate, Local
    <3> QED BY <1>5, <3>2, <3>3, <3>4, <3>5 DEF Next, ServerStep, ClientStep, Transfer, Procs
  <2> QED BY <2>1, <2>2, <2>3, <1>1, <1>5 DEF Stuck, Wanted
<1>6. CASE UNCHANGED vars
  BY <1>6 DEF vars, Stuck, Failed, Wanted, Total, OnWay
<1> QED BY <1>2, <1>3, <1>4, <1>5, <1>6

(* After EAGAIN, no process ever gets through the read it is in, if nothing *)
(* is duplicated: it reads on, or the call fails.                           *)
THEOREM RetriesStall == ASSUME MaxDuplicated = 0 PROVE Spec => RetryStalls
<1>1. SUFFICES ASSUME NEW p \in Procs
      PROVE  Spec => [](pc[p] \in Reading /\ left_size[p] > Wanted(p)
                          => [](pc[p] \in Reading \cup {"exited", "norecv"}))
  BY DEF RetryStalls
<1>2. IInv /\ IInv' /\ Stuck(p) /\ [Next]_vars => Stuck(p)'
  BY StaysStuck
<1>3. pc[p] \in Reading /\ left_size[p] > Wanted(p) => Stuck(p)
  BY DEF Stuck
<1>4. Stuck(p) => pc[p] \in Reading \cup {"exited", "norecv"}
  BY DEF Stuck, Failed
<1> QED BY <1>2, <1>3, <1>4, Invariant, PTL DEF Spec
===========================================================================
