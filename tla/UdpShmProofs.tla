---------------------------- MODULE UdpShmProofs --------------------------
(* What UdpShm.tla's run shows on small regions, for every region, every -c *)
(* and any number of datagrams lost and duplicated.                         *)
EXTENDS UdpShm, TLAPS

(* What the count of tokens is made of.                                     *)
Shape ==
    /\ pc \in [Procs -> ServerLabels \cup ClientLabels]
    /\ tokens \in [Procs -> Nat]
    /\ greetings \in Nat /\ lost \in Nat /\ duplicated \in Nat

(* The first datagram is the client's greeting.                             *)
Fresh ==
    pc["client"] \in {"off", "hello"} =>
        /\ pc["server"] \in {"off", "meet", "exited"}
        /\ tokens = [p \in Procs |-> 0]
        /\ greetings = 0 /\ lost = 0 /\ duplicated = 0

TokenInv == Shape /\ Fresh /\ OneToken

ServerWorking == pc["server"] \in {"fill", "check", "evaluate", "done", "aborted"}
ServerWaiting == pc["server"] \in {"wait", "broken"}
ClientFilling == pc["client"] \in {"fill", "check"}

(* The key names a segment of this run from the moment one is made to the   *)
(* server's report, so that there is only one.                              *)
SegmentInv ==
    /\ made \in {1, 2}
    /\ earlier => made = 1 /\ (key = 1 \/ pc["server"] = "done")
    /\ made = 2 => key = 2 \/ (key = 0 /\ pc["server"] = "done")

(* The server begins when it hears the client, and only then sends.         *)
BeginInv ==
    /\ pc["server"] # "clear"
    /\ Begun \/ greetings > 0 => ClientGreeted
    /\ ~Begun => tokens = [p \in Procs |-> 0] /\ ~Holds("client") /\ message = 0
    /\ Replied >= 0 /\ (~Begun \/ ~ClientGreeted => Replied = 0)

(* Without a duplicate: there is no more greeting when the server has       *)
(* begun; how many rounds each side has counted;                            *)
CountInv == duplicated = 0 =>
    /\ Begun => greetings = 0
    /\ ServerWorking => Replied = message
    /\ pc["server"] = "copy" \/ tokens["server"] > 0 => Replied = message + 1
    /\ Holds("client") \/ tokens["client"] > 0 => ServerWaiting /\ Replied = message

(* what the server's memory holds,                                          *)
RegionInv == duplicated = 0 =>
    /\ pc["server"] = "fill" => \A c \in Cells \ todo["server"] : region[c] = STC(message + 1)
    /\ pc["server"] = "check" => region = Uniform(STC(message + 1))
    /\ (tokens["client"] > 0 \/ pc["client"] = "copy") /\ ~Apart
         => region = Uniform(STC(message + 1))
    /\ (ServerWaiting \/ pc["server"] = "copy") /\ Apart => region = Uniform(STC(message + 1))
    /\ (tokens["server"] > 0 \/ pc["server"] = "copy") /\ ~Apart => region = Uniform(CTS(Replied))
    /\ pc["client"] = "fill" /\ ~Apart
         => \A c \in Cells \ todo["client"] : region[c] = CTS(Replied + 1)
    /\ pc["client"] = "check" /\ ~Apart => region = Uniform(CTS(Replied + 1))

(* what the client's does, when it is another one,                          *)
OwnInv == duplicated = 0 =>
    /\ Replied = 0 /\ ~ClientFilling => \A c \in Cells : own[c].round = 0
    /\ Replied > 0 /\ ~ClientFilling /\ Apart => own = Uniform(CTS(Replied))
    /\ pc["client"] = "fill" /\ Apart
         => \A c \in Cells \ todo["client"] : own[c] = CTS(Replied + 1)
    /\ pc["client"] = "check" /\ Apart => own = Uniform(CTS(Replied + 1))

(* and what has been copied.                                                *)
BufInv == duplicated = 0 =>
    /\ Accepted
    /\ pc["client"] = "copy" => \A c \in Cells \ todo["client"] :
         IF ~Apart THEN buf["client"][c] = STC(Replied + 1)
         ELSE IF Replied > 0 THEN buf["client"][c] = CTS(Replied)
         ELSE buf["client"][c].round = 0
    /\ pc["server"] = "copy" => \A c \in Cells \ todo["server"] :
         buf["server"][c] = IF Apart THEN STC(message + 1) ELSE CTS(Replied)
    /\ IF Apart THEN CopiesOwn ELSE CopiesDue

IInv == TokenInv /\ TypeOK /\ SegmentInv /\ BeginInv /\ CountInv /\ RegionInv /\ OwnInv /\ BufInv
---------------------------------------------------------------------------
LEMMA InitToken == Init => TokenInv
BY BoundsAssumption
DEF Init, TInit, XInit, Procs, ServerLabels, ClientLabels, TokenInv, Shape, Fresh,
    OneToken, Tokens, Held, Holds

(* A step of one process from one label to another, that passes no token,   *)
(* keeps the count when it neither takes nor lays down one.                 *)
LEMMA Moves ==
  ASSUME TokenInv, NEW p \in Procs, NEW to \in ServerLabels \cup ClientLabels,
         pc' = [pc EXCEPT ![p] = to],
         Holds(p)' <=> Holds(p),
         pc[p] \notin {"off", "hello"} \/ to \in {"exited", "hello", "meet"},
         pc[p] # "off" => to \notin {"off", "hello"},
         p = "server" /\ to \notin {"meet", "exited"} => pc[p] \notin {"off", "meet", "exited"},
         UNCHANGED <<tokens, greetings, lost, duplicated>>
  PROVE  TokenInv'
<1>1. Shape'
  BY DEF TokenInv, Shape
<1>2. Fresh'
  BY DEF TokenInv, Shape, Fresh, Procs
<1>3. \A q \in Procs : Held(q)' = Held(q)
  BY DEF TokenInv, Shape, Held, Holds
<1>4. OneToken'
  BY <1>3 DEF TokenInv, OneToken, Tokens, Procs
<1> QED BY <1>1, <1>2, <1>4 DEF TokenInv

LEMMA Stays ==
  ASSUME TokenInv, UNCHANGED <<pc, tokens, greetings, lost, duplicated>>
  PROVE  TokenInv'
BY DEF TokenInv, Shape, Fresh, OneToken, Tokens, Held, Holds

LEMMA AttachToken ==
  ASSUME TokenInv, NEW p \in Procs, Launch(p)
  PROVE  TokenInv'
<1> DEFINE to == IF p = "server" THEN "meet" ELSE "hello"
<1>1. pc[p] = "off" /\ pc' = [pc EXCEPT ![p] = to]
  BY DEF Launch, Attach, Goes
<1>2. UNCHANGED <<tokens, greetings, lost, duplicated>>
  BY DEF Launch, Attach, Socket
<1>3. Holds(p)' <=> Holds(p)
  BY <1>1 DEF TokenInv, Shape, Holds, Procs
<1> QED BY <1>1, <1>2, <1>3, Moves DEF Procs, ServerLabels, ClientLabels

LEMMA FailsToken ==
  ASSUME TokenInv, NEW p \in Procs, Fails(p), UNCHANGED Socket
  PROVE  TokenInv'
<1>1. pc[p] \in {"off", "meet", "hello"} /\ pc' = [pc EXCEPT ![p] = "exited"]
  BY DEF Fails, SetupFails, Goes
<1>2. UNCHANGED <<tokens, greetings, lost, duplicated>>
  BY DEF Fails, Socket
<1>3. Holds(p)' <=> Holds(p)
  BY <1>1 DEF TokenInv, Shape, Holds, Procs
<1> QED BY <1>1, <1>2, <1>3, Moves DEF Procs, ServerLabels, ClientLabels

(* The work on a region, whichever.                                         *)
LEMMA MemoryToken ==
  ASSUME TokenInv, NEW p \in Procs, MemoryStep(p) \/ Own!MemoryStep(p),
         UNCHANGED <<tokens, greetings, lost, duplicated>>
  PROVE  TokenInv'
<1>1. CASE UNCHANGED pc
  BY <1>1, Stays
<1>2. CASE ~UNCHANGED pc
  <2>1. \/ pc[p] = "fill" /\ pc' = [pc EXCEPT ![p] = "check"]
        \/ pc[p] = "check" /\ pc' = [pc EXCEPT ![p] = "torn"]
    BY <1>2 DEF MemoryStep, FillCell, StartCheck, CheckCell, CopyCell, Goes,
                Own!MemoryStep, Own!FillCell, Own!StartCheck, Own!CheckCell,
                Own!CopyCell, Own!Goes
  <2>2. PICK to \in {"check", "torn"} : pc' = [pc EXCEPT ![p] = to]
    BY <2>1
  <2>3. Holds(p)' <=> Holds(p)
    BY <2>1 DEF TokenInv, Shape, Holds, Procs
  <2> QED BY <2>1, <2>2, <2>3, Moves DEF Procs, ServerLabels, ClientLabels
<1> QED BY <1>1, <1>2

LEMMA ServerWorksToken ==
  ASSUME TokenInv, ServerWorks, UNCHANGED Socket
  PROVE  TokenInv'
<1>1. UNCHANGED <<tokens, greetings, lost, duplicated>>
  BY DEF ServerWorks, Socket
<1>2. CASE MemoryStep("server")
  BY <1>1, <1>2, MemoryToken DEF Procs
<1>3. CASE ServerEndsCopy
  <2>1. PICK to \in {"mismatch", "fill", "evaluate"} :
          pc["server"] = "copy" /\ pc' = [pc EXCEPT !["server"] = to]
    BY <1>3 DEF ServerEndsCopy, ServerLoop, Goes
  <2>2. Holds("server")' <=> Holds("server")
    BY <2>1 DEF TokenInv, Shape, Holds, Procs
  <2> QED BY <1>1, <2>1, <2>2, Moves DEF Procs, ServerLabels, ClientLabels
<1>4. CASE ServerEvaluates
  <2>1. PICK to \in {"done", "aborted"} :
          pc["server"] = "evaluate" /\ pc' = [pc EXCEPT !["server"] = to]
    BY <1>4 DEF ServerEvaluates, Goes
  <2>2. Holds("server")' <=> Holds("server")
    BY <2>1 DEF TokenInv, Shape, Holds, Procs
  <2> QED BY <1>1, <2>1, <2>2, Moves DEF Procs, ServerLabels, ClientLabels
<1> QED BY <1>2, <1>3, <1>4 DEF ServerWorks

LEMMA ClientWorksToken ==
  ASSUME TokenInv, ClientWorks, UNCHANGED Socket
  PROVE  TokenInv'
<1>1. UNCHANGED <<tokens, greetings, lost, duplicated>>
  BY DEF ClientWorks, Socket
<1>2. CASE ClientMemory
  BY <1>1, <1>2, MemoryToken DEF ClientMemory, Procs
<1>3. CASE ClientEndsCopy
  <2>1. PICK to \in {"mismatch", "fill"} :
          pc["client"] = "copy" /\ pc' = [pc EXCEPT !["client"] = to]
    BY <1>3 DEF ClientEndsCopy, Goes
  <2>2. Holds("client")' <=> Holds("client")
    BY <2>1 DEF TokenInv, Shape, Holds, Procs
  <2> QED BY <1>1, <2>1, <2>2, Moves DEF Procs, ServerLabels, ClientLabels
<1> QED BY <1>2, <1>3 DEF ClientWorks

(* The greeting is the one token of the run.                                *)
LEMMA ClientGreetsToken ==
  ASSUME TokenInv, ClientGreets
  PROVE  TokenInv'
<1>1. PICK to \in {"wait", "done"} :
        pc["client"] = "hello" /\ pc' = [pc EXCEPT !["client"] = to]
  BY DEF ClientGreets, ClientBegins, ClientLoop, Goes
<1>2. UNCHANGED <<tokens, lost, duplicated>> /\ greetings' \in {greetings, greetings + 1}
  BY DEF ClientGreets, History
<1>3. /\ pc["server"] \in {"off", "meet", "exited"} /\ tokens = [p \in Procs |-> 0]
      /\ greetings = 0 /\ lost = 0 /\ duplicated = 0
  BY <1>1 DEF TokenInv, Fresh
<1>0. to \in ServerLabels \cup ClientLabels
  BY DEF ServerLabels, ClientLabels
<1>4. Shape'
  BY <1>0, <1>1, <1>2 DEF TokenInv, Shape, Procs
<1>5. pc'["client"] = to /\ pc'["server"] = pc["server"]
  BY <1>1 DEF TokenInv, Shape, Procs
<1>6. Fresh'
  BY <1>5 DEF Fresh
<1>7. Held("client")' = 0 /\ Held("server")' = 0
  BY <1>3, <1>5 DEF Held, Holds
<1>8. OneToken'
  BY <1>2, <1>3, <1>7 DEF OneToken, Tokens, Procs
<1> QED BY <1>4, <1>6, <1>8 DEF TokenInv

LEMMA ServerHearsToken ==
  ASSUME TokenInv, ServerHears
  PROVE  TokenInv'
<1>1. PICK to \in {"fill", "evaluate"} :
        pc["server"] = "meet" /\ pc' = [pc EXCEPT !["server"] = to]
  BY DEF ServerHears, ServerBegins, ServerLoop, Goes
<1>2. UNCHANGED <<tokens, lost, duplicated>> /\ greetings > 0 /\ greetings' = greetings - 1
  BY DEF ServerHears, History
<1>0. to \in ServerLabels \cup ClientLabels
  BY DEF ServerLabels, ClientLabels
<1>3. Shape'
  BY <1>0, <1>1, <1>2 DEF TokenInv, Shape, Procs
<1>4. pc'["server"] = to /\ pc'["client"] = pc["client"]
  BY <1>1 DEF TokenInv, Shape, Procs
<1>5. Fresh'
  BY <1>2, <1>4 DEF TokenInv, Fresh
<1>6. Held("server") = 0 /\ Held("server")' = 1 /\ Held("client")' = Held("client")
  BY <1>1, <1>4 DEF Held, Holds
<1>7. OneToken'
  BY <1>2, <1>6 DEF TokenInv, Shape, OneToken, Tokens, Procs, Held
<1> QED BY <1>3, <1>5, <1>7 DEF TokenInv

(* A token that is passed is no longer held, one that comes is taken.       *)
LEMMA NotifiesToken ==
  ASSUME TokenInv, NEW p \in Procs, Notifies(p)
  PROVE  TokenInv'
<1>1. PICK to \in {"wait"} \cup (IF p = "client" THEN {"done"} ELSE {}) :
        pc[p] \in {"fill", "check"} /\ pc' = [pc EXCEPT ![p] = to]
  BY DEF Notifies, ServerPasses, ClientPasses, ClientLoop, Ready, Goes, Procs
<1>2. /\ UNCHANGED <<greetings, lost, duplicated>>
      /\ tokens' = tokens \/ tokens' = [tokens EXCEPT ![Peer(p)] = @ + 1]
  BY DEF Notifies, Socket, Sends
<1>3. to \in ServerLabels \cup ClientLabels /\ Peer(p) \in Procs
  BY DEF ServerLabels, ClientLabels, Peer, Procs
<1>4. Shape'
  BY <1>1, <1>2, <1>3 DEF TokenInv, Shape
<1>5. pc'[p] = to /\ \A q \in Procs \ {p} : pc'[q] = pc[q]
  BY <1>1 DEF TokenInv, Shape
<1>6. pc["client"] \notin {"off", "hello"} /\ pc'["client"] \notin {"off", "hello"}
  BY <1>1, <1>5 DEF TokenInv, Fresh, Procs
<1>7. Held(p) = 1 /\ Held(p)' = 0 /\ \A q \in Procs \ {p} : Held(q)' = Held(q)
  BY <1>1, <1>5 DEF Held, Holds
<1>8. OneToken'
  <2>1. tokens'["server"] + tokens'["client"] <= tokens["server"] + tokens["client"] + 1
    BY <1>2, <1>3 DEF TokenInv, Shape, Procs
  <2>2. Held("server")' + Held("client")' + 1 = Held("server") + Held("client")
    BY <1>7 DEF Procs, Held
  <2> QED BY <1>2, <1>4, <2>1, <2>2 DEF TokenInv, OneToken, Tokens, Shape, Procs, Held
<1> QED BY <1>4, <1>6, <1>8 DEF TokenInv, Fresh

LEMMA WaitsToken ==
  ASSUME TokenInv, NEW p \in Procs, Waits(p)
  PROVE  TokenInv'
<1>1. pc[p] = "wait" /\ pc' = [pc EXCEPT ![p] = "copy"]
  BY DEF Waits, Copies, Goes
<1>2. /\ UNCHANGED <<lost, duplicated>>
      /\ \/ /\ tokens[p] > 0 /\ tokens' = [tokens EXCEPT ![p] = @ - 1]
            /\ UNCHANGED greetings
         \/ greetings > 0 /\ greetings' = greetings - 1 /\ UNCHANGED tokens
  BY DEF Waits, History, Takes
<1>3. "copy" \in ServerLabels \cup ClientLabels
  BY DEF ServerLabels
<1>4. Shape'
  BY <1>1, <1>2, <1>3 DEF TokenInv, Shape
<1>5. pc'[p] = "copy" /\ \A q \in Procs \ {p} : pc'[q] = pc[q]
  BY <1>1 DEF TokenInv, Shape
<1>6. pc["client"] \notin {"off", "hello"} /\ pc'["client"] \notin {"off", "hello"}
  BY <1>1, <1>5 DEF TokenInv, Fresh, Procs
<1>7. Held(p) = 0 /\ Held(p)' = 1 /\ \A q \in Procs \ {p} : Held(q)' = Held(q)
  BY <1>1, <1>5 DEF Held, Holds
<1>8. OneToken'
  <2>1. tokens'["server"] + tokens'["client"] + greetings' + 1
          = tokens["server"] + tokens["client"] + greetings
    BY <1>2 DEF TokenInv, Shape, Procs
  <2>2. Held("server")' + Held("client")' = Held("server") + Held("client") + 1
    BY <1>7 DEF Procs, Held
  <2> QED BY <1>2, <1>4, <2>1, <2>2 DEF TokenInv, OneToken, Tokens, Shape, Procs, Held
<1> QED BY <1>4, <1>6, <1>8 DEF TokenInv, Fresh

LEMMA FaultsToken ==
  ASSUME TokenInv, NEW p \in Procs, Faults(p)
  PROVE  TokenInv'
<1>1. pc[p] = "wait" /\ pc' = [pc EXCEPT ![p] = "broken"]
  BY DEF Faults, Dies, Goes
<1>2. UNCHANGED <<tokens, greetings, lost, duplicated>>
  BY DEF Faults, Dies, Socket
<1>3. Holds(p)' <=> Holds(p)
  BY <1>1 DEF TokenInv, Shape, Holds, Procs
<1> QED BY <1>1, <1>2, <1>3, Moves DEF Procs, ServerLabels, ClientLabels

(* The network counts what it does.                                         *)
LEMMA NetworkToken ==
  ASSUME TokenInv, Lose \/ Duplicate
  PROVE  TokenInv'
<1>1. UNCHANGED pc
  BY DEF Lose, Duplicate, xvars
<1>2. CASE Lose
  <2>1. /\ lost' = lost + 1 /\ UNCHANGED duplicated
        /\ \/ \E p \in Procs : /\ tokens[p] > 0 /\ tokens' = [tokens EXCEPT ![p] = @ - 1]
                              /\ UNCHANGED greetings
           \/ greetings > 0 /\ greetings' = greetings - 1 /\ UNCHANGED tokens
    BY <1>2 DEF Lose, Takes
  <2>2. Shape'
    BY <1>1, <2>1 DEF TokenInv, Shape
  <2>3. tokens'["server"] + tokens'["client"] + greetings' + 1
          = tokens["server"] + tokens["client"] + greetings
    BY <2>1 DEF TokenInv, Shape, Procs
  <2>4. pc["client"] \notin {"off", "hello"}
    BY <2>1 DEF TokenInv, Fresh
  <2>5. OneToken'
    BY <1>1, <2>1, <2>2, <2>3 DEF TokenInv, OneToken, Tokens, Shape, Procs, Held, Holds
  <2> QED BY <1>1, <2>2, <2>4, <2>5 DEF TokenInv, Fresh
<1>3. CASE Duplicate
  <2>1. /\ duplicated' = duplicated + 1 /\ UNCHANGED lost
        /\ \/ \E p \in Procs : /\ tokens[p] > 0
                              /\ tokens' = [tokens EXCEPT ![Peer(Peer(p))] = @ + 1]
                              /\ UNCHANGED greetings
           \/ greetings > 0 /\ greetings' = greetings + 1 /\ UNCHANGED tokens
    BY <1>3 DEF Duplicate, Sends
  <2>2. \A p \in Procs : Peer(Peer(p)) = p
    BY DEF Peer, Procs
  <2>3. Shape'
    BY <1>1, <2>1, <2>2 DEF TokenInv, Shape
  <2>4. tokens'["server"] + tokens'["client"] + greetings'
          = tokens["server"] + tokens["client"] + greetings + 1
    BY <2>1, <2>2 DEF TokenInv, Shape, Procs
  <2>5. pc["client"] \notin {"off", "hello"}
    BY <2>1 DEF TokenInv, Fresh
  <2>6. OneToken'
    BY <1>1, <2>1, <2>3, <2>4 DEF TokenInv, OneToken, Tokens, Shape, Procs, Held, Holds
  <2> QED BY <1>1, <2>3, <2>5, <2>6 DEF TokenInv, Fresh
<1> QED BY <1>2, <1>3

LEMMA NextToken ==
  ASSUME TokenInv, [Next]_vars
  PROVE  TokenInv'
<1>1. CASE ServerStep
  <2>1. CASE ServerBinds
    BY <2>1, Stays DEF ServerBinds, tvars, xvars, History
  <2>2. CASE Again \/ (ServerRemoves /\ UNCHANGED Socket)
    BY <2>2, Stays DEF Again, ServerRemoves, tvars, xvars, History, Socket
  <2>3. CASE Swallows
    <3>1. UNCHANGED <<pc, tokens, lost, duplicated>> /\ greetings > 0 /\ greetings' = greetings - 1
      BY <2>3 DEF Swallows, tvars, xvars, History
    <3>2. Shape'
      BY <3>1 DEF TokenInv, Shape
    <3>3. Fresh'
      BY <3>1 DEF TokenInv, Fresh
    <3>4. OneToken'
      BY <3>1 DEF TokenInv, OneToken, Tokens, Held, Holds, Shape, Procs
    <3> QED BY <3>2, <3>3, <3>4 DEF TokenInv
  <2>4. "server" \in Procs
    BY DEF Procs
  <2> QED BY <1>1, <2>1, <2>2, <2>3, <2>4, ServerHearsToken, NotifiesToken, WaitsToken,
             FaultsToken, ServerWorksToken DEF ServerStep
<1>2. CASE ClientStep
  BY <1>2, ClientGreetsToken, NotifiesToken, WaitsToken, FaultsToken, ClientWorksToken
  DEF ClientStep, Procs
<1>3. CASE EarlierRemoves /\ UNCHANGED Socket
  BY <1>3, Stays DEF EarlierRemoves, xvars, Socket
<1>4. CASE UNCHANGED vars
  BY <1>4, Stays DEF vars, tvars, xvars
<1> QED BY <1>1, <1>2, <1>3, <1>4, AttachToken, FailsToken, NetworkToken DEF Next

(* In every reachable state the processes in the region, the datagrams that *)
(* let one in and those lost are one more than the duplicates, at most.     *)
THEOREM OneTokenAlways == Spec => []OneToken
<1>1. Spec => []TokenInv
  BY InitToken, NextToken, PTL DEF Spec
<1>2. TokenInv => OneToken
  BY DEF TokenInv
<1> QED BY <1>1, <1>2, PTL

(* So without a duplicate no two processes are in the region.               *)
THEOREM Apartness ==
  Spec => [](duplicated = 0 => ~(Holds("server") /\ Holds("client")))
<1>1. Spec => []TokenInv
  BY InitToken, NextToken, PTL DEF Spec
<1>2. TokenInv => (duplicated = 0 => ~(Holds("server") /\ Holds("client")))
  BY DEF TokenInv, OneToken, Tokens, Held, Shape, Procs
<1> QED BY <1>1, <1>2, PTL
---------------------------------------------------------------------------
(* The numbers in the invariant.                                            *)
LEMMA Numbers ==
  ASSUME TypeOK
  PROVE  /\ left \in Int /\ count["client"] \in Int /\ message \in Nat /\ Replied \in Int
         /\ tokens["server"] \in Nat /\ tokens["client"] \in Nat /\ greetings \in Nat
         /\ lost \in Nat /\ duplicated \in Nat
         /\ "server" \in Procs /\ "client" \in Procs
<1>1. "server" \in Procs /\ "client" \in Procs
  BY DEF Procs
<1>2. left \in Int /\ count["client"] \in Int /\ message \in Nat
  BY <1>1, CountsAssumption DEF TypeOK, TTypeOK, XTypeOK
<1>3. /\ tokens["server"] \in Nat /\ tokens["client"] \in Nat /\ greetings \in Nat
      /\ lost \in Nat /\ duplicated \in Nat
  BY <1>1, BoundsAssumption DEF TypeOK, TTypeOK
<1> QED BY <1>1, <1>2, <1>3 DEF Replied

(* Without a duplicate there is one token, and whoever has it is alone.     *)
LEMMA Holding ==
  ASSUME IInv, duplicated = 0
  PROVE  /\ Holds("client") \/ tokens["client"] > 0
              => /\ tokens["server"] = 0 /\ ~Holds("server") /\ ServerWaiting
                 /\ greetings = 0 /\ Begun /\ Replied = message
         /\ Holds("client") => tokens["client"] = 0
         /\ tokens["client"] > 0 => tokens["client"] = 1
         /\ tokens["server"] > 0
              => /\ tokens["client"] = 0 /\ ~Holds("client") /\ ~Holds("server")
                 /\ tokens["server"] = 1 /\ greetings = 0 /\ ServerWaiting
         /\ Holds("server")
              => tokens["server"] = 0 /\ tokens["client"] = 0 /\ ~Holds("client") /\ greetings = 0
<1>1. Tokens + greetings + lost <= 1
  BY DEF IInv, TokenInv, OneToken
<1>2. /\ tokens["server"] \in Nat /\ tokens["client"] \in Nat /\ greetings \in Nat /\ lost \in Nat
  BY Numbers DEF IInv
<1>3. Begun \/ (tokens["server"] = 0 /\ tokens["client"] = 0 /\ ~Holds("client"))
  BY DEF IInv, BeginInv, Procs
<1>4. Holds("client") \/ tokens["client"] > 0 => ServerWaiting /\ Replied = message
  BY DEF IInv, CountInv
<1>5. pc["server"] \in ServerLabels /\ pc["server"] # "clear"
  BY DEF IInv, TypeOK, TTypeOK, XTypeOK, BeginInv
<1>6. Begun /\ ~Holds("server") => ServerWaiting
  BY <1>5 DEF Begun, Holds, ServerWaiting, ServerLabels
<1> QED BY <1>1, <1>2, <1>3, <1>4, <1>6 DEF Tokens, Held

LEMMA InitInv == Init => IInv
<1> SUFFICES ASSUME Init PROVE IInv
  OBVIOUS
<1> USE DEF Init, TInit, XInit, Procs
<1>1. TypeOK
  <2>1. Leftovers \subseteq Words /\ Zero \in Words
    BY DEF Leftovers, Words, Bytes, Zero, STC, CTS
  <2>2. XTypeOK
    BY <2>1, CountsAssumption DEF XTypeOK, Uniform, ServerLabels, ClientLabels
  <2>3. own \in [Cells -> Words] /\ 1 \in 1 .. 1 + MaxRetries /\ 0 \in 0 .. MaxLost /\ 0 \in 0 .. MaxDuplicated
    BY <2>2, BoundsAssumption DEF XTypeOK
  <2>4. TTypeOK
    BY <2>2, <2>3 DEF TTypeOK
  <2> QED BY <2>3, <2>4 DEF TypeOK
<1>2. SegmentInv /\ BeginInv
  BY <1>1, Numbers DEF SegmentInv, BeginInv, Begun, ClientGreeted, Holds, Replied
<1>3. CountInv
  BY <1>1, Numbers
  DEF CountInv, Holds, Begun, Replied, ServerWorking, ServerWaiting
<1>4. RegionInv /\ OwnInv /\ BufInv
  BY <1>1, Numbers
  DEF RegionInv, OwnInv, BufInv, CopiesOwn, CopiesDue, Accepted, ServerWaiting,
      ClientFilling, Apart, Replied, Leftovers, Zero, STC, CTS
<1> QED BY <1>1, <1>2, <1>3, <1>4, InitToken DEF IInv

LEMMA LaunchInv ==
  ASSUME NEW p \in Procs, IInv, Launch(p)
  PROVE  TokenInv' => IInv'
<1>0. /\ pc[p] = "off" /\ pc' = [pc EXCEPT ![p] = IF p = "server" THEN "meet" ELSE "hello"]
      /\ made' = (IF Named > made THEN Named ELSE made) /\ key' = Named
      /\ attached' = [attached EXCEPT ![p] = Named] /\ UNCHANGED earlier
  BY DEF Launch, Attach, Goes
<1>00. /\ made \in {1, 2} /\ made' \in {1, 2} /\ made <= made' /\ Named \in {1, 2}
       /\ Named <= made' /\ (Named = 2 <=> made' = 2) /\ (made = 1 /\ key = 1 => made' = 1)
       /\ pc["server"] # "done"
  <2>1. made \in {1, 2} /\ key \in 0 .. made /\ (made = 2 => key = 2 \/ (key = 0 /\ pc["server"] = "done"))
    BY DEF IInv, TypeOK, TTypeOK, SegmentInv
  <2>2. pc["server"] # "done"
    BY <1>0 DEF IInv, BeginInv, Begun, ClientGreeted, Procs
  <2>3. made = 2 => key = 2
    BY <2>1, <2>2
  <2>4. Named = IF key = 0 THEN made + 1 ELSE key
    BY DEF Named
  <2> QED BY <1>0, <2>1, <2>2, <2>3, <2>4
<1>1. TypeOK'
  <2>1. XTypeOK' /\ own' \in [Cells -> Words]
    <3>1. Uniform(Zero) \in [Cells -> Words]
      BY DEF Uniform, Words, Bytes, Zero
    <3>2. region' \in [Cells -> Words] /\ own' \in [Cells -> Words]
      BY <3>1 DEF Launch, Attach, IInv, TypeOK, TTypeOK, XTypeOK
    <3> QED BY <1>0, <3>2
        DEF Launch, Attach, Counters, Options, IInv, TypeOK, TTypeOK, XTypeOK, Procs,
            ServerLabels, ClientLabels
  <2>2. attached' \in [Procs -> 0 .. made']
    BY <1>0, <1>00 DEF IInv, TypeOK, TTypeOK
  <2> QED BY <1>0, <1>00, <2>1, <2>2 DEF Launch, Attach, Socket, IInv, TypeOK, TTypeOK
<1>2. SegmentInv'
  <2>1. pc'["server"] # "done"
    BY <1>0, <1>00 DEF IInv, TypeOK, TTypeOK, XTypeOK, Procs
  <2>2. earlier => made = 1 /\ key = 1
    BY <1>00 DEF IInv, SegmentInv
  <2> QED BY <1>0, <1>00, <2>1, <2>2 DEF SegmentInv
<1>3. BeginInv'
  BY Numbers, <1>0
  DEF Launch, Attach, Named, Goes, Options, Counters, Socket, IInv, TypeOK, TTypeOK,
      XTypeOK, Procs, BeginInv, Begun, ClientGreeted, Holds, Replied
<1>4. CountInv'
  BY Numbers, <1>0
  DEF Launch, Attach, Named, Goes, Options, Counters, Socket, IInv, TypeOK, TTypeOK,
      XTypeOK, Procs, CountInv, BeginInv, Begun, ServerWorking, ServerWaiting, Holds,
      Replied, ClientGreeted
<1>5. RegionInv'
  BY Numbers, <1>0
  DEF Launch, Attach, Named, Goes, Options, Counters, Socket, IInv, TypeOK, TTypeOK,
      XTypeOK, Procs, RegionInv, CountInv, BeginInv, Begun, Holds, ServerWorking,
      ServerWaiting, Apart, ClientFilling, ClientGreeted, Uniform, STC, CTS, Zero,
      Replied
<1>6. OwnInv'
  BY Numbers, <1>0
  DEF Launch, Attach, Named, Goes, Options, Counters, Socket, IInv, TypeOK, TTypeOK,
      XTypeOK, Procs, OwnInv, RegionInv, CountInv, BeginInv, Begun, Holds,
      ServerWaiting, Apart, ClientFilling, ClientGreeted, Uniform, STC, CTS, Zero,
      Replied
<1>7. BufInv'
  BY Numbers, <1>0
  DEF Launch, Attach, Named, Goes, Options, Counters, Socket, IInv, TypeOK, TTypeOK,
      XTypeOK, Procs, BufInv, Accepted, CopiesOwn, CopiesDue, RegionInv, OwnInv,
      CountInv, BeginInv, Begun, Holds, ServerWorking, ServerWaiting, Apart,
      ClientFilling, ClientGreeted, Uniform, STC, CTS, Zero, Replied
<1> QED BY <1>1, <1>2, <1>3, <1>4, <1>5, <1>6, <1>7 DEF IInv

LEMMA ServerBindsInv ==
  ASSUME IInv, ServerBinds
  PROVE  TokenInv' => IInv'
<1>1. TypeOK'
  BY CountsAssumption
  DEF ServerBinds, segments, History, tvars, xvars, IInv, TypeOK, TTypeOK, XTypeOK,
      Procs, ServerLabels, ClientLabels
<1>2. SegmentInv'
  BY Numbers
  DEF ServerBinds, segments, History, tvars, xvars, IInv, TypeOK, TTypeOK, XTypeOK,
      Procs, SegmentInv
<1>3. BeginInv'
  BY Numbers
  DEF ServerBinds, segments, History, tvars, xvars, IInv, TypeOK, TTypeOK, XTypeOK,
      Procs, BeginInv, Begun, ClientGreeted, Holds, Replied
<1>4. CountInv'
  BY Numbers
  DEF ServerBinds, segments, History, tvars, xvars, IInv, TypeOK, TTypeOK, XTypeOK,
      Procs, CountInv, BeginInv, Begun, ServerWorking, ServerWaiting, Holds, Replied,
      ClientGreeted
<1>5. RegionInv'
  BY Numbers
  DEF ServerBinds, segments, History, tvars, xvars, IInv, TypeOK, TTypeOK, XTypeOK,
      Procs, RegionInv, CountInv, BeginInv, Begun, Holds, ServerWorking,
      ServerWaiting, Apart, ClientFilling, ClientGreeted, Uniform, STC, CTS, Zero,
      Replied
<1>6. OwnInv'
  BY Numbers
  DEF ServerBinds, segments, History, tvars, xvars, IInv, TypeOK, TTypeOK, XTypeOK,
      Procs, OwnInv, RegionInv, CountInv, BeginInv, Begun, Holds, ServerWaiting,
      Apart, ClientFilling, ClientGreeted, Uniform, STC, CTS, Zero, Replied
<1>7. BufInv'
  BY Numbers
  DEF ServerBinds, segments, History, tvars, xvars, IInv, TypeOK, TTypeOK, XTypeOK,
      Procs, BufInv, Accepted, CopiesOwn, CopiesDue, RegionInv, OwnInv, CountInv,
      BeginInv, Begun, Holds, ServerWorking, ServerWaiting, Apart, ClientFilling,
      ClientGreeted, Uniform, STC, CTS, Zero, Replied
<1> QED BY <1>1, <1>2, <1>3, <1>4, <1>5, <1>6, <1>7 DEF IInv

LEMMA ClientGreetsInv ==
  ASSUME IInv, ClientGreets
  PROVE  TokenInv' => IInv'
<1>1. TypeOK'
  BY CountsAssumption
  DEF ClientGreets, ClientBegins, ClientLoop, Hears, Ended, Goes, Options, segments,
      History, IInv, TypeOK, TTypeOK, XTypeOK, Procs, ServerLabels, ClientLabels
<1>2. SegmentInv'
  BY Numbers
  DEF ClientGreets, ClientBegins, ClientLoop, Hears, Ended, Goes, Options, segments,
      History, IInv, TypeOK, TTypeOK, XTypeOK, Procs, SegmentInv
<1>3. BeginInv'
  BY Numbers
  DEF ClientGreets, ClientBegins, ClientLoop, Hears, Ended, Goes, Options, segments,
      History, IInv, TypeOK, TTypeOK, XTypeOK, Procs, BeginInv, Begun, ClientGreeted,
      Holds, Replied
<1>4. CountInv'
  BY Numbers
  DEF ClientGreets, ClientBegins, ClientLoop, Hears, Ended, Goes, Options, segments,
      History, IInv, TypeOK, TTypeOK, XTypeOK, Procs, CountInv, BeginInv, Begun,
      ServerWorking, ServerWaiting, Holds, Replied, ClientGreeted
<1>5. RegionInv'
  BY Numbers
  DEF ClientGreets, ClientBegins, ClientLoop, Hears, Ended, Goes, Options, segments,
      History, IInv, TypeOK, TTypeOK, XTypeOK, Procs, RegionInv, CountInv, BeginInv,
      Begun, Holds, ServerWorking, ServerWaiting, Apart, ClientFilling, ClientGreeted,
      Uniform, STC, CTS, Zero, Replied
<1>6. OwnInv'
  BY Numbers
  DEF ClientGreets, ClientBegins, ClientLoop, Hears, Ended, Goes, Options, segments,
      History, IInv, TypeOK, TTypeOK, XTypeOK, Procs, OwnInv, RegionInv, CountInv,
      BeginInv, Begun, Holds, ServerWaiting, Apart, ClientFilling, ClientGreeted,
      Uniform, STC, CTS, Zero, Replied
<1>7. BufInv'
  BY Numbers
  DEF ClientGreets, ClientBegins, ClientLoop, Hears, Ended, Goes, Options, segments,
      History, IInv, TypeOK, TTypeOK, XTypeOK, Procs, BufInv, Accepted, CopiesOwn,
      CopiesDue, RegionInv, OwnInv, CountInv, BeginInv, Begun, Holds, ServerWorking,
      ServerWaiting, Apart, ClientFilling, ClientGreeted, Uniform, STC, CTS, Zero,
      Replied
<1> QED BY <1>1, <1>2, <1>3, <1>4, <1>5, <1>6, <1>7 DEF IInv

LEMMA ServerHearsInv ==
  ASSUME IInv, ServerHears
  PROVE  TokenInv' => IInv'
<1>1. TypeOK'
  BY CountsAssumption
  DEF ServerHears, ServerBegins, ServerLoop, Goes, Starts, Options, segments, History,
      IInv, TypeOK, TTypeOK, XTypeOK, Procs, ServerLabels, ClientLabels
<1>2. SegmentInv'
  BY Numbers
  DEF ServerHears, ServerBegins, ServerLoop, Goes, Starts, Options, segments, History,
      IInv, TypeOK, TTypeOK, XTypeOK, Procs, SegmentInv
<1>3. BeginInv'
  BY Numbers
  DEF ServerHears, ServerBegins, ServerLoop, Goes, Starts, Options, segments, History,
      IInv, TypeOK, TTypeOK, XTypeOK, Procs, BeginInv, Begun, ClientGreeted, Holds,
      Replied
<1>4. CountInv'
  <2> SUFFICES ASSUME duplicated = 0 PROVE CountInv'
    BY DEF ServerHears, CountInv, History
  <2>1. /\ pc["server"] = "meet" /\ greetings > 0 /\ greetings' = greetings - 1 /\ message' = 0
        /\ UNCHANGED <<tokens, left, count, duplicated, lost>>
        /\ \E to \in {"fill", "evaluate"} : pc' = [pc EXCEPT !["server"] = to]
    BY DEF ServerHears, ServerBegins, ServerLoop, Goes, Options, History
  <2>2. greetings = 1 /\ tokens["server"] = 0 /\ tokens["client"] = 0 /\ ~Holds("client") /\ Replied = 0
    BY <2>1, Numbers DEF IInv, TokenInv, OneToken, Tokens, Held, BeginInv, Begun, Procs
  <2> QED BY <2>1, <2>2, Numbers
          DEF IInv, TypeOK, TTypeOK, XTypeOK, Procs, CountInv, Begun, Holds,
              ServerWorking, ServerWaiting, Replied
<1>5. RegionInv'
  BY Numbers
  DEF ServerHears, ServerBegins, ServerLoop, Goes, Starts, Options, segments, History,
      IInv, TypeOK, TTypeOK, XTypeOK, Procs, RegionInv, CountInv, BeginInv, Begun,
      Holds, ServerWorking, ServerWaiting, Apart, ClientFilling, ClientGreeted,
      Uniform, STC, CTS, Zero, Replied
<1>6. OwnInv'
  BY Numbers
  DEF ServerHears, ServerBegins, ServerLoop, Goes, Starts, Options, segments, History,
      IInv, TypeOK, TTypeOK, XTypeOK, Procs, OwnInv, RegionInv, CountInv, BeginInv,
      Begun, Holds, ServerWaiting, Apart, ClientFilling, ClientGreeted, Uniform, STC,
      CTS, Zero, Replied
<1>7. BufInv'
  BY Numbers
  DEF ServerHears, ServerBegins, ServerLoop, Goes, Starts, Options, segments, History,
      IInv, TypeOK, TTypeOK, XTypeOK, Procs, BufInv, Accepted, CopiesOwn, CopiesDue,
      RegionInv, OwnInv, CountInv, BeginInv, Begun, Holds, ServerWorking,
      ServerWaiting, Apart, ClientFilling, ClientGreeted, Uniform, STC, CTS, Zero,
      Replied
<1> QED BY <1>1, <1>2, <1>3, <1>4, <1>5, <1>6, <1>7 DEF IInv

LEMMA AgainInv ==
  ASSUME IInv, Again
  PROVE  TokenInv' => IInv'
<1>1. TypeOK'
  BY Numbers, BoundsAssumption
  DEF Again, tvars, xvars, segments, History, IInv, TypeOK, TTypeOK, XTypeOK, Procs
<1>2. SegmentInv'
  BY Numbers
  DEF Again, segments, History, tvars, xvars, IInv, TypeOK, TTypeOK, XTypeOK, Procs,
      SegmentInv
<1>3. BeginInv'
  BY Numbers
  DEF Again, segments, History, tvars, xvars, IInv, TypeOK, TTypeOK, XTypeOK, Procs,
      BeginInv, Begun, ClientGreeted, Holds, Replied
<1>4. CountInv'
  BY Numbers
  DEF Again, segments, History, tvars, xvars, IInv, TypeOK, TTypeOK, XTypeOK, Procs,
      CountInv, BeginInv, Begun, ServerWorking, ServerWaiting, Holds, Replied,
      ClientGreeted
<1>5. RegionInv'
  BY Numbers
  DEF Again, segments, History, tvars, xvars, IInv, TypeOK, TTypeOK, XTypeOK, Procs,
      RegionInv, CountInv, BeginInv, Begun, Holds, ServerWorking, ServerWaiting,
      Apart, ClientFilling, ClientGreeted, Uniform, STC, CTS, Zero, Replied
<1>6. OwnInv'
  BY Numbers
  DEF Again, segments, History, tvars, xvars, IInv, TypeOK, TTypeOK, XTypeOK, Procs,
      OwnInv, RegionInv, CountInv, BeginInv, Begun, Holds, ServerWaiting, Apart,
      ClientFilling, ClientGreeted, Uniform, STC, CTS, Zero, Replied
<1>7. BufInv'
  BY Numbers
  DEF Again, segments, History, tvars, xvars, IInv, TypeOK, TTypeOK, XTypeOK, Procs,
      BufInv, Accepted, CopiesOwn, CopiesDue, RegionInv, OwnInv, CountInv, BeginInv,
      Begun, Holds, ServerWorking, ServerWaiting, Apart, ClientFilling, ClientGreeted,
      Uniform, STC, CTS, Zero, Replied
<1> QED BY <1>1, <1>2, <1>3, <1>4, <1>5, <1>6, <1>7 DEF IInv

LEMMA SwallowsInv ==
  ASSUME IInv, Swallows
  PROVE  TokenInv' => IInv'
<1>1. TypeOK'
  BY Numbers, BoundsAssumption
  DEF Swallows, tvars, xvars, segments, History, IInv, TypeOK, TTypeOK, XTypeOK, Procs
<1>2. SegmentInv'
  BY Numbers
  DEF Swallows, segments, History, tvars, xvars, IInv, TypeOK, TTypeOK, XTypeOK,
      Procs, SegmentInv
<1>3. BeginInv'
  BY Numbers
  DEF Swallows, segments, History, tvars, xvars, IInv, TypeOK, TTypeOK, XTypeOK,
      Procs, BeginInv, Begun, ClientGreeted, Holds, Replied
<1>4. CountInv'
  BY Numbers
  DEF Swallows, segments, History, tvars, xvars, IInv, TypeOK, TTypeOK, XTypeOK,
      Procs, CountInv, BeginInv, Begun, ServerWorking, ServerWaiting, Holds, Replied,
      ClientGreeted
<1>5. RegionInv'
  BY Numbers
  DEF Swallows, segments, History, tvars, xvars, IInv, TypeOK, TTypeOK, XTypeOK,
      Procs, RegionInv, CountInv, BeginInv, Begun, Holds, ServerWorking,
      ServerWaiting, Apart, ClientFilling, ClientGreeted, Uniform, STC, CTS, Zero,
      Replied
<1>6. OwnInv'
  BY Numbers
  DEF Swallows, segments, History, tvars, xvars, IInv, TypeOK, TTypeOK, XTypeOK,
      Procs, OwnInv, RegionInv, CountInv, BeginInv, Begun, Holds, ServerWaiting,
      Apart, ClientFilling, ClientGreeted, Uniform, STC, CTS, Zero, Replied
<1>7. BufInv'
  BY Numbers
  DEF Swallows, segments, History, tvars, xvars, IInv, TypeOK, TTypeOK, XTypeOK,
      Procs, BufInv, Accepted, CopiesOwn, CopiesDue, RegionInv, OwnInv, CountInv,
      BeginInv, Begun, Holds, ServerWorking, ServerWaiting, Apart, ClientFilling,
      ClientGreeted, Uniform, STC, CTS, Zero, Replied
<1> QED BY <1>1, <1>2, <1>3, <1>4, <1>5, <1>6, <1>7 DEF IInv

LEMMA ServerNotifiesInv ==
  ASSUME IInv, Notifies("server")
  PROVE  TokenInv' => IInv'
<1>1. TypeOK'
  BY CountsAssumption
  DEF Notifies, ServerPasses, Ready, Sends, Hears, Options, Counters, Peer, segments,
      Socket, IInv, TypeOK, TTypeOK, XTypeOK, Procs, ServerLabels, ClientLabels
<1>2. SegmentInv'
  BY Numbers
  DEF Notifies, ServerPasses, Ready, Sends, Hears, Options, Counters, Peer, segments,
      Socket, IInv, TypeOK, TTypeOK, XTypeOK, Procs, SegmentInv
<1>3. BeginInv'
  BY Numbers
  DEF Notifies, ServerPasses, Ready, Sends, Hears, Options, Counters, Peer, segments,
      Socket, IInv, TypeOK, TTypeOK, XTypeOK, Procs, BeginInv, Begun, ClientGreeted,
      Holds, Replied
<1>4. CountInv'
  BY Numbers
  DEF Notifies, ServerPasses, Ready, Sends, Hears, Options, Counters, Peer, segments,
      Socket, IInv, TypeOK, TTypeOK, XTypeOK, Procs, CountInv, BeginInv, Begun,
      ServerWorking, ServerWaiting, Holds, Replied, ClientGreeted
<1>5. RegionInv'
  BY Numbers
  DEF Notifies, ServerPasses, Ready, Sends, Hears, Options, Counters, Peer, segments,
      Socket, IInv, TypeOK, TTypeOK, XTypeOK, Procs, RegionInv, CountInv, BeginInv,
      Begun, Holds, ServerWorking, ServerWaiting, Apart, ClientFilling, ClientGreeted,
      Uniform, STC, CTS, Zero, Replied
<1>6. OwnInv'
  BY Numbers
  DEF Notifies, ServerPasses, Ready, Sends, Hears, Options, Counters, Peer, segments,
      Socket, IInv, TypeOK, TTypeOK, XTypeOK, Procs, OwnInv, RegionInv, CountInv,
      BeginInv, Begun, Holds, ServerWaiting, Apart, ClientFilling, ClientGreeted,
      Uniform, STC, CTS, Zero, Replied
<1>7. BufInv'
  BY Numbers
  DEF Notifies, ServerPasses, Ready, Sends, Hears, Options, Counters, Peer, segments,
      Socket, IInv, TypeOK, TTypeOK, XTypeOK, Procs, BufInv, Accepted, CopiesOwn,
      CopiesDue, RegionInv, OwnInv, CountInv, BeginInv, Begun, Holds, ServerWorking,
      ServerWaiting, Apart, ClientFilling, ClientGreeted, Uniform, STC, CTS, Zero,
      Replied
<1> QED BY <1>1, <1>2, <1>3, <1>4, <1>5, <1>6, <1>7 DEF IInv

LEMMA ClientNotifiesInv ==
  ASSUME IInv, Notifies("client")
  PROVE  TokenInv' => IInv'
<1>0. /\ pc["client"] \in {"fill", "check"} /\ todo["client"] = {} /\ left' = left - 1
      /\ pc' = [pc EXCEPT !["client"] = IF left - 1 > 0 THEN "wait" ELSE "done"]
      /\ Replied' = Replied + 1
      /\ UNCHANGED <<region, own, buf, todo, message, skew, count, isDebug, attached, duplicated, greetings>>
      /\ tokens' \in {tokens, [tokens EXCEPT !["server"] = @ + 1]}
  <2>1. /\ pc["client"] \in {"fill", "check"} /\ todo["client"] = {} /\ left' = left - 1
        /\ pc' = [pc EXCEPT !["client"] = IF left - 1 > 0 THEN "wait" ELSE "done"]
        /\ UNCHANGED <<region, own, buf, todo, message, skew, count, isDebug, attached, duplicated, greetings>>
        /\ tokens' \in {tokens, [tokens EXCEPT !["server"] = @ + 1]}
    BY
    DEF Notifies, ClientPasses, ClientLoop, Ready, Goes, Sends, Peer, Options,
        segments, Socket
  <2> QED BY <2>1, Numbers DEF Replied, IInv, TypeOK, TTypeOK, XTypeOK
<1>00. duplicated = 0 => /\ Begun /\ ServerWaiting /\ Replied = message /\ greetings = 0
                         /\ tokens["server"] = 0 /\ tokens["client"] = 0
  BY <1>0, Holding DEF Holds
<1>1. TypeOK'
  BY <1>0, Numbers
  DEF Notifies, ClientPasses, Sends, segments, Socket, IInv, TypeOK, TTypeOK, XTypeOK,
      Procs, ServerLabels, ClientLabels
<1>2. SegmentInv'
  BY Numbers, <1>0
  DEF Notifies, ClientPasses, ClientLoop, Ready, Sends, Hears, Goes, Options, Peer,
      segments, Socket, IInv, TypeOK, TTypeOK, XTypeOK, Procs, SegmentInv
<1>3. BeginInv'
  BY Numbers, <1>0
  DEF Notifies, ClientPasses, ClientLoop, Ready, Sends, Hears, Goes, Options, Peer,
      segments, Socket, IInv, TypeOK, TTypeOK, XTypeOK, Procs, BeginInv, Begun,
      ClientGreeted, Holds, Replied
<1>4. CountInv'
  BY <1>0, <1>00, Numbers
  DEF IInv, TypeOK, TTypeOK, XTypeOK, Procs, CountInv, Begun, Holds, ServerWorking,
      ServerWaiting
<1>5. RegionInv'
  BY Numbers, <1>0
  DEF Notifies, ClientPasses, ClientLoop, Ready, Sends, Hears, Goes, Options, Peer,
      segments, Socket, IInv, TypeOK, TTypeOK, XTypeOK, Procs, RegionInv, CountInv,
      BeginInv, Begun, Holds, ServerWorking, ServerWaiting, Apart, ClientFilling,
      ClientGreeted, Uniform, STC, CTS, Zero, Replied
<1>6. OwnInv'
  BY Numbers, <1>0
  DEF Notifies, ClientPasses, ClientLoop, Ready, Sends, Hears, Goes, Options, Peer,
      segments, Socket, IInv, TypeOK, TTypeOK, XTypeOK, Procs, OwnInv, RegionInv,
      CountInv, BeginInv, Begun, Holds, ServerWaiting, Apart, ClientFilling,
      ClientGreeted, Uniform, STC, CTS, Zero, Replied
<1>7. BufInv'
  BY Numbers, <1>0
  DEF Notifies, ClientPasses, ClientLoop, Ready, Sends, Hears, Goes, Options, Peer,
      segments, Socket, IInv, TypeOK, TTypeOK, XTypeOK, Procs, BufInv, Accepted,
      CopiesOwn, CopiesDue, RegionInv, OwnInv, CountInv, BeginInv, Begun, Holds,
      ServerWorking, ServerWaiting, Apart, ClientFilling, ClientGreeted, Uniform, STC,
      CTS, Zero, Replied
<1> QED BY <1>1, <1>2, <1>3, <1>4, <1>5, <1>6, <1>7 DEF IInv

LEMMA ServerWaitsInv ==
  ASSUME IInv, Waits("server")
  PROVE  TokenInv' => IInv'
<1>1. TypeOK'
  BY CountsAssumption
  DEF Waits, Copies, Takes, Goes, Starts, Options, Counters, segments, History, IInv,
      TypeOK, TTypeOK, XTypeOK, Procs, ServerLabels, ClientLabels
<1>2. SegmentInv'
  BY Numbers
  DEF Waits, Copies, Takes, Goes, Starts, Options, Counters, segments, History, IInv,
      TypeOK, TTypeOK, XTypeOK, Procs, SegmentInv
<1>3. BeginInv'
  BY Numbers
  DEF Waits, Copies, Takes, Goes, Starts, Options, Counters, segments, History, IInv,
      TypeOK, TTypeOK, XTypeOK, Procs, BeginInv, Begun, ClientGreeted, Holds, Replied
<1>4. CountInv'
  BY Numbers
  DEF Waits, Copies, Takes, Goes, Starts, Options, Counters, segments, History, IInv,
      TypeOK, TTypeOK, XTypeOK, Procs, CountInv, BeginInv, Begun, ServerWorking,
      ServerWaiting, Holds, Replied, ClientGreeted
<1>5. RegionInv'
  BY Numbers
  DEF Waits, Copies, Takes, Goes, Starts, Options, Counters, segments, History, IInv,
      TypeOK, TTypeOK, XTypeOK, Procs, RegionInv, CountInv, BeginInv, Begun, Holds,
      ServerWorking, ServerWaiting, Apart, ClientFilling, ClientGreeted, Uniform, STC,
      CTS, Zero, Replied
<1>6. OwnInv'
  BY Numbers
  DEF Waits, Copies, Takes, Goes, Starts, Options, Counters, segments, History, IInv,
      TypeOK, TTypeOK, XTypeOK, Procs, OwnInv, RegionInv, CountInv, BeginInv, Begun,
      Holds, ServerWaiting, Apart, ClientFilling, ClientGreeted, Uniform, STC, CTS,
      Zero, Replied
<1>7. BufInv'
  BY Numbers
  DEF Waits, Copies, Takes, Goes, Starts, Options, Counters, segments, History, IInv,
      TypeOK, TTypeOK, XTypeOK, Procs, BufInv, Accepted, CopiesOwn, CopiesDue,
      RegionInv, OwnInv, CountInv, BeginInv, Begun, Holds, ServerWorking,
      ServerWaiting, Apart, ClientFilling, ClientGreeted, Uniform, STC, CTS, Zero,
      Replied
<1> QED BY <1>1, <1>2, <1>3, <1>4, <1>5, <1>6, <1>7 DEF IInv

LEMMA ClientWaitsInv ==
  ASSUME IInv, Waits("client")
  PROVE  TokenInv' => IInv'
<1>1. TypeOK'
  BY CountsAssumption
  DEF Waits, Copies, Takes, Goes, Starts, Options, Counters, segments, History, IInv,
      TypeOK, TTypeOK, XTypeOK, Procs, ServerLabels, ClientLabels
<1>2. SegmentInv'
  BY Numbers
  DEF Waits, Copies, Takes, Goes, Starts, Options, Counters, segments, History, IInv,
      TypeOK, TTypeOK, XTypeOK, Procs, SegmentInv
<1>3. BeginInv'
  BY Numbers
  DEF Waits, Copies, Takes, Goes, Starts, Options, Counters, segments, History, IInv,
      TypeOK, TTypeOK, XTypeOK, Procs, BeginInv, Begun, ClientGreeted, Holds, Replied
<1>4. CountInv'
  BY Numbers
  DEF Waits, Copies, Takes, Goes, Starts, Options, Counters, segments, History, IInv,
      TypeOK, TTypeOK, XTypeOK, Procs, CountInv, BeginInv, Begun, ServerWorking,
      ServerWaiting, Holds, Replied, ClientGreeted
<1>5. RegionInv'
  BY Numbers
  DEF Waits, Copies, Takes, Goes, Starts, Options, Counters, segments, History, IInv,
      TypeOK, TTypeOK, XTypeOK, Procs, RegionInv, CountInv, BeginInv, Begun, Holds,
      ServerWorking, ServerWaiting, Apart, ClientFilling, ClientGreeted, Uniform, STC,
      CTS, Zero, Replied
<1>6. OwnInv'
  BY Numbers
  DEF Waits, Copies, Takes, Goes, Starts, Options, Counters, segments, History, IInv,
      TypeOK, TTypeOK, XTypeOK, Procs, OwnInv, RegionInv, CountInv, BeginInv, Begun,
      Holds, ServerWaiting, Apart, ClientFilling, ClientGreeted, Uniform, STC, CTS,
      Zero, Replied
<1>7. BufInv'
  BY Numbers
  DEF Waits, Copies, Takes, Goes, Starts, Options, Counters, segments, History, IInv,
      TypeOK, TTypeOK, XTypeOK, Procs, BufInv, Accepted, CopiesOwn, CopiesDue,
      RegionInv, OwnInv, CountInv, BeginInv, Begun, Holds, ServerWorking,
      ServerWaiting, Apart, ClientFilling, ClientGreeted, Uniform, STC, CTS, Zero,
      Replied
<1> QED BY <1>1, <1>2, <1>3, <1>4, <1>5, <1>6, <1>7 DEF IInv

LEMMA FaultsInv ==
  ASSUME NEW p \in Procs, IInv, Faults(p)
  PROVE  TokenInv' => IInv'
<1>1. TypeOK'
  BY CountsAssumption
  DEF Faults, Dies, Goes, Options, Counters, segments, Socket, IInv, TypeOK, TTypeOK,
      XTypeOK, Procs, ServerLabels, ClientLabels
<1>2. SegmentInv'
  BY Numbers
  DEF Faults, Dies, Goes, Options, Counters, segments, Socket, IInv, TypeOK, TTypeOK,
      XTypeOK, Procs, SegmentInv
<1>3. BeginInv'
  BY Numbers
  DEF Faults, Dies, Goes, Options, Counters, segments, Socket, IInv, TypeOK, TTypeOK,
      XTypeOK, Procs, BeginInv, Begun, ClientGreeted, Holds, Replied
<1>4. CountInv'
  BY Numbers
  DEF Faults, Dies, Goes, Options, Counters, segments, Socket, IInv, TypeOK, TTypeOK,
      XTypeOK, Procs, CountInv, BeginInv, Begun, ServerWorking, ServerWaiting, Holds,
      Replied, ClientGreeted
<1>5. RegionInv'
  BY Numbers
  DEF Faults, Dies, Goes, Options, Counters, segments, Socket, IInv, TypeOK, TTypeOK,
      XTypeOK, Procs, RegionInv, CountInv, BeginInv, Begun, Holds, ServerWorking,
      ServerWaiting, Apart, ClientFilling, ClientGreeted, Uniform, STC, CTS, Zero,
      Replied
<1>6. OwnInv'
  BY Numbers
  DEF Faults, Dies, Goes, Options, Counters, segments, Socket, IInv, TypeOK, TTypeOK,
      XTypeOK, Procs, OwnInv, RegionInv, CountInv, BeginInv, Begun, Holds,
      ServerWaiting, Apart, ClientFilling, ClientGreeted, Uniform, STC, CTS, Zero,
      Replied
<1>7. BufInv'
  BY Numbers
  DEF Faults, Dies, Goes, Options, Counters, segments, Socket, IInv, TypeOK, TTypeOK,
      XTypeOK, Procs, BufInv, Accepted, CopiesOwn, CopiesDue, RegionInv, OwnInv,
      CountInv, BeginInv, Begun, Holds, ServerWorking, ServerWaiting, Apart,
      ClientFilling, ClientGreeted, Uniform, STC, CTS, Zero, Replied
<1> QED BY <1>1, <1>2, <1>3, <1>4, <1>5, <1>6, <1>7 DEF IInv

LEMMA LoseInv ==
  ASSUME IInv, Lose
  PROVE  TokenInv' => IInv'
<1>1. TypeOK'
  <2>1. XTypeOK' /\ UNCHANGED <<todo, segments, bound, asks, isNonblock>>
    BY DEF Lose, xvars, IInv, TypeOK, TTypeOK, XTypeOK, Procs
  <2>2. tokens' \in [Procs -> Nat] /\ greetings' \in Nat
    <3>1. \A p \in Procs : Peer(p) \in Procs
      BY DEF Peer, Procs
    <3> QED BY <3>1 DEF Lose, Takes, IInv, TypeOK, TTypeOK
  <2>3. lost' \in 0 .. MaxLost /\ duplicated' \in 0 .. MaxDuplicated
    BY BoundsAssumption DEF Lose, IInv, TypeOK
  <2> QED BY <2>1, <2>2, <2>3 DEF segments, IInv, TypeOK, TTypeOK
<1>2. SegmentInv'
  BY Numbers
  DEF Lose, Takes, segments, xvars, IInv, TypeOK, TTypeOK, XTypeOK, Procs, SegmentInv
<1>3. BeginInv'
  BY Numbers
  DEF Lose, Takes, segments, xvars, IInv, TypeOK, TTypeOK, XTypeOK, Procs, BeginInv,
      Begun, ClientGreeted, Holds, Replied
<1>4. CountInv'
  BY Numbers
  DEF Lose, Takes, segments, xvars, IInv, TypeOK, TTypeOK, XTypeOK, Procs, CountInv,
      BeginInv, Begun, ServerWorking, ServerWaiting, Holds, Replied, ClientGreeted
<1>5. RegionInv'
  BY Numbers
  DEF Lose, Takes, segments, xvars, IInv, TypeOK, TTypeOK, XTypeOK, Procs, RegionInv,
      CountInv, BeginInv, Begun, Holds, ServerWorking, ServerWaiting, Apart,
      ClientFilling, ClientGreeted, Uniform, STC, CTS, Zero, Replied
<1>6. OwnInv'
  BY Numbers
  DEF Lose, Takes, segments, xvars, IInv, TypeOK, TTypeOK, XTypeOK, Procs, OwnInv,
      RegionInv, CountInv, BeginInv, Begun, Holds, ServerWaiting, Apart,
      ClientFilling, ClientGreeted, Uniform, STC, CTS, Zero, Replied
<1>7. BufInv'
  BY Numbers
  DEF Lose, Takes, segments, xvars, IInv, TypeOK, TTypeOK, XTypeOK, Procs, BufInv,
      Accepted, CopiesOwn, CopiesDue, RegionInv, OwnInv, CountInv, BeginInv, Begun,
      Holds, ServerWorking, ServerWaiting, Apart, ClientFilling, ClientGreeted,
      Uniform, STC, CTS, Zero, Replied
<1> QED BY <1>1, <1>2, <1>3, <1>4, <1>5, <1>6, <1>7 DEF IInv

LEMMA DuplicateInv ==
  ASSUME IInv, Duplicate
  PROVE  TokenInv' => IInv'
<1>1. TypeOK'
  <2>1. XTypeOK' /\ UNCHANGED <<todo, segments, bound, asks, isNonblock>>
    BY DEF Duplicate, xvars, IInv, TypeOK, TTypeOK, XTypeOK, Procs
  <2>2. tokens' \in [Procs -> Nat] /\ greetings' \in Nat
    <3>1. \A p \in Procs : Peer(p) \in Procs
      BY DEF Peer, Procs
    <3> QED BY <3>1 DEF Duplicate, Sends, IInv, TypeOK, TTypeOK
  <2>3. lost' \in 0 .. MaxLost /\ duplicated' \in 0 .. MaxDuplicated
    BY BoundsAssumption DEF Duplicate, IInv, TypeOK
  <2> QED BY <2>1, <2>2, <2>3 DEF segments, IInv, TypeOK, TTypeOK
<1>2. SegmentInv'
  BY Numbers
  DEF Duplicate, Sends, Peer, segments, xvars, IInv, TypeOK, TTypeOK, XTypeOK, Procs,
      SegmentInv
<1>3. BeginInv'
  BY Numbers
  DEF Duplicate, Sends, Peer, segments, xvars, IInv, TypeOK, TTypeOK, XTypeOK, Procs,
      BeginInv, Begun, ClientGreeted, Holds, Replied
<1>4. CountInv'
  BY Numbers
  DEF Duplicate, Sends, Peer, segments, xvars, IInv, TypeOK, TTypeOK, XTypeOK, Procs,
      CountInv, BeginInv, Begun, ServerWorking, ServerWaiting, Holds, Replied,
      ClientGreeted
<1>5. RegionInv'
  BY Numbers
  DEF Duplicate, Sends, Peer, segments, xvars, IInv, TypeOK, TTypeOK, XTypeOK, Procs,
      RegionInv, CountInv, BeginInv, Begun, Holds, ServerWorking, ServerWaiting,
      Apart, ClientFilling, ClientGreeted, Uniform, STC, CTS, Zero, Replied
<1>6. OwnInv'
  BY Numbers
  DEF Duplicate, Sends, Peer, segments, xvars, IInv, TypeOK, TTypeOK, XTypeOK, Procs,
      OwnInv, RegionInv, CountInv, BeginInv, Begun, Holds, ServerWaiting, Apart,
      ClientFilling, ClientGreeted, Uniform, STC, CTS, Zero, Replied
<1>7. BufInv'
  BY Numbers
  DEF Duplicate, Sends, Peer, segments, xvars, IInv, TypeOK, TTypeOK, XTypeOK, Procs,
      BufInv, Accepted, CopiesOwn, CopiesDue, RegionInv, OwnInv, CountInv, BeginInv,
      Begun, Holds, ServerWorking, ServerWaiting, Apart, ClientFilling, ClientGreeted,
      Uniform, STC, CTS, Zero, Replied
<1> QED BY <1>1, <1>2, <1>3, <1>4, <1>5, <1>6, <1>7 DEF IInv

LEMMA ServerFillCellInv ==
  ASSUME IInv, FillCell("server"),
         UNCHANGED <<segments, tokens, Socket>>
  PROVE  TokenInv' => IInv'
<1>0. /\ pc["server"] = "fill" /\ UNCHANGED <<buf, pc, message, left, skew, count, isDebug, attached, duplicated, tokens>>
      /\ \E c \in todo["server"] : /\ region' = [region EXCEPT ![c] = STC(message + 1)]
                               /\ todo' = [todo EXCEPT !["server"] = @ \ {c}]
  BY DEF FillCell, Touches, Outgoing, Counters, Options, segments, Socket
<1>1. TypeOK'
  <2>1. STC(message + 1) \in Words
    BY Numbers DEF IInv, BeginInv, Words, Bytes, STC, CTS
  <2>2. XTypeOK' /\ todo' \in [Procs -> SUBSET Cells] /\ own' \in [Cells -> Words]
    BY <1>0, <2>1 DEF FillCell, segments, IInv, TypeOK, TTypeOK, XTypeOK, Procs
  <2> QED BY <2>2 DEF segments, Socket, FillCell, IInv, TypeOK, TTypeOK
<1>2. SegmentInv'
  BY Numbers, <1>0
  DEF FillCell, Outgoing, Touches, Options, Counters, segments, Socket, IInv, TypeOK,
      TTypeOK, XTypeOK, Procs, SegmentInv
<1>3. BeginInv'
  BY Numbers, <1>0
  DEF FillCell, Outgoing, Touches, Options, Counters, segments, Socket, IInv, TypeOK,
      TTypeOK, XTypeOK, Procs, BeginInv, Begun, ClientGreeted, Holds, Replied
<1>4. CountInv'
  BY Numbers, <1>0
  DEF FillCell, Outgoing, Touches, Options, Counters, segments, Socket, IInv, TypeOK,
      TTypeOK, XTypeOK, Procs, CountInv, BeginInv, Begun, ServerWorking,
      ServerWaiting, Holds, Replied, ClientGreeted
<1>5. RegionInv'
  BY Numbers, <1>0
  DEF FillCell, Outgoing, Touches, Options, Counters, segments, Socket, IInv, TypeOK,
      TTypeOK, XTypeOK, Procs, RegionInv, CountInv, BeginInv, Begun, Holds,
      ServerWorking, ServerWaiting, Apart, ClientFilling, ClientGreeted, Uniform, STC,
      CTS, Zero, Replied
<1>6. OwnInv'
  BY Numbers, <1>0
  DEF FillCell, Outgoing, Touches, Options, Counters, segments, Socket, IInv, TypeOK,
      TTypeOK, XTypeOK, Procs, OwnInv, RegionInv, CountInv, BeginInv, Begun, Holds,
      ServerWaiting, Apart, ClientFilling, ClientGreeted, Uniform, STC, CTS, Zero,
      Replied
<1>7. BufInv'
  BY Numbers, <1>0
  DEF FillCell, Outgoing, Touches, Options, Counters, segments, Socket, IInv, TypeOK,
      TTypeOK, XTypeOK, Procs, BufInv, Accepted, CopiesOwn, CopiesDue, RegionInv,
      OwnInv, CountInv, BeginInv, Begun, Holds, ServerWorking, ServerWaiting, Apart,
      ClientFilling, ClientGreeted, Uniform, STC, CTS, Zero, Replied
<1> QED BY <1>1, <1>2, <1>3, <1>4, <1>5, <1>6, <1>7 DEF IInv

LEMMA ServerStartCheckInv ==
  ASSUME IInv, StartCheck("server"),
         UNCHANGED <<segments, tokens, Socket>>
  PROVE  TokenInv' => IInv'
<1>1. TypeOK'
  BY CountsAssumption
  DEF StartCheck, Goes, Starts, Options, Counters, segments, Socket, IInv, TypeOK,
      TTypeOK, XTypeOK, Procs, ServerLabels, ClientLabels
<1>2. SegmentInv'
  BY Numbers
  DEF StartCheck, Goes, Starts, Options, Counters, segments, Socket, IInv, TypeOK,
      TTypeOK, XTypeOK, Procs, SegmentInv
<1>3. BeginInv'
  BY Numbers
  DEF StartCheck, Goes, Starts, Options, Counters, segments, Socket, IInv, TypeOK,
      TTypeOK, XTypeOK, Procs, BeginInv, Begun, ClientGreeted, Holds, Replied
<1>4. CountInv'
  BY Numbers
  DEF StartCheck, Goes, Starts, Options, Counters, segments, Socket, IInv, TypeOK,
      TTypeOK, XTypeOK, Procs, CountInv, BeginInv, Begun, ServerWorking,
      ServerWaiting, Holds, Replied, ClientGreeted
<1>5. RegionInv'
  BY Numbers
  DEF StartCheck, Goes, Starts, Options, Counters, segments, Socket, IInv, TypeOK,
      TTypeOK, XTypeOK, Procs, RegionInv, CountInv, BeginInv, Begun, Holds,
      ServerWorking, ServerWaiting, Apart, ClientFilling, ClientGreeted, Uniform, STC,
      CTS, Zero, Replied
<1>6. OwnInv'
  BY Numbers
  DEF StartCheck, Goes, Starts, Options, Counters, segments, Socket, IInv, TypeOK,
      TTypeOK, XTypeOK, Procs, OwnInv, RegionInv, CountInv, BeginInv, Begun, Holds,
      ServerWaiting, Apart, ClientFilling, ClientGreeted, Uniform, STC, CTS, Zero,
      Replied
<1>7. BufInv'
  BY Numbers
  DEF StartCheck, Goes, Starts, Options, Counters, segments, Socket, IInv, TypeOK,
      TTypeOK, XTypeOK, Procs, BufInv, Accepted, CopiesOwn, CopiesDue, RegionInv,
      OwnInv, CountInv, BeginInv, Begun, Holds, ServerWorking, ServerWaiting, Apart,
      ClientFilling, ClientGreeted, Uniform, STC, CTS, Zero, Replied
<1> QED BY <1>1, <1>2, <1>3, <1>4, <1>5, <1>6, <1>7 DEF IInv

LEMMA ServerCheckCellInv ==
  ASSUME IInv, CheckCell("server"),
         UNCHANGED <<segments, tokens, Socket>>
  PROVE  TokenInv' => IInv'
<1>1. TypeOK'
  BY CountsAssumption
  DEF CheckCell, Outgoing, Touches, Options, Counters, segments, Socket, IInv, TypeOK,
      TTypeOK, XTypeOK, Procs, ServerLabels, ClientLabels
<1>2. SegmentInv'
  BY Numbers
  DEF CheckCell, Outgoing, Touches, Options, Counters, segments, Socket, IInv, TypeOK,
      TTypeOK, XTypeOK, Procs, SegmentInv
<1>3. BeginInv'
  BY Numbers
  DEF CheckCell, Outgoing, Touches, Options, Counters, segments, Socket, IInv, TypeOK,
      TTypeOK, XTypeOK, Procs, BeginInv, Begun, ClientGreeted, Holds, Replied
<1>4. CountInv'
  BY Numbers
  DEF CheckCell, Outgoing, Touches, Options, Counters, segments, Socket, IInv, TypeOK,
      TTypeOK, XTypeOK, Procs, CountInv, BeginInv, Begun, ServerWorking,
      ServerWaiting, Holds, Replied, ClientGreeted
<1>5. RegionInv'
  BY Numbers
  DEF CheckCell, Outgoing, Touches, Options, Counters, segments, Socket, IInv, TypeOK,
      TTypeOK, XTypeOK, Procs, RegionInv, CountInv, BeginInv, Begun, Holds,
      ServerWorking, ServerWaiting, Apart, ClientFilling, ClientGreeted, Uniform, STC,
      CTS, Zero, Replied
<1>6. OwnInv'
  BY Numbers
  DEF CheckCell, Outgoing, Touches, Options, Counters, segments, Socket, IInv, TypeOK,
      TTypeOK, XTypeOK, Procs, OwnInv, RegionInv, CountInv, BeginInv, Begun, Holds,
      ServerWaiting, Apart, ClientFilling, ClientGreeted, Uniform, STC, CTS, Zero,
      Replied
<1>7. BufInv'
  BY Numbers
  DEF CheckCell, Outgoing, Touches, Options, Counters, segments, Socket, IInv, TypeOK,
      TTypeOK, XTypeOK, Procs, BufInv, Accepted, CopiesOwn, CopiesDue, RegionInv,
      OwnInv, CountInv, BeginInv, Begun, Holds, ServerWorking, ServerWaiting, Apart,
      ClientFilling, ClientGreeted, Uniform, STC, CTS, Zero, Replied
<1> QED BY <1>1, <1>2, <1>3, <1>4, <1>5, <1>6, <1>7 DEF IInv

LEMMA ServerCopyCellInv ==
  ASSUME IInv, CopyCell("server"),
         UNCHANGED <<segments, tokens, Socket>>
  PROVE  TokenInv' => IInv'
<1>0. PICK c \in todo["server"] : /\ buf' = [buf EXCEPT !["server"] = [@ EXCEPT ![c] = region[c]]]
                             /\ todo' = [todo EXCEPT !["server"] = @ \ {c}]
  BY DEF CopyCell, Touches
<1>1. TypeOK'
  BY <1>0
  DEF CopyCell, Counters, Options, segments, Socket, IInv, TypeOK, TTypeOK, XTypeOK,
      Procs
<1>2. SegmentInv'
  BY Numbers, <1>0
  DEF CopyCell, Touches, Options, Counters, segments, Socket, IInv, TypeOK, TTypeOK,
      XTypeOK, Procs, SegmentInv
<1>3. BeginInv'
  BY Numbers, <1>0
  DEF CopyCell, Touches, Options, Counters, segments, Socket, IInv, TypeOK, TTypeOK,
      XTypeOK, Procs, BeginInv, Begun, ClientGreeted, Holds, Replied
<1>4. CountInv'
  BY Numbers, <1>0
  DEF CopyCell, Touches, Options, Counters, segments, Socket, IInv, TypeOK, TTypeOK,
      XTypeOK, Procs, CountInv, BeginInv, Begun, ServerWorking, ServerWaiting, Holds,
      Replied, ClientGreeted
<1>5. RegionInv'
  BY Numbers, <1>0
  DEF CopyCell, Touches, Options, Counters, segments, Socket, IInv, TypeOK, TTypeOK,
      XTypeOK, Procs, RegionInv, CountInv, BeginInv, Begun, Holds, ServerWorking,
      ServerWaiting, Apart, ClientFilling, ClientGreeted, Uniform, STC, CTS, Zero,
      Replied
<1>6. OwnInv'
  BY Numbers, <1>0
  DEF CopyCell, Touches, Options, Counters, segments, Socket, IInv, TypeOK, TTypeOK,
      XTypeOK, Procs, OwnInv, RegionInv, CountInv, BeginInv, Begun, Holds,
      ServerWaiting, Apart, ClientFilling, ClientGreeted, Uniform, STC, CTS, Zero,
      Replied
<1>7. BufInv'
  BY Numbers, <1>0
  DEF CopyCell, Touches, Options, Counters, segments, Socket, IInv, TypeOK, TTypeOK,
      XTypeOK, Procs, BufInv, Accepted, CopiesOwn, CopiesDue, RegionInv, OwnInv,
      CountInv, BeginInv, Begun, Holds, ServerWorking, ServerWaiting, Apart,
      ClientFilling, ClientGreeted, Uniform, STC, CTS, Zero, Replied
<1> QED BY <1>1, <1>2, <1>3, <1>4, <1>5, <1>6, <1>7 DEF IInv

LEMMA ServerEndsCopyInv ==
  ASSUME IInv, ServerEndsCopy, UNCHANGED <<segments, tokens, Socket>>
  PROVE  TokenInv' => IInv'
<1>1. TypeOK'
  BY CountsAssumption
  DEF ServerEndsCopy, ServerLoop, Rejects, Incoming, Goes, Starts, Options, segments,
      Socket, IInv, TypeOK, TTypeOK, XTypeOK, Procs, ServerLabels, ClientLabels
<1>2. SegmentInv'
  BY Numbers
  DEF ServerEndsCopy, ServerLoop, Rejects, Incoming, Goes, Starts, Options, segments,
      Socket, IInv, TypeOK, TTypeOK, XTypeOK, Procs, SegmentInv
<1>3. BeginInv'
  BY Numbers
  DEF ServerEndsCopy, ServerLoop, Rejects, Incoming, Goes, Starts, Options, segments,
      Socket, IInv, TypeOK, TTypeOK, XTypeOK, Procs, BeginInv, Begun, ClientGreeted,
      Holds, Replied
<1>4. CountInv'
  <2> SUFFICES ASSUME duplicated = 0 PROVE CountInv'
    BY DEF CountInv, Socket
  <2>1. pc["server"] = "copy" /\ tokens["server"] = 0 /\ tokens["client"] = 0 /\ ~Holds("client")
    BY Holding DEF ServerEndsCopy, Goes, Holds, ServerLoop
  <2>2. CASE Rejects("server")
    BY <2>1, <2>2, Numbers
    DEF ServerEndsCopy, Goes, Options, Socket, IInv, TypeOK, TTypeOK, XTypeOK, Procs,
        CountInv, Begun, Holds, ServerWorking, ServerWaiting, Replied
  <2>3. CASE ~Rejects("server")
    BY <2>1, <2>3, Numbers
    DEF ServerEndsCopy, ServerLoop, Goes, Options, Socket, IInv, TypeOK, TTypeOK,
        XTypeOK, Procs, CountInv, Begun, Holds, ServerWorking, ServerWaiting, Replied
  <2> QED BY <2>2, <2>3
<1>5. RegionInv'
  BY Numbers
  DEF ServerEndsCopy, ServerLoop, Rejects, Incoming, Goes, Starts, Options, segments,
      Socket, IInv, TypeOK, TTypeOK, XTypeOK, Procs, RegionInv, CountInv, BeginInv,
      Begun, Holds, ServerWorking, ServerWaiting, Apart, ClientFilling, ClientGreeted,
      Uniform, STC, CTS, Zero, Replied
<1>6. OwnInv'
  BY Numbers
  DEF ServerEndsCopy, ServerLoop, Rejects, Incoming, Goes, Starts, Options, segments,
      Socket, IInv, TypeOK, TTypeOK, XTypeOK, Procs, OwnInv, RegionInv, CountInv,
      BeginInv, Begun, Holds, ServerWaiting, Apart, ClientFilling, ClientGreeted,
      Uniform, STC, CTS, Zero, Replied
<1>7. BufInv'
  BY Numbers
  DEF ServerEndsCopy, ServerLoop, Rejects, Incoming, Goes, Starts, Options, segments,
      Socket, IInv, TypeOK, TTypeOK, XTypeOK, Procs, BufInv, Accepted, CopiesOwn,
      CopiesDue, RegionInv, OwnInv, CountInv, BeginInv, Begun, Holds, ServerWorking,
      ServerWaiting, Apart, ClientFilling, ClientGreeted, Uniform, STC, CTS, Zero,
      Replied
<1> QED BY <1>1, <1>2, <1>3, <1>4, <1>5, <1>6, <1>7 DEF IInv

LEMMA ServerEvaluatesInv ==
  ASSUME IInv, ServerEvaluates, UNCHANGED <<segments, tokens, Socket>>
  PROVE  TokenInv' => IInv'
<1>1. TypeOK'
  BY CountsAssumption
  DEF ServerEvaluates, Goes, Options, Counters, segments, Socket, IInv, TypeOK,
      TTypeOK, XTypeOK, Procs, ServerLabels, ClientLabels
<1>2. SegmentInv'
  BY Numbers
  DEF ServerEvaluates, Goes, Options, Counters, segments, Socket, IInv, TypeOK,
      TTypeOK, XTypeOK, Procs, SegmentInv
<1>3. BeginInv'
  BY Numbers
  DEF ServerEvaluates, Goes, Options, Counters, segments, Socket, IInv, TypeOK,
      TTypeOK, XTypeOK, Procs, BeginInv, Begun, ClientGreeted, Holds, Replied
<1>4. CountInv'
  BY Numbers
  DEF ServerEvaluates, Goes, Options, Counters, segments, Socket, IInv, TypeOK,
      TTypeOK, XTypeOK, Procs, CountInv, BeginInv, Begun, ServerWorking,
      ServerWaiting, Holds, Replied, ClientGreeted
<1>5. RegionInv'
  BY Numbers
  DEF ServerEvaluates, Goes, Options, Counters, segments, Socket, IInv, TypeOK,
      TTypeOK, XTypeOK, Procs, RegionInv, CountInv, BeginInv, Begun, Holds,
      ServerWorking, ServerWaiting, Apart, ClientFilling, ClientGreeted, Uniform, STC,
      CTS, Zero, Replied
<1>6. OwnInv'
  BY Numbers
  DEF ServerEvaluates, Goes, Options, Counters, segments, Socket, IInv, TypeOK,
      TTypeOK, XTypeOK, Procs, OwnInv, RegionInv, CountInv, BeginInv, Begun, Holds,
      ServerWaiting, Apart, ClientFilling, ClientGreeted, Uniform, STC, CTS, Zero,
      Replied
<1>7. BufInv'
  BY Numbers
  DEF ServerEvaluates, Goes, Options, Counters, segments, Socket, IInv, TypeOK,
      TTypeOK, XTypeOK, Procs, BufInv, Accepted, CopiesOwn, CopiesDue, RegionInv,
      OwnInv, CountInv, BeginInv, Begun, Holds, ServerWorking, ServerWaiting, Apart,
      ClientFilling, ClientGreeted, Uniform, STC, CTS, Zero, Replied
<1> QED BY <1>1, <1>2, <1>3, <1>4, <1>5, <1>6, <1>7 DEF IInv

LEMMA ServerRemovesInv ==
  ASSUME IInv, ServerRemoves, UNCHANGED Socket
  PROVE  TokenInv' => IInv'
<1>1. TypeOK'
  BY CountsAssumption
  DEF ServerRemoves, Socket, xvars, IInv, TypeOK, TTypeOK, XTypeOK, Procs,
      ServerLabels, ClientLabels
<1>2. SegmentInv'
  BY Numbers
  DEF ServerRemoves, Socket, xvars, IInv, TypeOK, TTypeOK, XTypeOK, Procs, SegmentInv
<1>3. BeginInv'
  BY Numbers
  DEF ServerRemoves, Socket, xvars, IInv, TypeOK, TTypeOK, XTypeOK, Procs, BeginInv,
      Begun, ClientGreeted, Holds, Replied
<1>4. CountInv'
  BY Numbers
  DEF ServerRemoves, Socket, xvars, IInv, TypeOK, TTypeOK, XTypeOK, Procs, CountInv,
      BeginInv, Begun, ServerWorking, ServerWaiting, Holds, Replied, ClientGreeted
<1>5. RegionInv'
  BY Numbers
  DEF ServerRemoves, Socket, xvars, IInv, TypeOK, TTypeOK, XTypeOK, Procs, RegionInv,
      CountInv, BeginInv, Begun, Holds, ServerWorking, ServerWaiting, Apart,
      ClientFilling, ClientGreeted, Uniform, STC, CTS, Zero, Replied
<1>6. OwnInv'
  BY Numbers
  DEF ServerRemoves, Socket, xvars, IInv, TypeOK, TTypeOK, XTypeOK, Procs, OwnInv,
      RegionInv, CountInv, BeginInv, Begun, Holds, ServerWaiting, Apart,
      ClientFilling, ClientGreeted, Uniform, STC, CTS, Zero, Replied
<1>7. BufInv'
  BY Numbers
  DEF ServerRemoves, Socket, xvars, IInv, TypeOK, TTypeOK, XTypeOK, Procs, BufInv,
      Accepted, CopiesOwn, CopiesDue, RegionInv, OwnInv, CountInv, BeginInv, Begun,
      Holds, ServerWorking, ServerWaiting, Apart, ClientFilling, ClientGreeted,
      Uniform, STC, CTS, Zero, Replied
<1> QED BY <1>1, <1>2, <1>3, <1>4, <1>5, <1>6, <1>7 DEF IInv

LEMMA ClientFillCellInv ==
  ASSUME IInv, ~Apart, FillCell("client"),
         UNCHANGED <<segments, tokens, Socket>>
  PROVE  TokenInv' => IInv'
<1>0. /\ pc["client"] = "fill" /\ UNCHANGED <<buf, pc, message, left, skew, count, isDebug, attached, duplicated, tokens>>
      /\ \E c \in todo["client"] : /\ region' = [region EXCEPT ![c] = CTS(Replied + 1)]
                               /\ todo' = [todo EXCEPT !["client"] = @ \ {c}]
  BY DEF FillCell, Touches, Outgoing, Counters, Options, segments, Socket
<1>1. TypeOK'
  <2>1. CTS(Replied + 1) \in Words
    BY Numbers DEF IInv, BeginInv, Words, Bytes, STC, CTS
  <2>2. XTypeOK' /\ todo' \in [Procs -> SUBSET Cells] /\ own' \in [Cells -> Words]
    BY <1>0, <2>1 DEF FillCell, segments, IInv, TypeOK, TTypeOK, XTypeOK, Procs
  <2> QED BY <2>2 DEF segments, Socket, FillCell, IInv, TypeOK, TTypeOK
<1>2. SegmentInv'
  BY Numbers, <1>0
  DEF FillCell, Outgoing, Touches, Options, Counters, segments, Socket, IInv, TypeOK,
      TTypeOK, XTypeOK, Procs, SegmentInv
<1>3. BeginInv'
  BY Numbers, <1>0
  DEF FillCell, Outgoing, Touches, Options, Counters, segments, Socket, IInv, TypeOK,
      TTypeOK, XTypeOK, Procs, BeginInv, Begun, ClientGreeted, Holds, Replied
<1>4. CountInv'
  BY Numbers, <1>0
  DEF FillCell, Outgoing, Touches, Options, Counters, segments, Socket, IInv, TypeOK,
      TTypeOK, XTypeOK, Procs, CountInv, BeginInv, Begun, ServerWorking,
      ServerWaiting, Holds, Replied, ClientGreeted
<1>5. RegionInv'
  <2> SUFFICES ASSUME duplicated = 0 PROVE RegionInv'
    BY <1>0 DEF RegionInv
  <2>1. ServerWaiting /\ tokens["server"] = 0 /\ tokens["client"] = 0 /\ pc["client"] = "fill"
    BY <1>0, Holding DEF Holds
  <2> QED BY <1>0, <2>1, Numbers
      DEF IInv, TypeOK, TTypeOK, XTypeOK, Procs, RegionInv, ServerWaiting, Apart,
          Uniform, STC, CTS, Replied
<1>6. OwnInv'
  BY Numbers, <1>0
  DEF FillCell, Outgoing, Touches, Options, Counters, segments, Socket, IInv, TypeOK,
      TTypeOK, XTypeOK, Procs, OwnInv, RegionInv, CountInv, BeginInv, Begun, Holds,
      ServerWaiting, Apart, ClientFilling, ClientGreeted, Uniform, STC, CTS, Zero,
      Replied
<1>7. BufInv'
  BY Numbers, <1>0
  DEF FillCell, Outgoing, Touches, Options, Counters, segments, Socket, IInv, TypeOK,
      TTypeOK, XTypeOK, Procs, BufInv, Accepted, CopiesOwn, CopiesDue, RegionInv,
      OwnInv, CountInv, BeginInv, Begun, Holds, ServerWorking, ServerWaiting, Apart,
      ClientFilling, ClientGreeted, Uniform, STC, CTS, Zero, Replied
<1> QED BY <1>1, <1>2, <1>3, <1>4, <1>5, <1>6, <1>7 DEF IInv

LEMMA ClientStartCheckInv ==
  ASSUME IInv, ~Apart, StartCheck("client"),
         UNCHANGED <<segments, tokens, Socket>>
  PROVE  TokenInv' => IInv'
<1>1. TypeOK'
  BY CountsAssumption
  DEF StartCheck, Goes, Starts, Options, Counters, segments, Socket, IInv, TypeOK,
      TTypeOK, XTypeOK, Procs, ServerLabels, ClientLabels
<1>2. SegmentInv'
  BY Numbers
  DEF StartCheck, Goes, Starts, Options, Counters, segments, Socket, IInv, TypeOK,
      TTypeOK, XTypeOK, Procs, SegmentInv
<1>3. BeginInv'
  BY Numbers
  DEF StartCheck, Goes, Starts, Options, Counters, segments, Socket, IInv, TypeOK,
      TTypeOK, XTypeOK, Procs, BeginInv, Begun, ClientGreeted, Holds, Replied
<1>4. CountInv'
  BY Numbers
  DEF StartCheck, Goes, Starts, Options, Counters, segments, Socket, IInv, TypeOK,
      TTypeOK, XTypeOK, Procs, CountInv, BeginInv, Begun, ServerWorking,
      ServerWaiting, Holds, Replied, ClientGreeted
<1>5. RegionInv'
  BY Numbers
  DEF StartCheck, Goes, Starts, Options, Counters, segments, Socket, IInv, TypeOK,
      TTypeOK, XTypeOK, Procs, RegionInv, CountInv, BeginInv, Begun, Holds,
      ServerWorking, ServerWaiting, Apart, ClientFilling, ClientGreeted, Uniform, STC,
      CTS, Zero, Replied
<1>6. OwnInv'
  BY Numbers
  DEF StartCheck, Goes, Starts, Options, Counters, segments, Socket, IInv, TypeOK,
      TTypeOK, XTypeOK, Procs, OwnInv, RegionInv, CountInv, BeginInv, Begun, Holds,
      ServerWaiting, Apart, ClientFilling, ClientGreeted, Uniform, STC, CTS, Zero,
      Replied
<1>7. BufInv'
  BY Numbers
  DEF StartCheck, Goes, Starts, Options, Counters, segments, Socket, IInv, TypeOK,
      TTypeOK, XTypeOK, Procs, BufInv, Accepted, CopiesOwn, CopiesDue, RegionInv,
      OwnInv, CountInv, BeginInv, Begun, Holds, ServerWorking, ServerWaiting, Apart,
      ClientFilling, ClientGreeted, Uniform, STC, CTS, Zero, Replied
<1> QED BY <1>1, <1>2, <1>3, <1>4, <1>5, <1>6, <1>7 DEF IInv

LEMMA ClientCheckCellInv ==
  ASSUME IInv, ~Apart, CheckCell("client"),
         UNCHANGED <<segments, tokens, Socket>>
  PROVE  TokenInv' => IInv'
<1>1. TypeOK'
  BY CountsAssumption
  DEF CheckCell, Outgoing, Touches, Options, Counters, segments, Socket, IInv, TypeOK,
      TTypeOK, XTypeOK, Procs, ServerLabels, ClientLabels
<1>2. SegmentInv'
  BY Numbers
  DEF CheckCell, Outgoing, Touches, Options, Counters, segments, Socket, IInv, TypeOK,
      TTypeOK, XTypeOK, Procs, SegmentInv
<1>3. BeginInv'
  BY Numbers
  DEF CheckCell, Outgoing, Touches, Options, Counters, segments, Socket, IInv, TypeOK,
      TTypeOK, XTypeOK, Procs, BeginInv, Begun, ClientGreeted, Holds, Replied
<1>4. CountInv'
  BY Numbers
  DEF CheckCell, Outgoing, Touches, Options, Counters, segments, Socket, IInv, TypeOK,
      TTypeOK, XTypeOK, Procs, CountInv, BeginInv, Begun, ServerWorking,
      ServerWaiting, Holds, Replied, ClientGreeted
<1>5. RegionInv'
  BY Numbers
  DEF CheckCell, Outgoing, Touches, Options, Counters, segments, Socket, IInv, TypeOK,
      TTypeOK, XTypeOK, Procs, RegionInv, CountInv, BeginInv, Begun, Holds,
      ServerWorking, ServerWaiting, Apart, ClientFilling, ClientGreeted, Uniform, STC,
      CTS, Zero, Replied
<1>6. OwnInv'
  BY Numbers
  DEF CheckCell, Outgoing, Touches, Options, Counters, segments, Socket, IInv, TypeOK,
      TTypeOK, XTypeOK, Procs, OwnInv, RegionInv, CountInv, BeginInv, Begun, Holds,
      ServerWaiting, Apart, ClientFilling, ClientGreeted, Uniform, STC, CTS, Zero,
      Replied
<1>7. BufInv'
  BY Numbers
  DEF CheckCell, Outgoing, Touches, Options, Counters, segments, Socket, IInv, TypeOK,
      TTypeOK, XTypeOK, Procs, BufInv, Accepted, CopiesOwn, CopiesDue, RegionInv,
      OwnInv, CountInv, BeginInv, Begun, Holds, ServerWorking, ServerWaiting, Apart,
      ClientFilling, ClientGreeted, Uniform, STC, CTS, Zero, Replied
<1> QED BY <1>1, <1>2, <1>3, <1>4, <1>5, <1>6, <1>7 DEF IInv

LEMMA ClientCopyCellInv ==
  ASSUME IInv, ~Apart, CopyCell("client"),
         UNCHANGED <<segments, tokens, Socket>>
  PROVE  TokenInv' => IInv'
<1>0. PICK c \in todo["client"] : /\ buf' = [buf EXCEPT !["client"] = [@ EXCEPT ![c] = region[c]]]
                             /\ todo' = [todo EXCEPT !["client"] = @ \ {c}]
  BY DEF CopyCell, Touches
<1>1. TypeOK'
  BY <1>0
  DEF CopyCell, Counters, Options, segments, Socket, IInv, TypeOK, TTypeOK, XTypeOK,
      Procs
<1>2. SegmentInv'
  BY Numbers, <1>0
  DEF CopyCell, Touches, Options, Counters, segments, Socket, IInv, TypeOK, TTypeOK,
      XTypeOK, Procs, SegmentInv
<1>3. BeginInv'
  BY Numbers, <1>0
  DEF CopyCell, Touches, Options, Counters, segments, Socket, IInv, TypeOK, TTypeOK,
      XTypeOK, Procs, BeginInv, Begun, ClientGreeted, Holds, Replied
<1>4. CountInv'
  BY Numbers, <1>0
  DEF CopyCell, Touches, Options, Counters, segments, Socket, IInv, TypeOK, TTypeOK,
      XTypeOK, Procs, CountInv, BeginInv, Begun, ServerWorking, ServerWaiting, Holds,
      Replied, ClientGreeted
<1>5. RegionInv'
  BY Numbers, <1>0
  DEF CopyCell, Touches, Options, Counters, segments, Socket, IInv, TypeOK, TTypeOK,
      XTypeOK, Procs, RegionInv, CountInv, BeginInv, Begun, Holds, ServerWorking,
      ServerWaiting, Apart, ClientFilling, ClientGreeted, Uniform, STC, CTS, Zero,
      Replied
<1>6. OwnInv'
  BY Numbers, <1>0
  DEF CopyCell, Touches, Options, Counters, segments, Socket, IInv, TypeOK, TTypeOK,
      XTypeOK, Procs, OwnInv, RegionInv, CountInv, BeginInv, Begun, Holds,
      ServerWaiting, Apart, ClientFilling, ClientGreeted, Uniform, STC, CTS, Zero,
      Replied
<1>7. BufInv'
  BY Numbers, <1>0
  DEF CopyCell, Touches, Options, Counters, segments, Socket, IInv, TypeOK, TTypeOK,
      XTypeOK, Procs, BufInv, Accepted, CopiesOwn, CopiesDue, RegionInv, OwnInv,
      CountInv, BeginInv, Begun, Holds, ServerWorking, ServerWaiting, Apart,
      ClientFilling, ClientGreeted, Uniform, STC, CTS, Zero, Replied
<1> QED BY <1>1, <1>2, <1>3, <1>4, <1>5, <1>6, <1>7 DEF IInv

LEMMA OwnFillCellInv ==
  ASSUME IInv, Apart, Own!FillCell("client"),
         UNCHANGED <<region, key, made, attached, earlier, isBackend, tokens, Socket>>
  PROVE  TokenInv' => IInv'
<1>0. /\ pc["client"] = "fill" /\ UNCHANGED <<buf, pc, message, left, skew, count, isDebug, attached, duplicated, tokens>>
      /\ \E c \in todo["client"] : /\ own' = [own EXCEPT ![c] = CTS(Replied + 1)]
                               /\ todo' = [todo EXCEPT !["client"] = @ \ {c}]
  BY
  DEF Own!FillCell, Own!Touches, Own!Outgoing, Own!Counters, Own!Options, segments,
      Socket, Own!CTS, Own!Replied, CTS, Replied
<1>1. TypeOK'
  <2>1. CTS(Replied + 1) \in Words
    BY Numbers DEF IInv, BeginInv, Words, Bytes, STC, CTS
  <2>2. XTypeOK' /\ todo' \in [Procs -> SUBSET Cells] /\ own' \in [Cells -> Words]
    BY <1>0, <2>1 DEF Own!FillCell, segments, IInv, TypeOK, TTypeOK, XTypeOK, Procs
  <2> QED BY <2>2 DEF segments, Socket, Own!FillCell, IInv, TypeOK, TTypeOK
<1>2. SegmentInv'
  BY Numbers, <1>0
  DEF Own!FillCell, Own!Outgoing, Own!Touches, Own!Counters, Own!Options, Own!STC,
      Own!CTS, Own!Replied, Touches, Options, Counters, Socket, IInv, TypeOK, TTypeOK,
      XTypeOK, Procs, SegmentInv
<1>3. BeginInv'
  BY Numbers, <1>0
  DEF Own!FillCell, Own!Outgoing, Own!Touches, Own!Counters, Own!Options, Own!STC,
      Own!CTS, Own!Replied, Touches, Options, Counters, Socket, IInv, TypeOK, TTypeOK,
      XTypeOK, Procs, BeginInv, Begun, ClientGreeted, Holds, Replied
<1>4. CountInv'
  BY Numbers, <1>0
  DEF Own!FillCell, Own!Outgoing, Own!Touches, Own!Counters, Own!Options, Own!STC,
      Own!CTS, Own!Replied, Touches, Options, Counters, Socket, IInv, TypeOK, TTypeOK,
      XTypeOK, Procs, CountInv, BeginInv, Begun, ServerWorking, ServerWaiting, Holds,
      Replied, ClientGreeted
<1>5. RegionInv'
  BY Numbers, <1>0
  DEF Own!FillCell, Own!Outgoing, Own!Touches, Own!Counters, Own!Options, Own!STC,
      Own!CTS, Own!Replied, Touches, Options, Counters, Socket, IInv, TypeOK, TTypeOK,
      XTypeOK, Procs, RegionInv, CountInv, BeginInv, Begun, Holds, ServerWorking,
      ServerWaiting, Apart, ClientFilling, ClientGreeted, Uniform, STC, CTS, Zero,
      Replied
<1>6. OwnInv'
  BY Numbers, <1>0
  DEF Own!FillCell, Own!Outgoing, Own!Touches, Own!Counters, Own!Options, Own!STC,
      Own!CTS, Own!Replied, Touches, Options, Counters, Socket, IInv, TypeOK, TTypeOK,
      XTypeOK, Procs, OwnInv, RegionInv, CountInv, BeginInv, Begun, Holds,
      ServerWaiting, Apart, ClientFilling, ClientGreeted, Uniform, STC, CTS, Zero,
      Replied
<1>7. BufInv'
  BY Numbers, <1>0
  DEF Own!FillCell, Own!Outgoing, Own!Touches, Own!Counters, Own!Options, Own!STC,
      Own!CTS, Own!Replied, Touches, Options, Counters, Socket, IInv, TypeOK, TTypeOK,
      XTypeOK, Procs, BufInv, Accepted, CopiesOwn, CopiesDue, RegionInv, OwnInv,
      CountInv, BeginInv, Begun, Holds, ServerWorking, ServerWaiting, Apart,
      ClientFilling, ClientGreeted, Uniform, STC, CTS, Zero, Replied
<1> QED BY <1>1, <1>2, <1>3, <1>4, <1>5, <1>6, <1>7 DEF IInv

LEMMA OwnStartCheckInv ==
  ASSUME IInv, Apart, Own!StartCheck("client"),
         UNCHANGED <<region, key, made, attached, earlier, isBackend, tokens, Socket>>
  PROVE  TokenInv' => IInv'
<1>1. TypeOK'
  BY CountsAssumption
  DEF Own!StartCheck, Own!Goes, Own!Starts, Own!Counters, Own!Options, Goes, Starts,
      Options, Counters, Socket, IInv, TypeOK, TTypeOK, XTypeOK, Procs, ServerLabels,
      ClientLabels
<1>2. SegmentInv'
  BY Numbers
  DEF Own!StartCheck, Own!Goes, Own!Starts, Own!Counters, Own!Options, Goes, Starts,
      Options, Counters, Socket, IInv, TypeOK, TTypeOK, XTypeOK, Procs, SegmentInv
<1>3. BeginInv'
  BY Numbers
  DEF Own!StartCheck, Own!Goes, Own!Starts, Own!Counters, Own!Options, Goes, Starts,
      Options, Counters, Socket, IInv, TypeOK, TTypeOK, XTypeOK, Procs, BeginInv,
      Begun, ClientGreeted, Holds, Replied
<1>4. CountInv'
  BY Numbers
  DEF Own!StartCheck, Own!Goes, Own!Starts, Own!Counters, Own!Options, Goes, Starts,
      Options, Counters, Socket, IInv, TypeOK, TTypeOK, XTypeOK, Procs, CountInv,
      BeginInv, Begun, ServerWorking, ServerWaiting, Holds, Replied, ClientGreeted
<1>5. RegionInv'
  BY Numbers
  DEF Own!StartCheck, Own!Goes, Own!Starts, Own!Counters, Own!Options, Goes, Starts,
      Options, Counters, Socket, IInv, TypeOK, TTypeOK, XTypeOK, Procs, RegionInv,
      CountInv, BeginInv, Begun, Holds, ServerWorking, ServerWaiting, Apart,
      ClientFilling, ClientGreeted, Uniform, STC, CTS, Zero, Replied
<1>6. OwnInv'
  BY Numbers
  DEF Own!StartCheck, Own!Goes, Own!Starts, Own!Counters, Own!Options, Goes, Starts,
      Options, Counters, Socket, IInv, TypeOK, TTypeOK, XTypeOK, Procs, OwnInv,
      RegionInv, CountInv, BeginInv, Begun, Holds, ServerWaiting, Apart,
      ClientFilling, ClientGreeted, Uniform, STC, CTS, Zero, Replied
<1>7. BufInv'
  BY Numbers
  DEF Own!StartCheck, Own!Goes, Own!Starts, Own!Counters, Own!Options, Goes, Starts,
      Options, Counters, Socket, IInv, TypeOK, TTypeOK, XTypeOK, Procs, BufInv,
      Accepted, CopiesOwn, CopiesDue, RegionInv, OwnInv, CountInv, BeginInv, Begun,
      Holds, ServerWorking, ServerWaiting, Apart, ClientFilling, ClientGreeted,
      Uniform, STC, CTS, Zero, Replied
<1> QED BY <1>1, <1>2, <1>3, <1>4, <1>5, <1>6, <1>7 DEF IInv

LEMMA OwnCheckCellInv ==
  ASSUME IInv, Apart, Own!CheckCell("client"),
         UNCHANGED <<region, key, made, attached, earlier, isBackend, tokens, Socket>>
  PROVE  TokenInv' => IInv'
<1>1. TypeOK'
  BY CountsAssumption
  DEF Own!CheckCell, Own!Outgoing, Own!Touches, Own!Counters, Own!Options, Own!STC,
      Own!CTS, Own!Replied, Touches, Options, Counters, Socket, IInv, TypeOK, TTypeOK,
      XTypeOK, Procs, ServerLabels, ClientLabels
<1>2. SegmentInv'
  BY Numbers
  DEF Own!CheckCell, Own!Outgoing, Own!Touches, Own!Counters, Own!Options, Own!STC,
      Own!CTS, Own!Replied, Touches, Options, Counters, Socket, IInv, TypeOK, TTypeOK,
      XTypeOK, Procs, SegmentInv
<1>3. BeginInv'
  BY Numbers
  DEF Own!CheckCell, Own!Outgoing, Own!Touches, Own!Counters, Own!Options, Own!STC,
      Own!CTS, Own!Replied, Touches, Options, Counters, Socket, IInv, TypeOK, TTypeOK,
      XTypeOK, Procs, BeginInv, Begun, ClientGreeted, Holds, Replied
<1>4. CountInv'
  BY Numbers
  DEF Own!CheckCell, Own!Outgoing, Own!Touches, Own!Counters, Own!Options, Own!STC,
      Own!CTS, Own!Replied, Touches, Options, Counters, Socket, IInv, TypeOK, TTypeOK,
      XTypeOK, Procs, CountInv, BeginInv, Begun, ServerWorking, ServerWaiting, Holds,
      Replied, ClientGreeted
<1>5. RegionInv'
  BY Numbers
  DEF Own!CheckCell, Own!Outgoing, Own!Touches, Own!Counters, Own!Options, Own!STC,
      Own!CTS, Own!Replied, Touches, Options, Counters, Socket, IInv, TypeOK, TTypeOK,
      XTypeOK, Procs, RegionInv, CountInv, BeginInv, Begun, Holds, ServerWorking,
      ServerWaiting, Apart, ClientFilling, ClientGreeted, Uniform, STC, CTS, Zero,
      Replied
<1>6. OwnInv'
  BY Numbers
  DEF Own!CheckCell, Own!Outgoing, Own!Touches, Own!Counters, Own!Options, Own!STC,
      Own!CTS, Own!Replied, Touches, Options, Counters, Socket, IInv, TypeOK, TTypeOK,
      XTypeOK, Procs, OwnInv, RegionInv, CountInv, BeginInv, Begun, Holds,
      ServerWaiting, Apart, ClientFilling, ClientGreeted, Uniform, STC, CTS, Zero,
      Replied
<1>7. BufInv'
  BY Numbers
  DEF Own!CheckCell, Own!Outgoing, Own!Touches, Own!Counters, Own!Options, Own!STC,
      Own!CTS, Own!Replied, Touches, Options, Counters, Socket, IInv, TypeOK, TTypeOK,
      XTypeOK, Procs, BufInv, Accepted, CopiesOwn, CopiesDue, RegionInv, OwnInv,
      CountInv, BeginInv, Begun, Holds, ServerWorking, ServerWaiting, Apart,
      ClientFilling, ClientGreeted, Uniform, STC, CTS, Zero, Replied
<1> QED BY <1>1, <1>2, <1>3, <1>4, <1>5, <1>6, <1>7 DEF IInv

LEMMA OwnCopyCellInv ==
  ASSUME IInv, Apart, Own!CopyCell("client"),
         UNCHANGED <<region, key, made, attached, earlier, isBackend, tokens, Socket>>
  PROVE  TokenInv' => IInv'
<1>0. PICK c \in todo["client"] : /\ buf' = [buf EXCEPT !["client"] = [@ EXCEPT ![c] = own[c]]]
                             /\ todo' = [todo EXCEPT !["client"] = @ \ {c}]
  BY DEF Own!CopyCell, Own!Touches
<1>1. TypeOK'
  BY <1>0
  DEF Own!CopyCell, Own!Counters, Own!Options, segments, Socket, IInv, TypeOK,
      TTypeOK, XTypeOK, Procs
<1>2. SegmentInv'
  BY Numbers, <1>0
  DEF Own!CopyCell, Own!Touches, Own!Counters, Own!Options, Touches, Options,
      Counters, Socket, IInv, TypeOK, TTypeOK, XTypeOK, Procs, SegmentInv
<1>3. BeginInv'
  BY Numbers, <1>0
  DEF Own!CopyCell, Own!Touches, Own!Counters, Own!Options, Touches, Options,
      Counters, Socket, IInv, TypeOK, TTypeOK, XTypeOK, Procs, BeginInv, Begun,
      ClientGreeted, Holds, Replied
<1>4. CountInv'
  BY Numbers, <1>0
  DEF Own!CopyCell, Own!Touches, Own!Counters, Own!Options, Touches, Options,
      Counters, Socket, IInv, TypeOK, TTypeOK, XTypeOK, Procs, CountInv, BeginInv,
      Begun, ServerWorking, ServerWaiting, Holds, Replied, ClientGreeted
<1>5. RegionInv'
  BY Numbers, <1>0
  DEF Own!CopyCell, Own!Touches, Own!Counters, Own!Options, Touches, Options,
      Counters, Socket, IInv, TypeOK, TTypeOK, XTypeOK, Procs, RegionInv, CountInv,
      BeginInv, Begun, Holds, ServerWorking, ServerWaiting, Apart, ClientFilling,
      ClientGreeted, Uniform, STC, CTS, Zero, Replied
<1>6. OwnInv'
  BY Numbers, <1>0
  DEF Own!CopyCell, Own!Touches, Own!Counters, Own!Options, Touches, Options,
      Counters, Socket, IInv, TypeOK, TTypeOK, XTypeOK, Procs, OwnInv, RegionInv,
      CountInv, BeginInv, Begun, Holds, ServerWaiting, Apart, ClientFilling,
      ClientGreeted, Uniform, STC, CTS, Zero, Replied
<1>7. BufInv'
  BY Numbers, <1>0
  DEF Own!CopyCell, Own!Touches, Own!Counters, Own!Options, Touches, Options,
      Counters, Socket, IInv, TypeOK, TTypeOK, XTypeOK, Procs, BufInv, Accepted,
      CopiesOwn, CopiesDue, RegionInv, OwnInv, CountInv, BeginInv, Begun, Holds,
      ServerWorking, ServerWaiting, Apart, ClientFilling, ClientGreeted, Uniform, STC,
      CTS, Zero, Replied
<1> QED BY <1>1, <1>2, <1>3, <1>4, <1>5, <1>6, <1>7 DEF IInv

LEMMA ClientEndsCopyInv ==
  ASSUME IInv, ClientEndsCopy, UNCHANGED <<segments, tokens, Socket>>
  PROVE  TokenInv' => IInv'
<1>1. TypeOK'
  BY CountsAssumption
  DEF ClientEndsCopy, Rejects, Incoming, Goes, Starts, Options, Counters, segments,
      Socket, IInv, TypeOK, TTypeOK, XTypeOK, Procs, ServerLabels, ClientLabels
<1>2. SegmentInv'
  BY Numbers
  DEF ClientEndsCopy, Rejects, Incoming, Goes, Starts, Options, Counters, segments,
      Socket, IInv, TypeOK, TTypeOK, XTypeOK, Procs, SegmentInv
<1>3. BeginInv'
  BY Numbers
  DEF ClientEndsCopy, Rejects, Incoming, Goes, Starts, Options, Counters, segments,
      Socket, IInv, TypeOK, TTypeOK, XTypeOK, Procs, BeginInv, Begun, ClientGreeted,
      Holds, Replied
<1>4. CountInv'
  BY Numbers
  DEF ClientEndsCopy, Rejects, Incoming, Goes, Starts, Options, Counters, segments,
      Socket, IInv, TypeOK, TTypeOK, XTypeOK, Procs, CountInv, BeginInv, Begun,
      ServerWorking, ServerWaiting, Holds, Replied, ClientGreeted
<1>5. RegionInv'
  BY Numbers
  DEF ClientEndsCopy, Rejects, Incoming, Goes, Starts, Options, Counters, segments,
      Socket, IInv, TypeOK, TTypeOK, XTypeOK, Procs, RegionInv, CountInv, BeginInv,
      Begun, Holds, ServerWorking, ServerWaiting, Apart, ClientFilling, ClientGreeted,
      Uniform, STC, CTS, Zero, Replied
<1>6. OwnInv'
  BY Numbers
  DEF ClientEndsCopy, Rejects, Incoming, Goes, Starts, Options, Counters, segments,
      Socket, IInv, TypeOK, TTypeOK, XTypeOK, Procs, OwnInv, RegionInv, CountInv,
      BeginInv, Begun, Holds, ServerWaiting, Apart, ClientFilling, ClientGreeted,
      Uniform, STC, CTS, Zero, Replied
<1>7. BufInv'
  BY Numbers
  DEF ClientEndsCopy, Rejects, Incoming, Goes, Starts, Options, Counters, segments,
      Socket, IInv, TypeOK, TTypeOK, XTypeOK, Procs, BufInv, Accepted, CopiesOwn,
      CopiesDue, RegionInv, OwnInv, CountInv, BeginInv, Begun, Holds, ServerWorking,
      ServerWaiting, Apart, ClientFilling, ClientGreeted, Uniform, STC, CTS, Zero,
      Replied
<1> QED BY <1>1, <1>2, <1>3, <1>4, <1>5, <1>6, <1>7 DEF IInv

LEMMA FailsInv ==
  ASSUME NEW p \in Procs, IInv, Fails(p), UNCHANGED Socket
  PROVE  TokenInv' => IInv'
<1>1. TypeOK'
  BY CountsAssumption
  DEF Fails, SetupFails, Goes, Options, Counters, segments, Socket, IInv, TypeOK,
      TTypeOK, XTypeOK, Procs, ServerLabels, ClientLabels
<1>2. SegmentInv'
  BY Numbers
  DEF Fails, SetupFails, Goes, Options, Counters, segments, Socket, IInv, TypeOK,
      TTypeOK, XTypeOK, Procs, SegmentInv
<1>3. BeginInv'
  BY Numbers
  DEF Fails, SetupFails, Goes, Options, Counters, segments, Socket, IInv, TypeOK,
      TTypeOK, XTypeOK, Procs, BeginInv, Begun, ClientGreeted, Holds, Replied
<1>4. CountInv'
  BY Numbers
  DEF Fails, SetupFails, Goes, Options, Counters, segments, Socket, IInv, TypeOK,
      TTypeOK, XTypeOK, Procs, CountInv, BeginInv, Begun, ServerWorking,
      ServerWaiting, Holds, Replied, ClientGreeted
<1>5. RegionInv'
  BY Numbers
  DEF Fails, SetupFails, Goes, Options, Counters, segments, Socket, IInv, TypeOK,
      TTypeOK, XTypeOK, Procs, RegionInv, CountInv, BeginInv, Begun, Holds,
      ServerWorking, ServerWaiting, Apart, ClientFilling, ClientGreeted, Uniform, STC,
      CTS, Zero, Replied
<1>6. OwnInv'
  BY Numbers
  DEF Fails, SetupFails, Goes, Options, Counters, segments, Socket, IInv, TypeOK,
      TTypeOK, XTypeOK, Procs, OwnInv, RegionInv, CountInv, BeginInv, Begun, Holds,
      ServerWaiting, Apart, ClientFilling, ClientGreeted, Uniform, STC, CTS, Zero,
      Replied
<1>7. BufInv'
  BY Numbers
  DEF Fails, SetupFails, Goes, Options, Counters, segments, Socket, IInv, TypeOK,
      TTypeOK, XTypeOK, Procs, BufInv, Accepted, CopiesOwn, CopiesDue, RegionInv,
      OwnInv, CountInv, BeginInv, Begun, Holds, ServerWorking, ServerWaiting, Apart,
      ClientFilling, ClientGreeted, Uniform, STC, CTS, Zero, Replied
<1> QED BY <1>1, <1>2, <1>3, <1>4, <1>5, <1>6, <1>7 DEF IInv

LEMMA EarlierRemovesInv ==
  ASSUME IInv, EarlierRemoves, UNCHANGED Socket
  PROVE  TokenInv' => IInv'
<1>1. TypeOK'
  <2>1. XTypeOK'
    BY DEF EarlierRemoves, xvars, IInv, TypeOK, TTypeOK, XTypeOK
  <2>2. made' = made /\ key' = 0 /\ 0 \in 0 .. made
    BY DEF EarlierRemoves, IInv, TypeOK, TTypeOK
  <2> QED BY <2>1, <2>2 DEF EarlierRemoves, xvars, Socket, IInv, TypeOK, TTypeOK
<1>2. SegmentInv'
  BY Numbers
  DEF EarlierRemoves, Socket, xvars, IInv, TypeOK, TTypeOK, XTypeOK, Procs, SegmentInv
<1>3. BeginInv'
  BY Numbers
  DEF EarlierRemoves, Socket, xvars, IInv, TypeOK, TTypeOK, XTypeOK, Procs, BeginInv,
      Begun, ClientGreeted, Holds, Replied
<1>4. CountInv'
  BY Numbers
  DEF EarlierRemoves, Socket, xvars, IInv, TypeOK, TTypeOK, XTypeOK, Procs, CountInv,
      BeginInv, Begun, ServerWorking, ServerWaiting, Holds, Replied, ClientGreeted
<1>5. RegionInv'
  BY Numbers
  DEF EarlierRemoves, Socket, xvars, IInv, TypeOK, TTypeOK, XTypeOK, Procs, RegionInv,
      CountInv, BeginInv, Begun, Holds, ServerWorking, ServerWaiting, Apart,
      ClientFilling, ClientGreeted, Uniform, STC, CTS, Zero, Replied
<1>6. OwnInv'
  BY Numbers
  DEF EarlierRemoves, Socket, xvars, IInv, TypeOK, TTypeOK, XTypeOK, Procs, OwnInv,
      RegionInv, CountInv, BeginInv, Begun, Holds, ServerWaiting, Apart,
      ClientFilling, ClientGreeted, Uniform, STC, CTS, Zero, Replied
<1>7. BufInv'
  BY Numbers
  DEF EarlierRemoves, Socket, xvars, IInv, TypeOK, TTypeOK, XTypeOK, Procs, BufInv,
      Accepted, CopiesOwn, CopiesDue, RegionInv, OwnInv, CountInv, BeginInv, Begun,
      Holds, ServerWorking, ServerWaiting, Apart, ClientFilling, ClientGreeted,
      Uniform, STC, CTS, Zero, Replied
<1> QED BY <1>1, <1>2, <1>3, <1>4, <1>5, <1>6, <1>7 DEF IInv
---------------------------------------------------------------------------
LEMMA ClientMemoryInv ==
  ASSUME IInv, ClientMemory, UNCHANGED <<key, made, attached, earlier, isBackend, tokens, Socket>>
  PROVE  TokenInv' => IInv'
<1>1. CASE ~Apart /\ MemoryStep("client") /\ UNCHANGED own
  <2>1. UNCHANGED <<segments, tokens, Socket>>
    BY <1>1 DEF segments
  <2> QED BY <1>1, <2>1, ClientFillCellInv, ClientStartCheckInv, ClientCheckCellInv, ClientCopyCellInv
          DEF MemoryStep
<1>2. CASE Apart /\ Own!MemoryStep("client") /\ UNCHANGED region
  <2>1. UNCHANGED <<region, key, made, attached, earlier, isBackend, tokens, Socket>>
    BY <1>2
  <2> QED BY <1>2, <2>1, OwnFillCellInv, OwnStartCheckInv, OwnCheckCellInv, OwnCopyCellInv
          DEF Own!MemoryStep
<1> QED BY <1>1, <1>2 DEF ClientMemory

LEMMA NextInv ==
  ASSUME IInv, [Next]_vars
  PROVE  IInv'
<1>0. TokenInv'
  BY NextToken DEF IInv
<1>1. CASE ServerStep
  <2>1. CASE ServerWorks /\ UNCHANGED Socket
    <3>1. UNCHANGED <<segments, tokens, Socket>>
      BY <2>1 DEF ServerWorks
    <3> QED BY <1>0, <2>1, <3>1, ServerFillCellInv, ServerStartCheckInv, ServerCheckCellInv,
               ServerCopyCellInv, ServerEndsCopyInv, ServerEvaluatesInv
            DEF ServerWorks, MemoryStep
  <2> QED
    BY <1>0, <1>1, <2>1, ServerBindsInv, ServerHearsInv, AgainInv, SwallowsInv, ServerNotifiesInv,
       ServerWaitsInv, FaultsInv, ServerRemovesInv
    DEF ServerStep, Procs
<1>2. CASE ClientStep
  <2>1. CASE ClientWorks /\ UNCHANGED Socket
    <3>1. UNCHANGED <<key, made, attached, earlier, isBackend, tokens, Socket>>
      BY <2>1 DEF ClientWorks
    <3>2. CASE ClientEndsCopy /\ UNCHANGED own
      <4>1. UNCHANGED <<segments, tokens, Socket>>
        BY <3>1, <3>2 DEF segments
      <4> QED BY <1>0, <3>2, <4>1, ClientEndsCopyInv
    <3> QED BY <1>0, <2>1, <3>1, <3>2, ClientMemoryInv DEF ClientWorks
  <2> QED
    BY <1>0, <1>2, <2>1, ClientGreetsInv, ClientNotifiesInv, ClientWaitsInv, FaultsInv
    DEF ClientStep, Procs
<1>3. CASE UNCHANGED vars
  BY <1>0, <1>3
  DEF vars, tvars, xvars, segments, IInv, TypeOK, TTypeOK, XTypeOK, SegmentInv,
      BeginInv, CountInv, RegionInv, OwnInv, BufInv, Accepted, CopiesOwn, CopiesDue,
      Holds, Begun, Apart, ServerWorking, ServerWaiting, ClientFilling, ClientGreeted,
      Replied
<1> QED BY <1>0, <1>1, <1>2, <1>3, LaunchInv, FailsInv, LoseInv, DuplicateInv, EarlierRemovesInv
        DEF Next

(* The strengthened invariant: whatever the network does, the segments and  *)
(* the beginning fit together, and without a duplicate all the rest.        *)
THEOREM Invariant == Spec => []IInv
BY InitInv, NextInv, PTL DEF Spec

(* Every variable keeps its type.                                           *)
THEOREM TypeCorrect == Spec => []TypeOK
<1>1. IInv => TypeOK
  BY DEF IInv
<1> QED BY <1>1, Invariant, PTL

(* Until a datagram is duplicated every copy is the one that is due, or of  *)
(* the process's own bytes, and what is shared is never rejected.           *)
THEOREM Agreed == Spec => []Agreement
<1>1. IInv => SharedIfNew
  <2> SUFFICES ASSUME IInv, \A p \in Procs : attached[p] > 1 PROVE ~Apart
    BY DEF SharedIfNew
  <2>1. \A p \in Procs : attached[p] \in 0 .. made /\ made \in {1, 2}
    BY DEF IInv, TypeOK, TTypeOK, SegmentInv
  <2>2. \A p \in Procs : attached[p] = 2
    BY <2>1
  <2> QED BY <2>2 DEF Apart, Procs
<1>2. IInv => Agreement
  BY <1>1 DEF IInv, BufInv, Agreement
<1> QED BY <1>2, Invariant, PTL
---------------------------------------------------------------------------
(* As long as nothing is duplicated, whatever is lost, the two alternate as *)
(* PingPong says: the client hears nobody before it has greeted, so that it *)
(* is never ahead.                                                          *)
P == INSTANCE PingPong WITH
        skew <- IF Begun THEN 0 ELSE -1,
        sent <- Sent, taken <- Taken, replied <- Replied, got <- message

LEMMA RefinesInit == Init => P!Init
BY CountsAssumption DEF Init, TInit, XInit, P!Init, Sent, Taken, Replied, Begun, Procs

(* A step that leaves the counts, the server's class of labels and the      *)
(* client's alone is none of PingPong.                                      *)
Unanswered == pc["server"] \in {"wait", "copy", "mismatch", "broken"}

LEMMA Stutters ==
  ASSUME UNCHANGED <<message, left, count>>, Begun' <=> Begun, Unanswered' <=> Unanswered,
         Holds("client")' <=> Holds("client")
  PROVE  UNCHANGED P!vars
BY DEF P!vars, Sent, Taken, Replied, Unanswered, Holds

(* The same for a step of one process.                                      *)
LEMMA MoveStutters ==
  ASSUME IInv, UNCHANGED <<message, left, count>>,
         NEW p \in Procs, NEW from, NEW to, pc[p] = from, pc' = [pc EXCEPT ![p] = to],
         \/ from \in {"off", "meet"} /\ to \in {"meet", "exited"}
         \/ from \in {"off", "hello"} /\ to \in {"hello", "wait", "done", "exited"} /\ p = "client"
         \/ from \in {"fill", "check", "evaluate"} /\ p = "server"
              /\ to \in {"check", "torn", "done", "aborted"}
         \/ from = "wait" /\ to = "broken"
         \/ from \in {"wait", "copy"} /\ to \in {"copy", "mismatch"} /\ p = "server"
         \/ from \in {"copy", "fill", "check"} /\ to \in {"fill", "check", "mismatch", "torn"}
              /\ p = "client"
  PROVE  UNCHANGED P!vars
<1>1. pc \in [Procs -> ServerLabels \cup ClientLabels]
  BY DEF IInv, TypeOK, TTypeOK, XTypeOK
<1>2. pc'[p] = to /\ \A q \in Procs \ {p} : pc'[q] = pc[q]
  BY <1>1
<1>3. CASE p = "server"
  BY <1>2, <1>3, Stutters DEF Begun, Unanswered, Holds, Procs
<1>4. CASE p = "client"
  BY <1>2, <1>4, Stutters DEF Begun, Unanswered, Holds, Procs
<1> QED BY <1>3, <1>4 DEF Procs

LEMMA MemoryStutters ==
  ASSUME IInv, NEW p \in Procs, MemoryStep(p) \/ Own!MemoryStep(p)
  PROVE  UNCHANGED P!vars
<1>1. UNCHANGED <<message, left, count>>
  BY
  DEF MemoryStep, FillCell, StartCheck, CheckCell, CopyCell, Counters, Options,
      Own!MemoryStep, Own!FillCell, Own!StartCheck, Own!CheckCell, Own!CopyCell,
      Own!Counters, Own!Options
<1>2. \/ UNCHANGED pc
      \/ pc[p] = "fill" /\ pc' = [pc EXCEPT ![p] = "check"]
      \/ pc[p] = "check" /\ pc' = [pc EXCEPT ![p] = "torn"]
  BY DEF MemoryStep, FillCell, StartCheck, CheckCell, CopyCell, Goes, Own!MemoryStep,
         Own!FillCell, Own!StartCheck, Own!CheckCell, Own!CopyCell, Own!Goes
<1>3. CASE UNCHANGED pc
  BY <1>1, <1>3, Stutters DEF Begun, Unanswered, Holds
<1>4. CASE pc[p] = "fill" /\ pc' = [pc EXCEPT ![p] = "check"]
  BY <1>1, <1>4, MoveStutters DEF Procs
<1>5. CASE pc[p] = "check" /\ pc' = [pc EXCEPT ![p] = "torn"]
  BY <1>1, <1>5, MoveStutters DEF Procs
<1> QED BY <1>2, <1>3, <1>4, <1>5

LEMMA ServerRefines ==
  ASSUME IInv, duplicated = 0, ServerStep
  PROVE  [P!Next]_P!vars
<1>0. /\ Replied \in Int /\ message \in Nat /\ "server" \in Procs
      /\ pc \in [Procs -> ServerLabels \cup ClientLabels]
  BY Numbers DEF IInv, TypeOK, TTypeOK, XTypeOK
<1>1. CASE ServerBinds \/ Again \/ Swallows \/ ServerRemoves
  BY <1>1, Stutters
  DEF ServerBinds, Again, Swallows, ServerRemoves, tvars, xvars, Begun, Unanswered, Holds
<1>2. CASE ServerHears
  <2>1. /\ UNCHANGED <<left, count>> /\ message' = 0 /\ pc["server"] = "meet"
        /\ \E to \in {"fill", "evaluate"} : pc' = [pc EXCEPT !["server"] = to]
    BY <1>2 DEF ServerHears, ServerBegins, ServerLoop, Goes, Options
  <2>2. message = 0
    BY <2>1 DEF IInv, BeginInv, Begun
  <2> QED BY <1>0, <2>1, <2>2 DEF P!Next, P!Meet, P!Met, Begun, Sent, Taken, Replied
<1>3. CASE Notifies("server")
  <2>1. /\ UNCHANGED <<message, left, count>> /\ pc["server"] \in {"fill", "check"}
        /\ pc' = [pc EXCEPT !["server"] = "wait"]
    BY <1>3 DEF Notifies, ServerPasses, Ready, Counters, Options
  <2>2. Replied = message
    BY <2>1 DEF IInv, CountInv, ServerWorking
  <2> QED BY <1>0, <2>1, <2>2 DEF P!Next, P!Send, P!Met, Begun, Sent, Taken, Replied
<1>4. CASE Waits("server")
  <2>1. /\ UNCHANGED <<message, left, count>> /\ pc["server"] = "wait"
        /\ pc' = [pc EXCEPT !["server"] = "copy"]
    BY <1>4 DEF Waits, Copies, Goes, Counters, Options
  <2> QED BY <1>0, <2>1, MoveStutters
<1>5. CASE Faults("server")
  <2>1. /\ UNCHANGED <<message, left, count>> /\ pc["server"] = "wait"
        /\ pc' = [pc EXCEPT !["server"] = "broken"]
    BY <1>5 DEF Faults, Dies, Goes, Counters, Options
  <2> QED BY <1>0, <2>1, MoveStutters
<1>6. CASE MemoryStep("server")
  BY <1>0, <1>6, MemoryStutters
<1>7. CASE ServerEndsCopy
  <2>1. CASE Rejects("server")
    <3>1. /\ UNCHANGED <<message, left, count>> /\ pc["server"] = "copy"
          /\ pc' = [pc EXCEPT !["server"] = "mismatch"]
      BY <1>7, <2>1 DEF ServerEndsCopy, Goes, Options
    <3> QED BY <1>0, <3>1, MoveStutters
  <2>2. CASE ~Rejects("server")
    <3>1. /\ UNCHANGED <<left, count>> /\ pc["server"] = "copy" /\ message' = message + 1
          /\ \E to \in {"fill", "evaluate"} : pc' = [pc EXCEPT !["server"] = to]
      BY <1>7, <2>2 DEF ServerEndsCopy, ServerLoop, Goes, Options
    <3>2. Replied = message + 1
      BY <3>1 DEF IInv, CountInv
    <3> QED BY <1>0, <3>1, <3>2 DEF P!Next, P!Get, P!Met, Begun, Sent, Taken, Replied
  <2> QED BY <2>1, <2>2
<1>8. CASE ServerEvaluates
  <2>1. /\ UNCHANGED <<message, left, count>> /\ pc["server"] = "evaluate"
        /\ pc' = [pc EXCEPT !["server"] = IF count["server"] > 0 THEN "done" ELSE "aborted"]
    BY <1>8 DEF ServerEvaluates, Goes, Counters, Options
  <2> QED BY <1>0, <2>1, MoveStutters
<1> QED BY ServerStep, <1>1, <1>2, <1>3, <1>4, <1>5, <1>6, <1>7, <1>8
    DEF ServerStep, ServerWorks

LEMMA ClientRefines ==
  ASSUME IInv, duplicated = 0, ClientStep
  PROVE  [P!Next]_P!vars
<1>0. /\ left \in Int /\ count["client"] \in Int /\ Replied \in Int /\ message \in Nat
      /\ "client" \in Procs /\ pc \in [Procs -> ServerLabels \cup ClientLabels]
  BY Numbers DEF IInv, TypeOK, TTypeOK, XTypeOK
<1>1. CASE ClientGreets
  <2>1. /\ UNCHANGED <<message, count>> /\ left' = count["client"] /\ pc["client"] = "hello"
        /\ pc' = [pc EXCEPT !["client"] = IF count["client"] > 0 THEN "wait" ELSE "done"]
    BY <1>1 DEF ClientGreets, ClientBegins, ClientLoop, Goes, Options
  <2>2. left = count["client"]
    BY <1>0, <2>1 DEF IInv, BeginInv, ClientGreeted, Replied
  <2> QED BY <1>0, <2>1, <2>2, MoveStutters
<1>2. CASE Notifies("client")
  <2>1. /\ UNCHANGED <<message, count>> /\ left' = left - 1 /\ pc["client"] \in {"fill", "check"}
        /\ \E to \in {"wait", "done"} : pc' = [pc EXCEPT !["client"] = to]
    BY <1>2 DEF Notifies, ClientPasses, ClientLoop, Ready, Goes, Options
  <2>2. Begun
    BY <2>1, Holding DEF Holds
  <2> QED BY <1>0, <2>1, <2>2 DEF P!Next, P!Reply, P!Met, Begun, Sent, Taken, Replied
<1>3. CASE Waits("client")
  <2>1. /\ UNCHANGED <<message, left, count>> /\ pc["client"] = "wait" /\ tokens["client"] > 0
        /\ pc' = [pc EXCEPT !["client"] = "copy"]
    BY <1>3 DEF Waits, Copies, Takes, Goes, Counters, Options
  <2>2. Begun /\ ServerWaiting /\ Replied = message
    BY <2>1, Holding
  <2> QED BY <1>0, <2>1, <2>2
          DEF P!Next, P!Take, P!Met, Begun, Sent, Taken, Replied, ServerWaiting
<1>4. CASE Faults("client")
  <2>1. /\ UNCHANGED <<message, left, count>> /\ pc["client"] = "wait"
        /\ pc' = [pc EXCEPT !["client"] = "broken"]
    BY <1>4 DEF Faults, Dies, Goes, Counters, Options
  <2> QED BY <1>0, <2>1, MoveStutters
<1>5. CASE ClientMemory
  BY <1>0, <1>5, MemoryStutters DEF ClientMemory
<1>6. CASE ClientEndsCopy
  <2>1. /\ UNCHANGED <<message, left, count>> /\ pc["client"] = "copy"
        /\ pc' = [pc EXCEPT !["client"] = IF Rejects("client") THEN "mismatch" ELSE "fill"]
    BY <1>6 DEF ClientEndsCopy, Goes, Counters, Options
  <2> QED BY <1>0, <2>1, MoveStutters
<1> QED BY ClientStep, <1>1, <1>2, <1>3, <1>4, <1>5, <1>6
    DEF ClientStep, ClientWorks

LEMMA RefinesNext ==
  ASSUME IInv, duplicated = 0, duplicated' = 0, [Next]_vars
  PROVE  [P!Next]_P!vars
<1>1. ASSUME NEW p \in Procs, Launch(p) \/ Fails(p) PROVE UNCHANGED P!vars
  <2>1. UNCHANGED <<message, left, count>>
    BY <1>1 DEF Launch, Attach, Fails, Counters, Options
  <2>2. CASE Launch(p)
    BY <1>1, <2>1, <2>2, MoveStutters DEF Launch, Attach, Goes, Procs
  <2>3. CASE Fails(p)
    BY <1>1, <2>1, <2>3, MoveStutters DEF Fails, SetupFails, Goes, Procs
  <2> QED BY <1>1, <2>2, <2>3
<1>2. CASE Lose \/ EarlierRemoves \/ UNCHANGED vars
  BY <1>2, Stutters DEF Lose, EarlierRemoves, vars, tvars, xvars, Begun, Unanswered, Holds
<1>3. ~Duplicate
  BY Numbers DEF Duplicate, IInv
<1> QED BY <1>1, <1>2, <1>3, ServerRefines, ClientRefines DEF Next

(* The empty datagrams implement the alternation that PingPong specifies in *)
(* every behaviour in which the network duplicates none, whatever it loses. *)
THEOREM Implements == Spec => ([](duplicated = 0) => P!Spec)
<1>1. Init => P!Init
  BY RefinesInit
<1>2. IInv /\ duplicated = 0 /\ (duplicated = 0)' /\ [Next]_vars => [P!Next]_P!vars
  BY RefinesNext
<1> QED BY <1>1, <1>2, Invariant, PTL DEF Spec, P!Spec
===========================================================================
