---------------------------- MODULE TcpShmProofs --------------------------
(* What TcpShm.tla's run shows on small regions, for every region and every *)
(* -c, whatever an earlier run does to the segment.                         *)
EXTENDS TcpShm, TLAPS

ServerWorking == pc["server"] \in {"fill", "check", "evaluate", "done", "aborted"}
ServerWaiting == pc["server"] \in {"wait", "broken"}
ClientFilling == pc["client"] \in {"fill", "check"}

(* The key names a segment of this run from the moment one is made to the   *)
(* server's report, so that there is only one.                              *)
SegmentInv ==
    /\ made \in {1, 2}
    /\ earlier => made = 1 /\ (key = 1 \/ pc["server"] = "done")
    /\ made = 2 => key = 2 \/ (key = 0 /\ pc["server"] = "done")

(* Both have attached their memory when the connection is made, the server  *)
(* listens before, and begins after.                                        *)
ConnectionInv ==
    /\ pc["server"] \notin {"clear", "torn"} /\ pc["client"] # "torn"
    /\ Begun => accepted
    /\ accepted \/ ClientGreeted => connected
    /\ connected => pc["server"] # "off" /\ pc["client"] # "off"
    /\ asks > 1 => isNonblock

(* The token is the server's to begin with; -N may lose it.                 *)
TokenInv ==
    /\ ~Begun => tokens = [p \in Procs |-> 0] /\ ~Holds("client")
    /\ OneToken

(* How many rounds each side has counted.                                   *)
CountInv ==
    /\ ~Begun => message = 0
    /\ ~Begun \/ ~ClientGreeted => Replied = 0
    /\ ServerWorking => Replied = message
    /\ pc["server"] \in {"copy", "mismatch"} => Replied = message + 1
    /\ ServerWaiting => Replied = message + tokens["server"]

(* What the server's memory holds,                                          *)
RegionInv ==
    /\ pc["server"] = "fill" => \A c \in Cells \ todo["server"] : region[c] = STC(message + 1)
    /\ pc["server"] = "check" => region = Uniform(STC(message + 1))
    /\ ServerWaiting /\ tokens["server"] = 0 /\ ~ClientFilling /\ ~Apart
         => region = Uniform(STC(message + 1))
    /\ (ServerWaiting \/ pc["server"] = "copy") /\ Apart => region = Uniform(STC(message + 1))
    /\ ((ServerWaiting /\ tokens["server"] > 0) \/ pc["server"] = "copy") /\ ~Apart
         => region = Uniform(CTS(Replied))
    /\ pc["client"] = "fill" /\ ~Apart
         => \A c \in Cells \ todo["client"] : region[c] = CTS(Replied + 1)
    /\ pc["client"] = "check" /\ ~Apart => region = Uniform(CTS(Replied + 1))

(* what the client's does, when it is another one,                          *)
OwnInv ==
    /\ Replied = 0 /\ ~ClientFilling => \A c \in Cells : own[c].round = 0
    /\ Replied > 0 /\ ~ClientFilling /\ Apart => own = Uniform(CTS(Replied))
    /\ pc["client"] = "fill" /\ Apart
         => \A c \in Cells \ todo["client"] : own[c] = CTS(Replied + 1)
    /\ pc["client"] = "check" /\ Apart => own = Uniform(CTS(Replied + 1))

(* and what has been copied.                                                *)
BufInv ==
    /\ pc["client"] = "copy" => \A c \in Cells \ todo["client"] :
         IF ~Apart THEN buf["client"][c] = STC(Replied + 1)
         ELSE IF Replied > 0 THEN buf["client"][c] = CTS(Replied)
         ELSE buf["client"][c].round = 0
    /\ pc["server"] = "copy" => \A c \in Cells \ todo["server"] :
         buf["server"][c] = IF Apart THEN STC(message + 1) ELSE CTS(Replied)
    /\ IF Apart THEN CopiesOwn ELSE CopiesDue

(* -D finds out about two segments.                                         *)
RejectInv ==
    /\ \A p \in Procs : pc[p] = "mismatch" => Apart
    /\ Apart /\ isDebug["server"] => message = 0
    /\ Apart /\ isDebug["client"] => Replied <= 1 /\ (ClientFilling => Replied = 0)

IInv == /\ TypeOK /\ SegmentInv /\ ConnectionInv /\ TokenInv /\ CountInv
        /\ RegionInv /\ OwnInv /\ BufInv /\ RejectInv
---------------------------------------------------------------------------
(* The numbers in the invariant.                                            *)
LEMMA Numbers ==
  ASSUME TypeOK
  PROVE  /\ left \in Int /\ count["client"] \in Int /\ message \in Nat /\ Replied \in Int
         /\ tokens["server"] \in Nat /\ tokens["client"] \in Nat
         /\ "server" \in Procs /\ "client" \in Procs
<1>1. "server" \in Procs /\ "client" \in Procs
  BY DEF Procs
<1>2. left \in Int /\ count["client"] \in Int /\ message \in Nat
  BY <1>1, CountsAssumption DEF TypeOK, TTypeOK, XTypeOK
<1>3. tokens["server"] \in Nat /\ tokens["client"] \in Nat
  BY <1>1 DEF TypeOK, TTypeOK
<1> QED BY <1>1, <1>2, <1>3 DEF Replied

(* Where the one token is.                                                  *)
LEMMA Holding ==
  ASSUME IInv
  PROVE  /\ Holds("client") \/ tokens["client"] > 0
              => Begun /\ ServerWaiting /\ tokens["server"] = 0
         /\ tokens["server"] > 0
              => Begun /\ ServerWaiting /\ tokens["server"] = 1 /\ ~Holds("client")
         /\ ServerWorking \/ pc["server"] \in {"copy", "mismatch"}
              => Begun /\ tokens["server"] = 0 /\ tokens["client"] = 0 /\ ~Holds("client")
<1>1. tokens["server"] \in Nat /\ tokens["client"] \in Nat
  BY Numbers DEF IInv
<1>2. Tokens <= 1 /\ (~Begun => tokens = [p \in Procs |-> 0] /\ ~Holds("client"))
  BY DEF IInv, TokenInv, OneToken
<1>3. pc["server"] \in ServerLabels /\ pc["server"] \notin {"clear", "torn"}
  BY DEF IInv, TypeOK, TTypeOK, XTypeOK, ConnectionInv
<1>4. Begun /\ ~Holds("server") => ServerWaiting
  BY <1>3 DEF Begun, Holds, ServerWaiting, ServerLabels
<1>5. ServerWorking \/ pc["server"] \in {"copy", "mismatch"} => Begun /\ Holds("server")
  BY DEF Begun, Holds, ServerWorking
<1> QED BY <1>1, <1>2, <1>4, <1>5 DEF Tokens, Held, Procs

LEMMA InitInv == Init => IInv
<1> SUFFICES ASSUME Init PROVE IInv
  OBVIOUS
<1> USE DEF Init, TInit, XInit, Procs
<1>1. TypeOK
  <2>1. Leftovers \subseteq Words /\ Zero \in Words
    BY DEF Leftovers, Words, Bytes, Zero, STC, CTS
  <2>2. XTypeOK
    BY <2>1, CountsAssumption DEF XTypeOK, Uniform, ServerLabels, ClientLabels
  <2>3. own \in [Cells -> Words] /\ 1 \in 1 .. 1 + MaxRetries
    BY <2>2, RetriesAssumption DEF XTypeOK
  <2>4. TTypeOK
    BY <2>2, <2>3 DEF TTypeOK
  <2> QED BY <2>3, <2>4 DEF TypeOK
<1>2. SegmentInv /\ ConnectionInv
  BY DEF SegmentInv, ConnectionInv, Begun, ClientGreeted
<1>3. TokenInv /\ CountInv
  BY <1>1, Numbers
  DEF TokenInv, CountInv, OneToken, Tokens, Held, Holds, Begun, ClientGreeted, Replied,
      ServerWorking, ServerWaiting
<1>4. RegionInv /\ OwnInv /\ BufInv /\ RejectInv
  BY <1>1, Numbers
  DEF RegionInv, OwnInv, BufInv, RejectInv, CopiesOwn, CopiesDue, ServerWaiting,
      ClientFilling, Apart, Replied, Leftovers, Zero, STC, CTS
<1> QED BY <1>1, <1>2, <1>3, <1>4 DEF IInv

LEMMA LaunchInv ==
  ASSUME NEW p \in Procs, IInv, Launch(p)
  PROVE  IInv'
<1>1. TypeOK'
  <2>1. Zero \in Words /\ Uniform(Zero) \in [Cells -> Words]
    BY DEF Zero, Words, Bytes, Uniform
  <2>2. /\ made \in Nat /\ made' \in Nat /\ made <= made' /\ Named \in 0 .. made'
    BY DEF Launch, Attach, Named, IInv, TypeOK, TTypeOK
  <2>3. /\ key' \in 0 .. made' /\ attached' \in [Procs -> 0 .. made']
    BY <2>2 DEF Launch, Attach, IInv, TypeOK, TTypeOK
  <2>4. region' \in [Cells -> Words] /\ own' \in [Cells -> Words]
    BY <2>1 DEF Launch, Attach, IInv, TypeOK, TTypeOK, XTypeOK
  <2> QED BY <2>2, <2>3, <2>4
      DEF Launch, Attach, Goes, Options, Counters, Connection, IInv, TypeOK, TTypeOK,
          XTypeOK, Procs, ServerLabels, ClientLabels
<1>2. SegmentInv'
  BY CountsAssumption, SizeAssumption
  DEF Launch, Attach, Named, IInv, TypeOK, TTypeOK, XTypeOK, SegmentInv,
      ConnectionInv, TokenInv, CountInv, RegionInv, OwnInv, BufInv, RejectInv,
      CopiesOwn, CopiesDue, OneToken, Tokens, Held, Holds, Begun, Apart,
      ServerWorking, ServerWaiting, ClientFilling, ClientGreeted, Replied, Procs,
      Goes, Starts, Touches, Options, Counters, Uniform, Words, Bytes, Zero, STC, CTS,
      ServerLabels, ClientLabels, Peer, segments, Connection, tvars, xvars
<1>3. ConnectionInv'
  BY Numbers
  DEF Launch, Attach, Named, Goes, Options, Counters, Connection, IInv, TypeOK,
      TTypeOK, XTypeOK, Procs, ConnectionInv, Begun, ClientGreeted
<1>4. TokenInv'
  BY Numbers
  DEF Launch, Attach, Named, Goes, Options, Counters, Connection, IInv, TypeOK,
      TTypeOK, XTypeOK, Procs, TokenInv, OneToken, Tokens, Held, Holds, Begun,
      CountInv, ServerWorking, ServerWaiting, ConnectionInv, ServerLabels,
      ClientLabels
<1>5. CountInv'
  BY Numbers
  DEF Launch, Attach, Named, Goes, Options, Counters, Connection, IInv, TypeOK,
      TTypeOK, XTypeOK, Procs, CountInv, TokenInv, OneToken, Tokens, Held, Holds,
      ConnectionInv, Begun, ServerWorking, ServerWaiting, Replied, ClientGreeted,
      ServerLabels, ClientLabels
<1>6. RegionInv'
  BY Numbers
  DEF Launch, Attach, Named, Goes, Options, Counters, Connection, IInv, TypeOK,
      TTypeOK, XTypeOK, Procs, RegionInv, CountInv, ConnectionInv, TokenInv, OneToken,
      Tokens, Held, Begun, Holds, ServerWorking, ServerWaiting, Apart, ClientFilling,
      ClientGreeted, Uniform, STC, CTS, Zero, Replied
<1>7. OwnInv'
  BY Numbers
  DEF Launch, Attach, Named, Goes, Options, Counters, Connection, IInv, TypeOK,
      TTypeOK, XTypeOK, Procs, OwnInv, CountInv, ConnectionInv, TokenInv, OneToken,
      Tokens, Held, Begun, Holds, ServerWaiting, Apart, ClientFilling, ClientGreeted,
      Uniform, STC, CTS, Zero, Replied
<1>8. BufInv'
  BY Numbers
  DEF Launch, Attach, Named, Goes, Options, Counters, Connection, IInv, TypeOK,
      TTypeOK, XTypeOK, Procs, BufInv, CopiesOwn, CopiesDue, RegionInv, OwnInv,
      CountInv, ConnectionInv, TokenInv, OneToken, Tokens, Held, Begun, Holds,
      ServerWorking, ServerWaiting, Apart, ClientFilling, ClientGreeted, Uniform, STC,
      CTS, Zero, Replied
<1>9. RejectInv'
  BY CountsAssumption, SizeAssumption
  DEF Launch, Attach, Named, IInv, TypeOK, TTypeOK, XTypeOK, SegmentInv,
      ConnectionInv, TokenInv, CountInv, RegionInv, OwnInv, BufInv, RejectInv,
      CopiesOwn, CopiesDue, OneToken, Tokens, Held, Holds, Begun, Apart,
      ServerWorking, ServerWaiting, ClientFilling, ClientGreeted, Replied, Procs,
      Goes, Starts, Touches, Options, Counters, Uniform, Words, Bytes, Zero, STC, CTS,
      ServerLabels, ClientLabels, Peer, segments, Connection, tvars, xvars
<1> QED BY <1>1, <1>2, <1>3, <1>4, <1>5, <1>6, <1>7, <1>8, <1>9 DEF IInv

LEMMA ServerListensInv ==
  ASSUME IInv, ServerListens
  PROVE  IInv'
<1>1. TypeOK'
  BY CountsAssumption
  DEF ServerListens, segments, tvars, xvars, IInv, TypeOK, TTypeOK, XTypeOK, Procs,
      ServerLabels, ClientLabels
<1>2. SegmentInv' /\ ConnectionInv'
  BY Numbers
  DEF ServerListens, segments, tvars, xvars, IInv, TypeOK, TTypeOK, XTypeOK, Procs,
      SegmentInv, ConnectionInv, Begun, ClientGreeted
<1>3. TokenInv' /\ CountInv'
  BY Numbers
  DEF ServerListens, segments, tvars, xvars, IInv, TypeOK, TTypeOK, XTypeOK, Procs,
      TokenInv, OneToken, Tokens, Held, Holds, Begun, CountInv, ServerWorking,
      ServerWaiting, ConnectionInv, ServerLabels, ClientLabels, Replied, ClientGreeted
<1>4. RegionInv' /\ OwnInv' /\ BufInv' /\ RejectInv'
  BY Numbers
  DEF ServerListens, segments, tvars, xvars, IInv, TypeOK, TTypeOK, XTypeOK, Procs,
      RegionInv, CountInv, ConnectionInv, TokenInv, OneToken, Tokens, Held, Begun,
      Holds, ServerWorking, ServerWaiting, Apart, ClientFilling, ClientGreeted,
      Uniform, STC, CTS, Zero, Replied, OwnInv, BufInv, CopiesOwn, CopiesDue,
      RejectInv
<1> QED BY <1>1, <1>2, <1>3, <1>4 DEF IInv

LEMMA ClientConnectsInv ==
  ASSUME IInv, ClientConnects
  PROVE  IInv'
<1>1. TypeOK'
  BY CountsAssumption
  DEF ClientConnects, segments, tvars, xvars, IInv, TypeOK, TTypeOK, XTypeOK, Procs,
      ServerLabels, ClientLabels
<1>2. SegmentInv' /\ ConnectionInv'
  BY Numbers
  DEF ClientConnects, segments, tvars, xvars, IInv, TypeOK, TTypeOK, XTypeOK, Procs,
      SegmentInv, ConnectionInv, Begun, ClientGreeted
<1>3. TokenInv' /\ CountInv'
  BY Numbers
  DEF ClientConnects, segments, tvars, xvars, IInv, TypeOK, TTypeOK, XTypeOK, Procs,
      TokenInv, OneToken, Tokens, Held, Holds, Begun, CountInv, ServerWorking,
      ServerWaiting, ConnectionInv, ServerLabels, ClientLabels, Replied, ClientGreeted
<1>4. RegionInv' /\ OwnInv' /\ BufInv' /\ RejectInv'
  BY Numbers
  DEF ClientConnects, segments, tvars, xvars, IInv, TypeOK, TTypeOK, XTypeOK, Procs,
      RegionInv, CountInv, ConnectionInv, TokenInv, OneToken, Tokens, Held, Begun,
      Holds, ServerWorking, ServerWaiting, Apart, ClientFilling, ClientGreeted,
      Uniform, STC, CTS, Zero, Replied, OwnInv, BufInv, CopiesOwn, CopiesDue,
      RejectInv
<1> QED BY <1>1, <1>2, <1>3, <1>4 DEF IInv

LEMMA ServerAcceptsInv ==
  ASSUME IInv, ServerAccepts
  PROVE  IInv'
<1>1. TypeOK'
  BY CountsAssumption
  DEF ServerAccepts, segments, tvars, xvars, IInv, TypeOK, TTypeOK, XTypeOK, Procs,
      ServerLabels, ClientLabels
<1>2. SegmentInv' /\ ConnectionInv'
  BY Numbers
  DEF ServerAccepts, segments, tvars, xvars, IInv, TypeOK, TTypeOK, XTypeOK, Procs,
      SegmentInv, ConnectionInv, Begun, ClientGreeted
<1>3. TokenInv' /\ CountInv'
  BY Numbers
  DEF ServerAccepts, segments, tvars, xvars, IInv, TypeOK, TTypeOK, XTypeOK, Procs,
      TokenInv, OneToken, Tokens, Held, Holds, Begun, CountInv, ServerWorking,
      ServerWaiting, ConnectionInv, ServerLabels, ClientLabels, Replied, ClientGreeted
<1>4. RegionInv' /\ OwnInv' /\ BufInv' /\ RejectInv'
  BY Numbers
  DEF ServerAccepts, segments, tvars, xvars, IInv, TypeOK, TTypeOK, XTypeOK, Procs,
      RegionInv, CountInv, ConnectionInv, TokenInv, OneToken, Tokens, Held, Begun,
      Holds, ServerWorking, ServerWaiting, Apart, ClientFilling, ClientGreeted,
      Uniform, STC, CTS, Zero, Replied, OwnInv, BufInv, CopiesOwn, CopiesDue,
      RejectInv
<1> QED BY <1>1, <1>2, <1>3, <1>4 DEF IInv

LEMMA ServerStartsInv ==
  ASSUME IInv, ServerStarts
  PROVE  IInv'
<1>a. PICK to \in {"fill", "evaluate"} :
        /\ pc["server"] = "meet" /\ pc' = [pc EXCEPT !["server"] = to]
        /\ to = "fill" => todo' = [todo EXCEPT !["server"] = Cells]
  BY DEF ServerStarts, ServerBegins, ServerLoop, Goes, Starts
<1>b. /\ message' = 0
      /\ UNCHANGED <<region, own, buf, left, count, isDebug, attached, tokens>>
  BY DEF ServerStarts, ServerBegins, ServerLoop, Options, segments
<1>c. message = 0 /\ Replied = 0 /\ tokens = [p \in Procs |-> 0] /\ ~Holds("client")
  BY <1>a DEF IInv, CountInv, TokenInv, Begun
<1>d. /\ pc'["server"] = to /\ pc'["client"] = pc["client"] /\ Replied' = 0
      /\ to = "fill" => todo'["server"] = Cells
      /\ todo["client"] = todo'["client"] \/ pc["client"] # "fill"
      /\ (Apart' <=> Apart) /\ tokens'["server"] = 0
  BY <1>a, <1>b, <1>c DEF IInv, TypeOK, TTypeOK, XTypeOK, Procs, Replied, Apart, Holds
<1>1. TypeOK'
  BY CountsAssumption
  DEF ServerStarts, ServerBegins, ServerLoop, Goes, Starts, Options, segments,
      Connection, IInv, TypeOK, TTypeOK, XTypeOK, Procs, ServerLabels, ClientLabels
<1>2. SegmentInv'
  BY Numbers
  DEF ServerStarts, ServerBegins, ServerLoop, Goes, Starts, Options, segments,
      Connection, IInv, TypeOK, TTypeOK, XTypeOK, Procs, SegmentInv
<1>3. ConnectionInv'
  BY Numbers
  DEF ServerStarts, ServerBegins, ServerLoop, Goes, Starts, Options, segments,
      Connection, IInv, TypeOK, TTypeOK, XTypeOK, Procs, ConnectionInv, Begun,
      ClientGreeted
<1>4. TokenInv'
  BY Numbers
  DEF ServerStarts, ServerBegins, ServerLoop, Goes, Starts, Options, segments,
      Connection, IInv, TypeOK, TTypeOK, XTypeOK, Procs, TokenInv, OneToken, Tokens,
      Held, Holds, Begun, CountInv, ServerWorking, ServerWaiting, ConnectionInv,
      ServerLabels, ClientLabels
<1>5. CountInv'
  BY <1>a, <1>b, <1>c, <1>d DEF CountInv, ServerWorking, ServerWaiting
<1>6. RegionInv'
  BY <1>a, <1>b, <1>c, <1>d DEF RegionInv, ServerWaiting, ClientFilling, Holds
<1>7. OwnInv'
  BY Numbers
  DEF ServerStarts, ServerBegins, ServerLoop, Goes, Starts, Options, segments,
      Connection, IInv, TypeOK, TTypeOK, XTypeOK, Procs, OwnInv, CountInv,
      ConnectionInv, TokenInv, OneToken, Tokens, Held, Begun, Holds, ServerWaiting,
      Apart, ClientFilling, ClientGreeted, Uniform, STC, CTS, Zero, Replied
<1>8. BufInv'
  BY CountsAssumption, SizeAssumption
  DEF ServerStarts, ServerBegins, ServerLoop, IInv, TypeOK, TTypeOK, XTypeOK,
      SegmentInv, ConnectionInv, TokenInv, CountInv, RegionInv, OwnInv, BufInv,
      RejectInv, CopiesOwn, CopiesDue, OneToken, Tokens, Held, Holds, Begun, Apart,
      ServerWorking, ServerWaiting, ClientFilling, ClientGreeted, Replied, Procs,
      Goes, Starts, Touches, Options, Counters, Uniform, Words, Bytes, Zero, STC, CTS,
      ServerLabels, ClientLabels, Peer, segments, Connection, tvars, xvars
<1>9. RejectInv'
  BY <1>a, <1>b, <1>c, <1>d DEF IInv, RejectInv, ClientFilling, Procs
<1> QED BY <1>1, <1>2, <1>3, <1>4, <1>5, <1>6, <1>7, <1>8, <1>9 DEF IInv

LEMMA ClientStartsInv ==
  ASSUME IInv, ClientStarts
  PROVE  IInv'
<1>0. PICK to \in {"wait", "done"} :
        pc["client"] = "hello" /\ pc' = [pc EXCEPT !["client"] = to] /\ left' = count["client"]
  BY DEF ClientStarts, ClientBegins, ClientLoop, Goes
<1>1. TypeOK'
  BY <1>0, Numbers
  DEF ClientStarts, ClientBegins, Options, segments, Connection, IInv, TypeOK,
      TTypeOK, XTypeOK, Procs, ClientLabels
<1>2. SegmentInv'
  BY Numbers, <1>0
  DEF ClientStarts, ClientBegins, ClientLoop, Goes, Options, segments, Connection,
      IInv, TypeOK, TTypeOK, XTypeOK, Procs, SegmentInv
<1>3. ConnectionInv'
  BY Numbers, <1>0
  DEF ClientStarts, ClientBegins, ClientLoop, Goes, Options, segments, Connection,
      IInv, TypeOK, TTypeOK, XTypeOK, Procs, ConnectionInv, Begun, ClientGreeted
<1>4. TokenInv'
  BY Numbers, <1>0
  DEF ClientStarts, ClientBegins, ClientLoop, Goes, Options, segments, Connection,
      IInv, TypeOK, TTypeOK, XTypeOK, Procs, TokenInv, OneToken, Tokens, Held, Holds,
      Begun, CountInv, ServerWorking, ServerWaiting, ConnectionInv, ServerLabels,
      ClientLabels
<1>5. CountInv'
  BY Numbers, <1>0
  DEF ClientStarts, ClientBegins, ClientLoop, Goes, Options, segments, Connection,
      IInv, TypeOK, TTypeOK, XTypeOK, Procs, CountInv, TokenInv, OneToken, Tokens,
      Held, Holds, ConnectionInv, Begun, ServerWorking, ServerWaiting, Replied,
      ClientGreeted, ServerLabels, ClientLabels
<1>6. RegionInv'
  BY Numbers, <1>0
  DEF ClientStarts, ClientBegins, ClientLoop, Goes, Options, segments, Connection,
      IInv, TypeOK, TTypeOK, XTypeOK, Procs, RegionInv, CountInv, ConnectionInv,
      TokenInv, OneToken, Tokens, Held, Begun, Holds, ServerWorking, ServerWaiting,
      Apart, ClientFilling, ClientGreeted, Uniform, STC, CTS, Zero, Replied
<1>7. OwnInv'
  BY Numbers, <1>0
  DEF ClientStarts, ClientBegins, ClientLoop, Goes, Options, segments, Connection,
      IInv, TypeOK, TTypeOK, XTypeOK, Procs, OwnInv, CountInv, ConnectionInv,
      TokenInv, OneToken, Tokens, Held, Begun, Holds, ServerWaiting, Apart,
      ClientFilling, ClientGreeted, Uniform, STC, CTS, Zero, Replied
<1>8. BufInv'
  BY Numbers, <1>0
  DEF ClientStarts, ClientBegins, ClientLoop, Goes, Options, segments, Connection,
      IInv, TypeOK, TTypeOK, XTypeOK, Procs, BufInv, CopiesOwn, CopiesDue, RegionInv,
      OwnInv, CountInv, ConnectionInv, TokenInv, OneToken, Tokens, Held, Begun, Holds,
      ServerWorking, ServerWaiting, Apart, ClientFilling, ClientGreeted, Uniform, STC,
      CTS, Zero, Replied
<1>9. RejectInv'
  BY Numbers, <1>0
  DEF ClientStarts, ClientBegins, ClientLoop, Goes, Options, segments, Connection,
      IInv, TypeOK, TTypeOK, XTypeOK, Procs, RejectInv, OwnInv, BufInv, RegionInv,
      CountInv, ConnectionInv, TokenInv, OneToken, Tokens, Held, Begun, Holds,
      ServerWorking, ServerWaiting, Apart, ClientFilling, ClientGreeted, Uniform, STC,
      CTS, Zero, Replied
<1> QED BY <1>1, <1>2, <1>3, <1>4, <1>5, <1>6, <1>7, <1>8, <1>9 DEF IInv

LEMMA ServerNotifiesInv ==
  ASSUME IInv, ServerNotifies
  PROVE  IInv'
<1>0. /\ pc["server"] \in {"fill", "check"} /\ tokens["server"] = 0 /\ tokens["client"] = 0
      /\ Replied = message /\ pc' = [pc EXCEPT !["server"] = "wait"]
      /\ tokens' = [tokens EXCEPT !["client"] = 1]
      /\ UNCHANGED <<message, left, count>>
  <2>1. /\ pc["server"] \in {"fill", "check"} /\ pc' = [pc EXCEPT !["server"] = "wait"]
        /\ tokens' = [tokens EXCEPT !["client"] = @ + 1] /\ UNCHANGED <<message, left, count>>
    BY DEF ServerNotifies, ServerPasses, Ready, Sends, Peer, Counters, Options
  <2>2. tokens["server"] = 0 /\ tokens["client"] = 0
    BY <2>1, Holding DEF ServerWorking
  <2>3. Replied = message
    BY <2>1 DEF IInv, CountInv, ServerWorking
  <2> QED BY <2>1, <2>2, <2>3, Numbers DEF IInv, TypeOK, TTypeOK
<1>1. TypeOK'
  BY CountsAssumption, <1>0
  DEF ServerNotifies, ServerPasses, Ready, Sends, Options, Counters, Peer, segments,
      Connection, IInv, TypeOK, TTypeOK, XTypeOK, Procs, ServerLabels, ClientLabels
<1>2. SegmentInv'
  BY Numbers, <1>0
  DEF ServerNotifies, ServerPasses, Ready, Sends, Options, Counters, Peer, segments,
      Connection, IInv, TypeOK, TTypeOK, XTypeOK, Procs, SegmentInv
<1>3. ConnectionInv'
  BY Numbers, <1>0
  DEF ServerNotifies, ServerPasses, Ready, Sends, Options, Counters, Peer, segments,
      Connection, IInv, TypeOK, TTypeOK, XTypeOK, Procs, ConnectionInv, Begun,
      ClientGreeted
<1>4. TokenInv'
  BY Numbers, <1>0
  DEF ServerNotifies, ServerPasses, Ready, Sends, Options, Counters, Peer, segments,
      Connection, IInv, TypeOK, TTypeOK, XTypeOK, Procs, TokenInv, OneToken, Tokens,
      Held, Holds, Begun, CountInv, ServerWorking, ServerWaiting, ConnectionInv,
      ServerLabels, ClientLabels
<1>5. CountInv'
  BY <1>0, Numbers
  DEF IInv, TypeOK, TTypeOK, XTypeOK, Procs, CountInv, Begun, ServerWorking,
      ServerWaiting, ClientGreeted, Replied
<1>6. RegionInv'
  BY Numbers, <1>0
  DEF ServerNotifies, ServerPasses, Ready, Sends, Options, Counters, Peer, segments,
      Connection, IInv, TypeOK, TTypeOK, XTypeOK, Procs, RegionInv, CountInv,
      ConnectionInv, TokenInv, OneToken, Tokens, Held, Begun, Holds, ServerWorking,
      ServerWaiting, Apart, ClientFilling, ClientGreeted, Uniform, STC, CTS, Zero,
      Replied
<1>7. OwnInv'
  BY Numbers, <1>0
  DEF ServerNotifies, ServerPasses, Ready, Sends, Options, Counters, Peer, segments,
      Connection, IInv, TypeOK, TTypeOK, XTypeOK, Procs, OwnInv, CountInv,
      ConnectionInv, TokenInv, OneToken, Tokens, Held, Begun, Holds, ServerWaiting,
      Apart, ClientFilling, ClientGreeted, Uniform, STC, CTS, Zero, Replied
<1>8. BufInv'
  BY Numbers, <1>0
  DEF ServerNotifies, ServerPasses, Ready, Sends, Options, Counters, Peer, segments,
      Connection, IInv, TypeOK, TTypeOK, XTypeOK, Procs, BufInv, CopiesOwn, CopiesDue,
      RegionInv, OwnInv, CountInv, ConnectionInv, TokenInv, OneToken, Tokens, Held,
      Begun, Holds, ServerWorking, ServerWaiting, Apart, ClientFilling, ClientGreeted,
      Uniform, STC, CTS, Zero, Replied
<1>9. RejectInv'
  BY Numbers, <1>0
  DEF ServerNotifies, ServerPasses, Ready, Sends, Options, Counters, Peer, segments,
      Connection, IInv, TypeOK, TTypeOK, XTypeOK, Procs, RejectInv, OwnInv, BufInv,
      RegionInv, CountInv, ConnectionInv, TokenInv, OneToken, Tokens, Held, Begun,
      Holds, ServerWorking, ServerWaiting, Apart, ClientFilling, ClientGreeted,
      Uniform, STC, CTS, Zero, Replied
<1> QED BY <1>1, <1>2, <1>3, <1>4, <1>5, <1>6, <1>7, <1>8, <1>9 DEF IInv

LEMMA ClientNotifiesInv ==
  ASSUME IInv, ClientNotifies
  PROVE  IInv'
<1>0. /\ pc["client"] \in {"fill", "check"} /\ todo["client"] = {} /\ Begun /\ ServerWaiting
      /\ tokens["server"] = 0 /\ tokens["client"] = 0 /\ left' = left - 1 /\ Replied' = Replied + 1
      /\ tokens' = [tokens EXCEPT !["server"] = 1] /\ Replied = message
      /\ pc'["client"] \in {"wait", "done"} /\ pc'["server"] = pc["server"]
      /\ pc' = [pc EXCEPT !["client"] = IF left - 1 > 0 THEN "wait" ELSE "done"]
      /\ UNCHANGED <<region, own, buf, todo, message, skew, count, isDebug, attached>>
  <2>1. pc["client"] \in {"fill", "check"} /\ todo["client"] = {}
    BY DEF ClientNotifies, ClientPasses, Ready
  <2>2. Begun /\ ServerWaiting /\ tokens["server"] = 0
    BY <2>1, Holding DEF Holds
  <2>3. tokens["client"] = 0 /\ Replied = message
    BY <2>1, <2>2, Numbers
    DEF IInv, TokenInv, OneToken, Tokens, Held, Holds, CountInv
  <2>4. /\ left' = left - 1 /\ tokens' = [tokens EXCEPT !["server"] = @ + 1]
        /\ pc' = [pc EXCEPT !["client"] = IF left - 1 > 0 THEN "wait" ELSE "done"]
        /\ UNCHANGED <<region, own, buf, todo, message, skew, count, isDebug, attached>>
    BY
    DEF ClientNotifies, ClientPasses, ClientLoop, Goes, Sends, Peer, Options, segments
  <2> QED BY <2>1, <2>2, <2>3, <2>4, Numbers DEF Replied, IInv, TypeOK, TTypeOK, XTypeOK
<1>1. TypeOK'
  BY <1>0, Numbers
  DEF ClientNotifies, ClientPasses, segments, Connection, IInv, TypeOK, TTypeOK,
      XTypeOK, Procs, ClientLabels
<1>2. SegmentInv'
  BY Numbers, <1>0
  DEF ClientNotifies, ClientPasses, ClientLoop, Ready, Sends, Goes, Options, Peer,
      segments, Connection, IInv, TypeOK, TTypeOK, XTypeOK, Procs, SegmentInv
<1>3. ConnectionInv'
  BY Numbers, <1>0
  DEF ClientNotifies, ClientPasses, ClientLoop, Ready, Sends, Goes, Options, Peer,
      segments, Connection, IInv, TypeOK, TTypeOK, XTypeOK, Procs, ConnectionInv,
      Begun, ClientGreeted
<1>4. TokenInv'
  BY Numbers, <1>0
  DEF ClientNotifies, ClientPasses, ClientLoop, Ready, Sends, Goes, Options, Peer,
      segments, Connection, IInv, TypeOK, TTypeOK, XTypeOK, Procs, TokenInv, OneToken,
      Tokens, Held, Holds, Begun, CountInv, ServerWorking, ServerWaiting,
      ConnectionInv, ServerLabels, ClientLabels
<1>5. CountInv'
  BY <1>0, Numbers
  DEF IInv, TypeOK, TTypeOK, XTypeOK, Procs, CountInv, Begun, ServerWorking,
      ServerWaiting, ClientGreeted
<1>6. RegionInv'
  BY <1>0, Numbers
  DEF IInv, TypeOK, TTypeOK, XTypeOK, Procs, RegionInv, Apart, ServerWaiting,
      ClientFilling, Uniform
<1>7. OwnInv'
  BY <1>0, Numbers
  DEF IInv, TypeOK, TTypeOK, XTypeOK, Procs, OwnInv, CountInv, Apart, ClientFilling,
      Uniform
<1>8. BufInv'
  BY Numbers, <1>0
  DEF ClientNotifies, ClientPasses, ClientLoop, Ready, Sends, Goes, Options, Peer,
      segments, Connection, IInv, TypeOK, TTypeOK, XTypeOK, Procs, BufInv, CopiesOwn,
      CopiesDue, RegionInv, OwnInv, CountInv, ConnectionInv, TokenInv, OneToken,
      Tokens, Held, Begun, Holds, ServerWorking, ServerWaiting, Apart, ClientFilling,
      ClientGreeted, Uniform, STC, CTS, Zero, Replied
<1>9. RejectInv'
  BY <1>0, Numbers
  DEF IInv, TypeOK, TTypeOK, XTypeOK, Procs, RejectInv, Apart, ClientFilling
<1> QED BY <1>1, <1>2, <1>3, <1>4, <1>5, <1>6, <1>7, <1>8, <1>9 DEF IInv

LEMMA ServerWaitsInv ==
  ASSUME IInv, ServerWaits
  PROVE  IInv'
<1>0. /\ pc["server"] = "wait" /\ pc' = [pc EXCEPT !["server"] = "copy"]
      /\ tokens["server"] = 1 /\ UNCHANGED <<message, left, count>>
      /\ Replied = message + 1
  <2>1. /\ pc["server"] = "wait" /\ pc' = [pc EXCEPT !["server"] = "copy"]
        /\ tokens["server"] > 0 /\ UNCHANGED <<message, left, count>>
    BY DEF ServerWaits, Copies, Goes, Takes, Counters, Options
  <2>2. tokens["server"] = 1
    BY <2>1, Holding
  <2> QED BY <2>1, <2>2 DEF IInv, CountInv, ServerWaiting
<1>1. TypeOK'
  BY CountsAssumption, <1>0
  DEF ServerWaits, Copies, Takes, Goes, Starts, Options, Counters, segments,
      Connection, IInv, TypeOK, TTypeOK, XTypeOK, Procs, ServerLabels, ClientLabels
<1>2. SegmentInv'
  BY Numbers, <1>0
  DEF ServerWaits, Copies, Takes, Goes, Starts, Options, Counters, segments,
      Connection, IInv, TypeOK, TTypeOK, XTypeOK, Procs, SegmentInv
<1>3. ConnectionInv'
  BY Numbers, <1>0
  DEF ServerWaits, Copies, Takes, Goes, Starts, Options, Counters, segments,
      Connection, IInv, TypeOK, TTypeOK, XTypeOK, Procs, ConnectionInv, Begun,
      ClientGreeted
<1>4. TokenInv'
  BY Numbers, <1>0
  DEF ServerWaits, Copies, Takes, Goes, Starts, Options, Counters, segments,
      Connection, IInv, TypeOK, TTypeOK, XTypeOK, Procs, TokenInv, OneToken, Tokens,
      Held, Holds, Begun, CountInv, ServerWorking, ServerWaiting, ConnectionInv,
      ServerLabels, ClientLabels
<1>5. CountInv'
  BY <1>0, Numbers
  DEF IInv, TypeOK, TTypeOK, XTypeOK, Procs, CountInv, Begun, ServerWorking,
      ServerWaiting, ClientGreeted, Replied
<1>6. RegionInv'
  BY Numbers, <1>0
  DEF ServerWaits, Copies, Takes, Goes, Starts, Options, Counters, segments,
      Connection, IInv, TypeOK, TTypeOK, XTypeOK, Procs, RegionInv, CountInv,
      ConnectionInv, TokenInv, OneToken, Tokens, Held, Begun, Holds, ServerWorking,
      ServerWaiting, Apart, ClientFilling, ClientGreeted, Uniform, STC, CTS, Zero,
      Replied
<1>7. OwnInv'
  BY Numbers, <1>0
  DEF ServerWaits, Copies, Takes, Goes, Starts, Options, Counters, segments,
      Connection, IInv, TypeOK, TTypeOK, XTypeOK, Procs, OwnInv, CountInv,
      ConnectionInv, TokenInv, OneToken, Tokens, Held, Begun, Holds, ServerWaiting,
      Apart, ClientFilling, ClientGreeted, Uniform, STC, CTS, Zero, Replied
<1>8. BufInv'
  BY Numbers, <1>0
  DEF ServerWaits, Copies, Takes, Goes, Starts, Options, Counters, segments,
      Connection, IInv, TypeOK, TTypeOK, XTypeOK, Procs, BufInv, CopiesOwn, CopiesDue,
      RegionInv, OwnInv, CountInv, ConnectionInv, TokenInv, OneToken, Tokens, Held,
      Begun, Holds, ServerWorking, ServerWaiting, Apart, ClientFilling, ClientGreeted,
      Uniform, STC, CTS, Zero, Replied
<1>9. RejectInv'
  BY Numbers, <1>0
  DEF ServerWaits, Copies, Takes, Goes, Starts, Options, Counters, segments,
      Connection, IInv, TypeOK, TTypeOK, XTypeOK, Procs, RejectInv, OwnInv, BufInv,
      RegionInv, CountInv, ConnectionInv, TokenInv, OneToken, Tokens, Held, Begun,
      Holds, ServerWorking, ServerWaiting, Apart, ClientFilling, ClientGreeted,
      Uniform, STC, CTS, Zero, Replied
<1> QED BY <1>1, <1>2, <1>3, <1>4, <1>5, <1>6, <1>7, <1>8, <1>9 DEF IInv

LEMMA ClientWaitsInv ==
  ASSUME IInv, ClientWaits
  PROVE  IInv'
<1>1. TypeOK'
  BY CountsAssumption
  DEF ClientWaits, Copies, Takes, Goes, Starts, Options, Counters, segments,
      Connection, IInv, TypeOK, TTypeOK, XTypeOK, Procs, ServerLabels, ClientLabels
<1>2. SegmentInv'
  BY Numbers
  DEF ClientWaits, Copies, Takes, Goes, Starts, Options, Counters, segments,
      Connection, IInv, TypeOK, TTypeOK, XTypeOK, Procs, SegmentInv
<1>3. ConnectionInv'
  BY Numbers
  DEF ClientWaits, Copies, Takes, Goes, Starts, Options, Counters, segments,
      Connection, IInv, TypeOK, TTypeOK, XTypeOK, Procs, ConnectionInv, Begun,
      ClientGreeted
<1>4. TokenInv'
  BY Numbers
  DEF ClientWaits, Copies, Takes, Goes, Starts, Options, Counters, segments,
      Connection, IInv, TypeOK, TTypeOK, XTypeOK, Procs, TokenInv, OneToken, Tokens,
      Held, Holds, Begun, CountInv, ServerWorking, ServerWaiting, ConnectionInv,
      ServerLabels, ClientLabels
<1>5. CountInv'
  BY Numbers
  DEF ClientWaits, Copies, Takes, Goes, Starts, Options, Counters, segments,
      Connection, IInv, TypeOK, TTypeOK, XTypeOK, Procs, CountInv, TokenInv, OneToken,
      Tokens, Held, Holds, ConnectionInv, Begun, ServerWorking, ServerWaiting,
      Replied, ClientGreeted, ServerLabels, ClientLabels
<1>6. RegionInv'
  BY Numbers
  DEF ClientWaits, Copies, Takes, Goes, Starts, Options, Counters, segments,
      Connection, IInv, TypeOK, TTypeOK, XTypeOK, Procs, RegionInv, CountInv,
      ConnectionInv, TokenInv, OneToken, Tokens, Held, Begun, Holds, ServerWorking,
      ServerWaiting, Apart, ClientFilling, ClientGreeted, Uniform, STC, CTS, Zero,
      Replied
<1>7. OwnInv'
  BY Numbers
  DEF ClientWaits, Copies, Takes, Goes, Starts, Options, Counters, segments,
      Connection, IInv, TypeOK, TTypeOK, XTypeOK, Procs, OwnInv, CountInv,
      ConnectionInv, TokenInv, OneToken, Tokens, Held, Begun, Holds, ServerWaiting,
      Apart, ClientFilling, ClientGreeted, Uniform, STC, CTS, Zero, Replied
<1>8. BufInv'
  BY Numbers
  DEF ClientWaits, Copies, Takes, Goes, Starts, Options, Counters, segments,
      Connection, IInv, TypeOK, TTypeOK, XTypeOK, Procs, BufInv, CopiesOwn, CopiesDue,
      RegionInv, OwnInv, CountInv, ConnectionInv, TokenInv, OneToken, Tokens, Held,
      Begun, Holds, ServerWorking, ServerWaiting, Apart, ClientFilling, ClientGreeted,
      Uniform, STC, CTS, Zero, Replied
<1>9. RejectInv'
  BY Numbers
  DEF ClientWaits, Copies, Takes, Goes, Starts, Options, Counters, segments,
      Connection, IInv, TypeOK, TTypeOK, XTypeOK, Procs, RejectInv, OwnInv, BufInv,
      RegionInv, CountInv, ConnectionInv, TokenInv, OneToken, Tokens, Held, Begun,
      Holds, ServerWorking, ServerWaiting, Apart, ClientFilling, ClientGreeted,
      Uniform, STC, CTS, Zero, Replied
<1> QED BY <1>1, <1>2, <1>3, <1>4, <1>5, <1>6, <1>7, <1>8, <1>9 DEF IInv

LEMMA AgainInv ==
  ASSUME IInv, Again
  PROVE  IInv'
<1>1. TypeOK'
  BY RetriesAssumption
  DEF Again, tvars, xvars, segments, IInv, TypeOK, TTypeOK, XTypeOK, Procs
<1>2. SegmentInv' /\ ConnectionInv'
  BY Numbers
  DEF Again, segments, tvars, xvars, IInv, TypeOK, TTypeOK, XTypeOK, Procs,
      SegmentInv, ConnectionInv, Begun, ClientGreeted
<1>3. TokenInv' /\ CountInv'
  BY Numbers
  DEF Again, segments, tvars, xvars, IInv, TypeOK, TTypeOK, XTypeOK, Procs, TokenInv,
      OneToken, Tokens, Held, Holds, Begun, CountInv, ServerWorking, ServerWaiting,
      ConnectionInv, ServerLabels, ClientLabels, Replied, ClientGreeted
<1>4. RegionInv' /\ OwnInv' /\ BufInv' /\ RejectInv'
  BY Numbers
  DEF Again, segments, tvars, xvars, IInv, TypeOK, TTypeOK, XTypeOK, Procs, RegionInv,
      CountInv, ConnectionInv, TokenInv, OneToken, Tokens, Held, Begun, Holds,
      ServerWorking, ServerWaiting, Apart, ClientFilling, ClientGreeted, Uniform, STC,
      CTS, Zero, Replied, OwnInv, BufInv, CopiesOwn, CopiesDue, RejectInv
<1> QED BY <1>1, <1>2, <1>3, <1>4 DEF IInv

LEMMA SwallowsInv ==
  ASSUME IInv, Swallows
  PROVE  IInv'
<1>1. TypeOK'
  BY RetriesAssumption
  DEF Swallows, Takes, xvars, segments, IInv, TypeOK, TTypeOK, XTypeOK, Procs
<1>2. SegmentInv'
  BY Numbers
  DEF Swallows, Takes, segments, xvars, IInv, TypeOK, TTypeOK, XTypeOK, Procs,
      SegmentInv
<1>3. ConnectionInv'
  BY Numbers
  DEF Swallows, Takes, segments, xvars, IInv, TypeOK, TTypeOK, XTypeOK, Procs,
      ConnectionInv, Begun, ClientGreeted
<1>4. TokenInv'
  BY Numbers
  DEF Swallows, Takes, segments, xvars, IInv, TypeOK, TTypeOK, XTypeOK, Procs,
      TokenInv, OneToken, Tokens, Held, Holds, Begun, CountInv, ServerWorking,
      ServerWaiting, ConnectionInv, ServerLabels, ClientLabels
<1>5. CountInv'
  BY Numbers
  DEF Swallows, Takes, segments, xvars, IInv, TypeOK, TTypeOK, XTypeOK, Procs,
      CountInv, TokenInv, OneToken, Tokens, Held, Holds, ConnectionInv, Begun,
      ServerWorking, ServerWaiting, Replied, ClientGreeted, ServerLabels, ClientLabels
<1>6. RegionInv'
  BY Numbers
  DEF Swallows, Takes, segments, xvars, IInv, TypeOK, TTypeOK, XTypeOK, Procs,
      RegionInv, CountInv, ConnectionInv, TokenInv, OneToken, Tokens, Held, Begun,
      Holds, ServerWorking, ServerWaiting, Apart, ClientFilling, ClientGreeted,
      Uniform, STC, CTS, Zero, Replied
<1>7. OwnInv'
  BY Numbers
  DEF Swallows, Takes, segments, xvars, IInv, TypeOK, TTypeOK, XTypeOK, Procs, OwnInv,
      CountInv, ConnectionInv, TokenInv, OneToken, Tokens, Held, Begun, Holds,
      ServerWaiting, Apart, ClientFilling, ClientGreeted, Uniform, STC, CTS, Zero,
      Replied
<1>8. BufInv'
  BY Numbers
  DEF Swallows, Takes, segments, xvars, IInv, TypeOK, TTypeOK, XTypeOK, Procs, BufInv,
      CopiesOwn, CopiesDue, RegionInv, OwnInv, CountInv, ConnectionInv, TokenInv,
      OneToken, Tokens, Held, Begun, Holds, ServerWorking, ServerWaiting, Apart,
      ClientFilling, ClientGreeted, Uniform, STC, CTS, Zero, Replied
<1>9. RejectInv'
  BY Numbers
  DEF Swallows, Takes, segments, xvars, IInv, TypeOK, TTypeOK, XTypeOK, Procs,
      RejectInv, OwnInv, BufInv, RegionInv, CountInv, ConnectionInv, TokenInv,
      OneToken, Tokens, Held, Begun, Holds, ServerWorking, ServerWaiting, Apart,
      ClientFilling, ClientGreeted, Uniform, STC, CTS, Zero, Replied
<1> QED BY <1>1, <1>2, <1>3, <1>4, <1>5, <1>6, <1>7, <1>8, <1>9 DEF IInv

LEMMA DiesInv ==
  ASSUME NEW p \in Procs, IInv, Dies(p), UNCHANGED Connection
  PROVE  IInv'
<1>1. TypeOK'
  BY CountsAssumption
  DEF Dies, Goes, Options, Counters, segments, Connection, IInv,
      TypeOK, TTypeOK, XTypeOK, Procs, ServerLabels, ClientLabels
<1>2. SegmentInv'
  BY Numbers
  DEF Dies, Goes, Options, Counters, segments, Connection, IInv,
      TypeOK, TTypeOK, XTypeOK, Procs, SegmentInv
<1>3. ConnectionInv'
  BY Numbers
  DEF Dies, Goes, Options, Counters, segments, Connection, IInv,
      TypeOK, TTypeOK, XTypeOK, Procs, ConnectionInv, Begun, ClientGreeted
<1>4. TokenInv'
  BY Numbers
  DEF Dies, Goes, Options, Counters, segments, Connection, IInv,
      TypeOK, TTypeOK, XTypeOK, Procs, TokenInv, OneToken, Tokens, Held, Holds, Begun,
      CountInv, ServerWorking, ServerWaiting, ConnectionInv, ServerLabels,
      ClientLabels
<1>5. CountInv'
  BY Numbers
  DEF Dies, Goes, Options, Counters, segments, Connection, IInv,
      TypeOK, TTypeOK, XTypeOK, Procs, CountInv, TokenInv, OneToken, Tokens, Held,
      Holds, ConnectionInv, Begun, ServerWorking, ServerWaiting, Replied,
      ClientGreeted, ServerLabels, ClientLabels
<1>6. RegionInv'
  BY CountsAssumption, SizeAssumption
  DEF Dies, IInv, TypeOK, TTypeOK, XTypeOK, SegmentInv, ConnectionInv,
      TokenInv, CountInv, RegionInv, OwnInv, BufInv, RejectInv, CopiesOwn, CopiesDue,
      OneToken, Tokens, Held, Holds, Begun, Apart, ServerWorking, ServerWaiting,
      ClientFilling, ClientGreeted, Replied, Procs, Goes, Starts, Touches, Options,
      Counters, Uniform, Words, Bytes, Zero, STC, CTS, ServerLabels, ClientLabels,
      segments, Connection, tvars, xvars
<1>7. OwnInv'
  BY Numbers
  DEF Dies, Goes, Options, Counters, segments, Connection, IInv,
      TypeOK, TTypeOK, XTypeOK, Procs, OwnInv, CountInv, ConnectionInv, TokenInv,
      OneToken, Tokens, Held, Begun, Holds, ServerWaiting, Apart, ClientFilling,
      ClientGreeted, Uniform, STC, CTS, Zero, Replied
<1>8. BufInv'
  BY Numbers
  DEF Dies, Goes, Options, Counters, segments, Connection, IInv,
      TypeOK, TTypeOK, XTypeOK, Procs, BufInv, CopiesOwn, CopiesDue, RegionInv,
      OwnInv, CountInv, ConnectionInv, TokenInv, OneToken, Tokens, Held, Begun, Holds,
      ServerWorking, ServerWaiting, Apart, ClientFilling, ClientGreeted, Uniform, STC,
      CTS, Zero, Replied
<1>9. RejectInv'
  BY Numbers
  DEF Dies, Goes, Options, Counters, segments, Connection, IInv,
      TypeOK, TTypeOK, XTypeOK, Procs, RejectInv, OwnInv, BufInv, RegionInv, CountInv,
      ConnectionInv, TokenInv, OneToken, Tokens, Held, Begun, Holds, ServerWorking,
      ServerWaiting, Apart, ClientFilling, ClientGreeted, Uniform, STC, CTS, Zero,
      Replied
<1> QED BY <1>1, <1>2, <1>3, <1>4, <1>5, <1>6, <1>7, <1>8, <1>9 DEF IInv

LEMMA ServerFillCellInv ==
  ASSUME IInv, FillCell("server"),
         UNCHANGED <<segments, tokens, Connection>>
  PROVE  IInv'
<1>1. TypeOK'
  BY CountsAssumption, SizeAssumption
  DEF FillCell, Outgoing, IInv, TypeOK, TTypeOK, XTypeOK, SegmentInv, ConnectionInv,
      TokenInv, CountInv, RegionInv, OwnInv, BufInv, RejectInv, CopiesOwn, CopiesDue,
      OneToken, Tokens, Held, Holds, Begun, Apart, ServerWorking, ServerWaiting,
      ClientFilling, ClientGreeted, Replied, Procs, Goes, Starts, Touches, Options,
      Counters, Uniform, Words, Bytes, Zero, STC, CTS, ServerLabels, ClientLabels,
      Peer, segments, Connection, tvars, xvars
<1>2. SegmentInv' /\ ConnectionInv'
  BY Numbers
  DEF FillCell, Outgoing, Touches, Options, Counters, segments, Connection, IInv,
      TypeOK, TTypeOK, XTypeOK, Procs, SegmentInv, ConnectionInv, Begun, ClientGreeted
<1>3. TokenInv' /\ CountInv'
  BY Numbers
  DEF FillCell, Outgoing, Touches, Options, Counters, segments, Connection, IInv,
      TypeOK, TTypeOK, XTypeOK, Procs, TokenInv, OneToken, Tokens, Held, Holds, Begun,
      CountInv, ServerWorking, ServerWaiting, ConnectionInv, ServerLabels,
      ClientLabels, Replied, ClientGreeted
<1>4. RegionInv'
  BY Numbers
  DEF FillCell, Outgoing, Touches, Options, Counters, segments, Connection, IInv,
      TypeOK, TTypeOK, XTypeOK, Procs, RegionInv, CountInv, ConnectionInv, TokenInv,
      OneToken, Tokens, Held, Begun, Holds, ServerWorking, ServerWaiting, Apart,
      ClientFilling, ClientGreeted, Uniform, STC, CTS, Zero, Replied
<1>5. OwnInv'
  BY Numbers
  DEF FillCell, Outgoing, Touches, Options, Counters, segments, Connection, IInv,
      TypeOK, TTypeOK, XTypeOK, Procs, OwnInv, CountInv, ConnectionInv, TokenInv,
      OneToken, Tokens, Held, Begun, Holds, ServerWaiting, Apart, ClientFilling,
      ClientGreeted, Uniform, STC, CTS, Zero, Replied
<1>6. BufInv'
  BY Numbers
  DEF FillCell, Outgoing, Touches, Options, Counters, segments, Connection, IInv,
      TypeOK, TTypeOK, XTypeOK, Procs, BufInv, CopiesOwn, CopiesDue, RegionInv,
      OwnInv, CountInv, ConnectionInv, TokenInv, OneToken, Tokens, Held, Begun, Holds,
      ServerWorking, ServerWaiting, Apart, ClientFilling, ClientGreeted, Uniform, STC,
      CTS, Zero, Replied
<1>7. RejectInv'
  BY Numbers
  DEF FillCell, Outgoing, Touches, Options, Counters, segments, Connection, IInv,
      TypeOK, TTypeOK, XTypeOK, Procs, RejectInv, OwnInv, BufInv, RegionInv, CountInv,
      ConnectionInv, TokenInv, OneToken, Tokens, Held, Begun, Holds, ServerWorking,
      ServerWaiting, Apart, ClientFilling, ClientGreeted, Uniform, STC, CTS, Zero,
      Replied
<1> QED BY <1>1, <1>2, <1>3, <1>4, <1>5, <1>6, <1>7 DEF IInv

LEMMA ServerStartCheckInv ==
  ASSUME IInv, StartCheck("server"),
         UNCHANGED <<segments, tokens, Connection>>
  PROVE  IInv'
<1>1. TypeOK'
  BY CountsAssumption
  DEF StartCheck, Goes, Starts, Options, Counters, segments, Connection, IInv, TypeOK,
      TTypeOK, XTypeOK, Procs, ServerLabels, ClientLabels
<1>2. SegmentInv' /\ ConnectionInv'
  BY Numbers
  DEF StartCheck, Goes, Starts, Options, Counters, segments, Connection, IInv, TypeOK,
      TTypeOK, XTypeOK, Procs, SegmentInv, ConnectionInv, Begun, ClientGreeted
<1>3. TokenInv' /\ CountInv'
  BY Numbers
  DEF StartCheck, Goes, Starts, Options, Counters, segments, Connection, IInv, TypeOK,
      TTypeOK, XTypeOK, Procs, TokenInv, OneToken, Tokens, Held, Holds, Begun,
      CountInv, ServerWorking, ServerWaiting, ConnectionInv, ServerLabels,
      ClientLabels, Replied, ClientGreeted
<1>4. RegionInv'
  BY Numbers
  DEF StartCheck, Goes, Starts, Options, Counters, segments, Connection, IInv, TypeOK,
      TTypeOK, XTypeOK, Procs, RegionInv, CountInv, ConnectionInv, TokenInv, OneToken,
      Tokens, Held, Begun, Holds, ServerWorking, ServerWaiting, Apart, ClientFilling,
      ClientGreeted, Uniform, STC, CTS, Zero, Replied
<1>5. OwnInv'
  BY Numbers
  DEF StartCheck, Goes, Starts, Options, Counters, segments, Connection, IInv, TypeOK,
      TTypeOK, XTypeOK, Procs, OwnInv, CountInv, ConnectionInv, TokenInv, OneToken,
      Tokens, Held, Begun, Holds, ServerWaiting, Apart, ClientFilling, ClientGreeted,
      Uniform, STC, CTS, Zero, Replied
<1>6. BufInv'
  BY Numbers
  DEF StartCheck, Goes, Starts, Options, Counters, segments, Connection, IInv, TypeOK,
      TTypeOK, XTypeOK, Procs, BufInv, CopiesOwn, CopiesDue, RegionInv, OwnInv,
      CountInv, ConnectionInv, TokenInv, OneToken, Tokens, Held, Begun, Holds,
      ServerWorking, ServerWaiting, Apart, ClientFilling, ClientGreeted, Uniform, STC,
      CTS, Zero, Replied
<1>7. RejectInv'
  BY Numbers
  DEF StartCheck, Goes, Starts, Options, Counters, segments, Connection, IInv, TypeOK,
      TTypeOK, XTypeOK, Procs, RejectInv, OwnInv, BufInv, RegionInv, CountInv,
      ConnectionInv, TokenInv, OneToken, Tokens, Held, Begun, Holds, ServerWorking,
      ServerWaiting, Apart, ClientFilling, ClientGreeted, Uniform, STC, CTS, Zero,
      Replied
<1> QED BY <1>1, <1>2, <1>3, <1>4, <1>5, <1>6, <1>7 DEF IInv

LEMMA ServerCheckCellInv ==
  ASSUME IInv, CheckCell("server"),
         UNCHANGED <<segments, tokens, Connection>>
  PROVE  IInv'
<1>1. TypeOK'
  BY CountsAssumption
  DEF CheckCell, Outgoing, Touches, Options, Counters, segments, Connection, IInv,
      TypeOK, TTypeOK, XTypeOK, Procs, ServerLabels, ClientLabels
<1>2. SegmentInv' /\ ConnectionInv'
  BY CountsAssumption, SizeAssumption
  DEF CheckCell, Outgoing, IInv, TypeOK, TTypeOK, XTypeOK, SegmentInv, ConnectionInv,
      TokenInv, CountInv, RegionInv, OwnInv, BufInv, RejectInv, CopiesOwn, CopiesDue,
      OneToken, Tokens, Held, Holds, Begun, Apart, ServerWorking, ServerWaiting,
      ClientFilling, ClientGreeted, Replied, Procs, Goes, Starts, Touches, Options,
      Counters, Uniform, Words, Bytes, Zero, STC, CTS, ServerLabels, ClientLabels,
      Peer, segments, Connection, tvars, xvars
<1>3. TokenInv' /\ CountInv'
  BY Numbers
  DEF CheckCell, Outgoing, Touches, Options, Counters, segments, Connection, IInv,
      TypeOK, TTypeOK, XTypeOK, Procs, TokenInv, OneToken, Tokens, Held, Holds, Begun,
      CountInv, ServerWorking, ServerWaiting, ConnectionInv, ServerLabels,
      ClientLabels, Replied, ClientGreeted
<1>4. RegionInv'
  BY Numbers
  DEF CheckCell, Outgoing, Touches, Options, Counters, segments, Connection, IInv,
      TypeOK, TTypeOK, XTypeOK, Procs, RegionInv, CountInv, ConnectionInv, TokenInv,
      OneToken, Tokens, Held, Begun, Holds, ServerWorking, ServerWaiting, Apart,
      ClientFilling, ClientGreeted, Uniform, STC, CTS, Zero, Replied
<1>5. OwnInv'
  BY Numbers
  DEF CheckCell, Outgoing, Touches, Options, Counters, segments, Connection, IInv,
      TypeOK, TTypeOK, XTypeOK, Procs, OwnInv, CountInv, ConnectionInv, TokenInv,
      OneToken, Tokens, Held, Begun, Holds, ServerWaiting, Apart, ClientFilling,
      ClientGreeted, Uniform, STC, CTS, Zero, Replied
<1>6. BufInv'
  BY Numbers
  DEF CheckCell, Outgoing, Touches, Options, Counters, segments, Connection, IInv,
      TypeOK, TTypeOK, XTypeOK, Procs, BufInv, CopiesOwn, CopiesDue, RegionInv,
      OwnInv, CountInv, ConnectionInv, TokenInv, OneToken, Tokens, Held, Begun, Holds,
      ServerWorking, ServerWaiting, Apart, ClientFilling, ClientGreeted, Uniform, STC,
      CTS, Zero, Replied
<1>7. RejectInv'
  BY Numbers
  DEF CheckCell, Outgoing, Touches, Options, Counters, segments, Connection, IInv,
      TypeOK, TTypeOK, XTypeOK, Procs, RejectInv, OwnInv, BufInv, RegionInv, CountInv,
      ConnectionInv, TokenInv, OneToken, Tokens, Held, Begun, Holds, ServerWorking,
      ServerWaiting, Apart, ClientFilling, ClientGreeted, Uniform, STC, CTS, Zero,
      Replied
<1> QED BY <1>1, <1>2, <1>3, <1>4, <1>5, <1>6, <1>7 DEF IInv

LEMMA ServerCopyCellInv ==
  ASSUME IInv, CopyCell("server"),
         UNCHANGED <<segments, tokens, Connection>>
  PROVE  IInv'
<1>0. PICK c \in todo["server"] : /\ buf' = [buf EXCEPT !["server"] = [@ EXCEPT ![c] = region[c]]]
                             /\ todo' = [todo EXCEPT !["server"] = @ \ {c}]
  BY DEF CopyCell, Touches
<1>1. TypeOK'
  BY <1>0
  DEF CopyCell, Counters, Options, segments, Connection, IInv, TypeOK, TTypeOK,
      XTypeOK, Procs
<1>2. SegmentInv' /\ ConnectionInv'
  BY Numbers, <1>0
  DEF CopyCell, Touches, Options, Counters, segments, Connection, IInv, TypeOK,
      TTypeOK, XTypeOK, Procs, SegmentInv, ConnectionInv, Begun, ClientGreeted
<1>3. TokenInv' /\ CountInv'
  BY Numbers, <1>0
  DEF CopyCell, Touches, Options, Counters, segments, Connection, IInv, TypeOK,
      TTypeOK, XTypeOK, Procs, TokenInv, OneToken, Tokens, Held, Holds, Begun,
      CountInv, ServerWorking, ServerWaiting, ConnectionInv, ServerLabels,
      ClientLabels, Replied, ClientGreeted
<1>4. RegionInv'
  BY Numbers, <1>0
  DEF CopyCell, Touches, Options, Counters, segments, Connection, IInv, TypeOK,
      TTypeOK, XTypeOK, Procs, RegionInv, CountInv, ConnectionInv, TokenInv, OneToken,
      Tokens, Held, Begun, Holds, ServerWorking, ServerWaiting, Apart, ClientFilling,
      ClientGreeted, Uniform, STC, CTS, Zero, Replied
<1>5. OwnInv'
  BY Numbers, <1>0
  DEF CopyCell, Touches, Options, Counters, segments, Connection, IInv, TypeOK,
      TTypeOK, XTypeOK, Procs, OwnInv, CountInv, ConnectionInv, TokenInv, OneToken,
      Tokens, Held, Begun, Holds, ServerWaiting, Apart, ClientFilling, ClientGreeted,
      Uniform, STC, CTS, Zero, Replied
<1>6. BufInv'
  BY Numbers, <1>0
  DEF CopyCell, Touches, Options, Counters, segments, Connection, IInv, TypeOK,
      TTypeOK, XTypeOK, Procs, BufInv, CopiesOwn, CopiesDue, RegionInv, OwnInv,
      CountInv, ConnectionInv, TokenInv, OneToken, Tokens, Held, Begun, Holds,
      ServerWorking, ServerWaiting, Apart, ClientFilling, ClientGreeted, Uniform, STC,
      CTS, Zero, Replied
<1>7. RejectInv'
  BY Numbers, <1>0
  DEF CopyCell, Touches, Options, Counters, segments, Connection, IInv, TypeOK,
      TTypeOK, XTypeOK, Procs, RejectInv, OwnInv, BufInv, RegionInv, CountInv,
      ConnectionInv, TokenInv, OneToken, Tokens, Held, Begun, Holds, ServerWorking,
      ServerWaiting, Apart, ClientFilling, ClientGreeted, Uniform, STC, CTS, Zero,
      Replied
<1> QED BY <1>1, <1>2, <1>3, <1>4, <1>5, <1>6, <1>7 DEF IInv

LEMMA ServerEndsCopyInv ==
  ASSUME IInv, ServerEndsCopy, UNCHANGED <<segments, tokens, Connection>>
  PROVE  IInv'
<1>1. TypeOK'
  BY CountsAssumption
  DEF ServerEndsCopy, ServerLoop, Rejects, Incoming, Goes, Starts, Options, segments,
      Connection, IInv, TypeOK, TTypeOK, XTypeOK, Procs, ServerLabels, ClientLabels
<1>2. SegmentInv'
  BY Numbers
  DEF ServerEndsCopy, ServerLoop, Rejects, Incoming, Goes, Starts, Options, segments,
      Connection, IInv, TypeOK, TTypeOK, XTypeOK, Procs, SegmentInv
<1>3. ConnectionInv'
  BY Numbers
  DEF ServerEndsCopy, ServerLoop, Rejects, Incoming, Goes, Starts, Options, segments,
      Connection, IInv, TypeOK, TTypeOK, XTypeOK, Procs, ConnectionInv, Begun,
      ClientGreeted
<1>4. TokenInv'
  BY Numbers
  DEF ServerEndsCopy, ServerLoop, Rejects, Incoming, Goes, Starts, Options, segments,
      Connection, IInv, TypeOK, TTypeOK, XTypeOK, Procs, TokenInv, OneToken, Tokens,
      Held, Holds, Begun, CountInv, ServerWorking, ServerWaiting, ConnectionInv,
      ServerLabels, ClientLabels
<1>5. CountInv'
  BY Numbers
  DEF ServerEndsCopy, ServerLoop, Rejects, Incoming, Goes, Starts, Options, segments,
      Connection, IInv, TypeOK, TTypeOK, XTypeOK, Procs, CountInv, TokenInv, OneToken,
      Tokens, Held, Holds, ConnectionInv, Begun, ServerWorking, ServerWaiting,
      Replied, ClientGreeted, ServerLabels, ClientLabels
<1>6. RegionInv'
  BY Numbers
  DEF ServerEndsCopy, ServerLoop, Rejects, Incoming, Goes, Starts, Options, segments,
      Connection, IInv, TypeOK, TTypeOK, XTypeOK, Procs, RegionInv, CountInv,
      ConnectionInv, TokenInv, OneToken, Tokens, Held, Begun, Holds, ServerWorking,
      ServerWaiting, Apart, ClientFilling, ClientGreeted, Uniform, STC, CTS, Zero,
      Replied
<1>7. OwnInv'
  BY Numbers
  DEF ServerEndsCopy, ServerLoop, Rejects, Incoming, Goes, Starts, Options, segments,
      Connection, IInv, TypeOK, TTypeOK, XTypeOK, Procs, OwnInv, CountInv,
      ConnectionInv, TokenInv, OneToken, Tokens, Held, Begun, Holds, ServerWaiting,
      Apart, ClientFilling, ClientGreeted, Uniform, STC, CTS, Zero, Replied
<1>8. BufInv'
  BY Numbers
  DEF ServerEndsCopy, ServerLoop, Rejects, Incoming, Goes, Starts, Options, segments,
      Connection, IInv, TypeOK, TTypeOK, XTypeOK, Procs, BufInv, CopiesOwn, CopiesDue,
      RegionInv, OwnInv, CountInv, ConnectionInv, TokenInv, OneToken, Tokens, Held,
      Begun, Holds, ServerWorking, ServerWaiting, Apart, ClientFilling, ClientGreeted,
      Uniform, STC, CTS, Zero, Replied
<1>9. RejectInv'
  BY CountsAssumption, SizeAssumption
  DEF ServerEndsCopy, ServerLoop, Rejects, Incoming, IInv, TypeOK, TTypeOK, XTypeOK,
      SegmentInv, ConnectionInv, TokenInv, CountInv, RegionInv, OwnInv, BufInv,
      RejectInv, CopiesOwn, CopiesDue, OneToken, Tokens, Held, Holds, Begun, Apart,
      ServerWorking, ServerWaiting, ClientFilling, ClientGreeted, Replied, Procs,
      Goes, Starts, Touches, Options, Counters, Uniform, Words, Bytes, Zero, STC, CTS,
      ServerLabels, ClientLabels, Peer, segments, Connection, tvars, xvars
<1> QED BY <1>1, <1>2, <1>3, <1>4, <1>5, <1>6, <1>7, <1>8, <1>9 DEF IInv

LEMMA ServerEvaluatesInv ==
  ASSUME IInv, ServerEvaluates, UNCHANGED <<segments, tokens, Connection>>
  PROVE  IInv'
<1>1. TypeOK'
  BY CountsAssumption
  DEF ServerEvaluates, Goes, Options, Counters, segments, Connection, IInv, TypeOK,
      TTypeOK, XTypeOK, Procs, ServerLabels, ClientLabels
<1>2. SegmentInv' /\ ConnectionInv'
  BY Numbers
  DEF ServerEvaluates, Goes, Options, Counters, segments, Connection, IInv, TypeOK,
      TTypeOK, XTypeOK, Procs, SegmentInv, ConnectionInv, Begun, ClientGreeted
<1>3. TokenInv' /\ CountInv'
  BY Numbers
  DEF ServerEvaluates, Goes, Options, Counters, segments, Connection, IInv, TypeOK,
      TTypeOK, XTypeOK, Procs, TokenInv, OneToken, Tokens, Held, Holds, Begun,
      CountInv, ServerWorking, ServerWaiting, ConnectionInv, ServerLabels,
      ClientLabels, Replied, ClientGreeted
<1>4. RegionInv'
  BY Numbers
  DEF ServerEvaluates, Goes, Options, Counters, segments, Connection, IInv, TypeOK,
      TTypeOK, XTypeOK, Procs, RegionInv, CountInv, ConnectionInv, TokenInv, OneToken,
      Tokens, Held, Begun, Holds, ServerWorking, ServerWaiting, Apart, ClientFilling,
      ClientGreeted, Uniform, STC, CTS, Zero, Replied
<1>5. OwnInv'
  BY Numbers
  DEF ServerEvaluates, Goes, Options, Counters, segments, Connection, IInv, TypeOK,
      TTypeOK, XTypeOK, Procs, OwnInv, CountInv, ConnectionInv, TokenInv, OneToken,
      Tokens, Held, Begun, Holds, ServerWaiting, Apart, ClientFilling, ClientGreeted,
      Uniform, STC, CTS, Zero, Replied
<1>6. BufInv'
  BY Numbers
  DEF ServerEvaluates, Goes, Options, Counters, segments, Connection, IInv, TypeOK,
      TTypeOK, XTypeOK, Procs, BufInv, CopiesOwn, CopiesDue, RegionInv, OwnInv,
      CountInv, ConnectionInv, TokenInv, OneToken, Tokens, Held, Begun, Holds,
      ServerWorking, ServerWaiting, Apart, ClientFilling, ClientGreeted, Uniform, STC,
      CTS, Zero, Replied
<1>7. RejectInv'
  BY Numbers
  DEF ServerEvaluates, Goes, Options, Counters, segments, Connection, IInv, TypeOK,
      TTypeOK, XTypeOK, Procs, RejectInv, OwnInv, BufInv, RegionInv, CountInv,
      ConnectionInv, TokenInv, OneToken, Tokens, Held, Begun, Holds, ServerWorking,
      ServerWaiting, Apart, ClientFilling, ClientGreeted, Uniform, STC, CTS, Zero,
      Replied
<1> QED BY <1>1, <1>2, <1>3, <1>4, <1>5, <1>6, <1>7 DEF IInv

LEMMA ServerRemovesInv ==
  ASSUME IInv, ServerRemoves, UNCHANGED Connection
  PROVE  IInv'
<1>1. TypeOK'
  BY CountsAssumption
  DEF ServerRemoves, Connection, xvars, IInv, TypeOK, TTypeOK, XTypeOK, Procs,
      ServerLabels, ClientLabels
<1>2. SegmentInv' /\ ConnectionInv'
  BY Numbers
  DEF ServerRemoves, Connection, xvars, IInv, TypeOK, TTypeOK, XTypeOK, Procs,
      SegmentInv, ConnectionInv, Begun, ClientGreeted
<1>3. TokenInv' /\ CountInv'
  BY Numbers
  DEF ServerRemoves, Connection, xvars, IInv, TypeOK, TTypeOK, XTypeOK, Procs,
      TokenInv, OneToken, Tokens, Held, Holds, Begun, CountInv, ServerWorking,
      ServerWaiting, ConnectionInv, ServerLabels, ClientLabels, Replied, ClientGreeted
<1>4. RegionInv' /\ OwnInv' /\ BufInv' /\ RejectInv'
  BY Numbers
  DEF ServerRemoves, Connection, xvars, IInv, TypeOK, TTypeOK, XTypeOK, Procs,
      RegionInv, CountInv, ConnectionInv, TokenInv, OneToken, Tokens, Held, Begun,
      Holds, ServerWorking, ServerWaiting, Apart, ClientFilling, ClientGreeted,
      Uniform, STC, CTS, Zero, Replied, OwnInv, BufInv, CopiesOwn, CopiesDue,
      RejectInv
<1> QED BY <1>1, <1>2, <1>3, <1>4 DEF IInv

LEMMA ClientFillCellInv ==
  ASSUME IInv, ~Apart, FillCell("client"),
         UNCHANGED <<segments, tokens, Connection>>
  PROVE  IInv'
<1>1. TypeOK'
  BY CountsAssumption, SizeAssumption
  DEF FillCell, Outgoing, IInv, TypeOK, TTypeOK, XTypeOK, SegmentInv, ConnectionInv,
      TokenInv, CountInv, RegionInv, OwnInv, BufInv, RejectInv, CopiesOwn, CopiesDue,
      OneToken, Tokens, Held, Holds, Begun, Apart, ServerWorking, ServerWaiting,
      ClientFilling, ClientGreeted, Replied, Procs, Goes, Starts, Touches, Options,
      Counters, Uniform, Words, Bytes, Zero, STC, CTS, ServerLabels, ClientLabels,
      Peer, segments, Connection, tvars, xvars
<1>2. SegmentInv' /\ ConnectionInv'
  BY Numbers
  DEF FillCell, Outgoing, Touches, Options, Counters, segments, Connection, IInv,
      TypeOK, TTypeOK, XTypeOK, Procs, SegmentInv, ConnectionInv, Begun, ClientGreeted
<1>3. TokenInv' /\ CountInv'
  BY Numbers
  DEF FillCell, Outgoing, Touches, Options, Counters, segments, Connection, IInv,
      TypeOK, TTypeOK, XTypeOK, Procs, TokenInv, OneToken, Tokens, Held, Holds, Begun,
      CountInv, ServerWorking, ServerWaiting, ConnectionInv, ServerLabels,
      ClientLabels, Replied, ClientGreeted
<1>4. RegionInv'
  BY Numbers
  DEF FillCell, Outgoing, Touches, Options, Counters, segments, Connection, IInv,
      TypeOK, TTypeOK, XTypeOK, Procs, RegionInv, CountInv, ConnectionInv, TokenInv,
      OneToken, Tokens, Held, Begun, Holds, ServerWorking, ServerWaiting, Apart,
      ClientFilling, ClientGreeted, Uniform, STC, CTS, Zero, Replied
<1>5. OwnInv'
  BY Numbers
  DEF FillCell, Outgoing, Touches, Options, Counters, segments, Connection, IInv,
      TypeOK, TTypeOK, XTypeOK, Procs, OwnInv, CountInv, ConnectionInv, TokenInv,
      OneToken, Tokens, Held, Begun, Holds, ServerWaiting, Apart, ClientFilling,
      ClientGreeted, Uniform, STC, CTS, Zero, Replied
<1>6. BufInv'
  BY Numbers
  DEF FillCell, Outgoing, Touches, Options, Counters, segments, Connection, IInv,
      TypeOK, TTypeOK, XTypeOK, Procs, BufInv, CopiesOwn, CopiesDue, RegionInv,
      OwnInv, CountInv, ConnectionInv, TokenInv, OneToken, Tokens, Held, Begun, Holds,
      ServerWorking, ServerWaiting, Apart, ClientFilling, ClientGreeted, Uniform, STC,
      CTS, Zero, Replied
<1>7. RejectInv'
  BY Numbers
  DEF FillCell, Outgoing, Touches, Options, Counters, segments, Connection, IInv,
      TypeOK, TTypeOK, XTypeOK, Procs, RejectInv, OwnInv, BufInv, RegionInv, CountInv,
      ConnectionInv, TokenInv, OneToken, Tokens, Held, Begun, Holds, ServerWorking,
      ServerWaiting, Apart, ClientFilling, ClientGreeted, Uniform, STC, CTS, Zero,
      Replied
<1> QED BY <1>1, <1>2, <1>3, <1>4, <1>5, <1>6, <1>7 DEF IInv

LEMMA ClientStartCheckInv ==
  ASSUME IInv, ~Apart, StartCheck("client"),
         UNCHANGED <<segments, tokens, Connection>>
  PROVE  IInv'
<1>1. TypeOK'
  BY CountsAssumption
  DEF StartCheck, Goes, Starts, Options, Counters, segments, Connection, IInv, TypeOK,
      TTypeOK, XTypeOK, Procs, ServerLabels, ClientLabels
<1>2. SegmentInv' /\ ConnectionInv'
  BY Numbers
  DEF StartCheck, Goes, Starts, Options, Counters, segments, Connection, IInv, TypeOK,
      TTypeOK, XTypeOK, Procs, SegmentInv, ConnectionInv, Begun, ClientGreeted
<1>3. TokenInv' /\ CountInv'
  BY Numbers
  DEF StartCheck, Goes, Starts, Options, Counters, segments, Connection, IInv, TypeOK,
      TTypeOK, XTypeOK, Procs, TokenInv, OneToken, Tokens, Held, Holds, Begun,
      CountInv, ServerWorking, ServerWaiting, ConnectionInv, ServerLabels,
      ClientLabels, Replied, ClientGreeted
<1>4. RegionInv'
  BY Numbers
  DEF StartCheck, Goes, Starts, Options, Counters, segments, Connection, IInv, TypeOK,
      TTypeOK, XTypeOK, Procs, RegionInv, CountInv, ConnectionInv, TokenInv, OneToken,
      Tokens, Held, Begun, Holds, ServerWorking, ServerWaiting, Apart, ClientFilling,
      ClientGreeted, Uniform, STC, CTS, Zero, Replied
<1>5. OwnInv'
  BY Numbers
  DEF StartCheck, Goes, Starts, Options, Counters, segments, Connection, IInv, TypeOK,
      TTypeOK, XTypeOK, Procs, OwnInv, CountInv, ConnectionInv, TokenInv, OneToken,
      Tokens, Held, Begun, Holds, ServerWaiting, Apart, ClientFilling, ClientGreeted,
      Uniform, STC, CTS, Zero, Replied
<1>6. BufInv'
  BY Numbers
  DEF StartCheck, Goes, Starts, Options, Counters, segments, Connection, IInv, TypeOK,
      TTypeOK, XTypeOK, Procs, BufInv, CopiesOwn, CopiesDue, RegionInv, OwnInv,
      CountInv, ConnectionInv, TokenInv, OneToken, Tokens, Held, Begun, Holds,
      ServerWorking, ServerWaiting, Apart, ClientFilling, ClientGreeted, Uniform, STC,
      CTS, Zero, Replied
<1>7. RejectInv'
  BY Numbers
  DEF StartCheck, Goes, Starts, Options, Counters, segments, Connection, IInv, TypeOK,
      TTypeOK, XTypeOK, Procs, RejectInv, OwnInv, BufInv, RegionInv, CountInv,
      ConnectionInv, TokenInv, OneToken, Tokens, Held, Begun, Holds, ServerWorking,
      ServerWaiting, Apart, ClientFilling, ClientGreeted, Uniform, STC, CTS, Zero,
      Replied
<1> QED BY <1>1, <1>2, <1>3, <1>4, <1>5, <1>6, <1>7 DEF IInv

LEMMA ClientCheckCellInv ==
  ASSUME IInv, ~Apart, CheckCell("client"),
         UNCHANGED <<segments, tokens, Connection>>
  PROVE  IInv'
<1>1. TypeOK'
  BY CountsAssumption
  DEF CheckCell, Outgoing, Touches, Options, Counters, segments, Connection, IInv,
      TypeOK, TTypeOK, XTypeOK, Procs, ServerLabels, ClientLabels
<1>2. SegmentInv' /\ ConnectionInv'
  BY CountsAssumption, SizeAssumption
  DEF CheckCell, Outgoing, IInv, TypeOK, TTypeOK, XTypeOK, SegmentInv, ConnectionInv,
      TokenInv, CountInv, RegionInv, OwnInv, BufInv, RejectInv, CopiesOwn, CopiesDue,
      OneToken, Tokens, Held, Holds, Begun, Apart, ServerWorking, ServerWaiting,
      ClientFilling, ClientGreeted, Replied, Procs, Goes, Starts, Touches, Options,
      Counters, Uniform, Words, Bytes, Zero, STC, CTS, ServerLabels, ClientLabels,
      Peer, segments, Connection, tvars, xvars
<1>3. TokenInv' /\ CountInv'
  BY Numbers
  DEF CheckCell, Outgoing, Touches, Options, Counters, segments, Connection, IInv,
      TypeOK, TTypeOK, XTypeOK, Procs, TokenInv, OneToken, Tokens, Held, Holds, Begun,
      CountInv, ServerWorking, ServerWaiting, ConnectionInv, ServerLabels,
      ClientLabels, Replied, ClientGreeted
<1>4. RegionInv'
  BY Numbers
  DEF CheckCell, Outgoing, Touches, Options, Counters, segments, Connection, IInv,
      TypeOK, TTypeOK, XTypeOK, Procs, RegionInv, CountInv, ConnectionInv, TokenInv,
      OneToken, Tokens, Held, Begun, Holds, ServerWorking, ServerWaiting, Apart,
      ClientFilling, ClientGreeted, Uniform, STC, CTS, Zero, Replied
<1>5. OwnInv'
  BY CountsAssumption, SizeAssumption
  DEF CheckCell, Outgoing, IInv, TypeOK, TTypeOK, XTypeOK, SegmentInv, ConnectionInv,
      TokenInv, CountInv, RegionInv, OwnInv, BufInv, RejectInv, CopiesOwn, CopiesDue,
      OneToken, Tokens, Held, Holds, Begun, Apart, ServerWorking, ServerWaiting,
      ClientFilling, ClientGreeted, Replied, Procs, Goes, Starts, Touches, Options,
      Counters, Uniform, Words, Bytes, Zero, STC, CTS, ServerLabels, ClientLabels,
      Peer, segments, Connection, tvars, xvars
<1>6. BufInv'
  BY Numbers
  DEF CheckCell, Outgoing, Touches, Options, Counters, segments, Connection, IInv,
      TypeOK, TTypeOK, XTypeOK, Procs, BufInv, CopiesOwn, CopiesDue, RegionInv,
      OwnInv, CountInv, ConnectionInv, TokenInv, OneToken, Tokens, Held, Begun, Holds,
      ServerWorking, ServerWaiting, Apart, ClientFilling, ClientGreeted, Uniform, STC,
      CTS, Zero, Replied
<1>7. RejectInv'
  BY Numbers
  DEF CheckCell, Outgoing, Touches, Options, Counters, segments, Connection, IInv,
      TypeOK, TTypeOK, XTypeOK, Procs, RejectInv, OwnInv, BufInv, RegionInv, CountInv,
      ConnectionInv, TokenInv, OneToken, Tokens, Held, Begun, Holds, ServerWorking,
      ServerWaiting, Apart, ClientFilling, ClientGreeted, Uniform, STC, CTS, Zero,
      Replied
<1> QED BY <1>1, <1>2, <1>3, <1>4, <1>5, <1>6, <1>7 DEF IInv

LEMMA ClientCopyCellInv ==
  ASSUME IInv, ~Apart, CopyCell("client"),
         UNCHANGED <<segments, tokens, Connection>>
  PROVE  IInv'
<1>0. PICK c \in todo["client"] : /\ buf' = [buf EXCEPT !["client"] = [@ EXCEPT ![c] = region[c]]]
                             /\ todo' = [todo EXCEPT !["client"] = @ \ {c}]
  BY DEF CopyCell, Touches
<1>1. TypeOK'
  BY <1>0
  DEF CopyCell, Counters, Options, segments, Connection, IInv, TypeOK, TTypeOK,
      XTypeOK, Procs
<1>2. SegmentInv' /\ ConnectionInv'
  BY Numbers, <1>0
  DEF CopyCell, Touches, Options, Counters, segments, Connection, IInv, TypeOK,
      TTypeOK, XTypeOK, Procs, SegmentInv, ConnectionInv, Begun, ClientGreeted
<1>3. TokenInv' /\ CountInv'
  BY Numbers, <1>0
  DEF CopyCell, Touches, Options, Counters, segments, Connection, IInv, TypeOK,
      TTypeOK, XTypeOK, Procs, TokenInv, OneToken, Tokens, Held, Holds, Begun,
      CountInv, ServerWorking, ServerWaiting, ConnectionInv, ServerLabels,
      ClientLabels, Replied, ClientGreeted
<1>4. RegionInv'
  BY Numbers, <1>0
  DEF CopyCell, Touches, Options, Counters, segments, Connection, IInv, TypeOK,
      TTypeOK, XTypeOK, Procs, RegionInv, CountInv, ConnectionInv, TokenInv, OneToken,
      Tokens, Held, Begun, Holds, ServerWorking, ServerWaiting, Apart, ClientFilling,
      ClientGreeted, Uniform, STC, CTS, Zero, Replied
<1>5. OwnInv'
  BY Numbers, <1>0
  DEF CopyCell, Touches, Options, Counters, segments, Connection, IInv, TypeOK,
      TTypeOK, XTypeOK, Procs, OwnInv, CountInv, ConnectionInv, TokenInv, OneToken,
      Tokens, Held, Begun, Holds, ServerWaiting, Apart, ClientFilling, ClientGreeted,
      Uniform, STC, CTS, Zero, Replied
<1>6. BufInv'
  <2>1. pc["client"] = "copy" /\ region = Uniform(STC(Replied + 1)) /\ ServerWaiting
    <3>1. pc["client"] = "copy"
      BY DEF CopyCell
    <3>2. ServerWaiting /\ tokens["server"] = 0
      BY <3>1, Holding DEF Holds
    <3> QED BY <3>1, <3>2, Numbers DEF IInv, CountInv, RegionInv, ClientFilling
  <2> QED BY <1>0, <2>1
      DEF CopyCell, Counters, Options, segments, IInv, TypeOK, TTypeOK, XTypeOK,
          Procs, BufInv, CopiesDue, Apart, Replied, Uniform
<1>7. RejectInv'
  BY Numbers, <1>0
  DEF CopyCell, Touches, Options, Counters, segments, Connection, IInv, TypeOK,
      TTypeOK, XTypeOK, Procs, RejectInv, OwnInv, BufInv, RegionInv, CountInv,
      ConnectionInv, TokenInv, OneToken, Tokens, Held, Begun, Holds, ServerWorking,
      ServerWaiting, Apart, ClientFilling, ClientGreeted, Uniform, STC, CTS, Zero,
      Replied
<1> QED BY <1>1, <1>2, <1>3, <1>4, <1>5, <1>6, <1>7 DEF IInv

LEMMA OwnFillCellInv ==
  ASSUME IInv, Apart, Own!FillCell("client"),
         UNCHANGED <<region, key, made, attached, earlier, isBackend, tokens, Connection>>
  PROVE  IInv'
<1>1. TypeOK'
  <2>1. CTS(Replied + 1) \in Words
    BY Numbers DEF IInv, TypeOK, TTypeOK, XTypeOK, Replied, CTS, Words, Bytes
  <2>2. own' \in [Cells -> Words] /\ todo' \in [Procs -> SUBSET Cells]
    BY <2>1 DEF Own!FillCell, Own!Outgoing, Own!Touches, Own!CTS, Own!Replied, CTS, Replied,
                IInv, TypeOK, TTypeOK, XTypeOK, Procs
  <2> QED BY <2>2
      DEF Own!FillCell, Own!Counters, Own!Options, Connection, IInv, TypeOK, TTypeOK, XTypeOK
<1>2. SegmentInv' /\ ConnectionInv'
  BY Numbers
  DEF Own!FillCell, Own!Outgoing, Own!Touches, Own!Counters, Own!Options, Own!STC,
      Own!CTS, Own!Replied, Touches, Options, Counters, Connection, IInv, TypeOK,
      TTypeOK, XTypeOK, Procs, SegmentInv, ConnectionInv, Begun, ClientGreeted
<1>3. TokenInv' /\ CountInv'
  BY Numbers
  DEF Own!FillCell, Own!Outgoing, Own!Touches, Own!Counters, Own!Options, Own!STC,
      Own!CTS, Own!Replied, Touches, Options, Counters, Connection, IInv, TypeOK,
      TTypeOK, XTypeOK, Procs, TokenInv, OneToken, Tokens, Held, Holds, Begun,
      CountInv, ServerWorking, ServerWaiting, ConnectionInv, ServerLabels,
      ClientLabels, Replied, ClientGreeted
<1>4. RegionInv'
  BY Numbers
  DEF Own!FillCell, Own!Outgoing, Own!Touches, Own!Counters, Own!Options, Own!STC,
      Own!CTS, Own!Replied, Touches, Options, Counters, Connection, IInv, TypeOK,
      TTypeOK, XTypeOK, Procs, RegionInv, CountInv, ConnectionInv, TokenInv, OneToken,
      Tokens, Held, Begun, Holds, ServerWorking, ServerWaiting, Apart, ClientFilling,
      ClientGreeted, Uniform, STC, CTS, Zero, Replied
<1>5. OwnInv'
  BY Numbers
  DEF Own!FillCell, Own!Outgoing, Own!Touches, Own!Counters, Own!Options, Own!STC,
      Own!CTS, Own!Replied, Touches, Options, Counters, Connection, IInv, TypeOK,
      TTypeOK, XTypeOK, Procs, OwnInv, CountInv, ConnectionInv, TokenInv, OneToken,
      Tokens, Held, Begun, Holds, ServerWaiting, Apart, ClientFilling, ClientGreeted,
      Uniform, STC, CTS, Zero, Replied
<1>6. BufInv'
  BY Numbers
  DEF Own!FillCell, Own!Outgoing, Own!Touches, Own!Counters, Own!Options, Own!STC,
      Own!CTS, Own!Replied, Touches, Options, Counters, Connection, IInv, TypeOK,
      TTypeOK, XTypeOK, Procs, BufInv, CopiesOwn, CopiesDue, RegionInv, OwnInv,
      CountInv, ConnectionInv, TokenInv, OneToken, Tokens, Held, Begun, Holds,
      ServerWorking, ServerWaiting, Apart, ClientFilling, ClientGreeted, Uniform, STC,
      CTS, Zero, Replied
<1>7. RejectInv'
  BY Numbers
  DEF Own!FillCell, Own!Outgoing, Own!Touches, Own!Counters, Own!Options, Own!STC,
      Own!CTS, Own!Replied, Touches, Options, Counters, Connection, IInv, TypeOK,
      TTypeOK, XTypeOK, Procs, RejectInv, OwnInv, BufInv, RegionInv, CountInv,
      ConnectionInv, TokenInv, OneToken, Tokens, Held, Begun, Holds, ServerWorking,
      ServerWaiting, Apart, ClientFilling, ClientGreeted, Uniform, STC, CTS, Zero,
      Replied
<1> QED BY <1>1, <1>2, <1>3, <1>4, <1>5, <1>6, <1>7 DEF IInv

LEMMA OwnStartCheckInv ==
  ASSUME IInv, Apart, Own!StartCheck("client"),
         UNCHANGED <<region, key, made, attached, earlier, isBackend, tokens, Connection>>
  PROVE  IInv'
<1>1. TypeOK'
  BY CountsAssumption
  DEF Own!StartCheck, Own!Goes, Own!Starts, Own!Counters, Own!Options, Goes, Starts,
      Options, Counters, Connection, IInv, TypeOK, TTypeOK, XTypeOK, Procs,
      ServerLabels, ClientLabels
<1>2. SegmentInv' /\ ConnectionInv'
  BY Numbers
  DEF Own!StartCheck, Own!Goes, Own!Starts, Own!Counters, Own!Options, Goes, Starts,
      Options, Counters, Connection, IInv, TypeOK, TTypeOK, XTypeOK, Procs,
      SegmentInv, ConnectionInv, Begun, ClientGreeted
<1>3. TokenInv' /\ CountInv'
  BY Numbers
  DEF Own!StartCheck, Own!Goes, Own!Starts, Own!Counters, Own!Options, Goes, Starts,
      Options, Counters, Connection, IInv, TypeOK, TTypeOK, XTypeOK, Procs, TokenInv,
      OneToken, Tokens, Held, Holds, Begun, CountInv, ServerWorking, ServerWaiting,
      ConnectionInv, ServerLabels, ClientLabels, Replied, ClientGreeted
<1>4. RegionInv'
  BY Numbers
  DEF Own!StartCheck, Own!Goes, Own!Starts, Own!Counters, Own!Options, Goes, Starts,
      Options, Counters, Connection, IInv, TypeOK, TTypeOK, XTypeOK, Procs, RegionInv,
      CountInv, ConnectionInv, TokenInv, OneToken, Tokens, Held, Begun, Holds,
      ServerWorking, ServerWaiting, Apart, ClientFilling, ClientGreeted, Uniform, STC,
      CTS, Zero, Replied
<1>5. OwnInv'
  BY Numbers
  DEF Own!StartCheck, Own!Goes, Own!Starts, Own!Counters, Own!Options, Goes, Starts,
      Options, Counters, Connection, IInv, TypeOK, TTypeOK, XTypeOK, Procs, OwnInv,
      CountInv, ConnectionInv, TokenInv, OneToken, Tokens, Held, Begun, Holds,
      ServerWaiting, Apart, ClientFilling, ClientGreeted, Uniform, STC, CTS, Zero,
      Replied
<1>6. BufInv'
  BY Numbers
  DEF Own!StartCheck, Own!Goes, Own!Starts, Own!Counters, Own!Options, Goes, Starts,
      Options, Counters, Connection, IInv, TypeOK, TTypeOK, XTypeOK, Procs, BufInv,
      CopiesOwn, CopiesDue, RegionInv, OwnInv, CountInv, ConnectionInv, TokenInv,
      OneToken, Tokens, Held, Begun, Holds, ServerWorking, ServerWaiting, Apart,
      ClientFilling, ClientGreeted, Uniform, STC, CTS, Zero, Replied
<1>7. RejectInv'
  BY Numbers
  DEF Own!StartCheck, Own!Goes, Own!Starts, Own!Counters, Own!Options, Goes, Starts,
      Options, Counters, Connection, IInv, TypeOK, TTypeOK, XTypeOK, Procs, RejectInv,
      OwnInv, BufInv, RegionInv, CountInv, ConnectionInv, TokenInv, OneToken, Tokens,
      Held, Begun, Holds, ServerWorking, ServerWaiting, Apart, ClientFilling,
      ClientGreeted, Uniform, STC, CTS, Zero, Replied
<1> QED BY <1>1, <1>2, <1>3, <1>4, <1>5, <1>6, <1>7 DEF IInv

LEMMA OwnCheckCellInv ==
  ASSUME IInv, Apart, Own!CheckCell("client"),
         UNCHANGED <<region, key, made, attached, earlier, isBackend, tokens, Connection>>
  PROVE  IInv'
<1>1. TypeOK'
  BY CountsAssumption
  DEF Own!CheckCell, Own!Outgoing, Own!Touches, Own!Counters, Own!Options, Own!STC,
      Own!CTS, Own!Replied, Touches, Options, Counters, Connection, IInv, TypeOK,
      TTypeOK, XTypeOK, Procs, ServerLabels, ClientLabels
<1>2. SegmentInv' /\ ConnectionInv'
  BY
  DEF Own!CheckCell, Own!Outgoing, Own!Counters, Own!Options, Own!STC, Own!CTS,
      Own!Replied, Connection, IInv, TypeOK, TTypeOK, XTypeOK, Procs, SegmentInv,
      ConnectionInv, OwnInv, Begun, ClientGreeted, Uniform, CTS, Replied
<1>3. TokenInv' /\ CountInv'
  BY Numbers
  DEF Own!CheckCell, Own!Outgoing, Own!Touches, Own!Counters, Own!Options, Own!STC,
      Own!CTS, Own!Replied, Touches, Options, Counters, Connection, IInv, TypeOK,
      TTypeOK, XTypeOK, Procs, TokenInv, OneToken, Tokens, Held, Holds, Begun,
      CountInv, ServerWorking, ServerWaiting, ConnectionInv, ServerLabels,
      ClientLabels, Replied, ClientGreeted
<1>4. RegionInv'
  BY Numbers
  DEF Own!CheckCell, Own!Outgoing, Own!Touches, Own!Counters, Own!Options, Own!STC,
      Own!CTS, Own!Replied, Touches, Options, Counters, Connection, IInv, TypeOK,
      TTypeOK, XTypeOK, Procs, RegionInv, CountInv, ConnectionInv, TokenInv, OneToken,
      Tokens, Held, Begun, Holds, ServerWorking, ServerWaiting, Apart, ClientFilling,
      ClientGreeted, Uniform, STC, CTS, Zero, Replied
<1>5. OwnInv'
  BY Numbers
  DEF Own!CheckCell, Own!Outgoing, Own!Touches, Own!Counters, Own!Options, Own!STC,
      Own!CTS, Own!Replied, Touches, Options, Counters, Connection, IInv, TypeOK,
      TTypeOK, XTypeOK, Procs, OwnInv, CountInv, ConnectionInv, TokenInv, OneToken,
      Tokens, Held, Begun, Holds, ServerWaiting, Apart, ClientFilling, ClientGreeted,
      Uniform, STC, CTS, Zero, Replied
<1>6. BufInv'
  BY Numbers
  DEF Own!CheckCell, Own!Outgoing, Own!Touches, Own!Counters, Own!Options, Own!STC,
      Own!CTS, Own!Replied, Touches, Options, Counters, Connection, IInv, TypeOK,
      TTypeOK, XTypeOK, Procs, BufInv, CopiesOwn, CopiesDue, RegionInv, OwnInv,
      CountInv, ConnectionInv, TokenInv, OneToken, Tokens, Held, Begun, Holds,
      ServerWorking, ServerWaiting, Apart, ClientFilling, ClientGreeted, Uniform, STC,
      CTS, Zero, Replied
<1>7. RejectInv'
  BY Numbers
  DEF Own!CheckCell, Own!Outgoing, Own!Touches, Own!Counters, Own!Options, Own!STC,
      Own!CTS, Own!Replied, Touches, Options, Counters, Connection, IInv, TypeOK,
      TTypeOK, XTypeOK, Procs, RejectInv, OwnInv, BufInv, RegionInv, CountInv,
      ConnectionInv, TokenInv, OneToken, Tokens, Held, Begun, Holds, ServerWorking,
      ServerWaiting, Apart, ClientFilling, ClientGreeted, Uniform, STC, CTS, Zero,
      Replied
<1> QED BY <1>1, <1>2, <1>3, <1>4, <1>5, <1>6, <1>7 DEF IInv

LEMMA OwnCopyCellInv ==
  ASSUME IInv, Apart, Own!CopyCell("client"),
         UNCHANGED <<region, key, made, attached, earlier, isBackend, tokens, Connection>>
  PROVE  IInv'
<1>0. PICK c \in todo["client"] : /\ buf' = [buf EXCEPT !["client"] = [@ EXCEPT ![c] = own[c]]]
                             /\ todo' = [todo EXCEPT !["client"] = @ \ {c}]
  BY DEF Own!CopyCell, Own!Touches
<1>1. TypeOK'
  BY <1>0
  DEF Own!CopyCell, Own!Counters, Own!Options, segments, Connection, IInv, TypeOK,
      TTypeOK, XTypeOK, Procs
<1>2. SegmentInv' /\ ConnectionInv'
  BY Numbers, <1>0
  DEF Own!CopyCell, Own!Touches, Own!Counters, Own!Options, Touches, Options,
      Counters, Connection, IInv, TypeOK, TTypeOK, XTypeOK, Procs, SegmentInv,
      ConnectionInv, Begun, ClientGreeted
<1>3. TokenInv' /\ CountInv'
  BY Numbers, <1>0
  DEF Own!CopyCell, Own!Touches, Own!Counters, Own!Options, Touches, Options,
      Counters, Connection, IInv, TypeOK, TTypeOK, XTypeOK, Procs, TokenInv, OneToken,
      Tokens, Held, Holds, Begun, CountInv, ServerWorking, ServerWaiting,
      ConnectionInv, ServerLabels, ClientLabels, Replied, ClientGreeted
<1>4. RegionInv'
  BY Numbers, <1>0
  DEF Own!CopyCell, Own!Touches, Own!Counters, Own!Options, Touches, Options,
      Counters, Connection, IInv, TypeOK, TTypeOK, XTypeOK, Procs, RegionInv,
      CountInv, ConnectionInv, TokenInv, OneToken, Tokens, Held, Begun, Holds,
      ServerWorking, ServerWaiting, Apart, ClientFilling, ClientGreeted, Uniform, STC,
      CTS, Zero, Replied
<1>5. OwnInv'
  BY Numbers, <1>0
  DEF Own!CopyCell, Own!Touches, Own!Counters, Own!Options, Touches, Options,
      Counters, Connection, IInv, TypeOK, TTypeOK, XTypeOK, Procs, OwnInv, CountInv,
      ConnectionInv, TokenInv, OneToken, Tokens, Held, Begun, Holds, ServerWaiting,
      Apart, ClientFilling, ClientGreeted, Uniform, STC, CTS, Zero, Replied
<1>6. BufInv'
  BY Numbers, <1>0
  DEF Own!CopyCell, Own!Touches, Own!Counters, Own!Options, Touches, Options,
      Counters, Connection, IInv, TypeOK, TTypeOK, XTypeOK, Procs, BufInv, CopiesOwn,
      CopiesDue, RegionInv, OwnInv, CountInv, ConnectionInv, TokenInv, OneToken,
      Tokens, Held, Begun, Holds, ServerWorking, ServerWaiting, Apart, ClientFilling,
      ClientGreeted, Uniform, STC, CTS, Zero, Replied
<1>7. RejectInv'
  BY Numbers, <1>0
  DEF Own!CopyCell, Own!Touches, Own!Counters, Own!Options, Touches, Options,
      Counters, Connection, IInv, TypeOK, TTypeOK, XTypeOK, Procs, RejectInv, OwnInv,
      BufInv, RegionInv, CountInv, ConnectionInv, TokenInv, OneToken, Tokens, Held,
      Begun, Holds, ServerWorking, ServerWaiting, Apart, ClientFilling, ClientGreeted,
      Uniform, STC, CTS, Zero, Replied
<1> QED BY <1>1, <1>2, <1>3, <1>4, <1>5, <1>6, <1>7 DEF IInv

LEMMA ClientEndsCopyInv ==
  ASSUME IInv, ClientEndsCopy, UNCHANGED <<segments, tokens, Connection>>
  PROVE  IInv'
<1>0. /\ pc["client"] = "copy" /\ ServerWaiting /\ todo["client"] = {}
      /\ UNCHANGED <<region, buf, message, left, skew, count, isDebug, attached>>
      /\ pc' = [pc EXCEPT !["client"] = IF Rejects("client") THEN "mismatch" ELSE "fill"]
  <2>1. pc["client"] = "copy"
    BY DEF ClientEndsCopy, Goes
  <2>2. ServerWaiting
    BY <2>1, Holding DEF Holds
  <2> QED BY <2>1, <2>2 DEF ClientEndsCopy, Goes, Counters, Options, segments
<1>1. TypeOK'
  BY CountsAssumption, <1>0
  DEF ClientEndsCopy, Rejects, Incoming, Goes, Starts, Options, Counters, segments,
      Connection, IInv, TypeOK, TTypeOK, XTypeOK, Procs, ServerLabels, ClientLabels
<1>2. SegmentInv'
  BY Numbers, <1>0
  DEF ClientEndsCopy, Rejects, Incoming, Goes, Starts, Options, Counters, segments,
      Connection, IInv, TypeOK, TTypeOK, XTypeOK, Procs, SegmentInv
<1>3. ConnectionInv'
  BY Numbers, <1>0
  DEF ClientEndsCopy, Rejects, Incoming, Goes, Starts, Options, Counters, segments,
      Connection, IInv, TypeOK, TTypeOK, XTypeOK, Procs, ConnectionInv, Begun,
      ClientGreeted
<1>4. TokenInv'
  BY Numbers, <1>0
  DEF ClientEndsCopy, Rejects, Incoming, Goes, Starts, Options, Counters, segments,
      Connection, IInv, TypeOK, TTypeOK, XTypeOK, Procs, TokenInv, OneToken, Tokens,
      Held, Holds, Begun, CountInv, ServerWorking, ServerWaiting, ConnectionInv,
      ServerLabels, ClientLabels
<1>5. CountInv'
  BY Numbers, <1>0
  DEF ClientEndsCopy, Rejects, Incoming, Goes, Starts, Options, Counters, segments,
      Connection, IInv, TypeOK, TTypeOK, XTypeOK, Procs, CountInv, TokenInv, OneToken,
      Tokens, Held, Holds, ConnectionInv, Begun, ServerWorking, ServerWaiting,
      Replied, ClientGreeted, ServerLabels, ClientLabels
<1>6. RegionInv'
  BY Numbers, <1>0
  DEF ClientEndsCopy, Rejects, Incoming, Goes, Starts, Options, Counters, segments,
      Connection, IInv, TypeOK, TTypeOK, XTypeOK, Procs, RegionInv, CountInv,
      ConnectionInv, TokenInv, OneToken, Tokens, Held, Begun, Holds, ServerWorking,
      ServerWaiting, Apart, ClientFilling, ClientGreeted, Uniform, STC, CTS, Zero,
      Replied
<1>7. OwnInv'
  BY Numbers, <1>0
  DEF ClientEndsCopy, Rejects, Incoming, Goes, Starts, Options, Counters, segments,
      Connection, IInv, TypeOK, TTypeOK, XTypeOK, Procs, OwnInv, CountInv,
      ConnectionInv, TokenInv, OneToken, Tokens, Held, Begun, Holds, ServerWaiting,
      Apart, ClientFilling, ClientGreeted, Uniform, STC, CTS, Zero, Replied
<1>8. BufInv'
  <2>1. \A c \in Cells : c \in Cells \ todo["client"]
    BY <1>0
  <2>2. CASE Apart
    BY <1>0, <2>1, <2>2
    DEF IInv, TypeOK, TTypeOK, XTypeOK, Procs, BufInv, CopiesOwn, Apart, Replied,
        Uniform, ServerWaiting
  <2>3. CASE ~Apart
    BY <1>0, <2>1, <2>3
    DEF IInv, TypeOK, TTypeOK, XTypeOK, Procs, BufInv, CopiesDue, Apart, Replied,
        Uniform, ServerWaiting
  <2> QED BY <2>2, <2>3
<1>9. RejectInv'
  BY CountsAssumption, SizeAssumption
  DEF ClientEndsCopy, Rejects, Incoming, IInv, TypeOK, TTypeOK, XTypeOK, SegmentInv,
      ConnectionInv, TokenInv, CountInv, RegionInv, OwnInv, BufInv, RejectInv,
      CopiesOwn, CopiesDue, OneToken, Tokens, Held, Holds, Begun, Apart,
      ServerWorking, ServerWaiting, ClientFilling, ClientGreeted, Replied, Procs,
      Goes, Starts, Touches, Options, Counters, Uniform, Words, Bytes, Zero, STC, CTS,
      ServerLabels, ClientLabels, Peer, segments, Connection, tvars, xvars
<1> QED BY <1>1, <1>2, <1>3, <1>4, <1>5, <1>6, <1>7, <1>8, <1>9 DEF IInv

LEMMA FailsInv ==
  ASSUME NEW p \in Procs, IInv, Fails(p), UNCHANGED Connection
  PROVE  IInv'
<1>1. TypeOK'
  BY CountsAssumption
  DEF Fails, SetupFails, Goes, Options, Counters, segments, Connection, IInv, TypeOK,
      TTypeOK, XTypeOK, Procs, ServerLabels, ClientLabels
<1>2. SegmentInv'
  BY
  DEF Fails, SetupFails, Goes, segments, IInv, TypeOK, TTypeOK, XTypeOK, Procs,
      SegmentInv
<1>3. ConnectionInv'
  BY Numbers
  DEF Fails, SetupFails, Goes, Options, Counters, segments, Connection, IInv, TypeOK,
      TTypeOK, XTypeOK, Procs, ConnectionInv, Begun, ClientGreeted
<1>4. TokenInv'
  BY Numbers
  DEF Fails, SetupFails, Goes, Options, Counters, segments, Connection, IInv, TypeOK,
      TTypeOK, XTypeOK, Procs, TokenInv, OneToken, Tokens, Held, Holds, Begun,
      CountInv, ServerWorking, ServerWaiting, ConnectionInv, ServerLabels,
      ClientLabels
<1>5. CountInv'
  BY Numbers
  DEF Fails, SetupFails, Goes, Options, Counters, segments, Connection, IInv, TypeOK,
      TTypeOK, XTypeOK, Procs, CountInv, TokenInv, OneToken, Tokens, Held, Holds,
      ConnectionInv, Begun, ServerWorking, ServerWaiting, Replied, ClientGreeted,
      ServerLabels, ClientLabels
<1>6. RegionInv'
  <2>1. UNCHANGED <<region, todo, message, left, count, attached, tokens>>
    BY DEF Fails, Counters, Options, segments
  <2>2. /\ pc'["server"] \in {pc["server"], "exited"}
        /\ pc'["client"] \in {pc["client"], "exited"}
    BY DEF Fails, SetupFails, Goes, IInv, TypeOK, TTypeOK, XTypeOK, Procs
  <2>3. (Apart' <=> Apart) /\ Replied' = Replied
    BY <2>1 DEF Apart, Replied
  <2>4. /\ ServerWaiting' => ServerWaiting
        /\ ClientFilling' <=> ClientFilling
    BY <2>2 DEF ServerWaiting, ClientFilling, Fails, SetupFails, Goes, IInv, TypeOK, TTypeOK, XTypeOK, Procs
  <2> QED BY <2>1, <2>2, <2>3, <2>4 DEF IInv, RegionInv
<1>7. OwnInv'
  BY Numbers
  DEF Fails, SetupFails, Goes, Options, Counters, segments, Connection, IInv, TypeOK,
      TTypeOK, XTypeOK, Procs, OwnInv, CountInv, ConnectionInv, TokenInv, OneToken,
      Tokens, Held, Begun, Holds, ServerWaiting, Apart, ClientFilling, ClientGreeted,
      Uniform, STC, CTS, Zero, Replied
<1>8. BufInv'
  BY CountsAssumption, SizeAssumption
  DEF Fails, SetupFails, IInv, TypeOK, TTypeOK, XTypeOK, SegmentInv, ConnectionInv,
      TokenInv, CountInv, RegionInv, OwnInv, BufInv, RejectInv, CopiesOwn, CopiesDue,
      OneToken, Tokens, Held, Holds, Begun, Apart, ServerWorking, ServerWaiting,
      ClientFilling, ClientGreeted, Replied, Procs, Goes, Starts, Touches, Options,
      Counters, Uniform, Words, Bytes, Zero, STC, CTS, ServerLabels, ClientLabels,
      Peer, segments, Connection, tvars, xvars
<1>9. RejectInv'
  BY CountsAssumption, SizeAssumption
  DEF Fails, SetupFails, IInv, TypeOK, TTypeOK, XTypeOK, SegmentInv, ConnectionInv,
      TokenInv, CountInv, RegionInv, OwnInv, BufInv, RejectInv, CopiesOwn, CopiesDue,
      OneToken, Tokens, Held, Holds, Begun, Apart, ServerWorking, ServerWaiting,
      ClientFilling, ClientGreeted, Replied, Procs, Goes, Starts, Touches, Options,
      Counters, Uniform, Words, Bytes, Zero, STC, CTS, ServerLabels, ClientLabels,
      Peer, segments, Connection, tvars, xvars
<1> QED BY <1>1, <1>2, <1>3, <1>4, <1>5, <1>6, <1>7, <1>8, <1>9 DEF IInv

LEMMA EarlierRemovesInv ==
  ASSUME IInv, EarlierRemoves, UNCHANGED Connection
  PROVE  IInv'
<1>1. TypeOK'
  <2>1. XTypeOK'
    BY DEF EarlierRemoves, xvars, IInv, TypeOK, TTypeOK, XTypeOK
  <2>2. made' = made /\ key' = 0 /\ 0 \in 0 .. made
    BY DEF EarlierRemoves, IInv, TypeOK, TTypeOK
  <2> QED BY <2>1, <2>2 DEF EarlierRemoves, xvars, Connection, IInv, TypeOK, TTypeOK
<1>2. SegmentInv' /\ ConnectionInv'
  BY Numbers
  DEF EarlierRemoves, Connection, xvars, IInv, TypeOK, TTypeOK, XTypeOK, Procs,
      SegmentInv, ConnectionInv, Begun, ClientGreeted
<1>3. TokenInv' /\ CountInv'
  BY Numbers
  DEF EarlierRemoves, Connection, xvars, IInv, TypeOK, TTypeOK, XTypeOK, Procs,
      TokenInv, OneToken, Tokens, Held, Holds, Begun, CountInv, ServerWorking,
      ServerWaiting, ConnectionInv, ServerLabels, ClientLabels, Replied, ClientGreeted
<1>4. RegionInv' /\ OwnInv' /\ BufInv' /\ RejectInv'
  BY Numbers
  DEF EarlierRemoves, Connection, xvars, IInv, TypeOK, TTypeOK, XTypeOK, Procs,
      RegionInv, CountInv, ConnectionInv, TokenInv, OneToken, Tokens, Held, Begun,
      Holds, ServerWorking, ServerWaiting, Apart, ClientFilling, ClientGreeted,
      Uniform, STC, CTS, Zero, Replied, OwnInv, BufInv, CopiesOwn, CopiesDue,
      RejectInv
<1> QED BY <1>1, <1>2, <1>3, <1>4 DEF IInv
---------------------------------------------------------------------------
LEMMA ClientMemoryInv ==
  ASSUME IInv, ClientMemory, UNCHANGED <<key, made, attached, earlier, isBackend, tokens, Connection>>
  PROVE  IInv'
<1>1. CASE ~Apart /\ MemoryStep("client") /\ UNCHANGED own
  <2>1. UNCHANGED <<segments, tokens, Connection>>
    BY <1>1 DEF segments
  <2> QED BY <1>1, <2>1, ClientFillCellInv, ClientStartCheckInv, ClientCheckCellInv, ClientCopyCellInv
          DEF MemoryStep
<1>2. CASE Apart /\ Own!MemoryStep("client") /\ UNCHANGED region
  <2>1. UNCHANGED <<region, key, made, attached, earlier, isBackend, tokens, Connection>>
    BY <1>2
  <2> QED BY <1>2, <2>1, OwnFillCellInv, OwnStartCheckInv, OwnCheckCellInv, OwnCopyCellInv
          DEF Own!MemoryStep
<1> QED BY <1>1, <1>2 DEF ClientMemory

LEMMA NextInv ==
  ASSUME IInv, [Next]_vars
  PROVE  IInv'
<1>1. CASE ServerStep
  <2>1. CASE ServerWorks /\ UNCHANGED Connection
    <3>1. UNCHANGED <<segments, tokens, Connection>>
      BY <2>1 DEF ServerWorks
    <3> QED BY <2>1, <3>1, ServerFillCellInv, ServerStartCheckInv, ServerCheckCellInv,
               ServerCopyCellInv, ServerEndsCopyInv, ServerEvaluatesInv
            DEF ServerWorks, MemoryStep
  <2> QED
    BY <1>1, <2>1, ServerListensInv, ServerAcceptsInv, ServerStartsInv, ServerNotifiesInv,
       ServerWaitsInv, DiesInv, ServerRemovesInv
    DEF ServerStep, Reset, Procs
<1>2. CASE ClientStep
  <2>1. CASE ClientWorks /\ UNCHANGED Connection
    <3>1. UNCHANGED <<key, made, attached, earlier, isBackend, tokens, Connection>>
      BY <2>1 DEF ClientWorks
    <3>2. CASE ClientEndsCopy /\ UNCHANGED own
      <4>1. UNCHANGED <<segments, tokens, Connection>>
        BY <3>1, <3>2 DEF segments
      <4> QED BY <3>2, <4>1, ClientEndsCopyInv
    <3> QED BY <2>1, <3>1, <3>2, ClientMemoryInv DEF ClientWorks
  <2> QED
    BY <1>2, <2>1, ClientConnectsInv, ClientStartsInv, ClientNotifiesInv, ClientWaitsInv,
       AgainInv, SwallowsInv, DiesInv
    DEF ClientStep, Strays, Reset, Procs
<1>3. CASE UNCHANGED vars
  BY <1>3
  DEF vars, tvars, xvars, segments, IInv, TypeOK, TTypeOK, XTypeOK, SegmentInv,
      ConnectionInv, TokenInv, CountInv, RegionInv, OwnInv, BufInv, RejectInv,
      CopiesOwn, CopiesDue, OneToken, Tokens, Held, Holds, Begun, Apart,
      ServerWorking, ServerWaiting, ClientFilling, ClientGreeted, Replied
<1> QED BY <1>1, <1>2, <1>3, LaunchInv, FailsInv, EarlierRemovesInv DEF Next

(* The strengthened invariant: segments, connection, token, counts and the  *)
(* contents of the memory fit together in every reachable state.            *)
THEOREM Invariant == Spec => []IInv
BY InitInv, NextInv, PTL DEF Spec

(* Every variable keeps its type.                                           *)
THEOREM TypeCorrect == Spec => []TypeOK
<1>1. IInv => TypeOK
  BY DEF IInv
<1> QED BY <1>1, Invariant, PTL

(* The byte on the connection is the one token.                             *)
THEOREM OneTokenAlways == Spec => []OneToken
<1>1. IInv => OneToken
  BY DEF IInv, TokenInv
<1> QED BY <1>1, Invariant, PTL

(* In one segment every copy is the one that is due, in two it is of the    *)
(* process's own bytes, and -D finds out.                                   *)
THEOREM Agreed == Spec => []Agreement
<1>1. IInv => SharedIfNew
  <2> SUFFICES ASSUME IInv, \A p \in Procs : attached[p] > 1 PROVE ~Apart
    BY DEF SharedIfNew
  <2>1. \A p \in Procs : attached[p] \in 0 .. made /\ made \in {1, 2}
    BY DEF IInv, TypeOK, TTypeOK, SegmentInv
  <2>2. \A p \in Procs : attached[p] = 2
    BY <2>1
  <2> QED BY <2>2 DEF Apart, Procs
<1>2. IInv => Accepted
  BY DEF IInv, ConnectionInv, RejectInv, Accepted, Procs
<1>3. IInv => Agreement
  BY <1>1, <1>2 DEF IInv, BufInv, RejectInv, Agreement
<1> QED BY <1>3, Invariant, PTL
---------------------------------------------------------------------------
LEMMA RefinesInit == Init => P!Init
BY CountsAssumption DEF Init, TInit, XInit, P!Init, Sent, Taken, Replied, Begun, Procs

(* A step that leaves the counts, the server's class of labels and the      *)
(* client's alone is none of PingPong.                                      *)
Unanswered == pc["server"] \in {"wait", "copy", "mismatch", "broken"}

LEMMA Stutters ==
  ASSUME UNCHANGED <<message, left, count>>, Begun' <=> Begun, Unanswered' <=> Unanswered,
         Holds("client")' <=> Holds("client")
  PROVE  UNCHANGED P!vars
BY DEF P!vars, Sent, Taken, Replied, Unanswered, Holds

(* The same for a step of one process.                                      *)
LEMMA Moves ==
  ASSUME IInv, UNCHANGED <<message, left, count>>,
         NEW p \in Procs, NEW from, NEW to, pc[p] = from, pc' = [pc EXCEPT ![p] = to],
         \/ from \in {"off", "meet"} /\ to \in {"meet", "exited"}
         \/ from \in {"off", "hello"} /\ to \in {"hello", "wait", "done", "exited"} /\ p = "client"
         \/ from \in {"fill", "check", "evaluate"} /\ p = "server"
              /\ to \in {"check", "torn", "done", "aborted"}
         \/ from = "wait" /\ to = "broken"
         \/ from \in {"wait", "copy"} /\ to \in {"copy", "mismatch"} /\ p = "server"
         \/ from \in {"copy", "fill", "check"} /\ to \in {"fill", "check", "mismatch", "torn"}
              /\ p = "client"
  PROVE  UNCHANGED P!vars
<1>1. pc \in [Procs -> ServerLabels \cup ClientLabels]
  BY DEF IInv, TypeOK, TTypeOK, XTypeOK
<1>2. pc'[p] = to /\ \A q \in Procs \ {p} : pc'[q] = pc[q]
  BY <1>1
<1>3. CASE p = "server"
  BY <1>2, <1>3, Stutters DEF Begun, Unanswered, Holds, Procs
<1>4. CASE p = "client"
  BY <1>2, <1>4, Stutters DEF Begun, Unanswered, Holds, Procs
<1> QED BY <1>3, <1>4 DEF Procs

LEMMA MemoryStutters ==
  ASSUME IInv, NEW p \in Procs, MemoryStep(p) \/ Own!MemoryStep(p)
  PROVE  UNCHANGED P!vars
<1>1. UNCHANGED <<message, left, count>>
  BY
  DEF MemoryStep, FillCell, StartCheck, CheckCell, CopyCell, Counters, Options,
      Own!MemoryStep, Own!FillCell, Own!StartCheck, Own!CheckCell, Own!CopyCell,
      Own!Counters, Own!Options
<1>2. \/ UNCHANGED pc
      \/ pc[p] = "fill" /\ pc' = [pc EXCEPT ![p] = "check"]
      \/ pc[p] = "check" /\ pc' = [pc EXCEPT ![p] = "torn"]
  BY DEF MemoryStep, FillCell, StartCheck, CheckCell, CopyCell, Goes, Own!MemoryStep,
         Own!FillCell, Own!StartCheck, Own!CheckCell, Own!CopyCell, Own!Goes
<1>3. CASE UNCHANGED pc
  BY <1>1, <1>3, Stutters DEF Begun, Unanswered, Holds
<1>4. CASE pc[p] = "fill" /\ pc' = [pc EXCEPT ![p] = "check"]
  BY <1>1, <1>4, Moves DEF Procs
<1>5. CASE pc[p] = "check" /\ pc' = [pc EXCEPT ![p] = "torn"]
  BY <1>1, <1>5, Moves DEF Procs
<1> QED BY <1>2, <1>3, <1>4, <1>5

LEMMA ServerRefines ==
  ASSUME IInv, ServerStep
  PROVE  [P!Next]_P!vars
<1>0. /\ Replied \in Int /\ message \in Nat /\ "server" \in Procs
      /\ pc \in [Procs -> ServerLabels \cup ClientLabels]
  BY Numbers DEF IInv, TypeOK, TTypeOK, XTypeOK
<1>1. CASE ServerListens \/ ServerAccepts \/ ServerRemoves
  BY <1>1, Stutters
  DEF ServerListens, ServerAccepts, ServerRemoves, tvars, xvars, Begun, Unanswered, Holds
<1>2. CASE ServerStarts
  <2>1. /\ UNCHANGED <<left, count>> /\ message' = 0 /\ pc["server"] = "meet"
        /\ \E to \in {"fill", "evaluate"} : pc' = [pc EXCEPT !["server"] = to]
    BY <1>2 DEF ServerStarts, ServerBegins, ServerLoop, Goes, Options
  <2>2. message = 0
    BY <2>1 DEF IInv, CountInv, Begun
  <2> QED BY <1>0, <2>1, <2>2 DEF P!Next, P!Meet, P!Met, Begun, Sent, Taken, Replied
<1>3. CASE ServerNotifies
  <2>1. /\ UNCHANGED <<message, left, count>> /\ pc["server"] \in {"fill", "check"}
        /\ pc' = [pc EXCEPT !["server"] = "wait"]
    BY <1>3 DEF ServerNotifies, ServerPasses, Ready, Counters, Options
  <2>2. Replied = message
    BY <2>1 DEF IInv, CountInv, ServerWorking
  <2> QED BY <1>0, <2>1, <2>2 DEF P!Next, P!Send, P!Met, Begun, Sent, Taken, Replied
<1>4. CASE ServerWaits
  <2>1. /\ UNCHANGED <<message, left, count>> /\ pc["server"] = "wait"
        /\ pc' = [pc EXCEPT !["server"] = "copy"]
    BY <1>4 DEF ServerWaits, Copies, Goes, Counters, Options
  <2> QED BY <1>0, <2>1, Moves
<1>5. CASE Reset("server")
  <2>1. /\ UNCHANGED <<message, left, count>> /\ pc["server"] = "wait"
        /\ pc' = [pc EXCEPT !["server"] = "broken"]
    BY <1>5 DEF Reset, Dies, Goes, Counters, Options
  <2> QED BY <1>0, <2>1, Moves
<1>6. CASE MemoryStep("server")
  BY <1>0, <1>6, MemoryStutters
<1>7. CASE ServerEndsCopy
  <2>1. CASE Rejects("server")
    <3>1. /\ UNCHANGED <<message, left, count>> /\ pc["server"] = "copy"
          /\ pc' = [pc EXCEPT !["server"] = "mismatch"]
      BY <1>7, <2>1 DEF ServerEndsCopy, Goes, Options
    <3> QED BY <1>0, <3>1, Moves
  <2>2. CASE ~Rejects("server")
    <3>1. /\ UNCHANGED <<left, count>> /\ pc["server"] = "copy" /\ message' = message + 1
          /\ \E to \in {"fill", "evaluate"} : pc' = [pc EXCEPT !["server"] = to]
      BY <1>7, <2>2 DEF ServerEndsCopy, ServerLoop, Goes, Options
    <3>2. Replied = message + 1
      BY <3>1 DEF IInv, CountInv
    <3> QED BY <1>0, <3>1, <3>2 DEF P!Next, P!Get, P!Met, Begun, Sent, Taken, Replied
  <2> QED BY <2>1, <2>2
<1>8. CASE ServerEvaluates
  <2>1. /\ UNCHANGED <<message, left, count>> /\ pc["server"] = "evaluate"
        /\ pc' = [pc EXCEPT !["server"] = IF count["server"] > 0 THEN "done" ELSE "aborted"]
    BY <1>8 DEF ServerEvaluates, Goes, Counters, Options
  <2> QED BY <1>0, <2>1, Moves
<1> QED BY ServerStep, <1>1, <1>2, <1>3, <1>4, <1>5, <1>6, <1>7, <1>8
    DEF ServerStep, ServerWorks

LEMMA ClientRefines ==
  ASSUME IInv, ClientStep
  PROVE  [P!Next]_P!vars
<1>0. /\ left \in Int /\ count["client"] \in Int /\ Replied \in Int /\ message \in Nat
      /\ "client" \in Procs /\ pc \in [Procs -> ServerLabels \cup ClientLabels]
  BY Numbers DEF IInv, TypeOK, TTypeOK, XTypeOK
<1>1. CASE ClientConnects \/ Again \/ Swallows
  BY <1>1, Stutters
  DEF ClientConnects, Again, Swallows, tvars, xvars, Begun, Unanswered, Holds
<1>2. CASE ClientStarts
  <2>1. /\ UNCHANGED <<message, count>> /\ left' = count["client"] /\ pc["client"] = "hello"
        /\ pc' = [pc EXCEPT !["client"] = IF count["client"] > 0 THEN "wait" ELSE "done"]
    BY <1>2 DEF ClientStarts, ClientBegins, ClientLoop, Goes, Options
  <2>2. left = count["client"]
    BY <1>0, <2>1 DEF IInv, CountInv, ClientGreeted, Replied
  <2> QED BY <1>0, <2>1, <2>2, Moves
<1>3. CASE ClientNotifies
  <2>1. /\ UNCHANGED <<message, count>> /\ left' = left - 1 /\ pc["client"] \in {"fill", "check"}
        /\ \E to \in {"wait", "done"} : pc' = [pc EXCEPT !["client"] = to]
    BY <1>3 DEF ClientNotifies, ClientPasses, ClientLoop, Ready, Goes, Options
  <2>2. Begun
    BY <2>1, Holding DEF Holds
  <2> QED BY <1>0, <2>1, <2>2 DEF P!Next, P!Reply, P!Met, Begun, Sent, Taken, Replied
<1>4. CASE ClientWaits
  <2>1. /\ UNCHANGED <<message, left, count>> /\ pc["client"] = "wait" /\ tokens["client"] > 0
        /\ pc' = [pc EXCEPT !["client"] = "copy"]
    BY <1>4 DEF ClientWaits, Copies, Takes, Goes, Counters, Options
  <2>2. Begun /\ ServerWaiting /\ tokens["server"] = 0
    BY <2>1, Holding
  <2>3. Replied = message
    BY <1>0, <2>2 DEF IInv, CountInv
  <2> QED BY <1>0, <2>1, <2>2, <2>3
          DEF P!Next, P!Take, P!Met, Begun, Sent, Taken, Replied, ServerWaiting
<1>5. CASE Strays \/ Reset("client")
  <2>1. /\ UNCHANGED <<message, left, count>> /\ pc["client"] = "wait"
        /\ pc' = [pc EXCEPT !["client"] = "broken"]
    BY <1>5 DEF Strays, Reset, Dies, Goes, Counters, Options
  <2> QED BY <1>0, <2>1, Moves
<1>6. CASE ClientMemory
  BY <1>0, <1>6, MemoryStutters DEF ClientMemory
<1>7. CASE ClientEndsCopy
  <2>1. /\ UNCHANGED <<message, left, count>> /\ pc["client"] = "copy"
        /\ pc' = [pc EXCEPT !["client"] = IF Rejects("client") THEN "mismatch" ELSE "fill"]
    BY <1>7 DEF ClientEndsCopy, Goes, Counters, Options
  <2> QED BY <1>0, <2>1, Moves
<1> QED BY ClientStep, <1>1, <1>2, <1>3, <1>4, <1>5, <1>6, <1>7
    DEF ClientStep, ClientWorks

LEMMA RefinesNext == IInv /\ [Next]_vars => [P!Next]_P!vars
<1> SUFFICES ASSUME IInv, [Next]_vars PROVE [P!Next]_P!vars
  OBVIOUS
<1>1. ASSUME NEW p \in Procs, Launch(p) \/ Fails(p) PROVE UNCHANGED P!vars
  <2>1. UNCHANGED <<message, left, count>>
    BY <1>1 DEF Launch, Attach, Fails, Counters, Options
  <2>2. CASE Launch(p)
    BY <1>1, <2>1, <2>2, Moves DEF Launch, Attach, Goes, Procs
  <2>3. CASE Fails(p)
    BY <1>1, <2>1, <2>3, Moves DEF Fails, SetupFails, Goes, Procs
  <2> QED BY <1>1, <2>2, <2>3
<1>2. CASE EarlierRemoves \/ UNCHANGED vars
  BY <1>2, Stutters DEF EarlierRemoves, vars, tvars, xvars, Begun, Unanswered, Holds
<1> QED BY <1>1, <1>2, ServerRefines, ClientRefines DEF Next

(* One byte each way implements the alternation that PingPong specifies.    *)
THEOREM Implements == Spec => PingPongSpec
<1>1. Init => P!Init
  BY RefinesInit
<1>2. IInv /\ [Next]_vars => [P!Next]_P!vars
  BY RefinesNext
<1> QED BY <1>1, <1>2, Invariant, PTL DEF Spec, PingPongSpec, P!Spec
===========================================================================
