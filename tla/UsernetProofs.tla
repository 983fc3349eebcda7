--------------------------- MODULE UsernetProofs --------------------------
(* What Usernet.tla's run shows on small regions, for every region, every   *)
(* -c and any number of interrupts that an earlier run left.                *)
EXTENDS Usernet, TLAPS

ServerActive == pc["server"] \in {"fill", "check", "copy"}
ServerEnded == pc["server"] \in {"evaluate", "done", "aborted"}
ClientActive == pc["client"] \in {"copy", "fill", "check"}
Connected == port["server"] = "connected"

(* Who has the token, and who may still get it.                             *)
Due(p) == coming[p] + pending[p]
Part(b) == IF b THEN 1 ELSE 0
Total == Due("server") + Due("client") + Part(ClientActive)
           + Part(ServerActive \/ ServerEnded \/ pc["server"] = "exited")

(* How far the ports are, as the labels tell it.                            *)
PortInv ==
    /\ pc["server"] \notin {"torn", "mismatch", "broken"}
    /\ pc["client"] \notin {"torn", "mismatch", "broken"}
    /\ pc["server"] \in {"off", "clear"} => ~Connected
    /\ pc["server"] \notin {"off", "clear", "exited"} => Connected
    /\ \A p \in Procs : pc[p] = "off" => port[p] = "closed"
    /\ port["server"] # "closed" /\ pc["server"] = "clear" => todo["server"] = {}
    /\ ClientGreeted => port["client"] = "connected"

(* Before the client has greeted nothing is on its way, and what an earlier *)
(* run left is gone from a port that was cleared.                           *)
BeforeInv ==
    ~ClientGreeted =>
        /\ pc["server"] \in {"off", "exited", "clear", "meet"}
        /\ pc["server"] = "exited" => ~Connected
        /\ coming = [p \in Procs |-> 0]
        /\ \A p \in Procs : port[p] \in {"cleared", "connected"} => pending[p] = 0
        /\ skew = 0

(* When it has, its greeting is the one token, unless the server clears it  *)
(* away.                                                                    *)
EarlyInv ==
    ClientGreeted /\ ~Connected =>
        /\ pc["client"] \in {"wait", "done"}
        /\ coming["server"] <= 1 /\ Due("client") = 0
        /\ port["server"] # "cleared" => skew = 0
        /\ port["server"] = "cleared" => Due("server") <= 1
        /\ port["server"] = "cleared" /\ skew = 0 /\ pc["server"] = "clear" => Due("server") = 1

TurnInv ==
    ClientGreeted /\ Connected =>
        /\ Total <= 1
        /\ Total = 0 /\ skew = 0 => pc["client"] = "done"
        /\ ClientActive \/ Due("client") > 0 => pc["server"] = "wait"

(* How many rounds each side has counted.                                   *)
CountInv ==
    /\ pc["server"] \in {"off", "clear", "meet"} \/ ~Connected => message = 0 /\ Replied = 0
    /\ ServerActive \/ ServerEnded => Replied = message + Part(pc["server"] = "copy")
    /\ pc["server"] = "wait" => Replied = message + Due("server")

(* What the region holds, and what of it has been copied.                   *)
RegionInv ==
    /\ pc["server"] = "fill" => \A c \in Cells \ todo["server"] : region[c] = STC(message + 1)
    /\ pc["server"] = "check" => region = Uniform(STC(message + 1))
    /\ pc["server"] = "wait" /\ Due("server") = 0 /\ pc["client"] \notin {"fill", "check"}
         => region = Uniform(STC(message + 1))
    /\ pc["client"] = "fill" => \A c \in Cells \ todo["client"] : region[c] = CTS(Replied + 1)
    /\ pc["client"] = "check" => region = Uniform(CTS(Replied + 1))
    /\ (pc["server"] = "wait" /\ Due("server") = 1) \/ pc["server"] = "copy"
         => region = Uniform(CTS(Replied))

BufInv ==
    /\ pc["client"] = "copy" => \A c \in Cells \ todo["client"] : buf["client"][c] = STC(Replied + 1)
    /\ pc["server"] = "copy" => \A c \in Cells \ todo["server"] : buf["server"][c] = CTS(Replied)
    /\ Agreement

IInv == TypeOK /\ PortInv /\ BeforeInv /\ EarlyInv /\ TurnInv /\ CountInv /\ RegionInv /\ BufInv
---------------------------------------------------------------------------
(* The numbers in the invariant.                                            *)
LEMMA Numbers ==
  ASSUME TypeOK
  PROVE  /\ left \in Int /\ count["client"] \in Int /\ message \in Nat /\ Replied \in Int
         /\ \A p \in Procs : coming[p] \in Nat /\ pending[p] \in Nat /\ Due(p) \in Nat
         /\ "server" \in Procs /\ "client" \in Procs
<1>1. "server" \in Procs /\ "client" \in Procs
  BY DEF Procs
<1>2. left \in Int /\ count["client"] \in Int /\ message \in Nat
  BY <1>1, CountsAssumption DEF TypeOK, XTypeOK
<1>3. \A p \in Procs : coming[p] \in Nat /\ pending[p] \in Nat
  BY DEF TypeOK
<1> QED BY <1>1, <1>2, <1>3 DEF Replied, Due

(* Where the one token is.                                                  *)
LEMMA Holding ==
  ASSUME IInv
  PROVE  /\ ServerActive \/ ServerEnded \/ pc["server"] = "wait" => ClientGreeted /\ Connected
         /\ ServerActive \/ ServerEnded => Due("server") = 0 /\ Due("client") = 0 /\ ~ClientActive
         /\ pc["server"] = "wait" /\ Due("server") > 0
              => Due("server") = 1 /\ Due("client") = 0 /\ ~ClientActive
         /\ ClientActive => /\ ClientGreeted /\ Connected /\ pc["server"] = "wait"
                            /\ Due("server") = 0 /\ Due("client") = 0
<1>1. /\ Due("server") \in Nat /\ Due("client") \in Nat
      /\ \A b \in BOOLEAN : Part(b) \in {0, 1}
  BY Numbers DEF IInv, Part
<1>2. ServerActive \/ ServerEnded \/ pc["server"] = "wait" => ClientGreeted /\ Connected
  BY DEF IInv, PortInv, BeforeInv, ServerActive, ServerEnded
<1>3. ClientActive => ClientGreeted /\ Connected /\ pc["server"] = "wait"
  BY DEF IInv, EarlyInv, TurnInv, ClientActive, ClientGreeted
<1>4. ClientGreeted /\ Connected => Total <= 1
  BY DEF IInv, TurnInv
<1> QED BY <1>1, <1>2, <1>3, <1>4 DEF Total, Part

LEMMA InitInv == Init => IInv
BY CountsAssumption
DEF Init, XInit, Leftovers, IInv, TypeOK, XTypeOK, PortInv, BeforeInv, EarlyInv,
    TurnInv, CountInv, RegionInv, BufInv, Agreement, ServerActive, ServerEnded,
    ClientActive, Connected, Due, Part, Total, ClientGreeted, Replied, Procs, Goes,
    Starts, Touches, Options, Counters, Uniform, Words, Bytes, Zero, STC, CTS, Quiet,
    ServerLabels, ClientLabels, Peer

LEMMA ServerLaunchInv ==
  ASSUME IInv, ServerLaunch
  PROVE  IInv'
<1>1. TypeOK'
  BY CountsAssumption
  DEF ServerLaunch, IInv, TypeOK, XTypeOK, Procs, Goes, Starts, Touches, Options,
      Counters, Quiet, ServerLabels, ClientLabels, Peer
<1>2. PortInv'
  BY CountsAssumption
  DEF ServerLaunch, IInv, XTypeOK, PortInv, Connected, ClientGreeted, Procs, Goes,
      Quiet
<1>3. BeforeInv'
  BY CountsAssumption
  DEF ServerLaunch, IInv, TypeOK, XTypeOK, PortInv, BeforeInv, Connected,
      ClientGreeted, Procs, Goes, Starts, Touches, Options, Counters, Quiet, Peer
<1>4. EarlyInv'
  BY CountsAssumption
  DEF ServerLaunch, IInv, TypeOK, XTypeOK, PortInv, BeforeInv, EarlyInv, Connected,
      Due, ClientGreeted, Procs, Goes, Starts, Touches, Options, Counters, Quiet, Peer
<1>5. TurnInv'
  BY CountsAssumption
  DEF ServerLaunch, IInv, TypeOK, XTypeOK, PortInv, BeforeInv, EarlyInv, TurnInv,
      ServerActive, ServerEnded, ClientActive, Connected, Due, Part, Total,
      ClientGreeted, Procs, Goes, Starts, Touches, Options, Counters, Quiet, Peer
<1>6. CountInv'
  BY CountsAssumption
  DEF ServerLaunch, IInv, CountInv, ServerActive, ServerEnded, ClientActive, Replied,
      Goes, Options, Counters
<1>7. RegionInv'
  BY CountsAssumption
  DEF ServerLaunch, IInv, CountInv, RegionInv, Replied, Goes, Starts, Options,
      Counters
<1>8. BufInv'
  BY CountsAssumption
  DEF ServerLaunch, IInv, TypeOK, XTypeOK, PortInv, CountInv, RegionInv, BufInv,
      Agreement, ServerActive, ClientActive, Connected, Replied, Procs, Goes, Starts,
      Touches, Options, Counters, Uniform, STC, CTS, Quiet, Peer
<1> QED BY <1>1, <1>2, <1>3, <1>4, <1>5, <1>6, <1>7, <1>8 DEF IInv

LEMMA ServerClearsInv ==
  ASSUME IInv, ServerClears
  PROVE  IInv'
<1>1. TypeOK'
  BY CountsAssumption
  DEF ServerClears, IInv, TypeOK, XTypeOK, PortInv, BeforeInv, CountInv, Connected,
      ClientGreeted, Replied, Procs, Goes, Starts, Touches, Options, Counters,
      Uniform, Words, Bytes, Zero, STC, CTS, Quiet, ServerLabels, ClientLabels, Peer
<1>2. PortInv' /\ BeforeInv' /\ EarlyInv'
  BY CountsAssumption
  DEF ServerClears, IInv, TypeOK, XTypeOK, PortInv, BeforeInv, EarlyInv, TurnInv,
      CountInv, RegionInv, BufInv, Agreement, ServerActive, ServerEnded, ClientActive,
      Connected, Due, Part, Total, ClientGreeted, Replied, Procs, Goes, Starts,
      Touches, Options, Counters, Uniform, Words, Bytes, Zero, STC, CTS, Quiet,
      ServerLabels, ClientLabels, Peer
<1>3. TurnInv' /\ CountInv'
  BY CountsAssumption
  DEF ServerClears, IInv, TypeOK, XTypeOK, PortInv, BeforeInv, EarlyInv, TurnInv,
      CountInv, RegionInv, BufInv, Agreement, ServerActive, ServerEnded, ClientActive,
      Connected, Due, Part, Total, ClientGreeted, Replied, Procs, Goes, Starts,
      Touches, Options, Counters, Uniform, Words, Bytes, Zero, STC, CTS, Quiet,
      ServerLabels, ClientLabels, Peer
<1>4. RegionInv'
  BY CountsAssumption
  DEF ServerClears, IInv, PortInv, BeforeInv, EarlyInv, RegionInv, Agreement,
      Connected, ClientGreeted
<1>5. BufInv'
  BY CountsAssumption
  DEF ServerClears, IInv, TypeOK, XTypeOK, PortInv, CountInv, RegionInv, BufInv,
      Agreement, ServerActive, ClientActive, Connected, Replied, Procs, Goes, Starts,
      Touches, Options, Counters, Uniform, STC, CTS, Quiet, Peer
<1> QED BY <1>1, <1>2, <1>3, <1>4, <1>5 DEF IInv

LEMMA ResetInv ==
  ASSUME NEW p \in Procs, IInv, Reset(p)
  PROVE  IInv'
<1>1. TypeOK'
  BY CountsAssumption DEF Reset, PortGoes, xvars, IInv, TypeOK, XTypeOK
<1>2. PortInv'
  BY CountsAssumption
  DEF Reset, PortGoes, SettingUp, xvars, IInv, TypeOK, XTypeOK, PortInv, Connected,
      ClientGreeted, Procs, Goes, Starts, Touches, Options, Counters, Quiet, Peer
<1>3. BeforeInv'
  BY CountsAssumption
  DEF Reset, PortGoes, SettingUp, xvars, IInv, TypeOK, XTypeOK, PortInv, BeforeInv,
      Connected, ClientGreeted, Procs, Goes, Starts, Touches, Options, Counters,
      Quiet, Peer
<1>4. EarlyInv'
  BY CountsAssumption
  DEF Reset, PortGoes, SettingUp, xvars, IInv, TypeOK, XTypeOK, PortInv, BeforeInv,
      EarlyInv, Connected, Due, ClientGreeted, Procs, Goes, Starts, Touches, Options,
      Counters, Quiet, Peer
<1>5. TurnInv'
  BY CountsAssumption
  DEF Reset, PortGoes, SettingUp, xvars, TypeOK, XTypeOK, TurnInv, Connected, Part,
      ClientGreeted, Procs
<1>6. CountInv' /\ RegionInv' /\ BufInv'
  BY CountsAssumption
  DEF Reset, PortGoes, SettingUp, xvars, IInv, TypeOK, XTypeOK, PortInv, BeforeInv,
      EarlyInv, TurnInv, CountInv, RegionInv, BufInv, Agreement, ServerActive,
      ServerEnded, ClientActive, Connected, Due, Part, Total, ClientGreeted, Replied,
      Procs, Goes, Starts, Touches, Options, Counters, Uniform, Words, Bytes, Zero,
      STC, CTS, Quiet, ServerLabels, ClientLabels, Peer
<1> QED BY <1>1, <1>2, <1>3, <1>4, <1>5, <1>6 DEF IInv

LEMMA BindInv ==
  ASSUME NEW p \in Procs, IInv, Bind(p)
  PROVE  IInv'
<1>1. TypeOK'
  BY CountsAssumption DEF Bind, PortGoes, xvars, IInv, TypeOK, XTypeOK
<1>2. PortInv'
  BY CountsAssumption
  DEF Bind, PortGoes, SettingUp, xvars, IInv, TypeOK, XTypeOK, PortInv, Connected,
      ClientGreeted, Procs, Goes, Starts, Touches, Options, Counters, Quiet, Peer
<1>3. BeforeInv'
  BY CountsAssumption
  DEF Bind, PortGoes, xvars, IInv, BeforeInv, Connected, ClientGreeted
<1>4. EarlyInv'
  BY CountsAssumption
  DEF Bind, PortGoes, SettingUp, xvars, IInv, TypeOK, XTypeOK, PortInv, BeforeInv,
      EarlyInv, Connected, Due, ClientGreeted, Procs, Goes, Starts, Touches, Options,
      Counters, Quiet, Peer
<1>5. TurnInv'
  BY CountsAssumption
  DEF Bind, PortGoes, SettingUp, xvars, IInv, TypeOK, XTypeOK, PortInv, BeforeInv,
      EarlyInv, TurnInv, ServerActive, ServerEnded, ClientActive, Connected, Due,
      Part, Total, ClientGreeted, Procs, Goes, Starts, Touches, Options, Counters,
      Quiet, Peer
<1>6. CountInv' /\ RegionInv' /\ BufInv'
  BY CountsAssumption
  DEF Bind, PortGoes, SettingUp, xvars, IInv, CountInv, RegionInv, BufInv, Agreement,
      ServerActive, ServerEnded, Connected, Due, Replied
<1> QED BY <1>1, <1>2, <1>3, <1>4, <1>5, <1>6 DEF IInv

LEMMA ClearInv ==
  ASSUME NEW p \in Procs, IInv, Clear(p)
  PROVE  IInv'
<1>1. TypeOK'
  BY CountsAssumption
  DEF Clear, PortGoes, SettingUp, IInv, TypeOK, XTypeOK, Procs, Goes, Starts, Touches,
      Options, Counters, Quiet, ServerLabels, ClientLabels, Peer
<1>2. PortInv'
  BY CountsAssumption DEF Clear, PortGoes, IInv, PortInv, Connected, ClientGreeted
<1>3. BeforeInv'
  BY CountsAssumption
  DEF Clear, PortGoes, SettingUp, IInv, TypeOK, BeforeInv, EarlyInv, Connected,
      ClientGreeted
<1>4. EarlyInv'
  BY CountsAssumption
  DEF Clear, PortGoes, SettingUp, IInv, TypeOK, XTypeOK, PortInv, BeforeInv, EarlyInv,
      Connected, Due, ClientGreeted, Procs, Goes, Starts, Touches, Options, Counters,
      Quiet, Peer
<1>5. TurnInv'
  BY CountsAssumption
  DEF Clear, PortGoes, IInv, TypeOK, PortInv, TurnInv, Connected, ClientGreeted, Procs
<1>6. CountInv' /\ RegionInv' /\ BufInv'
  BY CountsAssumption
  DEF Clear, PortGoes, SettingUp, IInv, PortInv, CountInv, RegionInv, BufInv,
      Agreement, ServerActive, ServerEnded, Connected, Due, Replied, Options
<1> QED BY <1>1, <1>2, <1>3, <1>4, <1>5, <1>6 DEF IInv

LEMMA ServerConnectsInv ==
  ASSUME IInv, ServerConnects
  PROVE  IInv'
<1>1. TypeOK'
  BY CountsAssumption
  DEF ServerConnects, PortGoes, SettingUp, IInv, TypeOK, XTypeOK, Procs, Goes, Starts,
      Touches, Options, Counters, Quiet, ServerLabels, ClientLabels, Peer
<1>2. PortInv'
  BY CountsAssumption
  DEF ServerConnects, PortGoes, SettingUp, IInv, TypeOK, XTypeOK, PortInv, Connected,
      ClientGreeted, Procs, Goes, Starts, Touches, Options, Counters, Quiet, Peer
<1>3. BeforeInv'
  BY CountsAssumption
  DEF ServerConnects, PortGoes, IInv, BeforeInv, ClientGreeted, Goes, Counters, Quiet
<1>4. EarlyInv'
  BY CountsAssumption
  DEF ServerConnects, PortGoes, SettingUp, IInv, TypeOK, EarlyInv, Connected, Procs
<1>5. TurnInv'
  BY CountsAssumption
  DEF ServerConnects, PortGoes, SettingUp, IInv, TypeOK, XTypeOK, PortInv, BeforeInv,
      EarlyInv, TurnInv, ServerActive, ServerEnded, ClientActive, Connected, Due,
      Part, Total, ClientGreeted, Procs, Goes, Starts, Touches, Options, Counters,
      Quiet, Peer
<1>6. CountInv'
  BY CountsAssumption
  DEF ServerConnects, PortGoes, SettingUp, IInv, TypeOK, XTypeOK, PortInv, TurnInv,
      CountInv, ServerActive, ServerEnded, ClientActive, Connected, Due, Part, Total,
      ClientGreeted, Replied, Procs, Goes, Starts, Touches, Options, Counters, Quiet,
      Peer
<1>7. RegionInv'
  BY CountsAssumption
  DEF ServerConnects, PortGoes, SettingUp, IInv, TypeOK, XTypeOK, PortInv, TurnInv,
      CountInv, RegionInv, ServerActive, ServerEnded, ClientActive, Connected, Due,
      Part, Total, ClientGreeted, Replied, Procs, Goes, Starts, Touches, Options,
      Counters, Uniform, STC, CTS, Quiet, Peer
<1>8. BufInv'
  BY CountsAssumption
  DEF ServerConnects, PortGoes, SettingUp, IInv, TypeOK, XTypeOK, PortInv, CountInv,
      RegionInv, BufInv, Agreement, ServerActive, ClientActive, Connected, Replied,
      Procs, Goes, Starts, Touches, Options, Counters, Uniform, STC, CTS, Quiet, Peer
<1> QED BY <1>1, <1>2, <1>3, <1>4, <1>5, <1>6, <1>7, <1>8 DEF IInv

LEMMA ServerMeetsInv ==
  ASSUME IInv, ServerMeets
  PROVE  IInv'
<1>1. TypeOK'
  BY CountsAssumption
  DEF ServerMeets, usernet_intr_wait, ServerLoop, IInv, TypeOK, XTypeOK, Procs, Goes,
      Starts, Touches, Options, Counters, Quiet, ServerLabels, ClientLabels, Peer
<1>2. PortInv'
  BY CountsAssumption
  DEF ServerMeets, usernet_intr_wait, ServerLoop, IInv, TypeOK, XTypeOK, PortInv,
      Connected, ClientGreeted, Procs, Goes, Starts, Touches, Options, Counters,
      Quiet, Peer
<1>3. BeforeInv'
  BY CountsAssumption
  DEF ServerMeets, usernet_intr_wait, ServerLoop, IInv, TypeOK, XTypeOK, PortInv,
      BeforeInv, Connected, ClientGreeted, Procs, Goes, Starts, Touches, Options,
      Counters, Quiet, Peer
<1>4. EarlyInv'
  BY CountsAssumption
  DEF ServerMeets, usernet_intr_wait, ServerLoop, IInv, TypeOK, XTypeOK, PortInv,
      BeforeInv, EarlyInv, Connected, Due, ClientGreeted, Procs, Goes, Starts,
      Touches, Options, Counters, Quiet, Peer
<1>5. TurnInv'
  BY CountsAssumption
  DEF ServerMeets, usernet_intr_wait, ServerLoop, IInv, TypeOK, XTypeOK, PortInv,
      BeforeInv, EarlyInv, TurnInv, ServerActive, ServerEnded, ClientActive,
      Connected, Due, Part, Total, ClientGreeted, Procs, Goes, Starts, Touches,
      Options, Counters, Quiet, Peer
<1>6. CountInv'
  BY CountsAssumption
  DEF ServerMeets, usernet_intr_wait, ServerLoop, IInv, TypeOK, XTypeOK, PortInv,
      TurnInv, CountInv, ServerActive, ServerEnded, ClientActive, Connected, Due,
      Part, Total, ClientGreeted, Replied, Procs, Goes, Starts, Touches, Options,
      Counters, Quiet, Peer
<1>7. RegionInv'
  BY CountsAssumption
  DEF ServerMeets, usernet_intr_wait, ServerLoop, IInv, TypeOK, XTypeOK, PortInv,
      TurnInv, CountInv, RegionInv, ServerActive, ServerEnded, ClientActive,
      Connected, Due, Part, Total, ClientGreeted, Replied, Procs, Goes, Starts,
      Touches, Options, Counters, Uniform, STC, CTS, Quiet, Peer
<1>8. BufInv'
  BY CountsAssumption
  DEF ServerMeets, ServerLoop, IInv, TypeOK, XTypeOK, CountInv, BufInv, Agreement,
      Replied, Procs, Goes, Starts, Options
<1> QED BY <1>1, <1>2, <1>3, <1>4, <1>5, <1>6, <1>7, <1>8 DEF IInv

LEMMA ServerNotifiesInv ==
  ASSUME IInv, ServerNotifies
  PROVE  IInv'
<1>1. TypeOK'
  BY CountsAssumption
  DEF ServerNotifies, usernet_intr_notify, Ready, IInv, TypeOK, XTypeOK, Procs, Goes,
      Starts, Touches, Options, Counters, Quiet, ServerLabels, ClientLabels, Peer
<1>2. PortInv'
  BY CountsAssumption
  DEF ServerNotifies, usernet_intr_notify, Ready, IInv, TypeOK, XTypeOK, PortInv,
      Connected, ClientGreeted, Procs, Goes, Starts, Touches, Options, Counters,
      Quiet, Peer
<1>3. BeforeInv'
  BY CountsAssumption
  DEF ServerNotifies, usernet_intr_notify, Ready, IInv, BeforeInv, ClientGreeted
<1>4. EarlyInv'
  BY CountsAssumption
  DEF ServerNotifies, usernet_intr_notify, Ready, IInv, TypeOK, XTypeOK, PortInv,
      BeforeInv, EarlyInv, Connected, Due, ClientGreeted, Procs, Goes, Starts,
      Touches, Options, Counters, Quiet, Peer
<1>5. TurnInv'
  BY CountsAssumption
  DEF ServerNotifies, usernet_intr_notify, Ready, IInv, TypeOK, XTypeOK, PortInv,
      TurnInv, ServerActive, ServerEnded, ClientActive, Due, Part, Total,
      ClientGreeted, Procs, Peer
<1>6. CountInv'
  BY CountsAssumption
  DEF ServerNotifies, usernet_intr_notify, Ready, IInv, TypeOK, XTypeOK, PortInv,
      BeforeInv, TurnInv, CountInv, ServerActive, ServerEnded, ClientActive,
      Connected, Due, Part, Total, ClientGreeted, Replied, Procs, Goes, Starts,
      Touches, Options, Counters, Quiet, ServerLabels, ClientLabels, Peer
<1>7. RegionInv'
  BY CountsAssumption
  DEF ServerNotifies, usernet_intr_notify, Ready, IInv, TypeOK, XTypeOK, PortInv,
      BeforeInv, TurnInv, CountInv, RegionInv, ServerActive, ServerEnded,
      ClientActive, Connected, Due, Part, Total, ClientGreeted, Replied, Procs, Goes,
      Starts, Touches, Options, Counters, Uniform, STC, CTS, Quiet, ServerLabels,
      ClientLabels, Peer
<1>8. BufInv'
  BY CountsAssumption
  DEF ServerNotifies, Ready, IInv, BufInv, Agreement, Replied, Options, Counters
<1> QED BY <1>1, <1>2, <1>3, <1>4, <1>5, <1>6, <1>7, <1>8 DEF IInv

LEMMA ServerNotifyFailsInv ==
  ASSUME IInv, ServerNotifyFails
  PROVE  IInv'
<1>1. TypeOK'
  BY CountsAssumption
  DEF ServerNotifyFails, Ready, Listening, IInv, TypeOK, XTypeOK, Procs, Goes, Starts,
      Touches, Options, Counters, Quiet, ServerLabels, ClientLabels, Peer
<1>2. PortInv'
  BY CountsAssumption
  DEF ServerNotifyFails, Ready, Listening, IInv, TypeOK, XTypeOK, PortInv, Connected,
      ClientGreeted, Procs, Goes, Starts, Touches, Options, Counters, Quiet, Peer
<1>3. BeforeInv'
  BY CountsAssumption
  DEF ServerNotifyFails, Ready, Listening, IInv, BeforeInv, ClientGreeted
<1>4. EarlyInv'
  BY CountsAssumption
  DEF ServerNotifyFails, Ready, Listening, IInv, TypeOK, XTypeOK, PortInv, BeforeInv,
      EarlyInv, Connected, Due, ClientGreeted, Procs, Goes, Starts, Touches, Options,
      Counters, Quiet, Peer
<1>5. TurnInv'
  BY CountsAssumption
  DEF ServerNotifyFails, Ready, Listening, IInv, TurnInv, ServerActive, ServerEnded,
      ClientActive, Connected, Due, Part, Total, ClientGreeted, Counters, Quiet
<1>6. CountInv'
  BY CountsAssumption
  DEF ServerNotifyFails, Ready, Listening, IInv, CountInv, ServerActive, ServerEnded,
      ClientActive, Connected, Replied, Options, Counters, Quiet
<1>7. RegionInv'
  BY CountsAssumption
  DEF ServerNotifyFails, Ready, Listening, IInv, TypeOK, XTypeOK, PortInv, TurnInv,
      CountInv, RegionInv, ServerActive, ServerEnded, ClientActive, Connected, Due,
      Part, Total, ClientGreeted, Replied, Procs, Goes, Starts, Touches, Options,
      Counters, Uniform, STC, CTS, Quiet, Peer
<1>8. BufInv'
  BY CountsAssumption
  DEF ServerNotifyFails, Listening, IInv, TypeOK, XTypeOK, PortInv, BufInv, Agreement,
      ClientGreeted, Procs
<1> QED BY <1>1, <1>2, <1>3, <1>4, <1>5, <1>6, <1>7, <1>8 DEF IInv

LEMMA ServerWaitsInv ==
  ASSUME IInv, ServerWaits
  PROVE  IInv'
<1>0. /\ pc["server"] = "wait" /\ Due("server") = 1 /\ Replied = message + 1
      /\ region = Uniform(CTS(Replied)) /\ message \in Nat
  <2>1. pc["server"] = "wait" /\ pending["server"] > 0
    BY DEF ServerWaits, usernet_intr_wait, Goes
  <2>2. Due("server") > 0
    BY <2>1, Numbers DEF IInv, Due
  <2>3. Due("server") = 1
    BY <2>1, <2>2, Holding
  <2> QED BY <2>1, <2>3, Numbers
    DEF IInv, CountInv, RegionInv
<1>1. TypeOK'
  BY CountsAssumption
  DEF ServerWaits, usernet_intr_wait, IInv, TypeOK, XTypeOK, Procs, Goes, Starts,
      Touches, Options, Counters, Quiet, ServerLabels, ClientLabels, Peer
<1>2. PortInv'
  BY CountsAssumption
  DEF ServerWaits, usernet_intr_wait, IInv, TypeOK, XTypeOK, PortInv, Connected,
      ClientGreeted, Procs, Goes, Starts, Touches, Options, Counters, Quiet, Peer
<1>3. BeforeInv'
  BY CountsAssumption DEF ServerWaits, IInv, BeforeInv, EarlyInv, ClientGreeted, Goes
<1>4. EarlyInv'
  BY CountsAssumption
  DEF ServerWaits, usernet_intr_wait, IInv, TypeOK, XTypeOK, PortInv, BeforeInv,
      EarlyInv, Connected, Due, ClientGreeted, Procs, Goes, Starts, Touches, Options,
      Counters, Quiet, Peer
<1>5. TurnInv'
  BY CountsAssumption
  DEF ServerWaits, usernet_intr_wait, IInv, TypeOK, XTypeOK, PortInv, BeforeInv,
      EarlyInv, TurnInv, ServerActive, ServerEnded, ClientActive, Connected, Due,
      Part, Total, ClientGreeted, Procs, Goes, Starts, Touches, Options, Counters,
      Quiet, Peer
<1>6. CountInv'
  <2>1. /\ pc'["server"] = "copy" /\ message' = message /\ Replied' = Replied
        /\ port' = port /\ Connected
    BY <1>0, Holding
    DEF ServerWaits, usernet_intr_wait, Goes, Counters, Options, Replied, IInv, TypeOK,
        XTypeOK, Procs
  <2> QED BY <1>0, <2>1 DEF CountInv, Part, ServerActive, ServerEnded, Connected
<1>7. RegionInv'
  BY <1>0, Holding
  DEF ServerWaits, Goes, Starts, Counters, Options, Procs, IInv, TypeOK, XTypeOK,
      RegionInv, Replied, ClientActive
<1>8. BufInv'
  BY CountsAssumption
  DEF ServerWaits, usernet_intr_wait, IInv, TypeOK, XTypeOK, BufInv, Agreement,
      Replied, Goes, Starts, Options, Counters, Quiet
<1> QED BY <1>1, <1>2, <1>3, <1>4, <1>5, <1>6, <1>7, <1>8 DEF IInv

LEMMA ServerEndsCopyInv ==
  ASSUME IInv, ServerEndsCopy, Quiet
  PROVE  IInv'
<1>1. TypeOK'
  BY CountsAssumption
  DEF ServerEndsCopy, Rejects, Incoming, ServerLoop, IInv, TypeOK, XTypeOK, Procs,
      Goes, Starts, Touches, Options, Counters, Quiet, ServerLabels, ClientLabels,
      Peer
<1>2. PortInv'
  BY CountsAssumption
  DEF ServerEndsCopy, Rejects, Incoming, ServerLoop, IInv, TypeOK, XTypeOK, PortInv,
      BeforeInv, EarlyInv, TurnInv, CountInv, RegionInv, BufInv, Agreement,
      ServerActive, ServerEnded, ClientActive, Connected, Due, Part, Total,
      ClientGreeted, Replied, Procs, Goes, Starts, Touches, Options, Counters,
      Uniform, Words, Bytes, Zero, STC, CTS, Quiet, ServerLabels, ClientLabels, Peer
<1>3. BeforeInv'
  BY CountsAssumption
  DEF ServerEndsCopy, Rejects, Incoming, ServerLoop, IInv, TypeOK, XTypeOK, PortInv,
      BeforeInv, Connected, ClientGreeted, Procs, Goes, Starts, Touches, Options,
      Counters, Quiet, Peer
<1>4. EarlyInv'
  BY CountsAssumption
  DEF ServerEndsCopy, Rejects, Incoming, ServerLoop, IInv, TypeOK, XTypeOK, PortInv,
      BeforeInv, EarlyInv, Connected, Due, ClientGreeted, Procs, Goes, Starts,
      Touches, Options, Counters, Quiet, Peer
<1>5. TurnInv'
  BY CountsAssumption
  DEF ServerEndsCopy, Rejects, Incoming, ServerLoop, IInv, TypeOK, XTypeOK, PortInv,
      BeforeInv, EarlyInv, TurnInv, CountInv, RegionInv, BufInv, Agreement,
      ServerActive, ServerEnded, ClientActive, Connected, Due, Part, Total,
      ClientGreeted, Replied, Procs, Goes, Starts, Touches, Options, Counters,
      Uniform, Words, Bytes, Zero, STC, CTS, Quiet, ServerLabels, ClientLabels, Peer
<1>6. CountInv'
  BY CountsAssumption
  DEF ServerEndsCopy, Rejects, Incoming, ServerLoop, IInv, TypeOK, XTypeOK, PortInv,
      TurnInv, CountInv, ServerActive, ServerEnded, ClientActive, Connected, Due,
      Part, Total, ClientGreeted, Replied, Procs, Goes, Starts, Touches, Options,
      Counters, Quiet, Peer
<1>7. RegionInv'
  BY CountsAssumption
  DEF ServerEndsCopy, ServerLoop, IInv, TypeOK, XTypeOK, CountInv, RegionInv, BufInv,
      Agreement, Replied, Procs, Goes, Starts, Options, Quiet
<1>8. BufInv'
  BY CountsAssumption
  DEF ServerEndsCopy, Rejects, Incoming, ServerLoop, IInv, TypeOK, XTypeOK, PortInv,
      BeforeInv, EarlyInv, TurnInv, CountInv, RegionInv, BufInv, Agreement,
      ServerActive, ServerEnded, ClientActive, Connected, Due, Part, Total,
      ClientGreeted, Replied, Procs, Goes, Starts, Touches, Options, Counters,
      Uniform, Words, Bytes, Zero, STC, CTS, Quiet, ServerLabels, ClientLabels, Peer
<1> QED BY <1>1, <1>2, <1>3, <1>4, <1>5, <1>6, <1>7, <1>8 DEF IInv

LEMMA ServerEvaluatesInv ==
  ASSUME IInv, ServerEvaluates, Quiet
  PROVE  IInv'
<1>1. TypeOK'
  BY CountsAssumption
  DEF ServerEvaluates, IInv, TypeOK, XTypeOK, Procs, Goes, Starts, Touches, Options,
      Counters, Quiet, ServerLabels, ClientLabels, Peer
<1>2. PortInv'
  BY CountsAssumption
  DEF ServerEvaluates, IInv, TypeOK, XTypeOK, PortInv, Connected, ClientGreeted,
      Procs, Goes, Starts, Touches, Options, Counters, Quiet, Peer
<1>3. BeforeInv'
  BY CountsAssumption
  DEF ServerEvaluates, IInv, BeforeInv, EarlyInv, ClientGreeted, Goes
<1>4. EarlyInv'
  BY CountsAssumption
  DEF ServerEvaluates, IInv, TypeOK, XTypeOK, PortInv, BeforeInv, EarlyInv, Connected,
      Due, ClientGreeted, Procs, Goes, Starts, Touches, Options, Counters, Quiet, Peer
<1>5. TurnInv'
  BY CountsAssumption
  DEF ServerEvaluates, IInv, TurnInv, ServerEnded, ClientActive, Connected, Due,
      Total, ClientGreeted, Goes, Options, Counters, Quiet
<1>6. CountInv'
  BY CountsAssumption
  DEF ServerEvaluates, IInv, CountInv, ServerActive, ServerEnded, Connected, Replied,
      Goes, Options, Counters, Quiet
<1>7. RegionInv'
  BY CountsAssumption
  DEF ServerEvaluates, IInv, RegionInv, Replied, Goes, Options, Counters, Quiet
<1>8. BufInv'
  BY CountsAssumption
  DEF ServerEvaluates, IInv, BufInv, Agreement, Replied, Goes, Options, Counters
<1> QED BY <1>1, <1>2, <1>3, <1>4, <1>5, <1>6, <1>7, <1>8 DEF IInv

LEMMA ClientLaunchInv ==
  ASSUME IInv, ClientLaunch
  PROVE  IInv'
<1>1. TypeOK'
  BY CountsAssumption
  DEF ClientLaunch, IInv, TypeOK, XTypeOK, Procs, Goes, Starts, Touches, Options,
      Counters, Quiet, ServerLabels, ClientLabels, Peer
<1>2. PortInv'
  BY CountsAssumption
  DEF ClientLaunch, IInv, PortInv, Connected, ClientGreeted, Goes, Options, Quiet
<1>3. BeforeInv'
  BY CountsAssumption
  DEF ClientLaunch, IInv, TypeOK, XTypeOK, PortInv, BeforeInv, Connected,
      ClientGreeted, Procs, Goes, Starts, Touches, Options, Counters, Quiet, Peer
<1>4. EarlyInv'
  BY CountsAssumption DEF ClientLaunch, IInv, BeforeInv, EarlyInv, ClientGreeted, Goes
<1>5. TurnInv'
  BY CountsAssumption DEF ClientLaunch, IInv, TurnInv, Total, ClientGreeted, Goes
<1>6. CountInv'
  BY CountsAssumption
  DEF ClientLaunch, IInv, TypeOK, XTypeOK, PortInv, TurnInv, CountInv, ServerActive,
      ServerEnded, ClientActive, Connected, Due, Part, Total, ClientGreeted, Replied,
      Procs, Goes, Starts, Touches, Options, Counters, Quiet, Peer
<1>7. RegionInv'
  BY CountsAssumption
  DEF ClientLaunch, IInv, TypeOK, XTypeOK, PortInv, TurnInv, CountInv, RegionInv,
      ServerActive, ServerEnded, ClientActive, Connected, Due, Part, Total,
      ClientGreeted, Replied, Procs, Goes, Starts, Touches, Options, Counters,
      Uniform, STC, CTS, Quiet, Peer
<1>8. BufInv'
  BY CountsAssumption
  DEF ClientLaunch, IInv, TypeOK, XTypeOK, PortInv, CountInv, RegionInv, BufInv,
      Agreement, ServerActive, ClientActive, Connected, Replied, Procs, Goes, Starts,
      Touches, Options, Counters, Uniform, STC, CTS, Quiet, Peer
<1> QED BY <1>1, <1>2, <1>3, <1>4, <1>5, <1>6, <1>7, <1>8 DEF IInv

LEMMA ClientConnectsInv ==
  ASSUME IInv, ClientConnects
  PROVE  IInv'
<1>1. TypeOK'
  BY CountsAssumption
  DEF ClientConnects, PortGoes, SettingUp, xvars, IInv, TypeOK, XTypeOK, Procs, Goes,
      Starts, Touches, Options, Counters, Quiet, ServerLabels, ClientLabels, Peer
<1>2. PortInv'
  BY CountsAssumption
  DEF ClientConnects, PortGoes, xvars, IInv, PortInv, Connected, ClientGreeted
<1>3. BeforeInv'
  BY CountsAssumption
  DEF ClientConnects, PortGoes, SettingUp, xvars, IInv, TypeOK, XTypeOK, PortInv,
      BeforeInv, Connected, ClientGreeted, Procs, Goes, Starts, Touches, Options,
      Counters, Quiet, Peer
<1>4. EarlyInv'
  BY CountsAssumption
  DEF ClientConnects, PortGoes, SettingUp, xvars, IInv, TypeOK, XTypeOK, PortInv,
      BeforeInv, EarlyInv, Connected, Due, ClientGreeted, Procs, Goes, Starts,
      Touches, Options, Counters, Quiet, Peer
<1>5. TurnInv'
  BY CountsAssumption
  DEF ClientConnects, PortGoes, SettingUp, xvars, TurnInv, ClientGreeted
<1>6. CountInv' /\ RegionInv' /\ BufInv'
  BY CountsAssumption
  DEF ClientConnects, PortGoes, SettingUp, xvars, IInv, CountInv, RegionInv, BufInv,
      Agreement, ServerActive, ServerEnded, Connected, Due, Replied
<1> QED BY <1>1, <1>2, <1>3, <1>4, <1>5, <1>6 DEF IInv

LEMMA ClientGreetsInv ==
  ASSUME IInv, ClientGreets
  PROVE  IInv'
<1>0. /\ pc["client"] = "hello" /\ ~ClientGreeted /\ ClientGreeted'
      /\ coming = [p \in Procs |-> 0] /\ skew = 0 /\ port["client"] = "connected"
      /\ pending["client"] = 0 /\ pending["server"] \in Nat
      /\ port["server"] \in {"cleared", "connected"} => pending["server"] = 0
      /\ pc["server"] \in {"off", "exited", "clear", "meet"}
      /\ pc["server"] = "exited" => ~Connected
      /\ coming' = [coming EXCEPT !["server"] = 1] /\ pending' = pending /\ port' = port
      /\ pc' = [pc EXCEPT !["client"] = IF count["client"] > 0 THEN "wait" ELSE "done"]
      /\ skew' = skew /\ pc \in [Procs -> ServerLabels \cup ClientLabels]
  <2>1. /\ pc["client"] = "hello" /\ port["client"] = "connected"
        /\ coming' = [coming EXCEPT !["server"] = @ + 1] /\ pending' = pending /\ port' = port
        /\ pc' = [pc EXCEPT !["client"] = IF count["client"] > 0 THEN "wait" ELSE "done"]
        /\ skew' = skew
    BY DEF ClientGreets, usernet_intr_notify, Peer, ClientLoop, Goes
  <2>2. ~ClientGreeted /\ "server" \in Procs /\ "client" \in Procs /\ pending["server"] \in Nat
    BY <2>1, Numbers DEF ClientGreeted, IInv
  <2>3. pc \in [Procs -> ServerLabels \cup ClientLabels]
    BY DEF IInv, TypeOK, XTypeOK
  <2>4. ClientGreeted'
    BY <2>1, <2>2, <2>3 DEF ClientGreeted
  <2>5. /\ pc["server"] \in {"off", "exited", "clear", "meet"}
        /\ pc["server"] = "exited" => ~Connected
        /\ coming = [p \in Procs |-> 0] /\ skew = 0 /\ pending["client"] = 0
        /\ port["server"] \in {"cleared", "connected"} => pending["server"] = 0
    BY <2>1, <2>2 DEF IInv, BeforeInv
  <2> QED BY <2>1, <2>2, <2>3, <2>4, <2>5
<1>1. TypeOK'
  BY CountsAssumption
  DEF ClientGreets, usernet_intr_notify, ClientLoop, IInv, TypeOK, XTypeOK, Procs,
      Goes, Starts, Touches, Options, Counters, Quiet, ServerLabels, ClientLabels,
      Peer
<1>2. PortInv'
  BY CountsAssumption
  DEF ClientGreets, usernet_intr_notify, ClientLoop, IInv, TypeOK, XTypeOK, PortInv,
      Connected, ClientGreeted, Procs, Goes, Starts, Touches, Options, Counters,
      Quiet, Peer
<1>3. BeforeInv'
  BY CountsAssumption
  DEF ClientGreets, ClientLoop, IInv, TypeOK, XTypeOK, BeforeInv, ClientGreeted,
      Procs, Goes
<1>4. EarlyInv'
  BY <1>0 DEF EarlyInv, Due, Connected, Procs
<1>5. TurnInv'
  BY <1>0 DEF IInv, PortInv, TurnInv, Due, Total, Part, Connected, Procs, ClientActive,
     ServerActive, ServerEnded
<1>6. CountInv'
  BY CountsAssumption
  DEF ClientGreets, usernet_intr_notify, ClientLoop, IInv, TypeOK, XTypeOK, BeforeInv,
      CountInv, ServerActive, ServerEnded, ClientActive, ClientGreeted, Replied, Goes,
      Options
<1>7. RegionInv'
  BY CountsAssumption
  DEF ClientGreets, usernet_intr_notify, ClientLoop, IInv, TypeOK, XTypeOK, PortInv,
      BeforeInv, TurnInv, CountInv, RegionInv, ServerActive, ServerEnded,
      ClientActive, Connected, Due, Part, Total, ClientGreeted, Replied, Procs, Goes,
      Starts, Touches, Options, Counters, Uniform, STC, CTS, Quiet, ServerLabels,
      ClientLabels, Peer
<1>8. BufInv'
  BY CountsAssumption
  DEF ClientGreets, usernet_intr_notify, ClientLoop, IInv, BeforeInv, BufInv,
      Agreement, ClientGreeted, Goes
<1> QED BY <1>1, <1>2, <1>3, <1>4, <1>5, <1>6, <1>7, <1>8 DEF IInv

LEMMA ClientWaitsInv ==
  ASSUME IInv, ClientWaits
  PROVE  IInv'
<1>1. TypeOK'
  BY CountsAssumption
  DEF ClientWaits, usernet_intr_wait, IInv, TypeOK, XTypeOK, Procs, Goes, Starts,
      Touches, Options, Counters, Quiet, ServerLabels, ClientLabels, Peer
<1>2. PortInv'
  BY CountsAssumption
  DEF ClientWaits, usernet_intr_wait, IInv, PortInv, Connected, ClientGreeted, Goes,
      Starts
<1>3. BeforeInv'
  BY CountsAssumption DEF ClientWaits, IInv, BeforeInv, EarlyInv, ClientGreeted, Goes
<1>4. EarlyInv'
  BY CountsAssumption
  DEF ClientWaits, usernet_intr_wait, IInv, TypeOK, XTypeOK, PortInv, BeforeInv,
      EarlyInv, Connected, Due, ClientGreeted, Procs, Goes, Starts, Touches, Options,
      Counters, Quiet, Peer
<1>5. TurnInv'
  BY CountsAssumption
  DEF ClientWaits, usernet_intr_wait, IInv, TypeOK, XTypeOK, TurnInv, ServerActive,
      ServerEnded, ClientActive, Connected, Due, Part, Total, ClientGreeted, Procs,
      Goes
<1>6. CountInv'
  BY CountsAssumption
  DEF ClientWaits, usernet_intr_wait, IInv, TypeOK, XTypeOK, PortInv, TurnInv,
      CountInv, ServerActive, ServerEnded, ClientActive, Connected, Due, Part, Total,
      ClientGreeted, Replied, Procs, Goes, Starts, Touches, Options, Counters, Quiet,
      Peer
<1>7. RegionInv'
  BY CountsAssumption
  DEF ClientWaits, usernet_intr_wait, IInv, TypeOK, XTypeOK, PortInv, TurnInv,
      CountInv, RegionInv, ServerActive, ServerEnded, ClientActive, Connected, Due,
      Part, Total, ClientGreeted, Replied, Procs, Goes, Starts, Touches, Options,
      Counters, Uniform, STC, CTS, Quiet, Peer
<1>8. BufInv'
  BY CountsAssumption
  DEF ClientWaits, IInv, TypeOK, XTypeOK, RegionInv, BufInv, Agreement, Replied, Goes,
      Starts, Options, Counters
<1> QED BY <1>1, <1>2, <1>3, <1>4, <1>5, <1>6, <1>7, <1>8 DEF IInv

LEMMA ClientNotifiesInv ==
  ASSUME IInv, ClientNotifies
  PROVE  IInv'
<1>0. /\ pc["client"] \in {"fill", "check"} /\ ClientActive /\ todo["client"] = {}
      /\ pc["server"] = "wait" /\ Due("server") = 0 /\ Due("client") = 0
      /\ left' = left - 1 /\ left \in Int /\ count["client"] \in Int /\ message \in Nat
      /\ pc' = [pc EXCEPT !["client"] = IF left - 1 > 0 THEN "wait" ELSE "done"]
      /\ pc'["server"] = "wait" /\ pc'["client"] \in {"wait", "done"}
      /\ Replied' = Replied + 1 /\ Due("server")' = 1 /\ Replied = message
  <2>1. pc["client"] \in {"fill", "check"} /\ todo["client"] = {}
    BY DEF ClientNotifies, Ready
  <2>2. /\ pc["server"] = "wait" /\ Due("server") = 0 /\ Due("client") = 0
    BY <2>1, Holding DEF ClientActive
  <2>3. /\ left' = left - 1 /\ UNCHANGED <<count, pending>>
        /\ pc' = [pc EXCEPT !["client"] = IF left - 1 > 0 THEN "wait" ELSE "done"]
        /\ coming' = [coming EXCEPT !["server"] = @ + 1]
    BY DEF ClientNotifies, ClientLoop, Goes, Options, usernet_intr_notify, Peer
  <2>4. Replied' = Replied + 1 /\ Due("server")' = 1
    BY <2>2, <2>3, Numbers DEF IInv, TypeOK, Replied, Due
  <2>5. Replied = message
    BY <2>2, Numbers DEF IInv, CountInv
  <2> QED BY <2>1, <2>2, <2>3, <2>4, <2>5, Numbers
      DEF IInv, TypeOK, XTypeOK, ClientActive
<1>1. TypeOK'
  BY <1>0, Numbers
  DEF ClientNotifies, ClientLoop, usernet_intr_notify, Peer, Options, Procs, IInv,
      TypeOK, XTypeOK, ClientLabels
<1>2. PortInv'
  BY CountsAssumption
  DEF ClientNotifies, usernet_intr_notify, ClientLoop, Ready, IInv, TypeOK, XTypeOK,
      PortInv, Connected, ClientGreeted, Procs, Goes, Starts, Touches, Options,
      Counters, Quiet, Peer
<1>3. BeforeInv'
  BY CountsAssumption
  DEF ClientNotifies, ClientLoop, Ready, BeforeInv, ClientGreeted, Goes
<1>4. EarlyInv'
  BY CountsAssumption
  DEF ClientNotifies, usernet_intr_notify, Ready, IInv, EarlyInv, Connected,
      ClientGreeted
<1>5. TurnInv'
  BY CountsAssumption
  DEF ClientNotifies, usernet_intr_notify, ClientLoop, Ready, IInv, TypeOK, XTypeOK,
      PortInv, BeforeInv, EarlyInv, TurnInv, ServerActive, ServerEnded, ClientActive,
      Connected, Due, Part, Total, ClientGreeted, Procs, Goes, Starts, Touches,
      Options, Counters, Quiet, Peer
<1>6. CountInv'
  BY <1>0
  DEF ClientNotifies, CountInv, ServerActive, ServerEnded, IInv, PortInv, Connected,
      usernet_intr_notify
<1>7. RegionInv'
  BY <1>0 DEF ClientNotifies, IInv, TypeOK, XTypeOK, RegionInv, Uniform
<1>8. BufInv'
  BY CountsAssumption
  DEF ClientNotifies, usernet_intr_notify, ClientLoop, Ready, IInv, TypeOK, XTypeOK,
      PortInv, BeforeInv, EarlyInv, TurnInv, CountInv, RegionInv, BufInv, Agreement,
      ServerActive, ServerEnded, ClientActive, Connected, Due, Part, Total,
      ClientGreeted, Replied, Procs, Goes, Starts, Touches, Options, Counters,
      Uniform, Words, Bytes, Zero, STC, CTS, Quiet, ServerLabels, ClientLabels, Peer
<1> QED BY <1>1, <1>2, <1>3, <1>4, <1>5, <1>6, <1>7, <1>8 DEF IInv

LEMMA ClientEndsCopyInv ==
  ASSUME IInv, ClientEndsCopy, Quiet
  PROVE  IInv'
<1>0. /\ pc["client"] = "copy" /\ todo["client"] = {} /\ pc["server"] = "wait"
      /\ Due("server") = 0 /\ Due("server")' = 0
      /\ buf["client"] = Uniform(STC(Replied + 1)) /\ ~Rejects("client")
      /\ pc' = [pc EXCEPT !["client"] = "fill"] /\ todo' = [todo EXCEPT !["client"] = Cells]
      /\ UNCHANGED <<region, buf, message, left, skew, count, isDebug>>
  <2>1. pc["client"] = "copy" /\ todo["client"] = {}
    BY DEF ClientEndsCopy, Goes
  <2>2. pc["server"] = "wait" /\ Due("server") = 0
    BY <2>1, Holding DEF ClientActive
  <2>3. buf["client"] = Uniform(STC(Replied + 1))
    BY <2>1 DEF IInv, BufInv, TypeOK, XTypeOK, Uniform, Procs
  <2>4. ~Rejects("client")
    BY <2>3 DEF Rejects, Incoming, Uniform, STC
  <2> QED BY <2>1, <2>2, <2>3, <2>4
      DEF ClientEndsCopy, Goes, Starts, Counters, Options, Quiet, Due
<1>1. TypeOK'
  BY CountsAssumption
  DEF ClientEndsCopy, Rejects, Incoming, IInv, TypeOK, XTypeOK, Procs, Goes, Starts,
      Touches, Options, Counters, Quiet, ServerLabels, ClientLabels, Peer
<1>2. PortInv'
  BY <1>0 DEF ClientEndsCopy, IInv, PortInv, Connected, ClientGreeted, Counters, Quiet
<1>3. BeforeInv'
  BY CountsAssumption
  DEF ClientEndsCopy, Rejects, Incoming, IInv, TypeOK, XTypeOK, PortInv, BeforeInv,
      Connected, ClientGreeted, Procs, Goes, Starts, Touches, Options, Counters,
      Quiet, Peer
<1>4. EarlyInv'
  BY CountsAssumption
  DEF ClientEndsCopy, Rejects, Incoming, IInv, TypeOK, XTypeOK, PortInv, BeforeInv,
      EarlyInv, Connected, Due, ClientGreeted, Procs, Goes, Starts, Touches, Options,
      Counters, Quiet, Peer
<1>5. TurnInv'
  BY CountsAssumption
  DEF ClientEndsCopy, Rejects, Incoming, IInv, TypeOK, XTypeOK, PortInv, TurnInv,
      RegionInv, BufInv, Agreement, ServerActive, ServerEnded, ClientActive,
      Connected, Due, Part, Total, ClientGreeted, Procs, Goes, Options, Counters,
      Words, Zero, STC, CTS, Quiet
<1>6. CountInv'
  BY CountsAssumption
  DEF ClientEndsCopy, Rejects, Incoming, IInv, TypeOK, XTypeOK, PortInv, TurnInv,
      CountInv, ServerActive, ServerEnded, ClientActive, Connected, Due, Part, Total,
      ClientGreeted, Replied, Procs, Goes, Starts, Touches, Options, Counters, Quiet,
      Peer
<1>7. RegionInv'
  BY <1>0 DEF IInv, TypeOK, XTypeOK, Procs, RegionInv, Replied
<1>8. BufInv'
  BY <1>0 DEF IInv, TypeOK, Procs, BufInv, Agreement, Replied
<1> QED BY <1>1, <1>2, <1>3, <1>4, <1>5, <1>6, <1>7, <1>8 DEF IInv

LEMMA ServerFillCellInv ==
  ASSUME IInv, FillCell("server"), Quiet
  PROVE  IInv'
<1>1. TypeOK'
  BY CountsAssumption
  DEF FillCell, Outgoing, IInv, TypeOK, XTypeOK, PortInv, BeforeInv, CountInv,
      Connected, ClientGreeted, Replied, Procs, Goes, Starts, Touches, Options,
      Counters, Uniform, Words, Bytes, Zero, STC, CTS, Quiet, ServerLabels,
      ClientLabels, Peer
<1>2. PortInv' /\ BeforeInv' /\ EarlyInv'
  BY CountsAssumption
  DEF FillCell, Outgoing, IInv, TypeOK, XTypeOK, PortInv, BeforeInv, EarlyInv,
      TurnInv, CountInv, RegionInv, BufInv, Agreement, ServerActive, ServerEnded,
      ClientActive, Connected, Due, Part, Total, ClientGreeted, Replied, Procs, Goes,
      Starts, Touches, Options, Counters, Uniform, Words, Bytes, Zero, STC, CTS,
      Quiet, ServerLabels, ClientLabels, Peer
<1>3. TurnInv' /\ CountInv'
  BY CountsAssumption
  DEF FillCell, IInv, PortInv, TurnInv, CountInv, ServerActive, ServerEnded,
      ClientActive, Connected, Due, Part, Total, ClientGreeted, Replied, Options,
      Counters, Quiet
<1>4. RegionInv'
  BY CountsAssumption
  DEF FillCell, Outgoing, IInv, TypeOK, XTypeOK, PortInv, TurnInv, RegionInv,
      ServerActive, ServerEnded, ClientActive, Connected, Part, Total, ClientGreeted,
      Touches, Counters, Quiet
<1>5. BufInv'
  BY CountsAssumption
  DEF FillCell, Outgoing, IInv, TypeOK, XTypeOK, PortInv, CountInv, RegionInv, BufInv,
      Agreement, ServerActive, ClientActive, Connected, Replied, Procs, Goes, Starts,
      Touches, Options, Counters, Uniform, STC, CTS, Quiet, Peer
<1> QED BY <1>1, <1>2, <1>3, <1>4, <1>5 DEF IInv

LEMMA ServerStartCheckInv ==
  ASSUME IInv, StartCheck("server"), Quiet
  PROVE  IInv'
<1>1. TypeOK'
  BY CountsAssumption
  DEF StartCheck, IInv, TypeOK, XTypeOK, Procs, Goes, Starts, Touches, Options,
      Counters, Quiet, ServerLabels, ClientLabels, Peer
<1>2. PortInv' /\ BeforeInv' /\ EarlyInv'
  BY CountsAssumption
  DEF StartCheck, IInv, TypeOK, XTypeOK, PortInv, BeforeInv, EarlyInv, TurnInv,
      CountInv, RegionInv, BufInv, Agreement, ServerActive, ServerEnded, ClientActive,
      Connected, Due, Part, Total, ClientGreeted, Replied, Procs, Goes, Starts,
      Touches, Options, Counters, Uniform, Words, Bytes, Zero, STC, CTS, Quiet,
      ServerLabels, ClientLabels, Peer
<1>3. TurnInv' /\ CountInv'
  BY CountsAssumption
  DEF StartCheck, IInv, TypeOK, XTypeOK, PortInv, BeforeInv, EarlyInv, TurnInv,
      CountInv, RegionInv, BufInv, Agreement, ServerActive, ServerEnded, ClientActive,
      Connected, Due, Part, Total, ClientGreeted, Replied, Procs, Goes, Starts,
      Touches, Options, Counters, Uniform, Words, Bytes, Zero, STC, CTS, Quiet,
      ServerLabels, ClientLabels, Peer
<1>4. RegionInv'
  BY CountsAssumption
  DEF StartCheck, IInv, TypeOK, XTypeOK, PortInv, TurnInv, CountInv, RegionInv,
      ServerActive, ServerEnded, ClientActive, Connected, Due, Part, Total,
      ClientGreeted, Replied, Procs, Goes, Starts, Touches, Options, Counters,
      Uniform, STC, CTS, Quiet, Peer
<1>5. BufInv'
  BY CountsAssumption
  DEF StartCheck, IInv, TypeOK, XTypeOK, PortInv, CountInv, RegionInv, BufInv,
      Agreement, ServerActive, ClientActive, Connected, Replied, Procs, Goes, Starts,
      Touches, Options, Counters, Uniform, STC, CTS, Quiet, Peer
<1> QED BY <1>1, <1>2, <1>3, <1>4, <1>5 DEF IInv

LEMMA ServerCheckCellInv ==
  ASSUME IInv, CheckCell("server"), Quiet
  PROVE  IInv'
<1>1. TypeOK'
  BY CountsAssumption
  DEF CheckCell, IInv, TypeOK, XTypeOK, Procs, Touches, Options, Counters, Quiet,
      ServerLabels
<1>2. PortInv' /\ BeforeInv' /\ EarlyInv'
  BY CountsAssumption
  DEF CheckCell, Outgoing, IInv, TypeOK, PortInv, BeforeInv, EarlyInv, RegionInv,
      Connected, ClientGreeted, Procs, Options, Counters, Uniform, STC, CTS, Quiet
<1>3. TurnInv' /\ CountInv'
  BY CountsAssumption
  DEF CheckCell, Outgoing, IInv, TypeOK, XTypeOK, PortInv, BeforeInv, EarlyInv,
      TurnInv, CountInv, RegionInv, BufInv, Agreement, ServerActive, ServerEnded,
      ClientActive, Connected, Due, Part, Total, ClientGreeted, Replied, Procs, Goes,
      Starts, Touches, Options, Counters, Uniform, Words, Bytes, Zero, STC, CTS,
      Quiet, ServerLabels, ClientLabels, Peer
<1>4. RegionInv'
  BY CountsAssumption
  DEF CheckCell, Outgoing, IInv, TypeOK, XTypeOK, PortInv, TurnInv, CountInv,
      RegionInv, ServerActive, ServerEnded, ClientActive, Connected, Due, Part, Total,
      ClientGreeted, Replied, Procs, Goes, Starts, Touches, Options, Counters,
      Uniform, STC, CTS, Quiet, Peer
<1>5. BufInv'
  BY CountsAssumption
  DEF CheckCell, IInv, TypeOK, XTypeOK, CountInv, RegionInv, BufInv, Agreement,
      Replied, Procs, Touches, Options, Counters
<1> QED BY <1>1, <1>2, <1>3, <1>4, <1>5 DEF IInv

LEMMA ServerCopyCellInv ==
  ASSUME IInv, CopyCell("server"), Quiet
  PROVE  IInv'
<1>0. PICK c \in todo["server"] : /\ buf' = [buf EXCEPT !["server"] = [@ EXCEPT ![c] = region[c]]]
                             /\ todo' = [todo EXCEPT !["server"] = @ \ {c}]
  BY DEF CopyCell, Touches
<1>1. TypeOK'
  BY <1>0 DEF CopyCell, Counters, Options, Quiet, IInv, TypeOK, XTypeOK, Procs
<1>2. PortInv' /\ BeforeInv' /\ EarlyInv'
  BY CountsAssumption
  DEF CopyCell, IInv, TypeOK, XTypeOK, PortInv, BeforeInv, EarlyInv, TurnInv,
      CountInv, RegionInv, BufInv, Agreement, ServerActive, ServerEnded, ClientActive,
      Connected, Due, Part, Total, ClientGreeted, Replied, Procs, Goes, Starts,
      Touches, Options, Counters, Uniform, Words, Bytes, Zero, STC, CTS, Quiet,
      ServerLabels, ClientLabels, Peer
<1>3. TurnInv' /\ CountInv'
  BY CountsAssumption
  DEF CopyCell, IInv, TypeOK, XTypeOK, PortInv, BeforeInv, EarlyInv, TurnInv,
      CountInv, RegionInv, BufInv, Agreement, ServerActive, ServerEnded, ClientActive,
      Connected, Due, Part, Total, ClientGreeted, Replied, Procs, Goes, Starts,
      Touches, Options, Counters, Uniform, Words, Bytes, Zero, STC, CTS, Quiet,
      ServerLabels, ClientLabels, Peer
<1>4. RegionInv'
  BY CountsAssumption
  DEF CopyCell, IInv, CountInv, RegionInv, Agreement, Replied, Touches, Options,
      Counters, Quiet
<1>5. BufInv'
  BY CountsAssumption
  DEF CopyCell, IInv, TypeOK, XTypeOK, RegionInv, BufInv, Agreement, Replied, Procs,
      Touches, Options, Counters, Uniform, CTS
<1> QED BY <1>1, <1>2, <1>3, <1>4, <1>5 DEF IInv

LEMMA ClientFillCellInv ==
  ASSUME IInv, FillCell("client"), Quiet
  PROVE  IInv'
<1>1. TypeOK'
  BY CountsAssumption
  DEF FillCell, Outgoing, IInv, TypeOK, XTypeOK, TurnInv, CountInv, ServerEnded,
      ClientActive, Due, Part, Total, ClientGreeted, Procs, Touches, Options,
      Counters, Uniform, Words, Bytes, STC, CTS, Quiet
<1>2. PortInv' /\ BeforeInv' /\ EarlyInv'
  BY CountsAssumption
  DEF FillCell, Outgoing, IInv, TypeOK, XTypeOK, PortInv, BeforeInv, EarlyInv,
      TurnInv, CountInv, RegionInv, BufInv, Agreement, ServerActive, ServerEnded,
      ClientActive, Connected, Due, Part, Total, ClientGreeted, Replied, Procs, Goes,
      Starts, Touches, Options, Counters, Uniform, Words, Bytes, Zero, STC, CTS,
      Quiet, ServerLabels, ClientLabels, Peer
<1>3. TurnInv' /\ CountInv'
  BY CountsAssumption
  DEF FillCell, Outgoing, IInv, TypeOK, XTypeOK, PortInv, BeforeInv, EarlyInv,
      TurnInv, CountInv, RegionInv, BufInv, Agreement, ServerActive, ServerEnded,
      ClientActive, Connected, Due, Part, Total, ClientGreeted, Replied, Procs, Goes,
      Starts, Touches, Options, Counters, Uniform, Words, Bytes, Zero, STC, CTS,
      Quiet, ServerLabels, ClientLabels, Peer
<1>4. RegionInv'
  BY CountsAssumption
  DEF FillCell, Outgoing, IInv, TypeOK, XTypeOK, PortInv, TurnInv, CountInv,
      RegionInv, ServerActive, ServerEnded, ClientActive, Connected, Due, Part, Total,
      ClientGreeted, Replied, Procs, Goes, Starts, Touches, Options, Counters,
      Uniform, STC, CTS, Quiet, Peer
<1>5. BufInv'
  BY CountsAssumption
  DEF FillCell, Outgoing, IInv, BufInv, Agreement, Replied, Touches, Options,
      Counters, Quiet
<1> QED BY <1>1, <1>2, <1>3, <1>4, <1>5 DEF IInv

LEMMA ClientStartCheckInv ==
  ASSUME IInv, StartCheck("client"), Quiet
  PROVE  IInv'
<1>1. TypeOK'
  BY CountsAssumption
  DEF StartCheck, IInv, TypeOK, XTypeOK, Procs, Goes, Starts, Touches, Options,
      Counters, Quiet, ServerLabels, ClientLabels, Peer
<1>2. PortInv' /\ BeforeInv' /\ EarlyInv'
  BY CountsAssumption
  DEF StartCheck, IInv, TypeOK, XTypeOK, PortInv, BeforeInv, EarlyInv, TurnInv,
      CountInv, RegionInv, BufInv, Agreement, ServerActive, ServerEnded, ClientActive,
      Connected, Due, Part, Total, ClientGreeted, Replied, Procs, Goes, Starts,
      Touches, Options, Counters, Uniform, Words, Bytes, Zero, STC, CTS, Quiet,
      ServerLabels, ClientLabels, Peer
<1>3. TurnInv' /\ CountInv'
  BY CountsAssumption
  DEF StartCheck, IInv, TypeOK, XTypeOK, PortInv, BeforeInv, EarlyInv, TurnInv,
      CountInv, RegionInv, BufInv, Agreement, ServerActive, ServerEnded, ClientActive,
      Connected, Due, Part, Total, ClientGreeted, Replied, Procs, Goes, Starts,
      Touches, Options, Counters, Uniform, Words, Bytes, Zero, STC, CTS, Quiet,
      ServerLabels, ClientLabels, Peer
<1>4. RegionInv'
  BY CountsAssumption
  DEF StartCheck, IInv, TypeOK, XTypeOK, CountInv, RegionInv, Due, Replied, Procs,
      Goes, Starts, Options, Counters, Uniform, STC, CTS, Quiet
<1>5. BufInv'
  BY CountsAssumption
  DEF StartCheck, IInv, TypeOK, XTypeOK, PortInv, CountInv, RegionInv, BufInv,
      Agreement, ServerActive, ClientActive, Connected, Replied, Procs, Goes, Starts,
      Touches, Options, Counters, Uniform, STC, CTS, Quiet, Peer
<1> QED BY <1>1, <1>2, <1>3, <1>4, <1>5 DEF IInv

LEMMA ClientCheckCellInv ==
  ASSUME IInv, CheckCell("client"), Quiet
  PROVE  IInv'
<1>1. TypeOK'
  BY CountsAssumption
  DEF CheckCell, Outgoing, IInv, TypeOK, XTypeOK, Procs, Goes, Starts, Touches,
      Options, Counters, Quiet, ServerLabels, ClientLabels, Peer
<1>2. PortInv' /\ BeforeInv' /\ EarlyInv'
  BY CountsAssumption
  DEF CheckCell, Outgoing, IInv, TypeOK, XTypeOK, PortInv, BeforeInv, EarlyInv,
      TurnInv, CountInv, RegionInv, BufInv, Agreement, ServerActive, ServerEnded,
      ClientActive, Connected, Due, Part, Total, ClientGreeted, Replied, Procs, Goes,
      Starts, Touches, Options, Counters, Uniform, Words, Bytes, Zero, STC, CTS,
      Quiet, ServerLabels, ClientLabels, Peer
<1>3. TurnInv' /\ CountInv'
  BY CountsAssumption
  DEF CheckCell, Outgoing, IInv, TypeOK, XTypeOK, TurnInv, CountInv, RegionInv,
      Agreement, ServerActive, ServerEnded, ClientActive, Connected, Due, Part, Total,
      ClientGreeted, Replied, Procs, Options, Counters, Uniform, STC, Quiet
<1>4. RegionInv'
  BY CountsAssumption
  DEF CheckCell, Outgoing, IInv, TypeOK, XTypeOK, RegionInv, Agreement, Due, Replied,
      Touches, Options, Counters, Uniform, STC, CTS, Quiet
<1>5. BufInv'
  BY CountsAssumption
  DEF CheckCell, Outgoing, IInv, TypeOK, XTypeOK, PortInv, CountInv, RegionInv,
      BufInv, Agreement, ServerActive, ClientActive, Connected, Replied, Procs, Goes,
      Starts, Touches, Options, Counters, Uniform, STC, CTS, Quiet, Peer
<1> QED BY <1>1, <1>2, <1>3, <1>4, <1>5 DEF IInv

LEMMA ClientCopyCellInv ==
  ASSUME IInv, CopyCell("client"), Quiet
  PROVE  IInv'
<1>0. PICK c \in todo["client"] : /\ buf' = [buf EXCEPT !["client"] = [@ EXCEPT ![c] = region[c]]]
                             /\ todo' = [todo EXCEPT !["client"] = @ \ {c}]
  BY DEF CopyCell, Touches
<1>1. TypeOK'
  BY <1>0 DEF CopyCell, Counters, Options, Quiet, IInv, TypeOK, XTypeOK, Procs
<1>2. PortInv' /\ BeforeInv' /\ EarlyInv'
  BY CountsAssumption
  DEF CopyCell, IInv, PortInv, BeforeInv, EarlyInv, Connected, ClientGreeted, Quiet
<1>3. TurnInv' /\ CountInv'
  BY CountsAssumption
  DEF CopyCell, IInv, TypeOK, XTypeOK, PortInv, BeforeInv, EarlyInv, TurnInv,
      CountInv, RegionInv, BufInv, Agreement, ServerActive, ServerEnded, ClientActive,
      Connected, Due, Part, Total, ClientGreeted, Replied, Procs, Goes, Starts,
      Touches, Options, Counters, Uniform, Words, Bytes, Zero, STC, CTS, Quiet,
      ServerLabels, ClientLabels, Peer
<1>4. RegionInv'
  BY CountsAssumption
  DEF CopyCell, IInv, RegionInv, Agreement, Due, Replied, Touches, Options, Counters,
      Quiet
<1>5. BufInv'
  <2>1. pc["client"] = "copy" /\ pc["server"] = "wait" /\ region = Uniform(STC(Replied + 1))
    <3>1. pc["client"] = "copy"
      BY DEF CopyCell
    <3>2. pc["server"] = "wait" /\ Due("server") = 0
      BY <3>1, Holding DEF ClientActive
    <3> QED BY <3>1, <3>2, Numbers DEF IInv, CountInv, RegionInv
  <2> QED BY <1>0, <2>1
      DEF CopyCell, Counters, Options, IInv, TypeOK, XTypeOK, Procs, BufInv,
          Agreement, Replied, Uniform
<1> QED BY <1>1, <1>2, <1>3, <1>4, <1>5 DEF IInv

LEMMA LaunchFailsInv ==
  ASSUME NEW p \in Procs, IInv, LaunchFails(p), Quiet
  PROVE  IInv'
<1>1. TypeOK'
  BY CountsAssumption
  DEF LaunchFails, IInv, TypeOK, XTypeOK, Procs, Goes, Starts, Touches, Options,
      Counters, Quiet, ServerLabels, ClientLabels, Peer
<1>2. PortInv'
  BY CountsAssumption
  DEF LaunchFails, IInv, PortInv, Connected, ClientGreeted, Goes, Options, Quiet
<1>3. BeforeInv'
  BY CountsAssumption
  DEF LaunchFails, IInv, TypeOK, XTypeOK, PortInv, BeforeInv, Connected,
      ClientGreeted, Procs, Goes, Starts, Touches, Options, Counters, Quiet, Peer
<1>4. EarlyInv'
  BY CountsAssumption
  DEF LaunchFails, IInv, TypeOK, XTypeOK, PortInv, BeforeInv, EarlyInv, Connected,
      Due, ClientGreeted, Procs, Goes, Starts, Touches, Options, Counters, Quiet, Peer
<1>5. TurnInv'
  BY CountsAssumption
  DEF LaunchFails, IInv, TypeOK, XTypeOK, PortInv, BeforeInv, EarlyInv, TurnInv,
      ServerActive, ServerEnded, ClientActive, Connected, Due, Part, Total,
      ClientGreeted, Procs, Goes, Starts, Touches, Options, Counters, Quiet, Peer
<1>6. CountInv'
  BY CountsAssumption
  DEF LaunchFails, IInv, TypeOK, XTypeOK, PortInv, TurnInv, CountInv, ServerActive,
      ServerEnded, ClientActive, Connected, Due, Part, Total, ClientGreeted, Replied,
      Procs, Goes, Starts, Touches, Options, Counters, Quiet, Peer
<1>7. RegionInv'
  BY CountsAssumption
  DEF LaunchFails, IInv, TypeOK, XTypeOK, PortInv, TurnInv, CountInv, RegionInv,
      ServerActive, ServerEnded, ClientActive, Connected, Due, Part, Total,
      ClientGreeted, Replied, Procs, Goes, Starts, Touches, Options, Counters,
      Uniform, STC, CTS, Quiet, Peer
<1>8. BufInv'
  BY CountsAssumption
  DEF LaunchFails, IInv, TypeOK, XTypeOK, PortInv, CountInv, RegionInv, BufInv,
      Agreement, ServerActive, ClientActive, Connected, Replied, Procs, Goes, Starts,
      Touches, Options, Counters, Uniform, STC, CTS, Quiet, Peer
<1> QED BY <1>1, <1>2, <1>3, <1>4, <1>5, <1>6, <1>7, <1>8 DEF IInv

LEMMA MallocFailsInv ==
  ASSUME NEW p \in Procs, IInv, MallocFails(p), Quiet
  PROVE  IInv'
<1>1. TypeOK'
  BY CountsAssumption
  DEF MallocFails, IInv, TypeOK, XTypeOK, Procs, Goes, Starts, Touches, Options,
      Counters, Quiet, ServerLabels, ClientLabels, Peer
<1>2. PortInv'
  BY CountsAssumption
  DEF MallocFails, IInv, TypeOK, XTypeOK, PortInv, Connected, ClientGreeted, Procs,
      Goes, Starts, Touches, Options, Counters, Quiet, Peer
<1>3. BeforeInv'
  BY CountsAssumption
  DEF MallocFails, IInv, TypeOK, XTypeOK, PortInv, BeforeInv, Connected,
      ClientGreeted, Procs, Goes, Starts, Touches, Options, Counters, Quiet, Peer
<1>4. EarlyInv'
  BY CountsAssumption
  DEF MallocFails, IInv, PortInv, EarlyInv, Connected, Due, ClientGreeted, Goes,
      Counters, Quiet
<1>5. TurnInv'
  BY CountsAssumption
  DEF MallocFails, IInv, TypeOK, XTypeOK, PortInv, BeforeInv, EarlyInv, TurnInv,
      ServerActive, ServerEnded, ClientActive, Connected, Due, Part, Total,
      ClientGreeted, Procs, Goes, Starts, Touches, Options, Counters, Quiet, Peer
<1>6. CountInv'
  BY CountsAssumption
  DEF MallocFails, IInv, TypeOK, XTypeOK, PortInv, TurnInv, CountInv, ServerActive,
      ServerEnded, ClientActive, Connected, Due, Part, Total, ClientGreeted, Replied,
      Procs, Goes, Starts, Touches, Options, Counters, Quiet, Peer
<1>7. RegionInv'
  BY CountsAssumption
  DEF MallocFails, IInv, TypeOK, XTypeOK, PortInv, TurnInv, CountInv, RegionInv,
      ServerActive, ServerEnded, ClientActive, Connected, Due, Part, Total,
      ClientGreeted, Replied, Procs, Goes, Starts, Touches, Options, Counters,
      Uniform, STC, CTS, Quiet, Peer
<1>8. BufInv'
  BY CountsAssumption
  DEF MallocFails, IInv, TypeOK, XTypeOK, PortInv, CountInv, RegionInv, BufInv,
      Agreement, ServerActive, ClientActive, Connected, Replied, Procs, Goes, Starts,
      Touches, Options, Counters, Uniform, STC, CTS, Quiet, Peer
<1> QED BY <1>1, <1>2, <1>3, <1>4, <1>5, <1>6, <1>7, <1>8 DEF IInv

LEMMA ArriveInv ==
  ASSUME NEW p \in Procs, IInv, Arrive(p)
  PROVE  IInv'
<1>1. TypeOK'
  BY DEF Arrive, xvars, IInv, TypeOK, XTypeOK
<1>2. PortInv'
  BY CountsAssumption DEF Arrive, xvars, IInv, PortInv, Connected, ClientGreeted
<1>3. BeforeInv'
  BY CountsAssumption DEF Arrive, xvars, IInv, BeforeInv, EarlyInv, ClientGreeted
<1>4. EarlyInv'
  BY CountsAssumption
  DEF Arrive, Listening, xvars, IInv, TypeOK, BeforeInv, EarlyInv, RegionInv, BufInv,
      ServerEnded, Connected, Due, Procs, ServerLabels, ClientLabels
<1>5. TurnInv'
  BY CountsAssumption
  DEF Arrive, Listening, xvars, IInv, TypeOK, XTypeOK, PortInv, BeforeInv, EarlyInv,
      TurnInv, CountInv, ServerActive, ServerEnded, ClientActive, Connected, Due,
      Part, Total, ClientGreeted, Replied, Procs, Goes, Starts, Touches, Options,
      Counters, Quiet, ServerLabels, ClientLabels, Peer
<1>6. CountInv'
  BY CountsAssumption
  DEF Arrive, Listening, xvars, IInv, TypeOK, XTypeOK, PortInv, TurnInv, CountInv,
      ServerActive, ServerEnded, ClientActive, Connected, Due, Part, Total,
      ClientGreeted, Replied, Procs, Goes, Starts, Touches, Options, Counters, Quiet,
      Peer
<1>7. RegionInv'
  BY CountsAssumption
  DEF Arrive, Listening, xvars, IInv, TypeOK, XTypeOK, CountInv, RegionInv, Agreement,
      Connected, Due, Replied, Procs
<1>8. BufInv'
  BY CountsAssumption
  DEF Arrive, Listening, xvars, IInv, TypeOK, XTypeOK, PortInv, CountInv, RegionInv,
      BufInv, Agreement, ServerActive, ClientActive, Connected, Replied, Procs, Goes,
      Starts, Touches, Options, Counters, Uniform, STC, CTS, Quiet, Peer
<1> QED BY <1>1, <1>2, <1>3, <1>4, <1>5, <1>6, <1>7, <1>8 DEF IInv
---------------------------------------------------------------------------
LEMMA PortStepInv ==
  ASSUME IInv, NEW p \in Procs, PortStep(p)
  PROVE  IInv'
BY ResetInv, BindInv, ClearInv DEF PortStep

LEMMA NextInv ==
  ASSUME IInv, [Next]_vars
  PROVE  IInv'
<1>0. "server" \in Procs /\ "client" \in Procs
  BY DEF Procs
<1>1. CASE ServerStep
  <2>1. CASE MemoryStep("server") /\ Quiet
    BY <2>1, ServerFillCellInv, ServerStartCheckInv, ServerCheckCellInv, ServerCopyCellInv
    DEF MemoryStep
  <2> QED
    BY <1>0, <1>1, <2>1, ServerClearsInv, PortStepInv, ServerConnectsInv, ServerMeetsInv,
       ServerNotifiesInv, ServerNotifyFailsInv, ServerWaitsInv, ServerEndsCopyInv,
       ServerEvaluatesInv
    DEF ServerStep
<1>2. CASE ClientStep
  <2>1. CASE MemoryStep("client") /\ Quiet
    BY <2>1, ClientFillCellInv, ClientStartCheckInv, ClientCheckCellInv, ClientCopyCellInv
    DEF MemoryStep
  <2> QED
    BY <1>0, <1>2, <2>1, PortStepInv, ClientConnectsInv, ClientGreetsInv, ClientWaitsInv,
       ClientNotifiesInv, ClientEndsCopyInv
    DEF ClientStep
<1>3. CASE Fails
  BY <1>3, LaunchFailsInv, MallocFailsInv DEF Fails
<1>4. CASE UNCHANGED vars
  BY <1>4
  DEF vars, xvars, IInv, TypeOK, XTypeOK, PortInv, BeforeInv, EarlyInv, TurnInv,
      CountInv, RegionInv, BufInv, Agreement, ServerActive, ServerEnded, ClientActive,
      Connected, Due, Total, ClientGreeted, Replied
<1> QED BY <1>1, <1>2, <1>3, <1>4, ServerLaunchInv, ClientLaunchInv, ArriveInv DEF Next

(* The strengthened invariant: ports, interrupts, turns, counts and the     *)
(* contents of the region fit together in every reachable state.            *)
THEOREM Invariant == Spec => []IInv
BY InitInv, NextInv, PTL DEF Spec

(* Every variable keeps its type.                                           *)
THEOREM TypeCorrect == Spec => []TypeOK
<1>1. IInv => TypeOK
  BY DEF IInv
<1> QED BY <1>1, Invariant, PTL

(* Interrupts alone keep the processes apart in the region.                 *)
THEOREM RaceFree == Spec => []NoDataRace
<1>1. IInv => NoDataRace
  <2> SUFFICES ASSUME IInv PROVE NoDataRace
    OBVIOUS
  <2>1. CASE ClientActive
    BY <2>1, Holding DEF NoDataRace, InRegion
  <2>2. CASE ~ClientActive
    BY <2>2 DEF NoDataRace, InRegion, ClientActive, IInv, TypeOK, XTypeOK, ClientLabels
  <2> QED BY <2>1, <2>2
<1> QED BY <1>1, Invariant, PTL

(* Once they are paired there is one token, and it is only lost to a client *)
(* that has finished.                                                       *)
THEOREM OneTokenAlways == Spec => []OneToken
<1>1. IInv => OneToken
  <2> SUFFICES ASSUME IInv, Paired PROVE OneToken
    BY DEF OneToken
  <2>1. /\ Due("server") \in Nat /\ Due("client") \in Nat
        /\ \A p \in Procs : Interrupted(p) = Due(p)
    BY Numbers DEF IInv, Due, Interrupted
  <2>2. Total <= 1 /\ (Total = 0 => pc["client"] = "done")
    BY DEF IInv, TurnInv, Paired, Connected
  <2>3. Working <=> ClientActive \/ ServerActive \/ ServerEnded \/ pc["server"] = "exited"
    BY DEF Working, Holds, ClientActive, ServerActive, ServerEnded, Procs
  <2>4. "server" \in Procs /\ "client" \in Procs
    BY DEF Procs
  <2> QED BY <2>1, <2>2, <2>3, <2>4 DEF OneToken, Total, Part
<1> QED BY <1>1, Invariant, PTL

(* Each side copies exactly the message, or the reply, its round is due.    *)
THEOREM Agreed == Spec => []Agreement
<1>1. IInv => Agreement
  BY DEF IInv, BufInv
<1> QED BY <1>1, Invariant, PTL
---------------------------------------------------------------------------
LEMMA RefinesInit == Init => P!Init
BY CountsAssumption DEF Init, XInit, P!Init, Sent, Taken, Replied, Begins, Procs

(* A step that leaves the counts, the server's class of labels and the      *)
(* client's alone is none of PingPong.                                      *)
LEMMA Stutters ==
  ASSUME UNCHANGED <<message, left, count>>, Begins' <=> Begins,
         pc["server"] \in {"wait", "copy"} <=> pc'["server"] \in {"wait", "copy"},
         pc["client"] \in {"copy", "fill", "check"} <=> pc'["client"] \in {"copy", "fill", "check"},
         IInv, IInv'
  PROVE  UNCHANGED P!vars
BY DEF P!vars, Sent, Taken, Replied, IInv, PortInv

LEMMA MemoryStutters ==
  ASSUME IInv, IInv', NEW p \in Procs, MemoryStep(p), Quiet
  PROVE  UNCHANGED P!vars
<1>1. UNCHANGED <<message, left, count, port>>
  BY DEF MemoryStep, FillCell, StartCheck, CheckCell, CopyCell, Counters, Options, Quiet
<1>2. \/ UNCHANGED pc
      \/ pc[p] = "fill" /\ pc' = [pc EXCEPT ![p] = "check"]
      \/ pc[p] = "check" /\ pc' = [pc EXCEPT ![p] = "torn"]
  BY DEF MemoryStep, FillCell, StartCheck, CheckCell, CopyCell, Goes
<1>3. pc \in [Procs -> ServerLabels \cup ClientLabels]
  BY DEF IInv, TypeOK, XTypeOK
<1>4. CASE UNCHANGED pc
  BY <1>1, <1>4, Stutters DEF Begins
<1>5. CASE pc[p] = "fill" /\ pc' = [pc EXCEPT ![p] = "check"]
  BY <1>1, <1>3, <1>5, Stutters DEF Begins, Procs
<1>6. pc'[p] # "torn"
  BY DEF IInv, PortInv, Procs
<1> QED BY <1>2, <1>3, <1>4, <1>5, <1>6

LEMMA RefinesNext == IInv /\ IInv' /\ [Next]_vars => [P!Next]_P!vars
<1> SUFFICES ASSUME IInv, IInv', [Next]_vars PROVE [P!Next]_P!vars
  OBVIOUS
<1>0. /\ left \in Int /\ count["client"] \in Int /\ message \in Nat /\ Replied \in Int
      /\ pc \in [Procs -> ServerLabels \cup ClientLabels]
      /\ "server" \in Procs /\ "client" \in Procs
      /\ pc["server"] # "broken" /\ pc["server"] # "mismatch"
      /\ pc["client"] # "torn" /\ pc["client"] # "mismatch"
      /\ pc'["server"] # "broken" /\ pc'["server"] # "mismatch"
      /\ pc'["client"] # "torn" /\ pc'["client"] # "mismatch"
  BY Numbers DEF IInv, TypeOK, XTypeOK, PortInv
<1>1. ASSUME ServerStep PROVE [P!Next]_P!vars
  <2>1. CASE ServerClears
    BY <1>0, <2>1, Stutters DEF ServerClears, Counters, Options, Quiet, Begins
  <2>2. CASE PortStep("server")
    <3>1. UNCHANGED <<message, left, count, pc>> /\ pc["server"] = "clear"
      BY <2>2 DEF PortStep, Reset, Bind, Clear, PortGoes, SettingUp, xvars, Options
    <3>2. ~Begins /\ ~Begins'
      BY <3>1 DEF IInv, PortInv, Begins, Connected
    <3> QED BY <3>1, <3>2, Stutters
  <2>3. CASE ServerConnects
    <3>1. /\ UNCHANGED <<message, left, count>>
          /\ pc["server"] = "clear" /\ pc' = [pc EXCEPT !["server"] = "meet"]
      BY <2>3 DEF ServerConnects, Goes, Counters, Options
    <3>2. ~Begins /\ ~Begins'
      BY <1>0, <3>1 DEF IInv, PortInv, Begins, Connected
    <3> QED BY <1>0, <3>1, <3>2, Stutters
  <2>4. CASE ServerMeets
    <3>1. /\ UNCHANGED <<left, count, port>> /\ message' = 0 /\ pc["server"] = "meet"
          /\ \E to \in {"fill", "evaluate"} : pc' = [pc EXCEPT !["server"] = to]
      BY <2>4 DEF ServerMeets, usernet_intr_wait, ServerLoop, Goes, Options
    <3>2. message = 0 /\ port["server"] = "connected"
      BY <3>1 DEF IInv, CountInv, PortInv, Connected
    <3> QED BY <1>0, <3>1, <3>2 DEF P!Next, P!Meet, P!Met, Begins, Sent, Taken, Replied
  <2>5. CASE ServerNotifies
    <3>1. /\ UNCHANGED <<message, left, count, port>> /\ pc["server"] \in {"fill", "check"}
          /\ pc' = [pc EXCEPT !["server"] = "wait"]
      BY <2>5 DEF ServerNotifies, Ready, usernet_intr_notify, Counters, Options
    <3>2. port["server"] = "connected" /\ Replied = message
      BY <1>0, <3>1 DEF IInv, CountInv, PortInv, Connected, ServerActive, Part
    <3> QED BY <1>0, <3>1, <3>2 DEF P!Next, P!Send, P!Met, Begins, Sent, Taken, Replied
  <2>6. CASE ServerNotifyFails
    <3>1. /\ UNCHANGED <<message, left, count, port>> /\ pc["server"] \in {"fill", "check"}
          /\ pc' = [pc EXCEPT !["server"] = "exited"]
      BY <2>6 DEF ServerNotifyFails, Ready, Counters, Options, Quiet
    <3> QED BY <1>0, <3>1, Stutters DEF Begins
  <2>7. CASE ServerWaits
    <3>1. /\ UNCHANGED <<message, left, count, port>> /\ pc["server"] = "wait"
          /\ pc' = [pc EXCEPT !["server"] = "copy"]
      BY <2>7 DEF ServerWaits, Goes, usernet_intr_wait, Counters, Options
    <3> QED BY <1>0, <3>1, Stutters DEF Begins
  <2>8. CASE MemoryStep("server") /\ Quiet
    BY <1>0, <2>8, MemoryStutters
  <2>9. CASE ServerEndsCopy /\ Quiet
    <3>1. /\ UNCHANGED <<left, count, port>> /\ pc["server"] = "copy" /\ message' = message + 1
          /\ \E to \in {"fill", "evaluate"} : pc' = [pc EXCEPT !["server"] = to]
      BY <1>0, <2>9
    DEF ServerEndsCopy, ServerLoop, Goes, Options, Quiet
    <3>2. port["server"] = "connected" /\ Replied = message + 1
      BY <1>0, <3>1 DEF IInv, CountInv, PortInv, Connected, ServerActive, Part
    <3> QED BY <1>0, <3>1, <3>2 DEF P!Next, P!Get, P!Met, Begins, Sent, Taken, Replied
  <2>10. CASE ServerEvaluates /\ Quiet
    <3>1. /\ UNCHANGED <<message, left, count, port>> /\ pc["server"] = "evaluate"
          /\ \E to \in {"done", "aborted"} : pc' = [pc EXCEPT !["server"] = to]
      BY <2>10 DEF ServerEvaluates, Goes, Counters, Options, Quiet
    <3> QED BY <1>0, <3>1, Stutters DEF Begins
  <2> QED BY <1>1, <2>1, <2>2, <2>3, <2>4, <2>5, <2>6, <2>7, <2>8, <2>9, <2>10
      DEF ServerStep
<1>2. ASSUME ClientStep PROVE [P!Next]_P!vars
  <2>1. CASE PortStep("client") \/ ClientConnects
    <3>1. UNCHANGED <<message, left, count, pc, port["server"]>>
      BY <1>0, <2>1
      DEF PortStep, Reset, Bind, Clear, ClientConnects, PortGoes, xvars, Options,
          IInv, TypeOK
    <3> QED BY <3>1, Stutters DEF Begins
  <2>2. CASE ClientGreets
    <3>1. /\ UNCHANGED <<message, count, port>> /\ left' = count["client"]
          /\ pc["client"] = "hello"
          /\ \E to \in {"wait", "done"} : pc' = [pc EXCEPT !["client"] = to]
      BY <2>2 DEF ClientGreets, ClientLoop, Goes, usernet_intr_notify, Options
    <3>2. Replied = 0
      BY <3>1 DEF IInv, BeforeInv, CountInv, ClientGreeted, Connected
    <3>3. left = count["client"]
      BY <1>0, <3>2 DEF Replied
    <3> QED BY <1>0, <3>1, <3>3, Stutters DEF Begins
  <2>3. CASE ClientWaits
    <3>1. /\ UNCHANGED <<message, left, count, port>> /\ pc["client"] = "wait"
          /\ pc' = [pc EXCEPT !["client"] = "copy"]
      BY <2>3 DEF ClientWaits, Goes, usernet_intr_wait, Counters, Options
    <3>2. pc'["client"] = "copy" /\ pc'["server"] = pc["server"]
      BY <1>0, <3>1
    <3>3. Due("client") > 0
      BY <1>0, <2>3, Numbers
      DEF ClientWaits, usernet_intr_wait, Due, IInv
    <3>4. pc["server"] = "wait" /\ Connected /\ Total <= 1
      BY <3>1, <3>3 DEF IInv, EarlyInv, TurnInv, ClientGreeted
    <3>5. Due("server") = 0
      BY <1>0, <3>3, <3>4, Numbers DEF Total, Part, IInv
    <3>6. Replied = message
      BY <1>0, <3>4, <3>5 DEF IInv, CountInv
    <3> QED BY <1>0, <3>1, <3>2, <3>4, <3>6
            DEF P!Next, P!Take, P!Met, Begins, Sent, Taken, Replied, Connected
  <2>4. CASE ClientNotifies
    <3>1. /\ UNCHANGED <<message, count, port>> /\ left' = left - 1
          /\ pc["client"] \in {"fill", "check"}
          /\ \E to \in {"wait", "done"} : pc' = [pc EXCEPT !["client"] = to]
      BY <2>4 DEF ClientNotifies, ClientLoop, Goes, Ready, usernet_intr_notify, Options
    <3>2. pc["server"] = "wait" /\ Connected
      BY <3>1, Holding DEF ClientActive
    <3> QED BY <1>0, <3>1, <3>2
        DEF P!Next, P!Reply, P!Met, Begins, Sent, Taken, Replied, Connected
  <2>5. CASE MemoryStep("client") /\ Quiet
    BY <1>0, <2>5, MemoryStutters
  <2>6. CASE ClientEndsCopy /\ Quiet
    <3>1. /\ UNCHANGED <<message, left, count, port>> /\ pc["client"] = "copy"
          /\ pc' = [pc EXCEPT !["client"] = "fill"]
      BY <1>0, <2>6
    DEF ClientEndsCopy, Goes, Counters, Options, Quiet
    <3> QED BY <1>0, <3>1, Stutters DEF Begins
  <2> QED BY <1>2, <2>1, <2>2, <2>3, <2>4, <2>5, <2>6 DEF ClientStep
<1>3. CASE ServerLaunch \/ ClientLaunch \/ Fails
  <2>1. PICK p \in Procs, from \in {"off", "clear", "hello"}, to \in {"clear", "hello", "exited"} :
          pc[p] = from /\ pc' = [pc EXCEPT ![p] = to]
    BY <1>0, <1>3 DEF ServerLaunch, ClientLaunch, Fails, LaunchFails, MallocFails, Goes
  <2>2. UNCHANGED <<message, left, count, port>>
    BY <1>3
    DEF ServerLaunch, ClientLaunch, Fails, LaunchFails, MallocFails, Counters,
        Options, Quiet
  <2>3. Begins' <=> Begins
    BY <1>0, <2>1, <2>2 DEF Begins, IInv, PortInv, Connected, Procs
  <2> QED BY <1>0, <2>1, <2>2, <2>3, Stutters DEF Procs
<1>4. CASE \E p \in Procs : Arrive(p)
  BY <1>4, Stutters DEF Arrive, xvars, Begins
<1>5. CASE UNCHANGED vars
  BY <1>5, Stutters DEF vars, xvars, Begins
<1> QED BY <1>1, <1>2, <1>3, <1>4, <1>5 DEF Next

(* Whatever interrupts were left and whichever process starts first,        *)
(* ivshmem-usernet implements the alternation that PingPong specifies.      *)
THEOREM Implements == Spec => PingPongSpec
<1>1. Init => P!Init
  BY RefinesInit
<1>2. IInv /\ IInv' /\ [Next]_vars => [P!Next]_P!vars
  BY RefinesNext
<1> QED BY <1>1, <1>2, Invariant, PTL DEF Spec, PingPongSpec, P!Spec
---------------------------------------------------------------------------
(* Nobody is left to send anything once the greeting is lost: the client    *)
(* waits without an interrupt on its way, or has no rounds to do.           *)
LEMMA StaysLost ==
  ASSUME IInv, GreetingLost, [Next]_vars
  PROVE  GreetingLost'
<1>1. /\ ClientGreeted /\ Connected /\ ~ClientActive /\ pc["server"] = "meet"
      /\ coming["client"] = 0 /\ pending["client"] = 0
  <2>1. ClientGreeted /\ Connected
    BY DEF IInv, BeforeInv, PortInv, GreetingLost
  <2>2. ~ClientActive /\ ~(Due("client") > 0)
    BY <2>1 DEF IInv, TurnInv, GreetingLost
  <2> QED BY <2>1, <2>2, Numbers DEF IInv, Due, GreetingLost
<1>2. coming["server"] = 0 /\ pending["server"] = 0 /\ skew = 1
  BY DEF GreetingLost
<1>3. ASSUME UNCHANGED <<skew, coming, pending>>, pc'["server"] = "meet"
      PROVE  GreetingLost'
  BY <1>2, <1>3 DEF GreetingLost
<1>4. CASE ServerStep
  <2>1. ~ServerClears /\ ~PortStep("server") /\ ~ServerConnects
    BY <1>1 DEF ServerClears, PortStep, Reset, Bind, Clear, ServerConnects, PortGoes, SettingUp, Goes
  <2>2. ~ServerMeets /\ ~ServerNotifies /\ ~ServerNotifyFails /\ ~ServerWaits
    BY <1>1, <1>2 DEF ServerMeets, ServerNotifies, ServerNotifyFails, ServerWaits, usernet_intr_wait, Ready, Goes
  <2>3. ~MemoryStep("server") /\ ~ServerEndsCopy /\ ~ServerEvaluates
    BY <1>1 DEF MemoryStep, FillCell, StartCheck, CheckCell, CopyCell, ServerEndsCopy, ServerLoop, ServerEvaluates, Goes
  <2> QED BY <1>4, <2>1, <2>2, <2>3 DEF ServerStep
<1>5. CASE ClientStep
  <2>1. ~PortStep("client") /\ ~ClientConnects /\ ~ClientGreets
    BY <1>1 DEF PortStep, Reset, Bind, Clear, ClientConnects, ClientGreets, ClientLoop, PortGoes, SettingUp, Goes, ClientGreeted
  <2>2. ~ClientWaits /\ ~ClientNotifies
    BY <1>1 DEF ClientWaits, ClientNotifies, usernet_intr_wait, Ready, ClientActive
  <2>3. ~MemoryStep("client") /\ ~ClientEndsCopy
    BY <1>1 DEF MemoryStep, FillCell, StartCheck, CheckCell, CopyCell, ClientEndsCopy, ClientActive, Goes
  <2> QED BY <1>5, <2>1, <2>2, <2>3 DEF ClientStep
<1>6. CASE ServerLaunch \/ ClientLaunch \/ Fails
  BY <1>1, <1>6 DEF ServerLaunch, ClientLaunch, Fails, LaunchFails, MallocFails, Goes, ClientGreeted, Procs
<1>7. ~(\E p \in Procs : Arrive(p))
  BY <1>1, <1>2 DEF Arrive, Procs
<1>8. CASE UNCHANGED vars
  BY <1>1, <1>3, <1>8 DEF vars, xvars
<1> QED BY <1>4, <1>5, <1>6, <1>7, <1>8 DEF Next

(* A greeting that the server has cleared away is never made up for: the    *)
(* two processes wait for each other in every later state.                  *)
THEOREM Lost == Spec => LostForGood
<1>1. IInv /\ GreetingLost => message = 0 /\ Replied = 0
  BY DEF IInv, CountInv, GreetingLost
<1>2. IInv /\ GreetingLost /\ [Next]_vars => GreetingLost'
  BY StaysLost
<1> QED BY <1>1, <1>2, Invariant, PTL DEF Spec, LostForGood
===========================================================================
