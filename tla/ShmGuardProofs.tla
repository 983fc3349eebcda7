-------------------------- MODULE ShmGuardProofs --------------------------
(* What ShmGuard.tla's runs show on small regions, for every region and     *)
(* every -c: the invariants, and that the guard protocol implements         *)
(* PingPong.                                                                *)
EXTENDS ShmGuard, TLAPS

ServerActive == pc["server"] \in {"fill", "check", "copy"}
ServerEnded == pc["server"] \in {"evaluate", "done", "aborted"}
ServerPassive == pc["server"] \in {"meet", "wait"}
ClientActive == pc["client"] \in {"copy", "fill", "check"}

(* Whose turn it is, as the guard and the two program counters tell it.     *)
TurnInv ==
    /\ pc["server"] \notin {"torn", "mismatch", "broken"}
    /\ pc["client"] \notin {"torn", "broken"}
    /\ ClientActive \/ pc["client"] = "mismatch" => guard = "c" /\ ServerPassive
    /\ ServerActive \/ ServerEnded => guard = "s" /\ pc["client"] \in {"wait", "done"}
    /\ ServerPassive => guard \in {"c", "s"}
    /\ ServerPassive /\ guard = "s" => pc["client"] \in {"wait", "done"}
    /\ pc["server"] = "wait" => ClientGreeted
    /\ ClientGreeted /\ ~ServerGreeted => guard # "c" /\ pc["client"] \in {"wait", "done"}

(* What is left to touch lies in the region, but for the server's clearing. *)
TodoInv ==
    /\ todo["client"] \subseteq Cells
    /\ pc["server"] # "clear" => todo["server"] \subseteq Cells

(* How many rounds each side has counted.                                   *)
CountInv ==
    /\ ~ServerGreeted \/ pc["server"] = "meet" => message = 0
    /\ ~ServerGreeted \/ ~ClientGreeted => skew = 0 /\ Replied = 0
    /\ Met => Replied = Sent + skew - (IF guard = "c" THEN 1 ELSE 0)
    /\ pc["client"] = "mismatch" => skew = 1 /\ Replied = 0

(* What the region holds, and what of it has been copied.                   *)
RegionInv ==
    /\ pc["server"] = "clear" => \A c \in Cells \ todo["server"] : region[c] = Zero
    /\ pc["server"] = "fill" => \A c \in Cells \ todo["server"] : region[c] = STC(message + 1)
    /\ pc["server"] = "check" => region = Uniform(STC(message + 1))
    /\ ServerPassive /\ guard = "c" /\ pc["client"] \notin {"fill", "check"}
         => region = Uniform(Due(Sent))
    /\ pc["client"] = "fill" => \A c \in Cells \ todo["client"] : region[c] = CTS(Replied + 1)
    /\ pc["client"] = "check" => region = Uniform(CTS(Replied + 1))
    /\ Met /\ guard = "s" /\ pc["server"] \in {"meet", "wait", "copy"} /\ Replied > 0
         => region = Uniform(CTS(Replied))

BufInv ==
    /\ pc["client"] = "copy" => \A c \in Cells \ todo["client"] : buf["client"][c] = Due(Sent)
    /\ pc["server"] = "copy" => \A c \in Cells \ todo["server"] : buf["server"][c] = CTS(Replied)
    /\ Agreement

IInv == TypeOK /\ TurnInv /\ TodoInv /\ CountInv /\ RegionInv /\ BufInv
---------------------------------------------------------------------------
LEMMA InitInv == Init => IInv
BY CountsAssumption
DEF Init, XInit, Leftovers, Words, Bytes, Zero, STC, CTS, Uniform, Procs, IInv,
    TypeOK, XTypeOK, ServerLabels, ClientLabels, TurnInv, TodoInv, CountInv,
    RegionInv, BufInv, Agreement, ServerActive, ServerEnded, ServerPassive,
    ClientActive, ClientGreeted, Met, Replied

LEMMA ServerLaunchInv ==
  ASSUME IInv, ServerLaunch
  PROVE  IInv'
<1>1. TypeOK'
  BY DEF ServerLaunch, Goes, Counters, Options, Procs, IInv, TypeOK, XTypeOK,
         ServerLabels
<1>2. TurnInv'
  BY DEF ServerLaunch, Goes, IInv, TurnInv, ServerActive, ServerEnded,
         ServerPassive, ClientActive, ServerGreeted, ClientGreeted
<1>3. TodoInv'
  BY DEF ServerLaunch, Goes, IInv, TypeOK, XTypeOK, TodoInv
<1>4. CountInv'
  BY DEF ServerLaunch, Goes, Counters, Options, IInv, CountInv, ServerGreeted, Met,
         Replied
<1>5. RegionInv'
  BY DEF ServerLaunch, Goes, Procs, IInv, TypeOK, TurnInv, RegionInv, ServerPassive,
         ClientActive
<1>6. BufInv'
  BY DEF ServerLaunch, Goes, IInv, TurnInv, BufInv, Agreement, ServerPassive,
         ClientActive
<1> QED BY <1>1, <1>2, <1>3, <1>4, <1>5, <1>6 DEF IInv

LEMMA ServerClearsInv ==
  ASSUME IInv, ServerClears
  PROVE  IInv'
<1>1. TypeOK'
  <2>1. PICK c \in todo["server"] :
          /\ todo' = [todo EXCEPT !["server"] = @ \ {c}]
          /\ IF c = GuardCell
             THEN guard' = "0" /\ UNCHANGED region
             ELSE region' = [region EXCEPT ![c] = Zero] /\ UNCHANGED guard
    BY DEF ServerClears, Touches
  <2>2. todo' \in [Procs -> SUBSET (Cells \cup {GuardCell})]
    BY <2>1 DEF IInv, TypeOK, Procs
  <2>3. region' \in [Cells -> Words] /\ guard' \in Letters
    <3>1. CASE c = GuardCell
      BY <2>1, <3>1 DEF IInv, TypeOK, XTypeOK, Letters
    <3>2. CASE c # GuardCell
      <4>1. Zero \in Words
        BY DEF Words, Bytes, Zero
      <4> QED BY <2>1, <3>2, <4>1 DEF IInv, TypeOK, XTypeOK
    <3> QED BY <3>1, <3>2
  <2> QED BY <2>2, <2>3 DEF ServerClears, IInv, TypeOK, XTypeOK, Counters, Options
<1>2. TurnInv'
  BY DEF ServerClears, IInv, TurnInv, ServerActive, ServerEnded, ServerPassive,
         ClientActive, ServerGreeted, ClientGreeted
<1>3. TodoInv'
  BY DEF ServerClears, Touches, Procs, IInv, TodoInv
<1>4. CountInv'
  BY DEF ServerClears, Counters, Options, IInv, CountInv, ServerGreeted, Met,
         Replied
<1>5. RegionInv'
  BY GuardCellAssumption
  DEF ServerClears, Touches, IInv, TypeOK, XTypeOK, TurnInv, RegionInv, ServerPassive,
      ClientActive
<1>6. BufInv'
  BY DEF ServerClears, IInv, TurnInv, BufInv, Agreement, ServerPassive, ClientActive
<1> QED BY <1>1, <1>2, <1>3, <1>4, <1>5, <1>6 DEF IInv

LEMMA ServerGreetsInv ==
  ASSUME IInv, ServerGreets
  PROVE  IInv'
<1>1. TypeOK'
  BY DEF ServerGreets, Goes, Options, userspace_shm_notify, Procs, IInv, TypeOK,
         XTypeOK, Letters, ServerLabels
<1>2. TurnInv'
  BY DEF ServerGreets, Goes, userspace_shm_notify, Procs, IInv, TypeOK, XTypeOK,
         TurnInv, ServerActive, ServerEnded, ClientActive, ServerGreeted,
         ClientGreeted
<1>3. TodoInv'
  BY DEF ServerGreets, Goes, Options, IInv, TodoInv
<1>4. CountInv'
  BY DEF ServerGreets, Goes, Options, userspace_shm_notify, Procs, IInv, TypeOK,
         XTypeOK, CountInv, ServerGreeted, ClientGreeted, Met, Sent, Replied
<1>5. RegionInv'
  BY DEF ServerGreets, Goes, userspace_shm_notify, IInv, TypeOK, XTypeOK, CountInv,
         RegionInv, ServerGreeted, Sent, Due, Uniform, Zero, CTS
<1>6. BufInv'
  BY DEF ServerGreets, Goes, IInv, TurnInv, BufInv, Agreement, ServerPassive,
         ClientActive
<1> QED BY <1>1, <1>2, <1>3, <1>4, <1>5, <1>6 DEF IInv

LEMMA ServerMeetsInv ==
  ASSUME IInv, ServerMeets
  PROVE  IInv'
<1>1. TypeOK'
  BY DEF ServerMeets, Goes, Starts, Options, ServerLoop, userspace_shm_wait, Procs,
         IInv, TypeOK, XTypeOK, ServerLabels
<1>2. TurnInv'
  BY DEF ServerMeets, Goes, ServerLoop, userspace_shm_wait, Procs, IInv, TypeOK,
         XTypeOK, TurnInv, ServerPassive, ClientActive
<1>3. TodoInv'
  BY DEF ServerMeets, Goes, Starts, ServerLoop, Procs, IInv, TypeOK, TodoInv
<1>4. CountInv'
  BY DEF ServerMeets, Goes, Options, ServerLoop, userspace_shm_wait, Procs, IInv,
         TypeOK, XTypeOK, CountInv, ServerGreeted, ClientGreeted, Met, Sent, Replied
<1>5. RegionInv'
  BY DEF ServerMeets, Goes, Starts, ServerLoop, userspace_shm_wait, Procs, IInv,
         TypeOK, XTypeOK, TurnInv, RegionInv, ServerPassive
<1>6. BufInv'
  BY DEF ServerMeets, Goes, ServerLoop, userspace_shm_wait, Procs, IInv, TypeOK,
         XTypeOK, TurnInv, BufInv, Agreement, ServerPassive
<1> QED BY <1>1, <1>2, <1>3, <1>4, <1>5, <1>6 DEF IInv

LEMMA ServerNotifiesInv ==
  ASSUME IInv, ServerNotifies
  PROVE  IInv'
<1>1. TypeOK'
  BY DEF ServerNotifies, Counters, Options, userspace_shm_notify, Procs, IInv,
         TypeOK, XTypeOK, Letters, ServerLabels
<1>2. TurnInv'
  BY DEF ServerNotifies, Ready, userspace_shm_notify, Procs, IInv, TypeOK, XTypeOK,
         TurnInv, ServerActive, ServerEnded, ClientActive, ServerGreeted,
         ClientGreeted
<1>3. TodoInv'
  BY DEF ServerNotifies, Counters, Ready, IInv, TodoInv
<1>4. CountInv'
  BY DEF ServerNotifies, Counters, Options, Ready, userspace_shm_notify, Procs,
         IInv, TypeOK, XTypeOK, TurnInv, CountInv, ServerActive, ServerGreeted,
         ClientGreeted, Met, Sent, Replied
<1>5. RegionInv'
  BY DEF ServerNotifies, Counters, Options, Ready, userspace_shm_notify, Procs,
         IInv, TypeOK, XTypeOK, RegionInv, Sent, Replied, Due, Uniform
<1>6. BufInv'
  BY DEF ServerNotifies, Counters, Ready, IInv, TurnInv, BufInv, Agreement,
         ServerPassive, ClientActive
<1> QED BY <1>1, <1>2, <1>3, <1>4, <1>5, <1>6 DEF IInv

LEMMA ServerWaitsInv ==
  ASSUME IInv, ServerWaits
  PROVE  IInv'
<1>1. TypeOK'
  BY DEF ServerWaits, Goes, Starts, Counters, Options, userspace_shm_wait, Procs,
         IInv, TypeOK, XTypeOK, ServerLabels
<1>2. TurnInv'
  BY DEF ServerWaits, Goes, userspace_shm_wait, IInv, TurnInv, ServerPassive,
         ClientActive, ClientGreeted
<1>3. TodoInv'
  BY DEF ServerWaits, Goes, Starts, IInv, TodoInv
<1>4. CountInv'
  BY DEF ServerWaits, Goes, Counters, Options, userspace_shm_wait, IInv, CountInv,
         ServerGreeted, ClientGreeted, Met, Sent, Replied
<1>5. RegionInv'
  BY DEF ServerWaits, Goes, Starts, Counters, Options, userspace_shm_wait, IInv,
         CountInv, RegionInv, Met, Replied
<1>6. BufInv'
  BY DEF ServerWaits, Goes, Starts, userspace_shm_wait, Procs, IInv, TypeOK,
         XTypeOK, TurnInv, BufInv, Agreement, ServerPassive
<1> QED BY <1>1, <1>2, <1>3, <1>4, <1>5, <1>6 DEF IInv

LEMMA ClientLaunchInv ==
  ASSUME IInv, ClientLaunch
  PROVE  IInv'
<1>1. TypeOK'
  BY DEF ClientLaunch, Goes, Counters, Options, Procs, IInv, TypeOK, XTypeOK,
         ClientLabels
<1>2. TurnInv'
  BY DEF ClientLaunch, Goes, IInv, TurnInv, ServerActive, ServerEnded,
         ServerPassive, ClientActive, ClientGreeted
<1>3. TodoInv'
  BY DEF ClientLaunch, Goes, Procs, IInv, TodoInv
<1>4. CountInv'
  BY DEF ClientLaunch, Goes, Counters, Options, IInv, CountInv, ServerGreeted,
         ClientGreeted, Met, Replied
<1>5. RegionInv'
  BY DEF ClientLaunch, Goes, Counters, IInv, TurnInv, RegionInv, ServerActive,
         ServerPassive, Sent
<1>6. BufInv'
  BY DEF ClientLaunch, Goes, Counters, IInv, TurnInv, BufInv, Agreement,
         ServerActive
<1> QED BY <1>1, <1>2, <1>3, <1>4, <1>5, <1>6 DEF IInv

LEMMA ClientGreetsInv ==
  ASSUME IInv, ClientGreets
  PROVE  IInv'
<1>0. left \in Int /\ count["client"] \in Int /\ message \in Nat
  BY CountsAssumption DEF IInv, TypeOK, XTypeOK, Procs
<1>1. TypeOK'
  BY <1>0
  DEF ClientGreets, Goes, Options, ClientLoop, userspace_shm_notify, Procs, IInv,
      TypeOK, XTypeOK, Letters, ClientLabels
<1>2. TurnInv'
  BY DEF ClientGreets, Goes, ClientLoop, userspace_shm_notify, Procs, IInv, TypeOK,
         XTypeOK, TurnInv, ClientActive, ClientGreeted
<1>3. TodoInv'
  BY DEF ClientGreets, Goes, ClientLoop, IInv, TodoInv
<1>4. CountInv'
  BY <1>0
  DEF ClientGreets, Goes, Options, ClientLoop, userspace_shm_notify, IInv, TypeOK,
      XTypeOK, ServerLabels, TurnInv, CountInv, ServerActive, ServerEnded,
      ServerGreeted, ClientGreeted, Sent, Replied
<1>5. RegionInv'
  BY <1>0
  DEF ClientGreets, Goes, Options, ClientLoop, userspace_shm_notify, IInv, RegionInv,
      Replied
<1>6. BufInv'
  BY DEF ClientGreets, Goes, ClientLoop, IInv, TurnInv, BufInv, Agreement,
         ServerActive
<1> QED BY <1>1, <1>2, <1>3, <1>4, <1>5, <1>6 DEF IInv

LEMMA ClientWaitsInv ==
  ASSUME IInv, ClientWaits
  PROVE  IInv'
<1>1. TypeOK'
  BY DEF ClientWaits, Goes, Starts, Counters, Options, userspace_shm_wait, Procs,
         IInv, TypeOK, XTypeOK, ClientLabels
<1>2. TurnInv'
  BY DEF ClientWaits, Goes, userspace_shm_wait, IInv, TypeOK, XTypeOK, ServerLabels,
         TurnInv, ServerActive, ServerEnded, ServerPassive, ServerGreeted,
         ClientGreeted
<1>3. TodoInv'
  BY DEF ClientWaits, Goes, Starts, IInv, TodoInv
<1>4. CountInv'
  BY DEF ClientWaits, Goes, Counters, Options, userspace_shm_wait, IInv, CountInv,
         ServerGreeted, ClientGreeted, Met, Sent, Replied
<1>5. RegionInv'
  BY DEF ClientWaits, Goes, Starts, Counters, userspace_shm_wait, IInv, RegionInv,
         ServerPassive, Sent
<1>6. BufInv'
  BY DEF ClientWaits, Goes, Starts, Counters, userspace_shm_wait, IInv, TypeOK,
         XTypeOK, TurnInv, BufInv, Agreement, ServerActive
<1> QED BY <1>1, <1>2, <1>3, <1>4, <1>5, <1>6 DEF IInv

LEMMA ClientNotifiesInv ==
  ASSUME IInv, ClientNotifies
  PROVE  IInv'
<1>0. left \in Int /\ count["client"] \in Int /\ message \in Nat
  BY CountsAssumption DEF IInv, TypeOK, XTypeOK, Procs
<1>1. TypeOK'
  BY <1>0
  DEF ClientNotifies, Goes, Options, ClientLoop, userspace_shm_notify, Procs, IInv,
      TypeOK, XTypeOK, Letters, ClientLabels
<1>2. TurnInv'
  BY DEF ClientNotifies, Goes, ClientLoop, userspace_shm_notify, Procs, IInv,
         TypeOK, XTypeOK, TurnInv, ClientActive, ClientGreeted
<1>3. TodoInv'
  BY DEF ClientNotifies, Goes, ClientLoop, IInv, TodoInv
<1>4. CountInv'
  BY <1>0
  DEF ClientNotifies, Goes, Options, Ready, ClientLoop, userspace_shm_notify, Procs,
      IInv, TypeOK, XTypeOK, TurnInv, CountInv, ClientActive, ServerGreeted,
      ClientGreeted, Met, Sent, Replied
<1>5. RegionInv'
  BY <1>0
  DEF ClientNotifies, Goes, Options, Ready, ClientLoop, userspace_shm_notify, Procs,
      IInv, TypeOK, XTypeOK, RegionInv, Replied, Uniform
<1>6. BufInv'
  BY DEF ClientNotifies, Goes, Ready, ClientLoop, Procs, IInv, TypeOK, XTypeOK,
         TurnInv, BufInv, Agreement, ServerActive
<1> QED BY <1>1, <1>2, <1>3, <1>4, <1>5, <1>6 DEF IInv

LEMMA ServerEndsCopyInv ==
  ASSUME IInv, ServerEndsCopy, UNCHANGED guard
  PROVE  IInv'
<1>1. TypeOK'
  BY DEF ServerEndsCopy, Goes, Starts, Options, ServerLoop, Procs, IInv, TypeOK,
         XTypeOK, ServerLabels
<1>2. TurnInv'
  BY DEF ServerEndsCopy, Goes, Rejects, Incoming, ServerLoop, Procs, IInv, TypeOK,
         XTypeOK, TurnInv, BufInv, ServerActive, ClientActive, CTS
<1>3. TodoInv'
  BY DEF ServerEndsCopy, Starts, ServerLoop, Procs, IInv, TypeOK, TodoInv
<1>4. CountInv'
  BY DEF ServerEndsCopy, Goes, Options, ServerLoop, Procs, IInv, TypeOK, XTypeOK,
         CountInv, ServerGreeted, ClientGreeted, Met, Sent, Replied
<1>5. RegionInv'
  BY DEF ServerEndsCopy, Goes, Starts, ServerLoop, Procs, IInv, TypeOK, XTypeOK,
         TurnInv, RegionInv, ServerPassive, ClientActive
<1>6. BufInv'
  BY DEF ServerEndsCopy, Goes, ServerLoop, Procs, IInv, TypeOK, XTypeOK, TurnInv,
         CountInv, BufInv, Agreement, ServerActive, ServerGreeted, ClientGreeted,
         Met, Sent, Uniform, Zero
<1> QED BY <1>1, <1>2, <1>3, <1>4, <1>5, <1>6 DEF IInv

LEMMA ServerEvaluatesInv ==
  ASSUME IInv, ServerEvaluates, UNCHANGED guard
  PROVE  IInv'
<1>1. TypeOK'
  BY DEF ServerEvaluates, Goes, Counters, Options, Procs, IInv, TypeOK, XTypeOK,
         ServerLabels
<1>2. TurnInv'
  BY DEF ServerEvaluates, Goes, IInv, TurnInv, ServerEnded, ClientActive
<1>3. TodoInv'
  BY DEF ServerEvaluates, Goes, Counters, IInv, TodoInv
<1>4. CountInv'
  BY DEF ServerEvaluates, Goes, Counters, Options, IInv, CountInv, ServerGreeted,
         ClientGreeted, Met, Sent, Replied
<1>5. RegionInv'
  BY DEF ServerEvaluates, Goes, IInv, TurnInv, RegionInv, ServerPassive,
         ClientActive
<1>6. BufInv'
  BY DEF ServerEvaluates, Goes, Counters, IInv, TurnInv, BufInv, Agreement,
         ServerPassive, ClientActive
<1> QED BY <1>1, <1>2, <1>3, <1>4, <1>5, <1>6 DEF IInv

LEMMA ClientEndsCopyInv ==
  ASSUME IInv, ClientEndsCopy, UNCHANGED guard
  PROVE  IInv'
<1>0. left \in Int /\ count["client"] \in Int /\ message \in Nat
  BY CountsAssumption DEF IInv, TypeOK, XTypeOK, Procs
<1>1. TypeOK'
  BY DEF ClientEndsCopy, Goes, Starts, Counters, Options, Procs, IInv, TypeOK,
         XTypeOK, ClientLabels
<1>2. TurnInv'
  BY DEF ClientEndsCopy, Goes, Procs, IInv, TypeOK, XTypeOK, TurnInv, ServerActive,
         ServerEnded, ServerPassive, ClientActive, ServerGreeted, ClientGreeted
<1>3. TodoInv'
  BY DEF ClientEndsCopy, Goes, Starts, Procs, IInv, TypeOK, XTypeOK, TodoInv
<1>4. CountInv'
  BY <1>0
  DEF ClientEndsCopy, Goes, Counters, Options, Rejects, Incoming, Procs, IInv, TypeOK,
      XTypeOK, Letters, TurnInv, TodoInv, CountInv, BufInv, Agreement, ServerActive,
      ClientActive, ServerGreeted, ClientGreeted, Met, Sent, Replied, Due, STC
<1>5. RegionInv'
  BY DEF ClientEndsCopy, Goes, Starts, Counters, Procs, IInv, TypeOK, XTypeOK,
         TurnInv, RegionInv, ClientActive, Sent
<1>6. BufInv'
  BY DEF ClientEndsCopy, Goes, Starts, Counters, Options, Procs, IInv, TypeOK,
         XTypeOK, TurnInv, CountInv, BufInv, Agreement, ServerEnded, ClientActive,
         ServerGreeted, ClientGreeted, Met, Replied, Due, Uniform, Words, Zero, STC
<1> QED BY <1>1, <1>2, <1>3, <1>4, <1>5, <1>6 DEF IInv

LEMMA ServerFillCellInv ==
  ASSUME IInv, FillCell("server"), UNCHANGED guard
  PROVE  IInv'
<1>1. TypeOK'
  BY DEF FillCell, Touches, Counters, Options, Outgoing, Procs, IInv, TypeOK,
         XTypeOK, TodoInv, Words, Bytes, STC
<1>2. TurnInv'
  BY DEF FillCell, IInv, TurnInv, ServerActive, ClientActive
<1>3. TodoInv'
  BY DEF FillCell, Touches, Procs, IInv, TodoInv
<1>4. CountInv'
  BY DEF FillCell, Counters, Options, IInv, CountInv, ServerGreeted, ClientGreeted,
         Met, Sent, Replied
<1>5. RegionInv'
  BY DEF FillCell, Touches, Counters, Outgoing, IInv, TypeOK, XTypeOK, TurnInv,
         RegionInv, ServerPassive, ClientActive
<1>6. BufInv'
  BY DEF FillCell, Counters, IInv, TurnInv, BufInv, Agreement, ServerActive
<1> QED BY <1>1, <1>2, <1>3, <1>4, <1>5, <1>6 DEF IInv

LEMMA ClientFillCellInv ==
  ASSUME IInv, FillCell("client"), UNCHANGED guard
  PROVE  IInv'
<1>0. left \in Int /\ count["client"] \in Int /\ message \in Nat
  BY CountsAssumption DEF IInv, TypeOK, XTypeOK, Procs
<1>1. TypeOK'
  BY <1>0
  DEF FillCell, Touches, Counters, Options, Outgoing, Procs, IInv, TypeOK, XTypeOK,
      TodoInv, Replied, Words, Bytes, CTS
<1>2. TurnInv'
  BY DEF FillCell, IInv, TurnInv, ServerActive, ServerEnded, ServerPassive,
         ClientActive, ServerGreeted, ClientGreeted
<1>3. TodoInv'
  BY DEF FillCell, Touches, Options, IInv, TodoInv
<1>4. CountInv'
  BY DEF FillCell, Counters, Options, IInv, CountInv, ServerGreeted, ClientGreeted,
         Met, Sent, Replied
<1>5. RegionInv'
  BY DEF FillCell, Touches, Counters, Options, Outgoing, IInv, TypeOK, XTypeOK,
         TurnInv, RegionInv, ServerPassive, ClientActive, Replied
<1>6. BufInv'
  BY DEF FillCell, Touches, Counters, Options, IInv, BufInv, Agreement, Replied
<1> QED BY <1>1, <1>2, <1>3, <1>4, <1>5, <1>6 DEF IInv

LEMMA ServerStartCheckInv ==
  ASSUME IInv, StartCheck("server"), UNCHANGED guard
  PROVE  IInv'
<1>1. TypeOK'
  BY DEF StartCheck, Goes, Starts, Counters, Options, Procs, IInv, TypeOK, XTypeOK,
         ServerLabels
<1>2. TurnInv'
  BY DEF StartCheck, Goes, IInv, TurnInv, ServerActive, ClientActive
<1>3. TodoInv'
  BY DEF StartCheck, Starts, Options, IInv, TodoInv
<1>4. CountInv'
  BY DEF StartCheck, Goes, Counters, Options, IInv, CountInv, ServerGreeted,
         ClientGreeted, Met, Sent, Replied
<1>5. RegionInv'
  BY DEF StartCheck, Goes, Starts, Counters, IInv, TypeOK, XTypeOK, RegionInv,
         ServerPassive, Uniform, STC, CTS
<1>6. BufInv'
  BY DEF StartCheck, Goes, Counters, IInv, TurnInv, BufInv, Agreement,
         ServerPassive, ClientActive
<1> QED BY <1>1, <1>2, <1>3, <1>4, <1>5, <1>6 DEF IInv

LEMMA ClientStartCheckInv ==
  ASSUME IInv, StartCheck("client"), UNCHANGED guard
  PROVE  IInv'
<1>1. TypeOK'
  BY DEF StartCheck, Goes, Starts, Counters, Options, Procs, IInv, TypeOK, XTypeOK,
         ClientLabels
<1>2. TurnInv'
  BY DEF StartCheck, Goes, IInv, TurnInv, ServerActive, ServerEnded, ServerPassive,
         ClientActive, ServerGreeted, ClientGreeted
<1>3. TodoInv'
  BY DEF StartCheck, Goes, Starts, IInv, TodoInv
<1>4. CountInv'
  BY DEF StartCheck, Goes, Counters, Options, IInv, CountInv, ServerGreeted,
         ClientGreeted, Met, Sent, Replied
<1>5. RegionInv'
  BY DEF StartCheck, Goes, Starts, Counters, Options, IInv, TypeOK, XTypeOK,
         RegionInv, ServerGreeted, ClientGreeted, Met, Replied, Uniform
<1>6. BufInv'
  BY DEF StartCheck, Goes, Starts, Counters, Options, IInv, BufInv, Agreement,
         Replied
<1> QED BY <1>1, <1>2, <1>3, <1>4, <1>5, <1>6 DEF IInv

LEMMA ServerCheckCellInv ==
  ASSUME IInv, CheckCell("server"), UNCHANGED guard
  PROVE  IInv'
<1>1. TypeOK'
  BY DEF CheckCell, Touches, Counters, Options, Procs, IInv, TypeOK, XTypeOK,
         ServerLabels
<1>2. TurnInv'
  BY DEF CheckCell, Outgoing, IInv, TurnInv, TodoInv, RegionInv, ServerActive,
         ClientActive, Uniform
<1>3. TodoInv'
  BY DEF CheckCell, Touches, Options, IInv, TodoInv
<1>4. CountInv'
  BY DEF CheckCell, Counters, Options, Procs, IInv, TypeOK, XTypeOK, CountInv,
         ServerGreeted, ClientGreeted, Met, Sent, Replied
<1>5. RegionInv'
  BY DEF CheckCell, Counters, Procs, IInv, TypeOK, XTypeOK, TurnInv, RegionInv,
         ServerActive
<1>6. BufInv'
  BY DEF CheckCell, Counters, Procs, IInv, TypeOK, XTypeOK, TurnInv, BufInv,
         Agreement, ServerActive
<1> QED BY <1>1, <1>2, <1>3, <1>4, <1>5, <1>6 DEF IInv

LEMMA ClientCheckCellInv ==
  ASSUME IInv, CheckCell("client"), UNCHANGED guard
  PROVE  IInv'
<1>1. TypeOK'
  BY DEF CheckCell, Touches, Counters, Options, Procs, IInv, TypeOK, XTypeOK,
         ClientLabels
<1>2. TurnInv'
  BY DEF CheckCell, Outgoing, IInv, TurnInv, TodoInv, RegionInv, ServerActive,
         ServerEnded, ServerPassive, ClientActive, ServerGreeted, ClientGreeted,
         Uniform
<1>3. TodoInv'
  BY DEF CheckCell, Touches, Procs, IInv, TypeOK, XTypeOK, TodoInv
<1>4. CountInv'
  BY DEF CheckCell, Counters, Options, Procs, IInv, TypeOK, XTypeOK, CountInv,
         ServerGreeted, ClientGreeted, Met, Sent, Replied
<1>5. RegionInv'
  BY DEF CheckCell, Touches, Counters, Options, Outgoing, IInv, TodoInv, CountInv,
         RegionInv, Met, Replied, Uniform
<1>6. BufInv'
  BY DEF CheckCell, Touches, Counters, Options, Procs, IInv, TypeOK, XTypeOK,
         BufInv, Agreement, Replied
<1> QED BY <1>1, <1>2, <1>3, <1>4, <1>5, <1>6 DEF IInv

LEMMA ServerCopyCellInv ==
  ASSUME IInv, CopyCell("server"), UNCHANGED guard
  PROVE  IInv'
<1>1. TypeOK'
  BY DEF CopyCell, Touches, Counters, Options, Procs, IInv, TypeOK, XTypeOK, TodoInv
<1>2. TurnInv'
  BY DEF CopyCell, IInv, TurnInv, ServerActive, ClientActive
<1>3. TodoInv'
  BY DEF CopyCell, Touches, Counters, IInv, TodoInv
<1>4. CountInv'
  BY DEF CopyCell, Counters, Options, IInv, CountInv, ServerGreeted, ClientGreeted,
         Met, Sent, Replied
<1>5. RegionInv'
  BY DEF CopyCell, Touches, Counters, Options, IInv, CountInv, RegionInv,
         ServerPassive, Met, Replied
<1>6. BufInv'
  BY DEF CopyCell, Touches, Counters, Options, IInv, TypeOK, XTypeOK, TurnInv,
         CountInv, RegionInv, BufInv, Agreement, ServerActive, ServerGreeted,
         ClientGreeted, Met, Sent, Replied, Uniform
<1> QED BY <1>1, <1>2, <1>3, <1>4, <1>5, <1>6 DEF IInv

LEMMA ClientCopyCellInv ==
  ASSUME IInv, CopyCell("client"), UNCHANGED guard
  PROVE  IInv'
<1>1. TypeOK'
  BY DEF CopyCell, Touches, Counters, Options, Procs, IInv, TypeOK, XTypeOK, TodoInv
<1>2. TurnInv'
  BY DEF CopyCell, IInv, TurnInv, ServerActive, ServerEnded, ServerPassive,
         ClientActive, ServerGreeted, ClientGreeted
<1>3. TodoInv'
  BY DEF CopyCell, Touches, Options, IInv, TodoInv
<1>4. CountInv'
  BY DEF CopyCell, Counters, Options, IInv, CountInv, ServerGreeted, ClientGreeted,
         Met, Sent, Replied
<1>5. RegionInv'
  BY DEF CopyCell, Touches, Counters, IInv, TurnInv, RegionInv, ClientActive, Sent
<1>6. BufInv'
  BY DEF CopyCell, Touches, Counters, IInv, TypeOK, XTypeOK, TurnInv, RegionInv,
         BufInv, Agreement, ServerPassive, ClientActive, Sent, Uniform
<1> QED BY <1>1, <1>2, <1>3, <1>4, <1>5, <1>6 DEF IInv

LEMMA LaunchFailsInv ==
  ASSUME NEW p \in Procs, IInv, LaunchFails(p), UNCHANGED guard
  PROVE  IInv'
<1>1. TypeOK'
  BY DEF LaunchFails, Goes, Counters, Options, IInv, TypeOK, XTypeOK, ServerLabels,
         ClientLabels
<1>2. TurnInv'
  BY DEF LaunchFails, Goes, IInv, TurnInv, ServerActive, ServerEnded, ServerPassive,
         ClientActive, ServerGreeted, ClientGreeted
<1>3. TodoInv'
  BY DEF LaunchFails, Goes, Counters, IInv, TodoInv
<1>4. CountInv'
  BY DEF LaunchFails, Goes, Counters, Options, Procs, IInv, CountInv, ServerGreeted,
         ClientGreeted, Met, Replied
<1>5. RegionInv'
  BY DEF LaunchFails, Goes, Counters, Options, Procs, IInv, TurnInv, RegionInv,
         ServerActive, ServerPassive, Sent, Replied
<1>6. BufInv'
  BY DEF LaunchFails, Goes, Counters, Procs, IInv, TurnInv, BufInv, Agreement,
         ServerActive, ServerPassive, ClientActive
<1> QED BY <1>1, <1>2, <1>3, <1>4, <1>5, <1>6 DEF IInv

LEMMA MallocFailsInv ==
  ASSUME NEW p \in Procs, IInv, MallocFails(p), UNCHANGED guard
  PROVE  IInv'
<1>1. TypeOK'
  BY DEF MallocFails, Goes, Counters, Options, IInv, TypeOK, XTypeOK, ServerLabels,
         ClientLabels
<1>2. TurnInv'
  BY DEF MallocFails, Goes, IInv, TurnInv, ServerActive, ServerEnded, ServerPassive,
         ClientActive, ServerGreeted, ClientGreeted
<1>3. TodoInv'
  BY DEF MallocFails, Goes, Counters, IInv, TodoInv
<1>4. CountInv'
  BY DEF MallocFails, Goes, Counters, Options, Procs, IInv, CountInv, ServerGreeted,
         ClientGreeted, Met, Replied
<1>5. RegionInv'
  BY DEF MallocFails, Goes, Counters, Procs, IInv, TurnInv, RegionInv, ServerActive,
         ServerPassive, ClientActive, Sent
<1>6. BufInv'
  BY DEF MallocFails, Goes, Counters, Procs, IInv, TurnInv, BufInv, Agreement,
         ServerActive, ServerPassive, ClientActive
<1> QED BY <1>1, <1>2, <1>3, <1>4, <1>5, <1>6 DEF IInv
---------------------------------------------------------------------------
LEMMA NextInv == IInv /\ [Next]_vars => IInv'
<1> SUFFICES ASSUME IInv, [Next]_vars PROVE IInv'
  OBVIOUS
<1>1. ASSUME ServerStep PROVE IInv'
  <2>1. ASSUME MemoryStep("server"), UNCHANGED guard PROVE IInv'
    BY <2>1, ServerFillCellInv, ServerStartCheckInv, ServerCheckCellInv, ServerCopyCellInv
    DEF MemoryStep
  <2> QED
    BY <1>1, <2>1, ServerClearsInv, ServerGreetsInv, ServerMeetsInv, ServerNotifiesInv,
       ServerWaitsInv, ServerEndsCopyInv, ServerEvaluatesInv
    DEF ServerStep
<1>2. ASSUME ClientStep PROVE IInv'
  <2>1. ASSUME MemoryStep("client"), UNCHANGED guard PROVE IInv'
    BY <2>1, ClientFillCellInv, ClientStartCheckInv, ClientCheckCellInv, ClientCopyCellInv
    DEF MemoryStep
  <2> QED
    BY <1>2, <2>1, ClientGreetsInv, ClientWaitsInv, ClientNotifiesInv, ClientEndsCopyInv
    DEF ClientStep
<1>3. ASSUME Fails PROVE IInv'
  BY <1>3, LaunchFailsInv, MallocFailsInv DEF Fails
<1>4. ASSUME UNCHANGED vars PROVE IInv'
  BY <1>4
  DEF vars, xvars, IInv, TypeOK, XTypeOK, TurnInv, TodoInv, CountInv, RegionInv,
      BufInv, Agreement, ServerActive, ServerEnded, ServerPassive, ClientActive,
      ServerGreeted, ClientGreeted, Met, Sent, Replied
<1> QED BY <1>1, <1>2, <1>3, <1>4, ServerLaunchInv, ClientLaunchInv DEF Next

(* The strengthened invariant holds throughout, however unfair the          *)
(* scheduling.                                                              *)
THEOREM Safe == Init /\ [][Next]_vars => []IInv
<1>1. Init => IInv
  BY InitInv
<1>2. IInv /\ [Next]_vars => IInv'
  BY NextInv
<1> QED BY <1>1, <1>2, PTL

(* The strengthened invariant holds of the specification with fairness.     *)
THEOREM Invariant == Spec => []IInv
BY Safe, PTL DEF Spec

(* Every variable keeps its type.                                           *)
THEOREM TypeCorrect == Spec => []TypeOK
<1>1. IInv => TypeOK
  BY DEF IInv
<1> QED BY <1>1, Invariant, PTL

(* The two letters keep the processes apart: no cell is touched by one      *)
(* while the other is at work in the region, whichever started first.       *)
THEOREM RaceFree == Spec => []NoDataRace
<1>1. IInv => NoDataRace
  BY DEF IInv, TurnInv, NoDataRace, InRegion, ServerActive, ClientGreeted,
         ServerGreeted
<1> QED BY <1>1, Invariant, PTL

(* Each side copies exactly the message, or the reply, its round is due.    *)
THEOREM Agreed == Spec => []Agreement
<1>1. IInv => Agreement
  BY DEF IInv, BufInv
<1> QED BY <1>1, Invariant, PTL

(* No process finds the region it has just filled changed, and with -D only *)
(* a client that was first rejects anything, and then only the greeting.    *)
THEOREM Accepted == Spec => []Rejections
<1>1. IInv => Rejections
  BY DEF IInv, TurnInv, CountInv, Rejections, Procs
<1> QED BY <1>1, Invariant, PTL
---------------------------------------------------------------------------
LEMMA RefinesInit == Init => P!Init
BY CountsAssumption
DEF Init, XInit, P!Init, Sent, Taken, Replied, Met, ServerGreeted, Procs

LEMMA RefinesNext == IInv /\ IInv' /\ [Next]_vars => [P!Next]_P!vars
<1> SUFFICES ASSUME IInv, IInv', [Next]_vars PROVE [P!Next]_P!vars
  OBVIOUS
<1> USE DEF Met, ServerGreeted, ClientGreeted, Sent, Taken, Replied, Goes, Counters, Options, P!vars, P!Next
<1>0. /\ left \in Int /\ count["client"] \in Int /\ message \in Nat
      /\ pc \in [Procs -> ServerLabels \cup ClientLabels]
      /\ "server" \in Procs /\ "client" \in Procs
  BY CountsAssumption DEF IInv, TypeOK, XTypeOK, Procs
<1>1. ASSUME ServerStep PROVE [P!Next]_P!vars
  <2>1. CASE ServerClears
    BY <1>0, <2>1 DEF ServerClears
  <2>2. CASE ServerGreets
    <3>1. CASE ClientGreeted
      BY <1>0, <2>2, <3>1 DEF ServerGreets, P!Meet, P!Met, IInv, CountInv
    <3>2. CASE ~ClientGreeted
      BY <1>0, <2>2, <3>2 DEF ServerGreets, IInv, CountInv
    <3> QED BY <3>1, <3>2
  <2>3. CASE ServerMeets
    BY <1>0, <2>3 DEF ServerMeets, ServerLoop, IInv, CountInv
  <2>4. CASE ServerNotifies
    BY <1>0, <2>4
    DEF ServerNotifies, Ready, P!Send, P!Met, IInv, CountInv, TurnInv, TypeOK, XTypeOK
  <2>5. CASE ServerWaits
    BY <1>0, <2>5 DEF ServerWaits
  <2>6. CASE MemoryStep("server")
    BY <1>0, <2>6, IInv' DEF MemoryStep, FillCell, StartCheck, CheckCell, CopyCell
  <2>7. CASE ServerEndsCopy
    <3>1. pc["server"] = "copy" /\ UNCHANGED <<left, skew, count, pc["client"]>>
      BY <1>0, <2>7 DEF ServerEndsCopy, ServerLoop
    <3>2. Met /\ Met'
      BY <1>0, <2>7, <3>1 DEF ServerEndsCopy, ServerLoop, IInv, TurnInv, ServerActive
    <3>3. Replied = Sent + skew /\ skew \in {0, 1}
      BY <3>1, <3>2 DEF IInv, TypeOK, XTypeOK, CountInv, TurnInv, ServerActive
    <3>4. CASE Rejects("server")
      BY <1>0, <2>7, <3>1, <3>2, <3>4 DEF ServerEndsCopy
    <3>5. CASE ~Rejects("server")
      <4>1. message' = message + 1 /\ pc'["server"] \in {"fill", "evaluate"}
        BY <1>0, <2>7, <3>5 DEF ServerEndsCopy, ServerLoop
      <4> QED BY <1>0, <3>1, <3>2, <3>3, <4>1 DEF P!Get, P!Met
    <3> QED BY <3>4, <3>5
  <2>8. CASE ServerEvaluates
    BY <1>0, <2>8 DEF ServerEvaluates
  <2> QED BY <1>1, <2>1, <2>2, <2>3, <2>4, <2>5, <2>6, <2>7, <2>8 DEF ServerStep
<1>2. ASSUME ClientStep PROVE [P!Next]_P!vars
  <2>1. CASE ClientGreets
    <3>1. CASE ServerGreeted
      BY <1>0, <2>1, <3>1 DEF ClientGreets, ClientLoop, P!Meet, P!Met, IInv, CountInv
    <3>2. CASE ~ServerGreeted
      BY <1>0, <2>1, <3>2 DEF ClientGreets, ClientLoop, IInv, CountInv
    <3> QED BY <3>1, <3>2
  <2>2. CASE ClientWaits
    <3>1. guard = "c" /\ pc["client"] = "wait" /\ pc' = [pc EXCEPT !["client"] = "copy"]
      BY <2>2 DEF ClientWaits, userspace_shm_wait
    <3>2. Met /\ Met'
      BY <1>0, <3>1 DEF IInv, TurnInv
    <3>3. Replied = Sent + skew - 1 /\ skew \in {0, 1}
      BY <3>1, <3>2 DEF IInv, TypeOK, XTypeOK, CountInv
    <3> QED BY <1>0, <2>2, <3>1, <3>2, <3>3 DEF ClientWaits, P!Take, P!Met
  <2>3. CASE ClientNotifies
    <3>1. /\ pc["client"] \in {"fill", "check"} /\ left' = left - 1
          /\ pc' = [pc EXCEPT !["client"] = IF left - 1 > 0 THEN "wait" ELSE "done"]
      BY <2>3 DEF ClientNotifies, ClientLoop, Ready
    <3>2. Met /\ Met'
      BY <1>0, <3>1 DEF IInv, TurnInv, ClientActive, ServerPassive
    <3>3. skew \in {0, 1}
      BY DEF IInv, TypeOK, XTypeOK
    <3> QED BY <1>0, <2>3, <3>1, <3>2, <3>3 DEF ClientNotifies, P!Reply, P!Met
  <2>4. CASE MemoryStep("client")
    BY <1>0, <2>4, IInv' DEF MemoryStep, FillCell, StartCheck, CheckCell, CopyCell
  <2>5. CASE ClientEndsCopy
    BY <1>0, <2>5 DEF ClientEndsCopy
  <2> QED BY <1>2, <2>1, <2>2, <2>3, <2>4, <2>5 DEF ClientStep
<1>3. ASSUME Fails PROVE [P!Next]_P!vars
  BY <1>0, <1>3 DEF Fails, LaunchFails, MallocFails, IInv, CountInv
<1>4. CASE ServerLaunch
  BY <1>0, <1>4 DEF ServerLaunch, IInv, CountInv
<1>5. CASE ClientLaunch
  BY <1>0, <1>5 DEF ClientLaunch
<1>6. CASE UNCHANGED vars
  BY <1>6 DEF vars, xvars
<1> QED BY <1>1, <1>2, <1>3, <1>4, <1>5, <1>6 DEF Next

(* Whichever process starts first, the guard's two letters implement the    *)
(* alternation that PingPong specifies.                                     *)
THEOREM Implements == Spec => PingPongSpec
<1>1. Init => P!Init
  BY RefinesInit
<1>2. IInv /\ IInv' /\ [Next]_vars => [P!Next]_P!vars
  BY RefinesNext
<1> QED BY <1>1, <1>2, Invariant, PTL DEF Spec, PingPongSpec, P!Spec
===========================================================================
