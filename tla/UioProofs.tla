----------------------------- MODULE UioProofs ----------------------------
(* ivshmem-uio implements ivshmem-shm: whatever the interrupts do, the      *)
(* programs take only the steps that the guard word allows.  And what the   *)
(* interrupts do: nobody whose letter has come is left asleep, and with -R  *)
(* nobody is woken for nothing.                                             *)
EXTENDS Uio, TLAPS

LEMMA RefinesInit == Init => S!Init
BY
DEF Init, XInit, Letters, Leftovers, Zero, STC, CTS, Uniform, Procs, S!Init, S!XInit,
    S!Letters, S!Leftovers, S!Zero, S!STC, S!CTS, S!Uniform, S!Procs

(* What the modules share is the same in both.                              *)
LEMMA SameMemory ==
  ASSUME NEW p, MemoryStep(p)
  PROVE  S!MemoryStep(p)
BY
DEF MemoryStep, FillCell, StartCheck, CheckCell, CopyCell, Outgoing, STC, CTS,
    Replied, Goes, Starts, Touches, Counters, Options, S!MemoryStep, S!FillCell,
    S!StartCheck, S!CheckCell, S!CopyCell, S!Outgoing, S!STC, S!CTS, S!Replied,
    S!Goes, S!Starts, S!Touches, S!Counters, S!Options

LEMMA SameEndsCopy ==
  /\ ServerEndsCopy => S!ServerEndsCopy
  /\ ClientEndsCopy => S!ClientEndsCopy
BY
DEF ServerEndsCopy, ClientEndsCopy, ServerLoop, Rejects, Incoming, Goes, Starts,
    Counters, Options, S!ServerEndsCopy, S!ClientEndsCopy, S!ServerLoop, S!Rejects,
    S!Incoming, S!Goes, S!Starts, S!Counters, S!Options

LEMMA ServerSteps == ServerStep => [S!Next]_(S!vars)
<1> SUFFICES ASSUME ServerStep PROVE [S!Next]_(S!vars)
  OBVIOUS
<1> USE DEF S!Next, S!ServerStep
<1>1. CASE ServerClears
  <2> S!ServerClears
    BY <1>1
    DEF ServerClears, Touches, Zero, Counters, Options, S!ServerClears, S!Touches,
        S!Zero, S!Counters, S!Options
  <2> QED OBVIOUS
<1>2. CASE ServerGreets
  <2> S!ServerGreets
    BY <1>2
    DEF ServerGreets, Goes, ClientGreeted, Options, S!ServerGreets, S!Goes,
        S!ClientGreeted, S!Options, S!userspace_shm_notify
  <2> QED OBVIOUS
<1>3. CASE ServerMeets
  <2> S!ServerMeets
    BY <1>3
    DEF ServerMeets, uio_wait, Expected, ServerLoop, Goes, Starts, Options,
        S!ServerMeets, S!userspace_shm_wait, S!ServerLoop, S!Goes, S!Starts, S!Options
  <2> QED OBVIOUS
<1>4. CASE ServerNotifies
  <2> S!ServerNotifies
    BY <1>4
    DEF ServerNotifies, Ready, uio_notify, Counters, Options, S!ServerNotifies,
        S!Ready, S!userspace_shm_notify, S!Counters, S!Options
  <2> QED OBVIOUS
<1>5. CASE ServerWaits
  <2> S!ServerWaits
    BY <1>5
    DEF ServerWaits, uio_wait, Expected, Goes, Starts, Counters, Options,
        S!ServerWaits, S!userspace_shm_wait, S!Goes, S!Starts, S!Counters, S!Options
  <2> QED OBVIOUS
<1>6. CASE InterruptStep("server")
  BY <1>6
  DEF InterruptStep, Reset, ReadIrq, NotForMe, RingAgain, RingPeer, xvars, S!vars,
      S!xvars
<1>7. CASE (MemoryStep("server") \/ ServerEndsCopy \/ ServerEvaluates) /\ Quiet
  <2>1. ServerEvaluates => S!ServerEvaluates
    BY
    DEF ServerEvaluates, Goes, Counters, Options, S!ServerEvaluates, S!Goes,
        S!Counters, S!Options<2> QED BY <1>7, <2>1, SameMemory, SameEndsCopy DEF Quiet
<1> QED BY <1>1, <1>2, <1>3, <1>4, <1>5, <1>6, <1>7 DEF ServerStep

LEMMA ClientSteps == ClientStep => [S!Next]_(S!vars)
<1> SUFFICES ASSUME ClientStep PROVE [S!Next]_(S!vars)
  OBVIOUS
<1> USE DEF S!Next, S!ClientStep
<1>1. CASE ClientGreets
  <2> S!ClientGreets
    BY <1>1
    DEF ClientGreets, ClientLoop, Goes, uio_notify, Options, S!ClientGreets,
        S!ClientLoop, S!Goes, S!userspace_shm_notify, S!Options
  <2> QED OBVIOUS
<1>2. CASE ClientWaits
  <2> S!ClientWaits
    BY <1>2
    DEF ClientWaits, uio_wait, Expected, Goes, Starts, Counters, Options,
        S!ClientWaits, S!userspace_shm_wait, S!Goes, S!Starts, S!Counters, S!Options
  <2> QED OBVIOUS
<1>3. CASE ClientNotifies
  <2> S!ClientNotifies
    BY <1>3
    DEF ClientNotifies, Ready, ClientLoop, Goes, uio_notify, Options,
        S!ClientNotifies, S!Ready, S!ClientLoop, S!Goes, S!userspace_shm_notify,
        S!Options
  <2> QED OBVIOUS
<1>4. CASE InterruptStep("client")
  BY <1>4
  DEF InterruptStep, Reset, ReadIrq, NotForMe, RingAgain, RingPeer, xvars, S!vars,
      S!xvars
<1>5. CASE (MemoryStep("client") \/ ClientEndsCopy) /\ Quiet
  BY <1>5, SameMemory, SameEndsCopy DEF Quiet
<1> QED BY <1>1, <1>2, <1>3, <1>4, <1>5 DEF ClientStep

LEMMA RefinesNext == [Next]_vars => [S!Next]_(S!vars)
<1> SUFFICES ASSUME [Next]_vars PROVE [S!Next]_(S!vars)
  OBVIOUS
<1>1. CASE ServerLaunch
  BY <1>1
  DEF ServerLaunch, Goes, Counters, Options, S!Next, S!ServerLaunch, S!Goes,
      S!Counters, S!Options
<1>2. CASE ClientLaunch
  BY <1>2
  DEF ClientLaunch, Goes, Counters, Options, S!Next, S!ClientLaunch, S!Goes,
      S!Counters, S!Options
<1>3. CASE Fails
  BY <1>3
  DEF Fails, LaunchFails, MallocFails, Goes, Counters, Options, Procs, Quiet, S!Next,
      S!Fails, S!LaunchFails, S!MallocFails, S!Goes, S!Counters, S!Options, S!Procs
<1>4. CASE \E p \in Procs : Deliver(p)
  BY <1>4 DEF Deliver, xvars, S!vars, S!xvars
<1>5. CASE UNCHANGED vars
  BY <1>5 DEF vars, xvars, S!vars, S!xvars
<1> QED BY <1>1, <1>2, <1>3, <1>4, <1>5, ServerSteps, ClientSteps DEF Next

(* Interrupts only delay what the guard allows.                             *)
THEOREM Implements == Spec => ShmGuardSpec
BY RefinesInit, RefinesNext, PTL DEF Spec, ShmGuardSpec
---------------------------------------------------------------------------
(* What is proved of ivshmem-shm therefore holds here too.  The proofs'     *)
(* module brings its own copy of ShmGuard, whose definitions are the same.  *)
G == INSTANCE ShmGuardProofs

LEMMA SameInit == S!Init => G!Init
BY
DEF S!Init, S!XInit, S!Letters, S!Leftovers, S!Zero, S!STC, S!CTS, S!Uniform, S!Procs,
    G!Init, G!XInit, G!Letters, G!Leftovers, G!Zero, G!STC, G!CTS, G!Uniform, G!Procs

LEMMA SameNext == S!Next => G!Next
BY
DEF S!Next, S!ServerLaunch, S!ClientLaunch, S!Fails, S!LaunchFails, S!MallocFails,
    S!ServerStep, S!ServerClears, S!ServerGreets, S!ServerMeets, S!ServerNotifies,
    S!ServerWaits, S!ClientStep, S!ClientGreets, S!ClientWaits, S!ClientNotifies,
    S!MemoryStep, S!FillCell, S!StartCheck, S!CheckCell, S!CopyCell, S!ServerEndsCopy,
    S!ServerEvaluates, S!ClientEndsCopy, S!ServerLoop, S!ClientLoop, S!Ready,
    S!Rejects, S!Outgoing, S!Incoming, S!STC, S!CTS, S!Zero, S!Replied,
    S!ClientGreeted, S!Goes, S!Starts, S!Touches, S!Counters, S!Options, S!Procs,
    S!userspace_shm_wait, S!userspace_shm_notify, G!Next, G!ServerLaunch,
    G!ClientLaunch, G!Fails, G!LaunchFails, G!MallocFails, G!ServerStep,
    G!ServerClears, G!ServerGreets, G!ServerMeets, G!ServerNotifies, G!ServerWaits,
    G!ClientStep, G!ClientGreets, G!ClientWaits, G!ClientNotifies, G!MemoryStep,
    G!FillCell, G!StartCheck, G!CheckCell, G!CopyCell, G!ServerEndsCopy,
    G!ServerEvaluates, G!ClientEndsCopy, G!ServerLoop, G!ClientLoop, G!Ready,
    G!Rejects, G!Outgoing, G!Incoming, G!STC, G!CTS, G!Zero, G!Replied,
    G!ClientGreeted, G!Goes, G!Starts, G!Touches, G!Counters, G!Options, G!Procs,
    G!userspace_shm_wait, G!userspace_shm_notify

LEMMA Inherits == Spec => []G!IInv
<1>1. S!Init /\ [][S!Next]_(S!vars) => G!Init /\ [][G!Next]_(G!vars)
  <2>1. [S!Next]_(S!vars) => [G!Next]_(G!vars)
    BY SameNext DEF S!vars, S!xvars, G!vars, G!xvars<2> QED BY <2>1, SameInit, PTL
<1>2. G!Init /\ [][G!Next]_(G!vars) => []G!IInv
  BY G!Safe, CountsAssumption, GuardCellAssumption, PTL
<1> QED BY <1>1, <1>2, Implements, PTL DEF ShmGuardSpec

(* Interrupts that come early, late, merged or left over never let both     *)
(* processes into the region.                                               *)
THEOREM RaceFree == Spec => []S!NoDataRace
<1>1. G!IInv => S!NoDataRace
  BY
  DEF G!IInv, G!TurnInv, G!ServerActive, G!ClientGreeted, G!ServerGreeted,
      S!NoDataRace, S!InRegion
<1> QED BY <1>1, Inherits, PTL

(* Nor do they make a process copy anything but the block its round is due. *)
THEOREM Agreed == Spec => []S!Agreement
<1>1. G!IInv => S!Agreement
  BY
  DEF G!IInv, G!BufInv, G!Agreement, G!Due, G!Uniform, G!Zero, G!STC, G!CTS,
      G!Replied, S!Agreement, S!Due, S!Uniform, S!Zero, S!STC, S!CTS, S!Replied
<1> QED BY <1>1, Inherits, PTL
---------------------------------------------------------------------------
(* What is used of ivshmem-shm's invariant, in this module's words.         *)
GuardInv ==
    /\ pc \in [Procs -> ServerLabels \cup ClientLabels]
    /\ pc["server"] \in ServerLabels /\ pc["client"] \in ClientLabels
    /\ guard \in Letters /\ skew \in {0, 1} /\ count["client"] \in Int
    /\ pc["server"] \notin {"torn", "mismatch", "broken"}
    /\ pc["client"] \notin {"torn", "broken"}
    /\ pc["client"] \in {"copy", "fill", "check", "mismatch"}
         => guard = "c" /\ pc["server"] \in {"meet", "wait"}
    /\ pc["server"] \in {"fill", "check", "copy", "evaluate", "done", "aborted"}
         => guard = "s" /\ pc["client"] \in {"wait", "done"}
    /\ pc["server"] \in {"meet", "wait"} /\ guard = "s" => pc["client"] \in {"wait", "done"}
    /\ pc["server"] \in {"meet", "wait"} => guard \in {"c", "s"}
    /\ pc["server"] = "wait" => ClientGreeted
    /\ ClientGreeted /\ ~ServerGreeted => pc["client"] \in {"wait", "done"}
    /\ ~ServerGreeted \/ pc["server"] = "meet" => message = 0
    /\ ~ServerGreeted \/ ~ClientGreeted => skew = 0 /\ Replied = 0

LEMMA Guarded == G!IInv => GuardInv
BY CountsAssumption
DEF G!IInv, G!TypeOK, G!XTypeOK, G!Procs, G!ServerLabels, G!ClientLabels, G!Letters,
    G!TurnInv, G!ServerActive, G!ServerEnded, G!ServerPassive, G!ClientActive,
    G!ServerGreeted, G!ClientGreeted, G!CountInv, G!Replied, GuardInv, Procs,
    ServerLabels, ClientLabels, Letters, ServerGreeted, ClientGreeted, Replied

(* The types of what ivshmem-shm does not have.                             *)
IntrTypeOK ==
    /\ irq \in [Procs -> BOOLEAN] /\ rung \in [Procs -> BOOLEAN]
    /\ intr \in [Procs -> IntrLabels]
    /\ leftover \in [Procs -> BOOLEAN] /\ isReset \in [Procs -> BOOLEAN]

(* Where in the program a process does what with interrupts.                *)
LabelInv ==
    /\ \A p \in Procs :
         /\ intr[p] = "reset" => isReset[p] /\ pc[p] \in {"clear", "hello"}
         /\ intr[p] \in {"look", "ring"} => pc[p] \in {"meet", "wait"}
    /\ intr["server"] = "bell" => pc["server"] = "wait"
    /\ intr["client"] = "bell" => pc["client"] \in {"wait", "done"}

(* The letter a process waits for comes with an interrupt.  The server's    *)
(* greeting does not, but only a client that was first depends on it.       *)
Coming(p) == irq[p] \/ rung[p] \/ intr[Peer(p)] = "bell"
Waiting(p) == pc[p] \in {"meet", "wait"} /\ intr[p] # "look" /\ guard = Expected(p)
WakeInv ==
    /\ Waiting("server") => Coming("server")
    /\ Waiting("client") /\ ServerGreeted /\ skew = 0 => Coming("client")

(* Before anybody has rung for a process, an interrupt at its device is one *)
(* an earlier run left, and the reset has not happened.                     *)
Untouched(p) ==
    /\ ~rung[p]
    /\ irq[p] => /\ leftover[p]
                 /\ isReset[p] => pc[p] \in {"off", "exited"} \/ intr[p] = "reset"
FreshInv ==
    /\ ~ClientGreeted => Untouched("client")
    /\ ~ClientGreeted /\ ~ServerGreeted => Untouched("server")

(* Whoever is due, and nobody else, has an interrupt, and one only.         *)
One(p) ==
    /\ irq[p] => ~rung[p] /\ intr[p] # "look" /\ intr[Peer(p)] # "bell"
    /\ rung[p] => intr[p] # "look" /\ intr[Peer(p)] # "bell"
    /\ intr[p] = "look" => intr[Peer(p)] # "bell"
    /\ Coming(p) \/ intr[p] = "look"
         => guard = Expected(p) /\ pc[p] \in {"meet", "wait", "done"}
DueInv ==
    skew = 0 /\ ServerGreeted /\ Clean
      => /\ \A p \in Procs : intr[p] # "ring"
         /\ One("server")
         /\ ClientGreeted => One("client")

(* A client that was first and is not woken by mistake sleeps on its        *)
(* greeting, and the server, in its own, waits for it.                      *)
StallInv ==
    ClientGreeted /\ (ServerGreeted => skew = 1) /\ (isReset["client"] \/ ~leftover["client"])
      => /\ ~irq["client"] /\ ~rung["client"] /\ intr["client"] \in {"read", "bell"}
         /\ pc["client"] \in {"wait", "done"} /\ Replied = 0
         /\ ServerGreeted => pc["server"] = "meet" /\ guard = "c" /\ message = 0

IntrInv == IntrTypeOK /\ LabelInv /\ WakeInv /\ FreshInv /\ DueInv /\ StallInv
---------------------------------------------------------------------------
LEMMA InitInv == Init => IntrInv
BY
DEF Init, XInit, IntrInv, IntrTypeOK, IntrLabels, LabelInv, WakeInv, Waiting,
    FreshInv, Untouched, DueInv, StallInv, ServerGreeted, ClientGreeted, Procs

LEMMA ServerLaunchInv ==
  ASSUME GuardInv, IntrInv, ServerLaunch
  PROVE  IntrInv'
<1>1. IntrTypeOK'
  BY DEF ServerLaunch, Opens, UioOptions, IntrInv, Procs, IntrTypeOK, IntrLabels
<1>2. LabelInv'
  BY DEF ServerLaunch, Opens, Goes, UioOptions, IntrInv, GuardInv, LabelInv
<1>3. WakeInv'
  BY DEF ServerLaunch, Goes, WakeInv, Waiting, ServerGreeted
<1>4. FreshInv'
  BY
  DEF ServerLaunch, Opens, Goes, UioOptions, IntrInv, GuardInv, FreshInv, Untouched,
      IntrTypeOK, ServerGreeted, ClientGreeted
<1>5. DueInv'
  BY DEF ServerLaunch, Opens, Goes, DueInv, IntrTypeOK, ServerGreeted
<1>6. StallInv'
  BY
  DEF ServerLaunch, Opens, Goes, Counters, Options, UioOptions, IntrInv, Replied,
      StallInv, ServerGreeted, ClientGreeted
<1> QED BY <1>1, <1>2, <1>3, <1>4, <1>5, <1>6 DEF IntrInv

LEMMA ServerClearsInv ==
  ASSUME GuardInv, IntrInv, ServerClears
  PROVE  IntrInv'
<1>1. IntrTypeOK'
  BY DEF ServerClears, Interrupts, UioOptions, IntrInv, IntrTypeOK
<1>2. LabelInv'
  BY DEF ServerClears, Interrupts, UioOptions, IntrInv, LabelInv
<1>3. WakeInv'
  BY DEF ServerClears, WakeInv, Waiting, ServerGreeted
<1>4. FreshInv'
  BY
  DEF ServerClears, Interrupts, UioOptions, IntrInv, FreshInv, Untouched,
      ServerGreeted, ClientGreeted
<1>5. DueInv'
  BY DEF ServerClears, DueInv, LabelInv, IntrTypeOK, ServerGreeted
<1>6. StallInv'
  BY
  DEF ServerClears, Interrupts, Counters, Options, UioOptions, IntrInv, Replied,
      StallInv, ServerGreeted, ClientGreeted
<1> QED BY <1>1, <1>2, <1>3, <1>4, <1>5, <1>6 DEF IntrInv

LEMMA ServerGreetsInv ==
  ASSUME GuardInv, IntrInv, ServerGreets
  PROVE  IntrInv'
<1>1. IntrTypeOK'
  BY DEF ServerGreets, Interrupts, UioOptions, IntrInv, IntrTypeOK
<1>2. LabelInv'
  BY DEF ServerGreets, Goes, Interrupts, UioOptions, IntrInv, LabelInv
<1>3. WakeInv'
  BY DEF ServerGreets, Goes, WakeInv, Waiting, Expected, ClientGreeted
<1>4. FreshInv'
  BY
  DEF ServerGreets, Goes, Interrupts, UioOptions, IntrInv, FreshInv, Untouched,
      ServerGreeted, ClientGreeted
<1>5. DueInv'
  BY
  DEF ServerGreets, Goes, Interrupts, UioOptions, IntrInv, Procs, DueInv, One, Clean,
      Coming, Peer, FreshInv, Untouched, LabelInv, ServerGreeted, ClientGreeted
<1>6. StallInv'
  BY
  DEF ServerGreets, Goes, Interrupts, Options, UioOptions, IntrInv, GuardInv, Procs,
      Replied, StallInv, ServerGreeted
<1> QED BY <1>1, <1>2, <1>3, <1>4, <1>5, <1>6 DEF IntrInv

LEMMA ServerMeetsInv ==
  ASSUME GuardInv, IntrInv, ServerMeets
  PROVE  IntrInv'
<1>1. IntrTypeOK'
  BY DEF ServerMeets, uio_wait, UioOptions, IntrInv, Procs, IntrTypeOK, IntrLabels
<1>2. LabelInv'
  BY
  DEF ServerMeets, uio_wait, ServerLoop, Goes, UioOptions, IntrInv, GuardInv, Procs,
      LabelInv, IntrTypeOK
<1>3. WakeInv'
  BY
  DEF ServerMeets, uio_wait, Expected, ServerLoop, Goes, GuardInv, Procs, WakeInv,
      Waiting
<1>4. FreshInv'
  BY
  DEF ServerMeets, uio_wait, Expected, ServerLoop, Goes, GuardInv, Procs, FreshInv,
      ClientGreeted
<1>5. DueInv'
  BY
  DEF ServerMeets, uio_wait, ServerLoop, Goes, UioOptions, IntrInv, GuardInv, Procs,
      DueInv, One, Clean, Coming, Untouched, IntrTypeOK, ServerGreeted, ClientGreeted
<1>6. StallInv'
  BY
  DEF ServerMeets, uio_wait, Expected, ServerLoop, Goes, UioOptions, IntrInv,
      GuardInv, StallInv, ServerGreeted
<1> QED BY <1>1, <1>2, <1>3, <1>4, <1>5, <1>6 DEF IntrInv

LEMMA ServerNotifiesInv ==
  ASSUME GuardInv, IntrInv, ServerNotifies
  PROVE  IntrInv'
<1>1. IntrTypeOK'
  BY DEF ServerNotifies, uio_notify, UioOptions, IntrInv, Procs, IntrTypeOK, IntrLabels
<1>2. LabelInv'
  BY DEF ServerNotifies, Ready, uio_notify, IntrInv, GuardInv, Procs, LabelInv
<1>3. WakeInv'
  BY
  DEF ServerNotifies, uio_notify, IntrInv, Procs, WakeInv, Waiting, Coming, Expected,
      Peer, IntrTypeOK
<1>4. FreshInv'
  BY
  DEF ServerNotifies, Ready, uio_notify, UioOptions, IntrInv, FreshInv, Untouched,
      ServerGreeted, ClientGreeted
<1>5. DueInv'
  BY
  DEF ServerNotifies, Ready, uio_notify, Counters, UioOptions, IntrInv, GuardInv,
      ClientLabels, DueInv, One, Clean, Coming, Expected, Peer, IntrTypeOK,
      ServerGreeted, ClientGreeted
<1>6. StallInv'
  BY
  DEF ServerNotifies, Ready, uio_notify, Counters, UioOptions, IntrInv, StallInv,
      ServerGreeted, ClientGreeted
<1> QED BY <1>1, <1>2, <1>3, <1>4, <1>5, <1>6 DEF IntrInv

LEMMA ServerWaitsInv ==
  ASSUME GuardInv, IntrInv, ServerWaits
  PROVE  IntrInv'
<1>1. IntrTypeOK'
  BY DEF ServerWaits, uio_wait, UioOptions, IntrInv, Procs, IntrTypeOK, IntrLabels
<1>2. LabelInv'
  BY DEF ServerWaits, uio_wait, Goes, UioOptions, IntrInv, LabelInv, IntrTypeOK
<1>3. WakeInv'
  BY DEF ServerWaits, uio_wait, Expected, Goes, GuardInv, Procs, WakeInv, Waiting
<1>4. FreshInv'
  BY DEF ServerWaits, Goes, GuardInv, FreshInv, ClientGreeted
<1>5. DueInv'
  BY
  DEF ServerWaits, uio_wait, Goes, Counters, UioOptions, IntrInv, GuardInv, DueInv,
      One, Clean, Coming, FreshInv, IntrTypeOK, ServerGreeted
<1>6. StallInv'
  BY
  DEF ServerWaits, uio_wait, Goes, Counters, UioOptions, IntrInv, GuardInv, StallInv,
      ServerGreeted
<1> QED BY <1>1, <1>2, <1>3, <1>4, <1>5, <1>6 DEF IntrInv

LEMMA ClientLaunchInv ==
  ASSUME GuardInv, IntrInv, ClientLaunch
  PROVE  IntrInv'
<1>1. IntrTypeOK'
  BY DEF ClientLaunch, Opens, UioOptions, IntrInv, Procs, IntrTypeOK, IntrLabels
<1>2. LabelInv'
  BY DEF ClientLaunch, Opens, Goes, UioOptions, IntrInv, GuardInv, LabelInv
<1>3. WakeInv'
  BY DEF ClientLaunch, Opens, Goes, IntrInv, WakeInv, Waiting, Coming, LabelInv
<1>4. FreshInv'
  BY
  DEF ClientLaunch, Opens, Goes, UioOptions, IntrInv, GuardInv, FreshInv, Untouched,
      IntrTypeOK, ServerGreeted, ClientGreeted
<1>5. DueInv'
  BY
  DEF ClientLaunch, Opens, Goes, Counters, UioOptions, IntrInv, DueInv, One, Clean,
      Coming, IntrLabels, ServerGreeted, ClientGreeted
<1>6. StallInv'
  BY DEF ClientLaunch, Goes, StallInv, ClientGreeted
<1> QED BY <1>1, <1>2, <1>3, <1>4, <1>5, <1>6 DEF IntrInv

LEMMA ClientGreetsInv ==
  ASSUME GuardInv, IntrInv, ClientGreets
  PROVE  IntrInv'
<1>1. IntrTypeOK'
  BY DEF ClientGreets, uio_notify, UioOptions, IntrInv, Procs, IntrTypeOK, IntrLabels
<1>2. LabelInv'
  BY
  DEF ClientGreets, uio_notify, ClientLoop, Goes, UioOptions, IntrInv, GuardInv,
      Procs, LabelInv
<1>3. WakeInv'
  BY
  DEF ClientGreets, uio_notify, IntrInv, Procs, WakeInv, Waiting, Coming, Expected,
      Peer, IntrTypeOK
<1>4. FreshInv'
  BY
  DEF ClientGreets, uio_notify, ClientLoop, Goes, UioOptions, IntrInv, FreshInv,
      Untouched, ServerGreeted, ClientGreeted
<1>5. DueInv'
  BY
  DEF ClientGreets, uio_notify, ClientLoop, Goes, UioOptions, IntrInv, GuardInv,
      ServerLabels, DueInv, One, Clean, Coming, Expected, Peer, FreshInv, Untouched,
      LabelInv, ServerGreeted, ClientGreeted
<1>6. StallInv'
  BY
  DEF ClientGreets, uio_notify, ClientLoop, Goes, Options, UioOptions, IntrInv,
      GuardInv, Replied, StallInv, FreshInv, Untouched, ClientGreeted
<1> QED BY <1>1, <1>2, <1>3, <1>4, <1>5, <1>6 DEF IntrInv

LEMMA ClientWaitsInv ==
  ASSUME GuardInv, IntrInv, ClientWaits
  PROVE  IntrInv'
<1>1. IntrTypeOK'
  BY DEF ClientWaits, uio_wait, UioOptions, IntrInv, Procs, IntrTypeOK, IntrLabels
<1>2. LabelInv'
  BY DEF ClientWaits, uio_wait, Goes, UioOptions, IntrInv, LabelInv, IntrTypeOK
<1>3. WakeInv'
  BY DEF ClientWaits, uio_wait, Expected, Goes, GuardInv, Procs, WakeInv, Waiting
<1>4. FreshInv'
  BY DEF ClientWaits, Goes, FreshInv, ClientGreeted
<1>5. DueInv'
  BY
  DEF ClientWaits, uio_wait, Goes, Counters, Options, UioOptions, IntrInv, GuardInv,
      Replied, DueInv, One, Clean, Coming, Untouched, IntrTypeOK, ServerGreeted,
      ClientGreeted
<1>6. StallInv'
  BY
  DEF ClientWaits, uio_wait, Goes, Counters, UioOptions, IntrInv, StallInv,
      ServerGreeted, ClientGreeted
<1> QED BY <1>1, <1>2, <1>3, <1>4, <1>5, <1>6 DEF IntrInv

LEMMA ClientNotifiesInv ==
  ASSUME GuardInv, IntrInv, ClientNotifies
  PROVE  IntrInv'
<1>1. IntrTypeOK'
  BY DEF ClientNotifies, uio_notify, UioOptions, IntrInv, Procs, IntrTypeOK, IntrLabels
<1>2. LabelInv'
  BY
  DEF ClientNotifies, uio_notify, ClientLoop, Goes, UioOptions, IntrInv, GuardInv,
      LabelInv, IntrTypeOK
<1>3. WakeInv'
  BY
  DEF ClientNotifies, uio_notify, IntrInv, Procs, WakeInv, Waiting, Coming, Expected,
      Peer, IntrTypeOK
<1>4. FreshInv'
  BY DEF ClientNotifies, Ready, ClientLoop, Goes, FreshInv, ClientGreeted
<1>5. DueInv'
  BY
  DEF ClientNotifies, Ready, uio_notify, ClientLoop, Goes, UioOptions, IntrInv,
      GuardInv, Procs, ClientLabels, DueInv, One, Clean, Coming, Expected, Peer,
      FreshInv, Untouched, LabelInv, ServerGreeted
<1>6. StallInv'
  BY
  DEF ClientNotifies, Ready, uio_notify, ClientLoop, Goes, UioOptions, IntrInv,
      GuardInv, StallInv, ServerGreeted
<1> QED BY <1>1, <1>2, <1>3, <1>4, <1>5, <1>6 DEF IntrInv

LEMMA ResetInv ==
  ASSUME GuardInv, IntrInv, NEW p \in Procs, Reset(p)
  PROVE  IntrInv'
<1>1. IntrTypeOK'
  BY DEF Reset, UioOptions, IntrInv, IntrTypeOK, IntrLabels
<1>2. LabelInv'
  BY DEF Reset, xvars, UioOptions, IntrInv, LabelInv
<1>3. WakeInv'
  BY
  DEF Reset, xvars, IntrInv, GuardInv, Procs, ServerLabels, WakeInv, Waiting,
      Expected, LabelInv, ServerGreeted
<1>4. FreshInv'
  BY
  DEF Reset, xvars, UioOptions, IntrInv, FreshInv, Untouched, IntrTypeOK,
      ServerGreeted, ClientGreeted
<1>5. DueInv'
  BY
  DEF Reset, xvars, UioOptions, IntrInv, DueInv, One, Clean, Coming, ServerGreeted,
      ClientGreeted
<1>6. StallInv'
  BY
  DEF Reset, xvars, UioOptions, IntrInv, Replied, StallInv, ServerGreeted,
      ClientGreeted
<1> QED BY <1>1, <1>2, <1>3, <1>4, <1>5, <1>6 DEF IntrInv

LEMMA ReadIrqInv ==
  ASSUME GuardInv, IntrInv, NEW p \in Procs, ReadIrq(p)
  PROVE  IntrInv'
<1>1. IntrTypeOK'
  BY DEF ReadIrq, UioOptions, IntrInv, IntrTypeOK, IntrLabels
<1>2. LabelInv'
  BY DEF ReadIrq, xvars, UioOptions, IntrInv, LabelInv
<1>3. WakeInv'
  BY DEF ReadIrq, xvars, IntrInv, WakeInv, Waiting, Coming, IntrTypeOK, ServerGreeted
<1>4. FreshInv'
  BY
  DEF ReadIrq, xvars, UioOptions, IntrInv, FreshInv, Untouched, ServerGreeted,
      ClientGreeted
<1>5. DueInv'
  BY
  DEF ReadIrq, xvars, UioOptions, IntrInv, DueInv, One, Clean, Coming, IntrTypeOK,
      ServerGreeted, ClientGreeted
<1>6. StallInv'
  BY
  DEF ReadIrq, xvars, UioOptions, IntrInv, Replied, StallInv, ServerGreeted,
      ClientGreeted
<1> QED BY <1>1, <1>2, <1>3, <1>4, <1>5, <1>6 DEF IntrInv

LEMMA NotForMeInv ==
  ASSUME GuardInv, IntrInv, NEW p \in Procs, NotForMe(p)
  PROVE  IntrInv'
<1>1. IntrTypeOK'
  BY DEF NotForMe, UioOptions, IntrInv, IntrTypeOK, IntrLabels
<1>2. LabelInv'
  BY DEF NotForMe, xvars, UioOptions, IntrInv, LabelInv
<1>3. WakeInv'
  BY DEF NotForMe, xvars, IntrInv, WakeInv, Waiting, Coming, ServerGreeted
<1>4. FreshInv'
  BY
  DEF NotForMe, xvars, UioOptions, IntrInv, FreshInv, Untouched, ServerGreeted,
      ClientGreeted
<1>5. DueInv'
  BY
  DEF NotForMe, xvars, UioOptions, IntrInv, Procs, DueInv, One, Clean, LabelInv,
      ServerGreeted, ClientGreeted
<1>6. StallInv'
  BY
  DEF NotForMe, xvars, UioOptions, IntrInv, Replied, StallInv, ServerGreeted,
      ClientGreeted
<1> QED BY <1>1, <1>2, <1>3, <1>4, <1>5, <1>6 DEF IntrInv

LEMMA RingAgainInv ==
  ASSUME GuardInv, IntrInv, NEW p \in Procs, RingAgain(p)
  PROVE  IntrInv'
<1>1. IntrTypeOK'
  BY DEF RingAgain, Doorbell, UioOptions, IntrInv, IntrTypeOK, IntrLabels
<1>2. LabelInv'
  BY DEF RingAgain, xvars, UioOptions, IntrInv, LabelInv
<1>3. WakeInv'
  BY DEF RingAgain, Doorbell, xvars, IntrInv, WakeInv, Waiting, Coming, ServerGreeted
<1>4. FreshInv'
  BY
  DEF RingAgain, Doorbell, xvars, UioOptions, IntrInv, FreshInv, Untouched, LabelInv,
      ServerGreeted, ClientGreeted
<1>5. DueInv'
  BY DEF RingAgain, xvars, UioOptions, IntrInv, DueInv, Clean, ServerGreeted
<1>6. StallInv'
  BY
  DEF RingAgain, Doorbell, xvars, UioOptions, IntrInv, Replied, StallInv,
      ServerGreeted, ClientGreeted
<1> QED BY <1>1, <1>2, <1>3, <1>4, <1>5, <1>6 DEF IntrInv

LEMMA RingPeerInv ==
  ASSUME GuardInv, IntrInv, NEW p \in Procs, RingPeer(p)
  PROVE  IntrInv'
<1>1. IntrTypeOK'
  BY DEF RingPeer, Doorbell, Peer, UioOptions, IntrInv, Procs, IntrTypeOK, IntrLabels
<1>2. LabelInv'
  BY DEF RingPeer, xvars, UioOptions, IntrInv, LabelInv
<1>3. WakeInv'
  BY
  DEF RingPeer, Doorbell, Peer, xvars, IntrInv, Procs, WakeInv, Waiting, Coming,
      IntrTypeOK, ServerGreeted
<1>4. FreshInv'
  BY DEF RingPeer, xvars, IntrInv, GuardInv, Procs, FreshInv, LabelInv, ClientGreeted
<1>5. DueInv'
  BY
  DEF RingPeer, Doorbell, Peer, xvars, UioOptions, IntrInv, Procs, DueInv, One, Clean,
      Coming, IntrTypeOK, ServerGreeted, ClientGreeted
<1>6. StallInv'
  BY
  DEF RingPeer, Doorbell, Peer, xvars, UioOptions, IntrInv, GuardInv, Procs, Replied,
      StallInv, FreshInv, Untouched, LabelInv, ServerGreeted
<1> QED BY <1>1, <1>2, <1>3, <1>4, <1>5, <1>6 DEF IntrInv

LEMMA DeliverInv ==
  ASSUME GuardInv, IntrInv, NEW p \in Procs, Deliver(p)
  PROVE  IntrInv'
<1>1. IntrTypeOK'
  BY
  DEF Deliver, xvars, UioOptions, IntrInv, GuardInv, Procs, ServerLabels,
      ClientLabels, Letters, Replied, IntrTypeOK, IntrLabels
<1>2. LabelInv'
  BY DEF Deliver, xvars, UioOptions, IntrInv, LabelInv
<1>3. WakeInv'
  BY
  DEF Deliver, xvars, IntrInv, Procs, WakeInv, Waiting, Coming, IntrTypeOK,
      ServerGreeted
<1>4. FreshInv'
  BY
  DEF Deliver, xvars, UioOptions, IntrInv, Procs, FreshInv, Untouched, IntrTypeOK,
      ServerGreeted, ClientGreeted
<1>5. DueInv'
  BY
  DEF Deliver, xvars, UioOptions, IntrInv, Procs, DueInv, One, Clean, Coming,
      IntrTypeOK, ServerGreeted, ClientGreeted
<1>6. StallInv'
  BY
  DEF Deliver, xvars, UioOptions, IntrInv, Procs, Replied, StallInv, IntrTypeOK,
      ServerGreeted, ClientGreeted
<1> QED BY <1>1, <1>2, <1>3, <1>4, <1>5, <1>6 DEF IntrInv

LEMMA MemoryInv ==
  ASSUME GuardInv, IntrInv, NEW p \in Procs, MemoryStep(p), Quiet
  PROVE  IntrInv'
<1>1. IntrTypeOK'
  BY DEF Quiet, UioOptions, IntrInv, IntrTypeOK
<1>2. LabelInv'
  BY
  DEF MemoryStep, FillCell, StartCheck, CheckCell, CopyCell, Goes, Quiet, IntrInv,
      GuardInv, Procs, LabelInv
<1>3. WakeInv'
  BY
  DEF MemoryStep, FillCell, StartCheck, CheckCell, CopyCell, Goes, Quiet, GuardInv,
      Procs, ServerLabels, Replied, WakeInv, Waiting, Expected
<1>4. FreshInv'
  BY
  DEF MemoryStep, FillCell, StartCheck, CheckCell, CopyCell, Goes, GuardInv, Procs,
      FreshInv, ClientGreeted
<1>5. DueInv'
  BY
  DEF MemoryStep, FillCell, StartCheck, CheckCell, CopyCell, Goes, Counters, Quiet,
      UioOptions, IntrInv, GuardInv, Procs, Replied, DueInv, One, Clean, Coming,
      FreshInv, ServerGreeted, ClientGreeted
<1>6. StallInv'
  BY
  DEF MemoryStep, FillCell, StartCheck, CheckCell, CopyCell, Goes, Counters, Quiet,
      UioOptions, IntrInv, GuardInv, Procs, StallInv, ServerGreeted
<1> QED BY <1>1, <1>2, <1>3, <1>4, <1>5, <1>6 DEF IntrInv

LEMMA EndsCopyInv ==
  ASSUME GuardInv, IntrInv, ServerEndsCopy \/ ClientEndsCopy \/ ServerEvaluates, Quiet
  PROVE  IntrInv'
<1>1. IntrTypeOK'
  BY DEF Quiet, UioOptions, IntrInv, IntrTypeOK
<1>2. LabelInv'
  BY
  DEF ServerEndsCopy, ClientEndsCopy, ServerEvaluates, ServerLoop, Goes, Quiet,
      IntrInv, GuardInv, Procs, LabelInv
<1>3. WakeInv'
  BY
  DEF ServerEndsCopy, ClientEndsCopy, ServerEvaluates, ServerLoop, Goes, Quiet,
      GuardInv, WakeInv, Waiting, Expected
<1>4. FreshInv'
  BY
  DEF ServerEndsCopy, ClientEndsCopy, ServerEvaluates, ServerLoop, Goes, GuardInv,
      Procs, FreshInv, ClientGreeted
<1>5. DueInv'
  BY
  DEF ServerEndsCopy, ClientEndsCopy, ServerEvaluates, ServerLoop, Goes, Counters,
      Quiet, UioOptions, IntrInv, GuardInv, Procs, DueInv, One, Clean, Coming,
      Expected, IntrLabels, ServerGreeted, ClientGreeted
<1>6. StallInv'
  BY
  DEF ServerEndsCopy, ClientEndsCopy, ServerEvaluates, ServerLoop, Goes, Counters,
      Quiet, UioOptions, IntrInv, GuardInv, Procs, StallInv, ServerGreeted
<1> QED BY <1>1, <1>2, <1>3, <1>4, <1>5, <1>6 DEF IntrInv

LEMMA FailsInv ==
  ASSUME GuardInv, IntrInv, Fails
  PROVE  IntrInv'
<1>1. IntrTypeOK'
  BY DEF Fails, Quiet, UioOptions, IntrInv, IntrTypeOK
<1>2. LabelInv'
  BY
  DEF Fails, LaunchFails, MallocFails, Goes, Quiet, UioOptions, IntrInv, GuardInv,
      Procs, LabelInv
<1>3. WakeInv'
  BY
  DEF Fails, LaunchFails, MallocFails, Goes, Quiet, GuardInv, Procs, WakeInv, Waiting,
      Expected, ServerGreeted
<1>4. FreshInv'
  BY
  DEF Fails, LaunchFails, MallocFails, Goes, Quiet, UioOptions, IntrInv, GuardInv,
      Procs, FreshInv, Untouched, ServerGreeted, ClientGreeted
<1>5. DueInv'
  BY
  DEF Fails, LaunchFails, MallocFails, Goes, Counters, Quiet, UioOptions, IntrInv,
      GuardInv, Procs, ServerLabels, DueInv, One, Clean, Coming, Peer, ServerGreeted,
      ClientGreeted
<1>6. StallInv'
  BY
  DEF Fails, LaunchFails, MallocFails, Goes, Counters, Options, Quiet, UioOptions,
      IntrInv, GuardInv, Procs, Replied, StallInv, ServerGreeted, ClientGreeted
<1> QED BY <1>1, <1>2, <1>3, <1>4, <1>5, <1>6 DEF IntrInv

LEMMA NextInv == GuardInv /\ IntrInv /\ [Next]_vars => IntrInv'
<1> SUFFICES ASSUME GuardInv, IntrInv, [Next]_vars PROVE IntrInv'
  OBVIOUS
<1>1. CASE ServerStep
  BY <1>1, ServerClearsInv, ServerGreetsInv, ServerMeetsInv, ServerNotifiesInv, ServerWaitsInv,
     ResetInv, ReadIrqInv, NotForMeInv, RingAgainInv, RingPeerInv, MemoryInv, EndsCopyInv
  DEF ServerStep, InterruptStep, Procs
<1>2. CASE ClientStep
  BY <1>2, ClientGreetsInv, ClientWaitsInv, ClientNotifiesInv,
     ResetInv, ReadIrqInv, NotForMeInv, RingAgainInv, RingPeerInv, MemoryInv, EndsCopyInv
  DEF ClientStep, InterruptStep, Procs
<1>3. CASE UNCHANGED vars
  BY <1>3
  DEF vars, xvars, IntrInv, IntrTypeOK, LabelInv, WakeInv, Waiting, Coming, FreshInv,
      Untouched, DueInv, One, Clean, StallInv, ServerGreeted, ClientGreeted, Replied
<1> QED
  BY <1>1, <1>2, <1>3, ServerLaunchInv, ClientLaunchInv, FailsInv, DeliverInv DEF Next

LEMMA Interrupted == Spec => [](GuardInv /\ IntrInv)
BY InitInv, NextInv, Inherits, Guarded, PTL DEF Spec

(* Every variable keeps its type, those of the interrupts and those that    *)
(* ivshmem-shm has.                                                         *)
THEOREM TypeCorrect == Spec => []TypeOK
<1>1. G!IInv /\ IntrInv => TypeOK
  BY
  DEF G!IInv, G!TypeOK, G!XTypeOK, G!Procs, G!ServerLabels, G!ClientLabels, G!Letters,
      G!Words, G!Bytes, IntrInv, IntrTypeOK, TypeOK, XTypeOK, Procs, ServerLabels,
      ClientLabels, Letters, Words, Bytes
<1> QED BY <1>1, Inherits, Interrupted, PTL

(* No process of ivshmem-uio sleeps while its letter is in the guard and    *)
(* nobody is going to ring, whatever was left over, merged or put back.     *)
THEOREM NoneLost == Spec => []NoLostWakeup
<1>1. GuardInv /\ IntrInv => NoLostWakeup
  BY DEF IntrInv, WakeInv, Waiting, Coming, NoLostWakeup, Asleep, Met, Procs
<1> QED BY <1>1, Interrupted, PTL

(* With -R, or without a leftover, a process that was not too early is      *)
(* never woken for nothing.                                                 *)
THEOREM AllForMe == Spec => []EveryInterruptIsForMe
<1>1. IntrInv => EveryInterruptIsForMe
  BY DEF IntrInv, DueInv, EveryInterruptIsForMe
<1> QED BY <1>1, Interrupted, PTL

(* A client that was first, and has nothing else to wake it, sleeps through *)
(* every state that follows.                                                *)
THEOREM FirstStalls == Spec => []ClientFirstStalls
<1>1. IntrInv => ClientFirstStalls
  BY DEF IntrInv, StallInv, ClientFirstStalls, Met, Taken
<1> QED BY <1>1, Interrupted, PTL
===========================================================================
