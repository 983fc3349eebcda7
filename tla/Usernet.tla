------------------------------ MODULE Usernet -----------------------------
(* ivshmem-usernet: there is no guard word.  A process binds a port of the  *)
(* usernet_ivshmem device, clears it, connects it to its peer's port, and   *)
(* from then on an interrupt is the token: IOCTL_SIGNAL sends one to the    *)
(* peer, IOCTL_WAIT consumes one.                                           *)
(*                                                                          *)
(* The driver is outside the repository; ivshmem.h says what its calls do.  *)
(* An interrupt takes a while to arrive, one for a port that is not bound   *)
(* may be lost, and a call may fail where the programs check that it did.   *)
(* A call that returns EINTR, or EAGAIN with -N, is made again.             *)
EXTENDS Exchange

VARIABLES
    port,       \* how far each process has got with its port
    coming,     \* interrupts on their way to a port
    pending,    \* interrupts that have arrived and were not consumed
    isReset     \* -R of each process

vars == <<xvars, port, coming, pending, isReset>>
Interrupts == <<coming, pending>>

Peer(p) == IF p = "server" THEN "client" ELSE "server"

(* What an earlier run left pending is still there.                         *)
Init == /\ XInit
        /\ port = [p \in Procs |-> "closed"]
        /\ coming = [p \in Procs |-> 0]
        /\ pending \in [Procs -> {0, 1}]
        /\ isReset \in [Procs -> BOOLEAN]
---------------------------------------------------------------------------
(* A finished process has closed its device.                                *)
Listening(p) == /\ port[p] \in {"bound", "cleared", "connected"}
                /\ pc[p] \notin {"done", "aborted", "exited", "torn", "mismatch"}

Arrive(p) ==
    /\ coming[p] > 0
    /\ coming' = [coming EXCEPT ![p] = @ - 1]
    /\ \/ pending' = [pending EXCEPT ![p] = @ + 1]
       \/ ~Listening(p) /\ UNCHANGED pending
    /\ UNCHANGED <<xvars, port, isReset>>

(* Where each process sets up its port: the server once it has cleared the  *)
(* region, the client at once.                                              *)
SettingUp(p) == /\ pc[p] = (IF p = "server" THEN "clear" ELSE "hello")
                /\ todo[p] = {}

PortGoes(p, from, to) == /\ SettingUp(p)
                         /\ port[p] = from
                         /\ port' = [port EXCEPT ![p] = to]

(* -R clears the device before a port is bound.                             *)
Reset(p) ==
    /\ isReset[p]
    /\ PortGoes(p, "closed", "reset")
    /\ pending' = [pending EXCEPT ![p] = 0]
    /\ UNCHANGED <<xvars, coming, isReset>>

Bind(p) ==
    /\ PortGoes(p, IF isReset[p] THEN "reset" ELSE "closed", "bound")
    /\ UNCHANGED <<xvars, coming, pending, isReset>>
(* Mutation: what an earlier run left is not dropped.                       *)
ClearNothing(p) ==
    /\ PortGoes(p, "bound", "cleared")
    /\ skew' = IF p = "server" /\ ClientGreeted THEN 1 ELSE skew
    /\ UNCHANGED <<pc, region, buf, todo, message, left, coming, pending, isReset>>
    /\ UNCHANGED Options

(* IOCTL_CLEAR drops what has arrived, a greeting of the client included.   *)
Clear(p) ==
    /\ PortGoes(p, "bound", "cleared")
    /\ pending' = [pending EXCEPT ![p] = 0]
    /\ skew' = IF p = "server" /\ ClientGreeted THEN 1 ELSE skew
    /\ UNCHANGED <<pc, region, buf, todo, message, left, coming, isReset>>
    /\ UNCHANGED Options
(* Mutation: the wait returns without an interrupt.                         *)
WaitForNothing(p) == UNCHANGED <<port, coming, pending, isReset>>

usernet_intr_wait(p) ==
    /\ pending[p] > 0
    /\ pending' = [pending EXCEPT ![p] = @ - 1]
    /\ UNCHANGED <<port, coming, isReset>>
(* Mutation: a signal that was sent is sent again.                          *)
NotifyTwice(p) ==
    /\ coming' = [coming EXCEPT ![Peer(p)] = @ + 2]
    /\ UNCHANGED <<port, pending, isReset>>

usernet_intr_notify(p) ==
    /\ coming' = [coming EXCEPT ![Peer(p)] = @ + 1]
    /\ UNCHANGED <<port, pending, isReset>>

PortStep(p) == Reset(p) \/ Bind(p) \/ Clear(p)

Quiet == UNCHANGED <<port, coming, pending, isReset>>
---------------------------------------------------------------------------
ServerLaunch ==
    /\ Goes("server", "off", "clear")
    /\ Starts("server")
    /\ UNCHANGED <<region, buf>> /\ UNCHANGED Counters /\ UNCHANGED Options
    /\ Quiet

ServerClears ==
    /\ pc["server"] = "clear"
    /\ \E c \in todo["server"] : /\ Touches("server", c)
                                 /\ region' = [region EXCEPT ![c] = Zero]
    /\ UNCHANGED <<pc, buf>> /\ UNCHANGED Counters /\ UNCHANGED Options
    /\ Quiet

ServerConnects ==
    /\ PortGoes("server", "cleared", "connected")
    /\ Goes("server", "clear", "meet")
    /\ UNCHANGED <<region, buf, todo, coming, pending, isReset>>
    /\ UNCHANGED Counters /\ UNCHANGED Options

ServerMeets ==
    /\ usernet_intr_wait("server")
    /\ ServerLoop("meet", 0)
    /\ UNCHANGED <<region, buf, left, skew>> /\ UNCHANGED Options

ServerNotifies ==
    /\ Ready("server")
    /\ pc' = [pc EXCEPT !["server"] = "wait"]
    /\ usernet_intr_notify("server")
    /\ UNCHANGED <<region, buf, todo>> /\ UNCHANGED Counters /\ UNCHANGED Options

(* A client that has finished has no port any more: the signal may fail.    *)
ServerNotifyFails ==
    /\ Ready("server") /\ ~Listening("client")
    /\ pc' = [pc EXCEPT !["server"] = "exited"]
    /\ UNCHANGED <<region, buf, todo>> /\ UNCHANGED Counters /\ UNCHANGED Options
    /\ Quiet

ServerWaits ==
    /\ usernet_intr_wait("server")
    /\ Goes("server", "wait", "copy")
    /\ Starts("server")
    /\ UNCHANGED <<region, buf>> /\ UNCHANGED Counters /\ UNCHANGED Options

(* The server's main() and communicate(), once the region is mapped.        *)
ServerStep ==
    \/ ServerClears \/ PortStep("server") \/ ServerConnects \/ ServerMeets
    \/ ServerNotifies \/ ServerNotifyFails \/ ServerWaits
    \/ (MemoryStep("server") \/ ServerEndsCopy \/ ServerEvaluates) /\ Quiet
---------------------------------------------------------------------------
ClientLaunch ==
    /\ Goes("client", "off", "hello")
    /\ UNCHANGED <<region, buf, todo>> /\ UNCHANGED Counters /\ UNCHANGED Options
    /\ Quiet

ClientConnects ==
    /\ PortGoes("client", "cleared", "connected")
    /\ UNCHANGED <<xvars, coming, pending, isReset>>

ClientGreets ==
    /\ port["client"] = "connected"
    /\ ClientLoop("hello", count["client"])
    /\ usernet_intr_notify("client")
    /\ UNCHANGED <<region, buf, todo, message, skew>> /\ UNCHANGED Options

ClientWaits ==
    /\ usernet_intr_wait("client")
    /\ Goes("client", "wait", "copy")
    /\ Starts("client")
    /\ UNCHANGED <<region, buf>> /\ UNCHANGED Counters /\ UNCHANGED Options
(* Mutation: the client leaves its loop before it sends the last signal.    *)
ClientNotifiesButLast ==
    /\ Ready("client")
    /\ ClientLoop(pc["client"], left - 1)
    /\ IF left > 1 THEN usernet_intr_notify("client") ELSE Quiet
    /\ UNCHANGED <<region, buf, todo, message, skew>> /\ UNCHANGED Options

ClientNotifies ==
    /\ Ready("client")
    /\ ClientLoop(pc["client"], left - 1)
    /\ usernet_intr_notify("client")
    /\ UNCHANGED <<region, buf, todo, message, skew>> /\ UNCHANGED Options

ClientStep ==
    \/ PortStep("client") \/ ClientConnects
    \/ ClientGreets \/ ClientWaits \/ ClientNotifies
    \/ (MemoryStep("client") \/ ClientEndsCopy) /\ Quiet
---------------------------------------------------------------------------
(* A failure of malloc() or of any call that sets up the port, or of the    *)
(* client's first signal: the process exits before it has greeted.          *)
Fails == \E p \in Procs : (LaunchFails(p) \/ MallocFails(p)) /\ Quiet

Next == \/ ServerLaunch \/ ClientLaunch \/ Fails \/ ServerStep \/ ClientStep
        \/ \E p \in Procs : Arrive(p)

(* A process that runs keeps running, and an interrupt arrives in the end.  *)
Spec == /\ Init /\ [][Next]_vars
        /\ WF_vars(ServerStep)
        /\ WF_vars(ClientStep)
        /\ \A p \in Procs : WF_vars(Arrive(p))
---------------------------------------------------------------------------
TypeOK == /\ XTypeOK
          /\ todo \in [Procs -> SUBSET Cells]
          /\ port \in [Procs -> {"closed", "reset", "bound", "cleared", "connected"}]
          /\ coming \in [Procs -> Nat] /\ pending \in [Procs -> Nat]
          /\ isReset \in [Procs -> BOOLEAN]

(* The interrupts that are left, with no word in memory to confirm them,    *)
(* still keep the processes apart in the region.                            *)
InRegion(p) == pc[p] \in {"clear", "fill", "check", "copy"}
NoDataRace == ~(InRegion("server") /\ InRegion("client"))

(* The server's port has been cleared and is connected, and the client has  *)
(* greeted after that: skew tells whether it did so before.                 *)
Paired == port["server"] = "connected" /\ ClientGreeted /\ skew = 0

(* There is one token: one process is at work in its round, or one          *)
(* interrupt is pending or coming.  None is lost unless it is sent to a     *)
(* client that has already finished, and none is ever made twice, so that   *)
(* it does not matter whether the device counts interrupts or merges them.  *)
Interrupted(p) == coming[p] + pending[p]
Holds(p) == pc[p] \in {"fill", "check", "copy"}
Working == \/ \E p \in Procs : Holds(p)
           \/ pc["server"] \in {"evaluate", "done", "aborted", "exited"}
OneToken ==
    Paired => LET n == Interrupted("server") + Interrupted("client") + (IF Working THEN 1 ELSE 0)
              IN  n <= 1 /\ (n = 0 => pc["client"] = "done")

(* Every copy is the whole message, or the whole reply, its round is due.   *)
Agreement ==
    /\ pc["client"] \in {"fill", "check"} => buf["client"] = Uniform(STC(Replied + 1))
    /\ message > 0 /\ pc["server"] \in {"fill", "check", "wait", "evaluate", "done"}
         => buf["server"] = Uniform(CTS(message))

(* A greeting that is sent after the server has cleared its port is heard,  *)
(* and then both processes come to the end of what they can do.             *)
BothFinish ==
    /\ (Paired /\ 0 < count["server"] /\ count["server"] <= count["client"])
           ~> (pc["server"] = "done")
    /\ (Paired /\ count["client"] <= count["server"]) ~> (pc["client"] = "done")

(* A greeting that has arrived before the server clears its port is gone    *)
(* for good: the two wait for each other, and no message is ever sent.      *)
GreetingLost == /\ skew = 1 /\ pc["server"] = "meet"
                /\ coming["server"] = 0 /\ pending["server"] = 0
LostForGood == [](GreetingLost => [](message = 0 /\ Replied = 0 /\ GreetingLost))

(* The programs implement the alternation; no greeting is ever taken for a  *)
(* message.                                                                 *)
Begins == port["server"] = "connected" /\ pc["server"] # "meet"
P == INSTANCE PingPong WITH
        skew <- IF Begins THEN 0 ELSE -1,
        sent <- Sent, taken <- Taken, replied <- Replied, got <- message
PingPongSpec == P!Spec
===========================================================================
