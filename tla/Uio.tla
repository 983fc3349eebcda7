-------------------------------- MODULE Uio -------------------------------
(* ivshmem-uio: the guard word still says whose turn it is, but a process   *)
(* does not spin on it.  It sleeps in read() on its UIO device until an     *)
(* interrupt arrives and only then looks at the guard; its peer stores the  *)
(* letter and then writes the doorbell register.  An interrupt that finds   *)
(* another letter is put back: the process rings its own doorbell.          *)
(*                                                                          *)
(* The device is outside the repository.  It keeps one pending interrupt    *)
(* per process, so rings coalesce; a ring takes a while to arrive, and one  *)
(* that arrives before the process has opened its device may be lost.       *)
(* Blocking or not (-N) makes no difference: a read() that finds nothing    *)
(* is called again.                                                         *)
EXTENDS Exchange

CONSTANT GuardCell    \* the guard word, as a thing main()'s memset() clears

ASSUME GuardCellAssumption == GuardCell \notin Cells

VARIABLES
    guard,      \* the guard word
    irq,        \* the interrupt pending at each process's device
    rung,       \* a ring on its way to that device
    intr,       \* what each process is about to do with interrupts
    leftover,   \* whether an earlier run left an interrupt pending
    isReset     \* -R of each process

vars == <<xvars, guard, irq, rung, intr, leftover, isReset>>
UioOptions == <<leftover, isReset>>
Interrupts == <<irq, rung, intr>>

Letters == {"0", "c", "s"}
IntrLabels == {"reset", "read", "look", "ring", "bell"}

Peer(p) == IF p = "server" THEN "client" ELSE "server"
Expected(p) == IF p = "server" THEN "s" ELSE "c"

Init == /\ XInit
        /\ guard \in Letters
        /\ leftover \in [Procs -> BOOLEAN]
        /\ irq = leftover
        /\ rung = [p \in Procs |-> FALSE]
        /\ intr = [p \in Procs |-> "read"]
        /\ isReset \in [Procs -> BOOLEAN]
---------------------------------------------------------------------------
(* Writing a doorbell sends an interrupt on its way.                        *)
Doorbell(p) == rung' = [rung EXCEPT ![p] = TRUE]

Deliver(p) ==
    /\ rung[p]
    /\ rung' = [rung EXCEPT ![p] = FALSE]
    /\ \/ irq' = [irq EXCEPT ![p] = TRUE]
       \/ pc[p] = "off" /\ UNCHANGED irq
    /\ UNCHANGED <<xvars, guard, intr>> /\ UNCHANGED UioOptions
(* Mutation: the reset does not consume the interrupt.                      *)
ResetConsumesNothing(p) ==
    /\ intr[p] = "reset" /\ todo[p] = {}
    /\ intr' = [intr EXCEPT ![p] = "read"]
    /\ UNCHANGED <<xvars, guard, irq, rung>> /\ UNCHANGED UioOptions

(* With -R a process reads its device once, without blocking, before it     *)
(* enters communicate().                                                    *)
Reset(p) ==
    /\ intr[p] = "reset" /\ todo[p] = {}
    /\ irq' = [irq EXCEPT ![p] = FALSE]
    /\ intr' = [intr EXCEPT ![p] = "read"]
    /\ UNCHANGED <<xvars, guard, rung>> /\ UNCHANGED UioOptions

(* uio_wait(): read() returns with an interrupt,                            *)
ReadIrq(p) ==
    /\ pc[p] \in {"meet", "wait"} /\ intr[p] = "read"
    /\ irq[p]
    /\ irq' = [irq EXCEPT ![p] = FALSE]
    /\ intr' = [intr EXCEPT ![p] = "look"]
    /\ UNCHANGED <<xvars, guard, rung>> /\ UNCHANGED UioOptions

(* the guard holds another letter,                                          *)
NotForMe(p) ==
    /\ intr[p] = "look"
    /\ guard # Expected(p)
    /\ intr' = [intr EXCEPT ![p] = "ring"]
    /\ UNCHANGED <<xvars, guard, irq, rung>> /\ UNCHANGED UioOptions

(* and the process rings itself and reads again;                            *)
RingAgain(p) ==
    /\ intr[p] = "ring"
    /\ Doorbell(p)
    /\ intr' = [intr EXCEPT ![p] = "read"]
    /\ UNCHANGED <<xvars, guard, irq>> /\ UNCHANGED UioOptions
(* Mutation: any interrupt ends the wait.                                   *)
WaitUnguarded(p) ==
    /\ intr[p] = "look"
    /\ intr' = [intr EXCEPT ![p] = "read"]
    /\ UNCHANGED <<guard, irq, rung>> /\ UNCHANGED UioOptions

(* or it holds the letter, and the wait is over.                            *)
uio_wait(p) ==
    /\ intr[p] = "look"
    /\ guard = Expected(p)
    /\ intr' = [intr EXCEPT ![p] = "read"]
    /\ UNCHANGED <<guard, irq, rung>> /\ UNCHANGED UioOptions

(* uio_notify(): the letter is stored first,                                *)
uio_notify(p, update) ==
    /\ guard' = update
    /\ intr' = [intr EXCEPT ![p] = "bell"]
    /\ UNCHANGED <<irq, rung>> /\ UNCHANGED UioOptions
(* Mutation: the doorbell is rung at the process's own position.            *)
RingSelf(p) ==
    /\ intr[p] = "bell"
    /\ Doorbell(p)
    /\ intr' = [intr EXCEPT ![p] = "read"]
    /\ UNCHANGED <<xvars, guard, irq>> /\ UNCHANGED UioOptions

(* then the peer's doorbell is rung.                                        *)
RingPeer(p) ==
    /\ intr[p] = "bell"
    /\ Doorbell(Peer(p))
    /\ intr' = [intr EXCEPT ![p] = "read"]
    /\ UNCHANGED <<xvars, guard, irq>> /\ UNCHANGED UioOptions

InterruptStep(p) == Reset(p) \/ ReadIrq(p) \/ NotForMe(p) \/ RingAgain(p) \/ RingPeer(p)
---------------------------------------------------------------------------
(* A device is opened by main(), which also decides on the reset.           *)
Opens(p) == intr' = [intr EXCEPT ![p] = IF isReset[p] THEN "reset" ELSE "read"]

ServerLaunch ==
    /\ Goes("server", "off", "clear")
    /\ todo' = [todo EXCEPT !["server"] = Cells \cup {GuardCell}]
    /\ Opens("server")
    /\ UNCHANGED <<region, buf, guard, irq, rung>>
    /\ UNCHANGED Counters /\ UNCHANGED Options /\ UNCHANGED UioOptions

ServerClears ==
    /\ pc["server"] = "clear"
    /\ \E c \in todo["server"] :
         /\ Touches("server", c)
         /\ IF c = GuardCell
            THEN guard' = "0" /\ UNCHANGED region
            ELSE region' = [region EXCEPT ![c] = Zero] /\ UNCHANGED guard
    /\ UNCHANGED <<pc, buf>> /\ UNCHANGED Interrupts
    /\ UNCHANGED Counters /\ UNCHANGED Options /\ UNCHANGED UioOptions
(* Mutation: the greeting rings the client.                                 *)
ServerGreetsWithRing ==
    /\ todo["server"] = {} /\ intr["server"] = "read"
    /\ Goes("server", "clear", "meet")
    /\ uio_notify("server", "c")
    /\ skew' = IF ClientGreeted THEN 1 ELSE 0
    /\ UNCHANGED <<region, buf, todo, message, left>> /\ UNCHANGED Options

(* The greeting is a letter without an interrupt.                           *)
ServerGreets ==
    /\ todo["server"] = {} /\ intr["server"] = "read"
    /\ Goes("server", "clear", "meet")
    /\ guard' = "c"
    /\ skew' = IF ClientGreeted THEN 1 ELSE 0
    /\ UNCHANGED <<region, buf, todo, message, left>> /\ UNCHANGED Interrupts
    /\ UNCHANGED Options /\ UNCHANGED UioOptions

ServerMeets ==
    /\ uio_wait("server")
    /\ ServerLoop("meet", 0)
    /\ UNCHANGED <<region, buf, left, skew>> /\ UNCHANGED Options

ServerNotifies ==
    /\ Ready("server")
    /\ pc' = [pc EXCEPT !["server"] = "wait"]
    /\ uio_notify("server", "c")
    /\ UNCHANGED <<region, buf, todo>> /\ UNCHANGED Counters /\ UNCHANGED Options

ServerWaits ==
    /\ uio_wait("server")
    /\ Goes("server", "wait", "copy")
    /\ Starts("server")
    /\ UNCHANGED <<region, buf>> /\ UNCHANGED Counters /\ UNCHANGED Options

Quiet == UNCHANGED <<guard, irq, rung, intr>> /\ UNCHANGED UioOptions

(* The server's main() and communicate(), once its device is open.          *)
ServerStep ==
    \/ ServerClears \/ ServerGreets \/ ServerMeets \/ ServerNotifies \/ ServerWaits
    \/ InterruptStep("server")
    \/ (MemoryStep("server") \/ ServerEndsCopy \/ ServerEvaluates) /\ Quiet
---------------------------------------------------------------------------
ClientLaunch ==
    /\ Goes("client", "off", "hello")
    /\ Opens("client")
    /\ UNCHANGED <<region, buf, todo, guard, irq, rung>>
    /\ UNCHANGED Counters /\ UNCHANGED Options /\ UNCHANGED UioOptions

ClientGreets ==
    /\ intr["client"] = "read"
    /\ ClientLoop("hello", count["client"])
    /\ uio_notify("client", "s")
    /\ UNCHANGED <<region, buf, todo, message, skew>> /\ UNCHANGED Options

ClientWaits ==
    /\ uio_wait("client")
    /\ Goes("client", "wait", "copy")
    /\ Starts("client")
    /\ UNCHANGED <<region, buf>> /\ UNCHANGED Counters /\ UNCHANGED Options

ClientNotifies ==
    /\ Ready("client")
    /\ ClientLoop(pc["client"], left - 1)
    /\ uio_notify("client", "s")
    /\ UNCHANGED <<region, buf, todo, message, skew>> /\ UNCHANGED Options

ClientStep ==
    \/ ClientGreets \/ ClientWaits \/ ClientNotifies
    \/ InterruptStep("client")
    \/ (MemoryStep("client") \/ ClientEndsCopy) /\ Quiet
---------------------------------------------------------------------------
Fails == \E p \in Procs : /\ LaunchFails(p) \/ (MallocFails(p) /\ intr[p] = "read")
                          /\ Quiet

Next == \/ ServerLaunch \/ ClientLaunch \/ Fails \/ ServerStep \/ ClientStep
        \/ \E p \in Procs : Deliver(p)

(* A process that runs keeps running, and a ring arrives in the end.        *)
Spec == /\ Init /\ [][Next]_vars
        /\ WF_vars(ServerStep)
        /\ WF_vars(ClientStep)
        /\ \A p \in Procs : WF_vars(Deliver(p))
---------------------------------------------------------------------------
TypeOK == /\ XTypeOK
          /\ todo \in [Procs -> SUBSET (Cells \cup {GuardCell})]
          /\ guard \in Letters
          /\ irq \in [Procs -> BOOLEAN] /\ rung \in [Procs -> BOOLEAN]
          /\ intr \in [Procs -> IntrLabels]
          /\ leftover \in [Procs -> BOOLEAN] /\ isReset \in [Procs -> BOOLEAN]

(* No wakeup is lost: a process asleep in read() although the guard holds   *)
(* the letter it waits for has an interrupt pending or coming, or its peer  *)
(* has yet to ring.  A server that had not greeted when the client rang is  *)
(* the exception: for its greeting nobody rings.                            *)
Asleep(p) == pc[p] \in {"meet", "wait"} /\ intr[p] = "read"
NoLostWakeup ==
    \A p \in Procs :
        Met /\ (skew = 0 \/ p = "server") /\ Asleep(p) /\ guard = Expected(p)
            => irq[p] \/ rung[p] \/ intr[Peer(p)] = "bell"

(* What -R is for: when no interrupt is left from an earlier run, or it was *)
(* consumed by the reset, and the server was first, every interrupt finds   *)
(* the letter that was expected, and nobody ever rings itself.              *)
Clean == \A p \in Procs : isReset[p] \/ ~leftover[p]
EveryInterruptIsForMe ==
    skew = 0 /\ ServerGreeted /\ Clean => \A p \in Procs : intr[p] # "ring"

(* A client that greets before the server does, and has no stray interrupt  *)
(* to wake it, is never served: the server's greeting does not ring, and    *)
(* its own letter has been overwritten by that greeting.                    *)
ClientFirstStalls ==
    Met /\ skew = 1 /\ (isReset["client"] \/ ~leftover["client"])
        => Taken = 0 /\ message = 0 /\ pc["server"] = "meet"

(* Two processes that met in the proper order, the client with enough       *)
(* rounds for the server's, both come to the end of what they can do,       *)
(* whatever interrupts were pending when they started.                      *)
BothFinish ==
    /\ (Met /\ skew = 0 /\ 0 < count["server"] /\ count["server"] <= count["client"])
           ~> (pc["server"] = "done")
    /\ (Met /\ skew = 0 /\ count["client"] <= count["server"]) ~> (pc["client"] = "done")

(* Interrupts only delay what the guard allows: the programs implement      *)
(* ivshmem-shm, and so inherit what is shown of it.                         *)
S == INSTANCE ShmGuard
ShmGuardSpec == S!Init /\ [][S!Next]_(S!vars)
===========================================================================
