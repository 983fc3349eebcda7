----------------------------- MODULE ShmGuard -----------------------------
(* ivshmem-shm: the region and a guard word in front of it are the whole of *)
(* the transport.  Each process spins on the guard until it holds the       *)
(* letter the other one stores: 'c' lets the client go, 's' the server.     *)
(*                                                                          *)
(* Nothing orders the two programs' starts.  The server clears guard and    *)
(* region when it starts; what is in them before that is whatever an        *)
(* earlier run left.  Memory is sequentially consistent here: the programs  *)
(* build for x86 only, which keeps each process's stores in order.          *)
EXTENDS Exchange

CONSTANT GuardCell    \* the guard word, as a thing main()'s memset() clears

ASSUME GuardCellAssumption == GuardCell \notin Cells

VARIABLE guard        \* the guard word

vars == <<xvars, guard>>

Letters == {"0", "c", "s"}

Init == XInit /\ guard \in Letters

userspace_shm_notify(update) == guard' = update
(* Mutation: the wait ends on any letter.                                   *)
WaitForAny(expect) == guard # "0" /\ UNCHANGED guard

(* A wait that found the letter it spins for.                               *)
userspace_shm_wait(expect) == guard = expect /\ UNCHANGED guard
---------------------------------------------------------------------------
(* Mutation: the region is not cleared when the server starts.              *)
ServerLaunchUncleared ==
    /\ Goes("server", "off", "clear")
    /\ UNCHANGED <<region, buf, todo, guard>> /\ UNCHANGED Counters /\ UNCHANGED Options

(* The server's main(): the region is mapped and its clearing begins.       *)
ServerLaunch ==
    /\ Goes("server", "off", "clear")
    /\ todo' = [todo EXCEPT !["server"] = Cells \cup {GuardCell}]
    /\ UNCHANGED <<region, buf, guard>> /\ UNCHANGED Counters /\ UNCHANGED Options

ServerClears ==
    /\ pc["server"] = "clear"
    /\ \E c \in todo["server"] :
         /\ Touches("server", c)
         /\ IF c = GuardCell
            THEN guard' = "0" /\ UNCHANGED region
            ELSE region' = [region EXCEPT ![c] = Zero] /\ UNCHANGED guard
    /\ UNCHANGED <<pc, buf>> /\ UNCHANGED Counters /\ UNCHANGED Options

(* Its greeting.  A greeting of the client that is already there is lost.   *)
ServerGreets ==
    /\ todo["server"] = {}
    /\ Goes("server", "clear", "meet")
    /\ userspace_shm_notify("c")
    /\ skew' = IF ClientGreeted THEN 1 ELSE 0
    /\ UNCHANGED <<region, buf, todo, message, left>> /\ UNCHANGED Options

ServerMeets ==
    /\ userspace_shm_wait("s")
    /\ ServerLoop("meet", 0)
    /\ UNCHANGED <<region, buf, left, skew>> /\ UNCHANGED Options

ServerNotifies ==
    /\ Ready("server")
    /\ pc' = [pc EXCEPT !["server"] = "wait"]
    /\ userspace_shm_notify("c")
    /\ UNCHANGED <<region, buf, todo>> /\ UNCHANGED Counters /\ UNCHANGED Options

ServerWaits ==
    /\ userspace_shm_wait("s")
    /\ Goes("server", "wait", "copy")
    /\ Starts("server")
    /\ UNCHANGED <<region, buf>> /\ UNCHANGED Counters /\ UNCHANGED Options

(* The server's communicate().                                              *)
ServerStep ==
    \/ ServerClears \/ ServerGreets \/ ServerMeets \/ ServerNotifies \/ ServerWaits
    \/ (MemoryStep("server") \/ ServerEndsCopy \/ ServerEvaluates) /\ UNCHANGED guard
---------------------------------------------------------------------------
(* The client's main(): it maps the region and leaves it as it is.          *)
ClientLaunch ==
    /\ Goes("client", "off", "hello")
    /\ UNCHANGED <<region, buf, todo, guard>> /\ UNCHANGED Counters /\ UNCHANGED Options

ClientGreets ==
    /\ ClientLoop("hello", count["client"])
    /\ userspace_shm_notify("s")
    /\ UNCHANGED <<region, buf, todo, message, skew>> /\ UNCHANGED Options

ClientWaits ==
    /\ userspace_shm_wait("c")
    /\ Goes("client", "wait", "copy")
    /\ Starts("client")
    /\ UNCHANGED <<region, buf>> /\ UNCHANGED Counters /\ UNCHANGED Options
(* Mutation: the client leaves its loop before it stores the last letter.   *)
ClientNotifiesButLast ==
    /\ Ready("client")
    /\ ClientLoop(pc["client"], left - 1)
    /\ IF left > 1 THEN userspace_shm_notify("s") ELSE UNCHANGED guard
    /\ UNCHANGED <<region, buf, todo, message, skew>> /\ UNCHANGED Options

ClientNotifies ==
    /\ Ready("client")
    /\ ClientLoop(pc["client"], left - 1)
    /\ userspace_shm_notify("s")
    /\ UNCHANGED <<region, buf, todo, message, skew>> /\ UNCHANGED Options

(* The client's communicate().                                              *)
ClientStep ==
    \/ ClientGreets \/ ClientWaits \/ ClientNotifies
    \/ (MemoryStep("client") \/ ClientEndsCopy) /\ UNCHANGED guard
---------------------------------------------------------------------------
Fails == \E p \in Procs : (LaunchFails(p) \/ MallocFails(p)) /\ UNCHANGED guard

Next == ServerLaunch \/ ClientLaunch \/ Fails \/ ServerStep \/ ClientStep

(* Neither process has to be started, but one that runs keeps running.      *)
Spec == /\ Init /\ [][Next]_vars
        /\ WF_vars(ServerStep)
        /\ WF_vars(ClientStep)
---------------------------------------------------------------------------
TypeOK == /\ XTypeOK
          /\ todo \in [Procs -> SUBSET (Cells \cup {GuardCell})]
          /\ guard \in Letters

(* The region is never in the hands of both processes: no cell is read or   *)
(* written by one between the other's first and last touch of it, in        *)
(* whatever order the two were started and whatever the guard held before.  *)
(* The exchange has no lock: only the two letters keep them apart.          *)
InRegion(p) == pc[p] \in {"clear", "fill", "check", "copy"}
NoDataRace == ~(InRegion("server") /\ InRegion("client"))

(* Every copy the client takes is one whole message, the one its round is   *)
(* due (the greeting's zeros if it greeted first), and every copy the       *)
(* server takes is the whole reply of the round it has just counted.        *)
Due(k) == IF k = 0 THEN Zero ELSE STC(k)
Agreement ==
    /\ pc["client"] \in {"fill", "check"}
         => buf["client"] = Uniform(Due(Replied + 1 - skew))
    /\ message > 0 /\ pc["server"] \in {"fill", "check", "wait", "evaluate", "done"}
         => buf["server"] = Uniform(CTS(message + skew))

(* debug_validate() of the region a process has just filled never fails:    *)
(* nobody else writes between the memset() and the validation.  Of what     *)
(* arrives the server accepts every reply, and the client rejects nothing   *)
(* but the greeting it took for its first message.                          *)
Rejections ==
    /\ \A p \in Procs : pc[p] # "torn"
    /\ pc["server"] # "mismatch"
    /\ pc["client"] = "mismatch" => skew = 1 /\ Replied = 0

(* What -D is there for, as the validations themselves say it: whatever     *)
(* arrives is the other side's byte.  It fails when the client is first.    *)
Validated == \A p \in Procs : pc[p] # "mismatch"

(* Two processes that met, the client with enough rounds for the server's   *)
(* (one more if it greeted first, and then without -D, which would make it  *)
(* reject the greeting), both come to the end of what they can do: the      *)
(* server finishes and reports, and a client with no more rounds than the   *)
(* server's finishes too.  No token is lost on the way.                     *)
ClientAccepts == skew = 0 \/ ~isDebug["client"]
BothFinish ==
    /\ (Met /\ 0 < count["server"] /\ count["server"] + skew <= count["client"] /\ ClientAccepts)
           ~> (pc["server"] = "done")
    /\ (Met /\ count["client"] <= count["server"] + skew /\ ClientAccepts)
           ~> (pc["client"] = "done")

(* The two loops implement the alternation of PingPong, whichever started   *)
(* first.                                                                   *)
P == INSTANCE PingPong WITH
        skew <- IF Met THEN skew ELSE -1,
        sent <- Sent, taken <- Taken, replied <- Replied, got <- message
PingPongSpec == P!Spec
===========================================================================
