----------------------------- MODULE TokenShm -----------------------------
(* What socket-tcp-shm and socket-udp-shm have in common: the block is in   *)
(* shared memory, and a token that says whose turn it is travels over a     *)
(* socket.  The memory is the device of -M or, without it, the System V     *)
(* segment that a key made of -i names.  The transport of the tokens is     *)
(* left to the modules that extend this one.                                *)
(*                                                                          *)
(* Whoever comes first creates the segment, and the server removes it when  *)
(* it has reported.  A process attaches what the key names at that moment,  *)
(* so that around the end of an earlier run the two may attach different    *)
(* segments.  Nothing clears the region.                                    *)
EXTENDS Exchange

(* shmget() and mmap() of no bytes fail.                                    *)
ASSUME SizeAssumption == Cells # {}

VARIABLES
    own,        \* the region of the client's segment, when it is not the server's
    key,        \* the segment that the key names, 0 for none
    made,       \* the newest segment of that key; the first is an earlier run's
    attached,   \* the segment each process has attached, 0 for none
    earlier,    \* an earlier run's server has its segment still to remove
    isBackend,  \* -M of the two processes
    tokens      \* the tokens on their way to each process

segments == <<own, key, made, attached, earlier, isBackend>>
tvars == <<xvars, segments, tokens>>

Peer(p) == IF p = "server" THEN "client" ELSE "server"
Ended(p) == pc[p] \in {"exited", "done", "aborted", "torn", "mismatch", "broken"}
Apart == attached["client"] # attached["server"]

TInit ==
    /\ XInit
    /\ own = region
    /\ key \in {0, 1}
    /\ made = 1
    /\ attached = [p \in Procs |-> 0]
    /\ earlier \in BOOLEAN /\ (earlier => key = 1)
    /\ isBackend \in BOOLEAN /\ (isBackend => key = 1 /\ ~earlier)
    /\ tokens = [p \in Procs |-> 0]
---------------------------------------------------------------------------
(* Mutation: the segment is always a new one (IPC_PRIVATE).                 *)
NamedPrivate == made + 1

(* shmget(): the segment of the key, made if there is none (IPC_CREAT).     *)
Named == IF key = 0 THEN made + 1 ELSE key

(* shmat(); a segment made for this run holds zeros.                        *)
Attach(p) ==
    LET contents(old) == IF Named = 1 THEN old ELSE Uniform(Zero)
    IN  /\ Goes(p, "off", IF p = "server" THEN "meet" ELSE "hello")
        /\ key' = Named
        /\ made' = IF Named > made THEN Named ELSE made
        /\ attached' = [attached EXCEPT ![p] = Named]
        /\ region' = IF p = "server" THEN contents(region) ELSE region
        /\ own' = IF p = "client" THEN contents(own) ELSE own
        /\ UNCHANGED <<buf, todo, earlier, isBackend, tokens>>
        /\ UNCHANGED Counters /\ UNCHANGED Options

(* IPC_RMID, by the server of the earlier run: the segment loses its key,   *)
(* and processes that have attached it keep it.                             *)
EarlierRemoves ==
    /\ earlier
    /\ earlier' = FALSE
    /\ key' = 0
    /\ UNCHANGED <<xvars, own, made, attached, isBackend, tokens>>

(* The same by this run's, when it has reported.  An aborted one does not.  *)
ServerRemoves ==
    /\ pc["server"] = "done" /\ ~isBackend
    /\ key = attached["server"]
    /\ key' = 0
    /\ UNCHANGED <<xvars, own, made, attached, earlier, isBackend, tokens>>
---------------------------------------------------------------------------
(* Mutation: the token is sent twice.                                       *)
SendsTwice(p) == tokens' = [tokens EXCEPT ![Peer(p)] = @ + 2]

Sends(p) == tokens' = [tokens EXCEPT ![Peer(p)] = @ + 1]
Takes(p) == /\ tokens[p] > 0
            /\ tokens' = [tokens EXCEPT ![p] = @ - 1]

(* The client works in the region of its own segment when they are apart.   *)
Own == INSTANCE Exchange WITH region <- own
ClientMemory ==
    \/ ~Apart /\ MemoryStep("client") /\ UNCHANGED own
    \/ Apart /\ Own!MemoryStep("client") /\ UNCHANGED region

ServerWorks ==
    /\ MemoryStep("server") \/ ServerEndsCopy \/ ServerEvaluates
    /\ UNCHANGED segments /\ UNCHANGED tokens

ClientWorks ==
    /\ ClientMemory \/ (ClientEndsCopy /\ UNCHANGED own)
    /\ UNCHANGED <<key, made, attached, earlier, isBackend, tokens>>

(* The loops begin,                                                         *)
ServerBegins ==
    /\ ServerLoop("meet", 0)
    /\ UNCHANGED <<region, buf, left, skew>> /\ UNCHANGED Options /\ UNCHANGED segments

ClientBegins ==
    /\ ClientLoop("hello", count["client"])
    /\ UNCHANGED <<region, buf, todo, message, skew>>
    /\ UNCHANGED Options /\ UNCHANGED segments

(* pass the token on when the region is filled,                             *)
ServerPasses ==
    /\ Ready("server")
    /\ pc' = [pc EXCEPT !["server"] = "wait"]
    /\ UNCHANGED <<region, buf, todo>> /\ UNCHANGED Counters
    /\ UNCHANGED Options /\ UNCHANGED segments

ClientPasses ==
    /\ Ready("client")
    /\ ClientLoop(pc["client"], left - 1)
    /\ UNCHANGED <<region, buf, todo, message, skew>>
    /\ UNCHANGED Options /\ UNCHANGED segments

(* and copy the region when a token has come.                               *)
Copies(p) ==
    /\ Goes(p, "wait", "copy")
    /\ Starts(p)
    /\ UNCHANGED <<region, buf>> /\ UNCHANGED Counters
    /\ UNCHANGED Options /\ UNCHANGED segments

(* A call that fails ends the process: opening or attaching the memory, or, *)
(* with the memory attached, setting up the socket or malloc().             *)
SetupFails(p) == Goes(p, IF p = "server" THEN "meet" ELSE "hello", "exited")
Fails(p) ==
    /\ Goes(p, "off", "exited") \/ SetupFails(p)
    /\ UNCHANGED <<region, buf, todo, tokens>> /\ UNCHANGED Counters
    /\ UNCHANGED Options /\ UNCHANGED segments

(* What a failed socket call does to a process at a wait.                   *)
Dies(p) ==
    /\ Goes(p, "wait", "broken")
    /\ UNCHANGED <<region, buf, todo, tokens>> /\ UNCHANGED Counters
    /\ UNCHANGED Options /\ UNCHANGED segments
---------------------------------------------------------------------------
TTypeOK ==
    /\ XTypeOK
    /\ todo \in [Procs -> SUBSET Cells]
    /\ own \in [Cells -> Words]
    /\ made \in Nat /\ key \in 0 .. made
    /\ attached \in [Procs -> 0 .. made]
    /\ earlier \in BOOLEAN /\ isBackend \in BOOLEAN
    /\ tokens \in [Procs -> Nat]

(* Who has taken a token and not passed it on.                              *)
Holds(p) ==
    pc[p] \in {"copy", "fill", "check", "torn", "mismatch"}
                \cup (IF p = "server" THEN {"evaluate", "done", "aborted"} ELSE {})
Held(p) == IF Holds(p) THEN 1 ELSE 0
Tokens == tokens["server"] + tokens["client"] + Held("server") + Held("client")

(* What the copies are: in one segment, the whole message or reply the      *)
(* round is due;                                                            *)
CopiesDue ==
    /\ pc["client"] \in {"fill", "check"} => buf["client"] = Uniform(STC(Replied + 1))
    /\ message > 0 /\ pc["server"] \in {"fill", "check", "wait", "evaluate", "done"}
         => buf["server"] = Uniform(CTS(message))

(* in two, nothing of what the other one wrote, although tokens pass: each  *)
(* copies what it has itself written, the client at first what was there.   *)
CopiesOwn ==
    /\ pc["client"] \in {"fill", "check"} =>
         IF Replied > 0 THEN buf["client"] = Uniform(CTS(Replied))
         ELSE \A c \in Cells : buf["client"][c].round = 0
    /\ message > 0 /\ pc["server"] \in {"fill", "check", "wait", "evaluate", "done"}
         => buf["server"] = Uniform(STC(message))

(* A segment of this run is the segment of both, until the server has       *)
(* reported; and only what a process does not share can it find wrong.      *)
SharedIfNew ==
    (\A p \in Procs : attached[p] > 1) /\ pc["server"] # "done" => ~Apart
Accepted == \A p \in Procs : pc[p] # "torn" /\ (pc[p] = "mismatch" => Apart)
===========================================================================
