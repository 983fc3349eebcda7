----------------------------- MODULE Exchange -----------------------------
(* The part of the programs that all the shared-memory variants have in     *)
(* common: the two communicate() loops over a region of memory, without the *)
(* means by which one process tells the other that it is its turn.  Each of *)
(* those means is a module of its own that extends this one.                *)
(*                                                                          *)
(* memset(), memcpy() and debug_validate() touch the region one cell at a   *)
(* time, in any order, so that a process that enters the region before the  *)
(* other has left it is seen doing so.                                      *)
EXTENDS Integers

CONSTANTS
    Cells,    \* the cells of the region, args->size of them
    Counts    \* the values -c may be given

ASSUME CountsAssumption == Counts \subseteq Int

VARIABLES
    pc,       \* what each process is doing
    region,   \* the shared memory, without its guard word
    buf,      \* the private buffer each process copies the region to
    todo,     \* the cells the current memset/memcpy/debug_validate has left
    message,  \* the server's loop variable
    left,     \* the client's args->count, which its loop counts down
    skew,     \* history: 1 when the client had greeted before the server did
    count,    \* -c of each process
    isDebug   \* -D of each process

xvars == <<pc, region, buf, todo, message, left, skew, count, isDebug>>

Procs == {"server", "client"}

(* A cell holds a byte and, as history, the number of the round that wrote  *)
(* it: 0 is for what was there before, which no run of these two wrote.     *)
Bytes == {"0x00", "0xAA", "0x55"}
Words == [byte : Bytes, round : Nat]
Zero == [byte |-> "0x00", round |-> 0]
STC(k) == [byte |-> "0xAA", round |-> k]
CTS(k) == [byte |-> "0x55", round |-> k]
Leftovers == {Zero, STC(0), CTS(0)}

Uniform(w) == [c \in Cells |-> w]

ServerLabels == {"off", "exited", "clear", "meet", "fill", "check", "wait", "copy",
                 "evaluate", "done", "aborted", "torn", "mismatch", "broken"}
ClientLabels == {"off", "exited", "hello", "wait", "copy", "fill", "check",
                 "done", "torn", "mismatch", "broken"}

(* Where a process has already made its greeting.                           *)
ServerGreeted == pc["server"] \notin {"off", "exited", "clear"}
ClientGreeted == pc["client"] \notin {"off", "exited", "hello"}
Met == ServerGreeted /\ ClientGreeted

(* The rounds the client has answered, and the tokens it has taken.         *)
Replied == count["client"] - left
Taken == Replied + (IF pc["client"] \in {"copy", "fill", "check", "torn", "mismatch"}
                    THEN 1 ELSE 0)
(* The messages the server has sent.                                        *)
Sent == message + (IF pc["server"] \in {"wait", "copy", "mismatch", "broken"} THEN 1 ELSE 0)

Outgoing(p) == IF p = "server" THEN STC(message + 1) ELSE CTS(Replied + 1)
Incoming(p) == IF p = "server" THEN "0x55" ELSE "0xAA"

XInit ==
    /\ pc = [p \in Procs |-> "off"]
    /\ region \in [Cells -> Leftovers]
    /\ buf = [p \in Procs |-> Uniform(Zero)]
    /\ todo = [p \in Procs |-> {}]
    /\ count \in [Procs -> Counts]
    /\ isDebug \in [Procs -> BOOLEAN]
    /\ message = 0
    /\ left = count["client"]
    /\ skew = 0

(* The transport's own state apart, what a step that moves only program     *)
(* counters and cells leaves alone.                                         *)
Counters == <<message, left, skew>>
Options == <<count, isDebug>>

(* One process goes from one label to another.                              *)
Goes(p, from, to) == /\ pc[p] = from
                     /\ pc' = [pc EXCEPT ![p] = to]

(* It starts to touch every cell of the region at its next label.           *)
Starts(p) == todo' = [todo EXCEPT ![p] = Cells]
Touches(p, c) == todo' = [todo EXCEPT ![p] = @ \ {c}]

(* memset() of the region with the byte of this direction.                  *)
FillCell(p) ==
    /\ pc[p] = "fill"
    /\ \E c \in todo[p] : /\ region' = [region EXCEPT ![c] = Outgoing(p)]
                          /\ Touches(p, c)
    /\ UNCHANGED <<pc, buf>> /\ UNCHANGED Counters /\ UNCHANGED Options
(* Mutation: the validation starts before the memset() is complete.         *)
StartCheckEarly(p) ==
    /\ isDebug[p]
    /\ Goes(p, "fill", "check")
    /\ Starts(p)
    /\ UNCHANGED <<region, buf>> /\ UNCHANGED Counters /\ UNCHANGED Options

(* With -D the process then validates the region itself.                    *)
StartCheck(p) ==
    /\ isDebug[p] /\ todo[p] = {}
    /\ Goes(p, "fill", "check")
    /\ Starts(p)
    /\ UNCHANGED <<region, buf>> /\ UNCHANGED Counters /\ UNCHANGED Options

(* debug_validate() of the region: the first byte that is not the expected  *)
(* one ends the process.                                                    *)
CheckCell(p) ==
    /\ pc[p] = "check"
    /\ \E c \in todo[p] :
         /\ Touches(p, c)
         /\ IF region[c].byte = Outgoing(p).byte
            THEN UNCHANGED pc
            ELSE pc' = [pc EXCEPT ![p] = "torn"]
    /\ UNCHANGED <<region, buf>> /\ UNCHANGED Counters /\ UNCHANGED Options

(* The region is filled and, with -D, found right: the token may be passed. *)
Ready(p) == /\ todo[p] = {}
            /\ pc[p] = (IF isDebug[p] THEN "check" ELSE "fill")

(* memcpy() of the region into the private buffer.                          *)
CopyCell(p) ==
    /\ pc[p] = "copy"
    /\ \E c \in todo[p] : /\ buf' = [buf EXCEPT ![p] = [@ EXCEPT ![c] = region[c]]]
                          /\ Touches(p, c)
    /\ UNCHANGED <<pc, region>> /\ UNCHANGED Counters /\ UNCHANGED Options

(* What a process does with memory alone, between two tokens.               *)
MemoryStep(p) == FillCell(p) \/ StartCheck(p) \/ CheckCell(p) \/ CopyCell(p)

(* debug_validate() of the private buffer, when the copy is complete.       *)
Rejects(p) == isDebug[p] /\ \E c \in Cells : buf[p][c].byte # Incoming(p)

(* The head of the server's for loop with its variable at m.                *)
ServerLoop(from, m) ==
    /\ message' = m
    /\ IF m < count["server"]
       THEN Goes("server", from, "fill") /\ Starts("server")
       ELSE Goes("server", from, "evaluate") /\ UNCHANGED todo

(* The reply is copied: the round ends with a sample for the benchmark.     *)
ServerEndsCopy ==
    /\ todo["server"] = {}
    /\ IF Rejects("server")
       THEN Goes("server", "copy", "mismatch") /\ UNCHANGED <<todo, message>>
       ELSE ServerLoop("copy", message + 1)
    /\ UNCHANGED <<region, buf, left, skew>> /\ UNCHANGED Options

(* evaluate() asserts that there was a message at all.                      *)
ServerEvaluates ==
    /\ Goes("server", "evaluate", IF count["server"] > 0 THEN "done" ELSE "aborted")
    /\ UNCHANGED <<region, buf, todo>> /\ UNCHANGED Counters /\ UNCHANGED Options

(* The head of the client's for loop with args->count at n.                 *)
ClientLoop(from, n) ==
    /\ left' = n
    /\ Goes("client", from, IF n > 0 THEN "wait" ELSE "done")

(* The message is copied: the client fills the region with its reply.       *)
ClientEndsCopy ==
    /\ todo["client"] = {}
    /\ IF Rejects("client")
       THEN Goes("client", "copy", "mismatch") /\ UNCHANGED todo
       ELSE Goes("client", "copy", "fill") /\ Starts("client")
    /\ UNCHANGED <<region, buf>> /\ UNCHANGED Counters /\ UNCHANGED Options

(* A process whose device cannot be opened or mapped exits before it has    *)
(* touched the region; so does one that then gets no buffer from malloc().  *)
LaunchFails(p) ==
    /\ Goes(p, "off", "exited")
    /\ UNCHANGED <<region, buf, todo>> /\ UNCHANGED Counters /\ UNCHANGED Options

MallocFails(p) ==
    /\ todo[p] = {}
    /\ Goes(p, IF p = "server" THEN "clear" ELSE "hello", "exited")
    /\ UNCHANGED <<region, buf, todo>> /\ UNCHANGED Counters /\ UNCHANGED Options
---------------------------------------------------------------------------
(* The types of all but todo, which the transports extend.                  *)
XTypeOK ==
    /\ pc \in [Procs -> ServerLabels \cup ClientLabels]
    /\ pc["server"] \in ServerLabels /\ pc["client"] \in ClientLabels
    /\ region \in [Cells -> Words]
    /\ buf \in [Procs -> [Cells -> Words]]
    /\ message \in Nat
    /\ left \in Int /\ left <= count["client"]
    /\ skew \in {0, 1}
    /\ count \in [Procs -> Counts]
    /\ isDebug \in [Procs -> BOOLEAN]
===========================================================================
