------------------------------- MODULE UdpShm ------------------------------
(* socket-udp-shm: the token is an empty datagram.  The client's greeting,  *)
(* one byte, tells the server where to send; after it every datagram counts *)
(* as the token, whatever it holds, since the reads ask for no bytes.  The  *)
(* network may lose, duplicate and delay datagrams, and nothing is ever     *)
(* sent again.                                                              *)
(*                                                                          *)
(* With -N a read of no bytes that meets EAGAIN goes on to ask for one byte *)
(* at the address before NULL, and recvfrom() fails for good.               *)
EXTENDS TokenShm

CONSTANTS
    MaxRetries,     \* bound: how often recvfrom() may return EAGAIN in the handshake
    MaxLost,        \* bound: datagrams the network loses
    MaxDuplicated   \* bound: datagrams it duplicates

ASSUME BoundsAssumption == {MaxRetries, MaxLost, MaxDuplicated} \subseteq Nat

VARIABLES
    bound,       \* the server's socket is bound to its port
    greetings,   \* the greetings on their way to it
    asks,        \* left_size of the server's read of the greeting
    isNonblock,  \* -N of each process
    lost,        \* history: datagrams lost
    duplicated   \* history: datagrams duplicated

vars == <<tvars, bound, greetings, asks, isNonblock, lost, duplicated>>
History == <<lost, duplicated>>
Socket == <<bound, greetings, asks, isNonblock, lost, duplicated>>

Init == /\ TInit
        /\ bound = FALSE
        /\ greetings = 0
        /\ asks = 1
        /\ isNonblock \in [Procs -> BOOLEAN]
        /\ lost = 0
        /\ duplicated = 0
---------------------------------------------------------------------------
Launch(p) == Attach(p) /\ UNCHANGED Socket

ServerBinds ==
    /\ pc["server"] = "meet" /\ ~bound
    /\ bound' = TRUE
    /\ UNCHANGED tvars /\ UNCHANGED <<greetings, asks, isNonblock>> /\ UNCHANGED History

(* What is sent to a port that nobody has bound is gone.                    *)
Hears(p) == ~Ended(p) /\ (p = "server" => bound)

(* Mutation: the client greets twice, to be safe.                           *)
ClientGreetsTwice ==
    /\ ClientBegins
    /\ greetings' = IF Hears("server") THEN greetings + 2 ELSE greetings
    /\ UNCHANGED <<tokens, bound, asks, isNonblock>> /\ UNCHANGED History

ClientGreets ==
    /\ ClientBegins
    /\ greetings' = IF Hears("server") THEN greetings + 1 ELSE greetings
    /\ UNCHANGED <<tokens, bound, asks, isNonblock>> /\ UNCHANGED History

ServerHears ==
    /\ bound /\ greetings > 0 /\ asks = 1
    /\ greetings' = greetings - 1
    /\ ServerBegins
    /\ UNCHANGED <<tokens, bound, asks, isNonblock>> /\ UNCHANGED History

(* EAGAIN: the call returned -1, and -1 is subtracted from what is left;    *)
(* then the byte that comes is not the last one, and lands on the stack     *)
(* before handshake_msg; what that may do to the process is up to Fails().  *)
Again ==
    /\ bound /\ pc["server"] = "meet" /\ isNonblock["server"]
    /\ greetings = 0 /\ asks < 1 + MaxRetries
    /\ asks' = asks + 1
    /\ UNCHANGED tvars /\ UNCHANGED <<bound, greetings, isNonblock>> /\ UNCHANGED History

Swallows ==
    /\ bound /\ pc["server"] = "meet"
    /\ greetings > 0 /\ asks > 1
    /\ greetings' = greetings - 1
    /\ asks' = asks - 1
    /\ UNCHANGED tvars /\ UNCHANGED <<bound, isNonblock>> /\ UNCHANGED History
---------------------------------------------------------------------------
(* Mutation: the client leaves its loop before it sends the last token.     *)
NotifiesButLast(p) ==
    /\ IF p = "server" THEN ServerPasses ELSE ClientPasses
    /\ IF Hears(Peer(p)) /\ (p = "server" \/ left > 1) THEN Sends(p) ELSE UNCHANGED tokens
    /\ UNCHANGED Socket

Notifies(p) == /\ IF p = "server" THEN ServerPasses ELSE ClientPasses
               /\ IF Hears(Peer(p)) THEN Sends(p) ELSE UNCHANGED tokens
               /\ UNCHANGED Socket

(* Mutation: the server looks at the region without waiting for a datagram. *)
WaitsNot(p) ==
    /\ Copies(p)
    /\ UNCHANGED tokens /\ UNCHANGED Socket

(* A read of no bytes takes the next datagram, at the server also one more  *)
(* greeting.                                                                *)
Waits(p) ==
    /\ Copies(p)
    /\ \/ Takes(p) /\ UNCHANGED greetings
       \/ /\ p = "server" /\ greetings > 0
          /\ greetings' = greetings - 1
          /\ UNCHANGED tokens
    /\ UNCHANGED <<bound, asks, isNonblock>> /\ UNCHANGED History

(* EFAULT, which is neither EAGAIN nor EINTR.                               *)
Faults(p) ==
    /\ isNonblock[p]
    /\ tokens[p] = 0 /\ (p = "server" => greetings = 0)
    /\ Dies(p)
    /\ UNCHANGED Socket
---------------------------------------------------------------------------
(* The network.                                                             *)
Lose ==
    /\ lost < MaxLost
    /\ \/ \E p \in Procs : Takes(p) /\ UNCHANGED greetings
       \/ greetings > 0 /\ greetings' = greetings - 1 /\ UNCHANGED tokens
    /\ lost' = lost + 1
    /\ UNCHANGED xvars /\ UNCHANGED segments /\ UNCHANGED <<bound, asks, isNonblock, duplicated>>

Duplicate ==
    /\ duplicated < MaxDuplicated
    /\ \/ \E p \in Procs : tokens[p] > 0 /\ Sends(Peer(p)) /\ UNCHANGED greetings
       \/ greetings > 0 /\ greetings' = greetings + 1 /\ UNCHANGED tokens
    /\ duplicated' = duplicated + 1
    /\ UNCHANGED xvars /\ UNCHANGED segments /\ UNCHANGED <<bound, asks, isNonblock, lost>>
---------------------------------------------------------------------------
ServerStep ==
    \/ ServerBinds \/ ServerHears \/ Again \/ Swallows
    \/ Notifies("server") \/ Waits("server") \/ Faults("server")
    \/ (ServerWorks \/ ServerRemoves) /\ UNCHANGED Socket

ClientStep ==
    \/ ClientGreets
    \/ Notifies("client") \/ Waits("client") \/ Faults("client")
    \/ ClientWorks /\ UNCHANGED Socket

Next == \/ ServerStep \/ ClientStep \/ Lose \/ Duplicate
        \/ \E p \in Procs : Launch(p) \/ (Fails(p) /\ UNCHANGED Socket)
        \/ EarlierRemoves /\ UNCHANGED Socket

(* The processes run; users need not start them.                            *)
Spec == /\ Init /\ [][Next]_vars
        /\ WF_vars(ServerStep)
        /\ WF_vars(ClientStep)
---------------------------------------------------------------------------
TypeOK == /\ TTypeOK
          /\ bound \in BOOLEAN /\ isNonblock \in [Procs -> BOOLEAN]
          /\ asks \in 1 .. 1 + MaxRetries
          /\ greetings \in Nat
          /\ lost \in 0 .. MaxLost /\ duplicated \in 0 .. MaxDuplicated

(* Only the network makes tokens: the processes that may be in the region   *)
(* and the datagrams that let one in are one more than the duplicates, at   *)
(* most, and every loss counts.  Without a duplicate no two processes are   *)
(* in the region, whatever is lost and whoever has died.                    *)
OneToken == Tokens + greetings + lost <= 1 + duplicated

(* Until a datagram is duplicated, every copy is the whole block its round  *)
(* is due, or, of processes that attached different segments, their own,    *)
(* and -D rejects nothing that is shared.                                   *)
Agreement ==
    /\ SharedIfNew
    /\ duplicated = 0 => Accepted /\ (IF Apart THEN CopiesOwn ELSE CopiesDue)

(* Once the greeting is heard, a process with enough rounds on the other    *)
(* side finishes, unless the network interferes or somebody's -N does.      *)
Begun == pc["server"] \notin {"off", "exited", "meet"}
Undisturbed == lost = 0 /\ duplicated = 0
Finishing == Begun /\ (\A p \in Procs : ~isNonblock[p])
             /\ (~Apart \/ \A p \in Procs : ~isDebug[p])
BothFinish ==
    /\ (Finishing /\ 0 < count["server"] /\ count["server"] <= count["client"])
           ~> (~Undisturbed \/
               (pc["server"] = "done" /\ (isBackend \/ key # attached["server"])))
    /\ (Finishing /\ count["client"] <= count["server"])
           ~> (~Undisturbed \/ pc["client"] = "done")
===========================================================================
