------------------------------- MODULE TcpShm ------------------------------
(* socket-tcp-shm: the token is one byte on a TCP connection.  The client   *)
(* is refused unless the server listens, and by then both have attached     *)
(* their memory.                                                            *)
(*                                                                          *)
(* One byte cannot be cut up, but -N makes the client's reads return EAGAIN *)
(* while the server is at work, and socket_tcp_read_data() then asks for    *)
(* two bytes, of which only one comes.  The server's socket is the one that *)
(* accept() returned and blocks.                                            *)
EXTENDS TokenShm

CONSTANT MaxRetries    \* bound: how often recv() may return EAGAIN in one read

ASSUME RetriesAssumption == MaxRetries \in Nat

VARIABLES
    listens,     \* the server's socket is bound and listens
    connected,   \* the client's connection
    accepted,    \* the server has accepted it
    asks,        \* left_size of the client's read
    isNonblock   \* -N of the client

vars == <<tvars, listens, connected, accepted, asks, isNonblock>>
Connection == <<listens, connected, accepted, asks, isNonblock>>

Init == /\ TInit
        /\ listens = FALSE
        /\ connected = FALSE
        /\ accepted = FALSE
        /\ asks = 1
        /\ isNonblock \in BOOLEAN
---------------------------------------------------------------------------
Launch(p) == Attach(p) /\ UNCHANGED Connection

ServerListens ==
    /\ pc["server"] = "meet" /\ ~listens
    /\ listens' = TRUE
    /\ UNCHANGED tvars /\ UNCHANGED <<connected, accepted, asks, isNonblock>>

ClientConnects ==
    /\ pc["client"] = "hello" /\ ~connected
    /\ pc["server"] = "meet" /\ listens
    /\ connected' = TRUE
    /\ UNCHANGED tvars /\ UNCHANGED <<listens, accepted, asks, isNonblock>>

ServerAccepts ==
    /\ pc["server"] = "meet" /\ connected /\ ~accepted
    /\ accepted' = TRUE
    /\ UNCHANGED tvars /\ UNCHANGED <<listens, connected, asks, isNonblock>>

(* Both have malloc() behind them.                                          *)
ServerStarts == /\ accepted
                /\ ServerBegins
                /\ UNCHANGED tokens /\ UNCHANGED Connection

ClientStarts == /\ connected
                /\ ClientBegins
                /\ UNCHANGED tokens /\ UNCHANGED Connection
---------------------------------------------------------------------------
(* The messages and replies.                                                *)
ServerNotifies == ServerPasses /\ Sends("server") /\ UNCHANGED Connection

(* Mutation: the last reply is not sent.                                    *)
ClientNotifiesButLast ==
    /\ ClientPasses
    /\ IF left > 1 THEN Sends("client") ELSE UNCHANGED tokens
    /\ UNCHANGED Connection

ClientNotifies == ClientPasses /\ Sends("client") /\ UNCHANGED Connection

(* The read of the one byte is complete.                                    *)
ServerWaits == Copies("server") /\ Takes("server") /\ UNCHANGED Connection
ClientWaits == /\ asks = 1
               /\ Copies("client") /\ Takes("client")
               /\ UNCHANGED Connection

(* EAGAIN: the call returned -1, and -1 is subtracted from what is left;    *)
Again ==
    /\ pc["client"] = "wait" /\ isNonblock
    /\ tokens["client"] = 0 /\ ~Ended("server")
    /\ asks < 1 + MaxRetries
    /\ asks' = asks + 1
    /\ UNCHANGED tvars /\ UNCHANGED <<listens, connected, accepted, isNonblock>>

(* then the byte that comes is not the last one.                            *)
Swallows ==
    /\ pc["client"] = "wait" /\ asks > 1
    /\ Takes("client")
    /\ asks' = asks - 1
    /\ UNCHANGED xvars /\ UNCHANGED segments /\ UNCHANGED <<listens, connected, accepted, isNonblock>>

(* It lands on the stack, before dummy_message: recv() fails where the      *)
(* stack ends, and elsewhere the byte may end the process too.              *)
Strays ==
    /\ asks > 1 /\ tokens["client"] > 0
    /\ Dies("client")
    /\ UNCHANGED Connection

(* A connection whose other end was closed with a byte unread, or before it *)
(* was accepted, is reset.  At the end of any other stream recv() returns   *)
(* 0, which gets the loop nowhere.                                          *)
Reset(p) ==
    /\ Ended(Peer(p))
    /\ tokens[Peer(p)] > 0 \/ (p = "client" /\ ~accepted)
    /\ Dies(p)
    /\ UNCHANGED Connection
---------------------------------------------------------------------------
ServerStep ==
    \/ ServerListens \/ ServerAccepts \/ ServerStarts \/ ServerNotifies \/ ServerWaits
    \/ Reset("server")
    \/ (ServerWorks \/ ServerRemoves) /\ UNCHANGED Connection

ClientStep ==
    \/ ClientConnects \/ ClientStarts \/ ClientNotifies \/ ClientWaits
    \/ Again \/ Swallows \/ Strays \/ Reset("client")
    \/ ClientWorks /\ UNCHANGED Connection

Next == \/ ServerStep \/ ClientStep
        \/ \E p \in Procs : Launch(p) \/ (Fails(p) /\ UNCHANGED Connection)
        \/ EarlierRemoves /\ UNCHANGED Connection

(* The processes run, and the kernel delivers; users need not start them.   *)
Spec == /\ Init /\ [][Next]_vars
        /\ WF_vars(ServerStep)
        /\ WF_vars(ClientStep)
---------------------------------------------------------------------------
TypeOK == /\ TTypeOK
          /\ listens \in BOOLEAN /\ connected \in BOOLEAN /\ accepted \in BOOLEAN
          /\ asks \in 1 .. 1 + MaxRetries
          /\ isNonblock \in BOOLEAN

(* The byte on the connection is all that keeps the processes apart: once   *)
(* the server has accepted there is one token, in the hands of one process  *)
(* or on its way to one.  Only a read that had met EAGAIN loses it.         *)
Begun == pc["server"] \notin {"off", "exited", "meet"}
OneToken == /\ Tokens <= 1
            /\ Begun /\ ~isNonblock => Tokens = 1

(* In one segment every copy is the whole block its round is due, and what  *)
(* -D validates is right.  If the two attached different ones, around the   *)
(* removal of an earlier run's, the tokens pass all the same, every copy is *)
(* of the process's own bytes, and -D finds out at the server's first copy, *)
(* or the client's second.                                                  *)
Agreement ==
    /\ IF Apart THEN CopiesOwn ELSE CopiesDue
    /\ SharedIfNew /\ Accepted
    /\ Apart /\ isDebug["server"] => message = 0
    /\ Apart /\ isDebug["client"] => Replied <= 1

(* Two processes that met and share their memory finish, the client with    *)
(* enough rounds for the server's, and a client with no more rounds than    *)
(* the server's, and so do two that share none, without -D.  A server that  *)
(* finishes leaves no segment behind.                                       *)
Finishing == Begun /\ ClientGreeted /\ ~isNonblock
             /\ (~Apart \/ \A p \in Procs : ~isDebug[p])
BothFinish ==
    /\ (Finishing /\ 0 < count["server"] /\ count["server"] <= count["client"])
           ~> (pc["server"] = "done" /\ (isBackend \/ key # attached["server"]))
    /\ (Finishing /\ count["client"] <= count["server"]) ~> (pc["client"] = "done")

(* One byte each way implements the alternation, in whatever memory.        *)
P == INSTANCE PingPong WITH
        skew <- IF Begun THEN 0 ELSE -1,
        sent <- Sent, taken <- Taken, replied <- Replied, got <- message
PingPongSpec == P!Spec
===========================================================================
