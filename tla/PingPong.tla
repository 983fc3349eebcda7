----------------------------- MODULE PingPong -----------------------------
(* What every variant of the benchmark promises, whatever carries the bytes *)
(* and the tokens: once the two processes have met, they alternate.  The    *)
(* server sends a message, the client takes it and replies, the server gets *)
(* the reply, and only then sends the next message.                         *)
(*                                                                          *)
(* A guard word holds one token, so a client that came first may find the   *)
(* server's greeting where it expects a message.  It then takes that        *)
(* greeting as its first message, and from then on it runs one ahead: skew  *)
(* is 1.  In the ordinary start skew is 0, and before the meeting it is -1. *)
EXTENDS Integers

VARIABLES
    skew,     \* how many tokens the client took before the first message
    sent,     \* messages the server has sent
    taken,    \* tokens the client has taken for a message
    replied,  \* replies the client has sent
    got       \* replies the server has received in full

vars == <<skew, sent, taken, replied, got>>

Init == skew = -1 /\ sent = 0 /\ taken = 0 /\ replied = 0 /\ got = 0

Met == skew # -1

(* The two greetings have been made; which came first decides the skew.     *)
Meet == /\ ~Met
        /\ skew' \in {0, 1}
        /\ UNCHANGED <<sent, taken, replied, got>>

Send == /\ Met
        /\ got = sent
        /\ replied >= sent + skew
        /\ sent' = sent + 1
        /\ UNCHANGED <<skew, taken, replied, got>>

Take == /\ Met
        /\ taken = replied
        /\ taken < sent + skew
        /\ taken' = taken + 1
        /\ UNCHANGED <<skew, sent, replied, got>>

Reply == /\ Met
         /\ replied < taken
         /\ replied' = replied + 1
         /\ UNCHANGED <<skew, sent, taken, got>>

Get == /\ Met
       /\ got < sent
       /\ replied >= sent + skew
       /\ got' = got + 1
       /\ UNCHANGED <<skew, sent, taken, replied>>

Next == Meet \/ Send \/ Take \/ Reply \/ Get

Spec == Init /\ [][Next]_vars

TypeOK == /\ skew \in {-1, 0, 1}
          /\ sent \in Nat /\ taken \in Nat /\ replied \in Nat /\ got \in Nat

(* The alternation.  Once the processes have met, the client is at most one  *)
(* token behind the server, the server has at most one message whose reply  *)
(* it lacks, and it never starts a round while a reply is outstanding.      *)
Alternation ==
    Met => /\ replied <= taken /\ taken <= sent + skew /\ sent + skew <= replied + 1
           /\ got <= sent /\ sent <= got + 1
           /\ got = sent /\ (sent > 0 \/ skew = 0) => replied = sent + skew

===========================================================================
