---------------------------- MODULE ConnectionLife ----------------------------
(***************************************************************************)
(* What a TcpServer promises the application about each connection, by way *)
(* of its callbacks (net/TcpServer.h, net/Connection.h): the connection    *)
(* callback comes first, message callbacks after it, one at a time, and    *)
(* the second connection callback after all of these.  The server frees a  *)
(* connection only after the second callback, unless the application asked *)
(* to close it, and shuts the write half of its socket only if the         *)
(* application asked.                                                      *)
(***************************************************************************)
CONSTANT Conns

VARIABLES
    life,       \* how far each connection is
    callback,   \* the callback each connection is in
    asked,      \* those the application asked to close
    wrShut      \* whether the peer of each has been sent a FIN

vars == <<life, callback, asked, wrShut>>

Init ==
    /\ life = [c \in Conns |-> "new"]
    /\ callback = [c \in Conns |-> "none"]
    /\ asked = {}
    /\ wrShut = [c \in Conns |-> FALSE]

ConnectionUp(c) ==
    /\ life[c] = "new"
    /\ life' = [life EXCEPT ![c] = "up"]
    /\ callback' = [callback EXCEPT ![c] = "onConnection"]
    /\ UNCHANGED <<asked, wrShut>>

Message(c) ==
    /\ life[c] = "up"
    /\ callback[c] = "none"
    /\ callback' = [callback EXCEPT ![c] = "onMessage"]
    /\ UNCHANGED <<life, asked, wrShut>>

Return(c) ==
    /\ callback[c] # "none"
    /\ callback' = [callback EXCEPT ![c] = "none"]
    /\ UNCHANGED <<life, asked, wrShut>>

(* The FIN may follow at once. *)
AskToClose(c) ==
    /\ callback[c] # "none"
    /\ c \notin asked
    /\ asked' = asked \cup {c}
    /\ wrShut' \in {wrShut, [wrShut EXCEPT ![c] = TRUE]}
    /\ UNCHANGED <<life, callback>>

ShutWrite(c) ==
    /\ c \in asked
    /\ life[c] = "up"
    /\ wrShut' = [wrShut EXCEPT ![c] = TRUE]
    /\ UNCHANGED <<life, callback, asked>>

(* The second connection callback. *)
ConnectionDown(c) ==
    /\ life[c] = "up"
    /\ callback[c] = "none"
    /\ life' = [life EXCEPT ![c] = "down"]
    /\ UNCHANGED <<callback, asked, wrShut>>

(* A loop lets go of all the connections it kept for a while at once. *)
Free(gone) ==
    /\ \A c \in gone :
          /\ life[c] = "down" \/ (life[c] = "up" /\ c \in asked)
          /\ callback[c] = "none"
    /\ life' = [c \in Conns |-> IF c \in gone THEN "freed" ELSE life[c]]
    /\ UNCHANGED <<callback, asked, wrShut>>

Next ==
    \/ \E c \in Conns :
          \/ ConnectionUp(c)
          \/ Message(c)
          \/ Return(c)
          \/ AskToClose(c)
          \/ ShutWrite(c)
          \/ ConnectionDown(c)
    \/ \E gone \in SUBSET Conns : Free(gone)

Spec == Init /\ [][Next]_vars

===============================================================================
