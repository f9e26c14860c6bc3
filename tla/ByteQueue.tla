------------------------------ MODULE ByteQueue ------------------------------
(***************************************************************************)
(* What a Buffer promises its user: the bytes that were written and not    *)
(* yet taken out, in the order they were written.  Buffer implements this  *)
(* with a vector that it grows, or whose bytes it moves to the front, and  *)
(* two indexes into it.                                                    *)
(***************************************************************************)
EXTENDS Integers, Sequences

CONSTANT Chunks     \* the sequences of bytes one call may write

VARIABLES
    queue,
    call    \* the last call: the bytes it wrote, or how many it took

vars == <<queue, call>>

Init ==
    /\ queue = <<>>
    /\ call = [op |-> "none"]

Write(data) ==
    /\ queue' = queue \o data
    /\ call' = [op |-> "write", data |-> data]

Take(n) ==
    /\ queue' = SubSeq(queue, n + 1, Len(queue))
    /\ call' = [op |-> "take", n |-> n]

Next ==
    \/ \E data \in Chunks : Write(data)
    \/ \E n \in 0 .. Len(queue) : Take(n)

Spec == Init /\ [][Next]_vars

=============================================================================
