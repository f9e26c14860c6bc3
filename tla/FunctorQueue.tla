---------------------------- MODULE FunctorQueue ----------------------------
(***************************************************************************)
(* What an EventLoop promises of the functors handed to it: a functor that *)
(* is posted runs once, on the loop's thread, after every functor posted   *)
(* before it; a functor handed over with runInLoop on the loop's own       *)
(* thread runs at once, ahead of whatever is queued.  EventLoop implements *)
(* this with two vectors, a flag, an unlocked test and an eventfd.         *)
(***************************************************************************)
EXTENDS Naturals, Sequences

CONSTANT Funcs

VARIABLES
    unposted,   \* functors nobody has handed over yet
    queue,      \* posted and not run, oldest first
    ran         \* functors in the order they ran

vars == <<unposted, queue, ran>>

Init ==
    /\ unposted = Funcs
    /\ queue = <<>>
    /\ ran = <<>>

Post(f) ==
    /\ f \in unposted
    /\ unposted' = unposted \ {f}
    /\ queue' = Append(queue, f)
    /\ UNCHANGED ran

Dispatch ==
    /\ queue # <<>>
    /\ ran' = Append(ran, Head(queue))
    /\ queue' = Tail(queue)
    /\ UNCHANGED unposted

RunHere(f) ==
    /\ f \in unposted
    /\ unposted' = unposted \ {f}
    /\ ran' = Append(ran, f)
    /\ UNCHANGED queue

Next ==
    \/ Dispatch
    \/ \E f \in Funcs : Post(f) \/ RunHere(f)

Spec == Init /\ [][Next]_vars

=============================================================================
