----------------------------- MODULE TaskQueue ------------------------------
(***************************************************************************)
(* What a pool of workers promises of the tasks handed to it: they are     *)
(* TAKEN in the order they were posted, each by one worker, and the worker *)
(* that took a task begins it, once, as the next thing it does with tasks. *)
(* Nothing is promised of the order in which tasks taken by different      *)
(* workers are begun.  A pool without threads runs a task where it is      *)
(* handed over.                                                            *)
(***************************************************************************)
EXTENDS Naturals, Sequences

CONSTANTS Tasks, Workers, NoTask

VARIABLES
    unposted,   \* tasks the queue has not accepted
    queue,      \* posted and not taken, oldest first
    hands,      \* what each worker has taken and not begun, or NoTask
    begun       \* tasks in the order they were begun

vars == <<unposted, queue, hands, begun>>

Init ==
    /\ unposted = Tasks
    /\ queue = <<>>
    /\ hands = [w \in Workers |-> NoTask]
    /\ begun = <<>>

Post(k) ==
    /\ k \in unposted
    /\ unposted' = unposted \ {k}
    /\ queue' = Append(queue, k)
    /\ UNCHANGED <<hands, begun>>

Take(w) ==
    /\ hands[w] = NoTask
    /\ queue # <<>>
    /\ hands' = [hands EXCEPT ![w] = Head(queue)]
    /\ queue' = Tail(queue)
    /\ UNCHANGED <<unposted, begun>>

Begin(w) ==
    /\ hands[w] # NoTask
    /\ begun' = Append(begun, hands[w])
    /\ hands' = [hands EXCEPT ![w] = NoTask]
    /\ UNCHANGED <<unposted, queue>>

RunHere(k) ==
    /\ k \in unposted
    /\ unposted' = unposted \ {k}
    /\ begun' = Append(begun, k)
    /\ UNCHANGED <<queue, hands>>

Next ==
    \/ \E k \in Tasks : Post(k) \/ RunHere(k)
    \/ \E w \in Workers : Take(w) \/ Begin(w)

Spec == Init /\ [][Next]_vars

=============================================================================
