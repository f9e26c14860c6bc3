---------------------------- MODULE MCThreadPool ----------------------------
(***************************************************************************)
(* Small instances of ThreadPool: two workers, two other threads, a queue  *)
(* of one or without bound, four tasks of which one adds tasks itself.     *)
(***************************************************************************)
EXTENDS ThreadPool

CONSTANTS w1, w2, c1, c2, k1, k2, k3, k4

TwoWorkers == {w1, w2}
TwoCallers == {c1, c2}
FourTasks == {k1, k2, k3, k4}
AdderK1 == {k1}
NoneOrOne == {0, 1}

=============================================================================
