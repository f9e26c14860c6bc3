---------------------------- MODULE MCEventLoop -----------------------------
(***************************************************************************)
(* Small instances of EventLoop: two posting threads, an I/O channel and   *)
(* two or three functors, of which one may be queued by the loop's own     *)
(* thread before loop() (a ThreadInitCallback's).                          *)
(***************************************************************************)
EXTENDS EventLoop

CONSTANTS t1, t2, f1, f2, f3, io1

TwoThreads == {t1, t2}
OneIo == {io1}
OutsideF1 == {f1}
TwoFuncs == {f1, f2}
ThreeFuncs == {f1, f2, f3}

=============================================================================
