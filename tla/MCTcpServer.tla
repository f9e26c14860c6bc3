---------------------------- MODULE MCTcpServer -----------------------------
(***************************************************************************)
(* Small instances of TcpServer.                                           *)
(***************************************************************************)
EXTENDS TcpServer

CONSTANTS u1

DelayOff == {FALSE}
DelayOn == {TRUE}
DelayAny == {FALSE, TRUE}
NoUsers == {}
OneUser == {u1}
NoOps == {}
SendOnly == {"send"}
SendShutdown == {"send", "shutdown"}
SendForceClose == {"send", "forceClose"}
AllOps == Ops

=============================================================================
