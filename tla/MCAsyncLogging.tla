--------------------------- MODULE MCAsyncLogging ---------------------------
(***************************************************************************)
(* A small instance of AsyncLogging: buffers of one line, so that the      *)
(* writer can fall four buffers behind, and a line too long for any.       *)
(***************************************************************************)
EXTENDS AsyncLogging

CONSTANTS l1, l2, l3, l4, l5

FiveLines == {l1, l2, l3, l4, l5}
L5 == {l5}

=============================================================================
