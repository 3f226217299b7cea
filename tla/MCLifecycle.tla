---------------------------- MODULE MCLifecycle ----------------------------
(***************************************************************************)
(* Two connections from two addresses, two loggers with a line each to be  *)
(* held back, and retries that give up at the second failure.              *)
(***************************************************************************)
EXTENDS Lifecycle

CONSTANTS c1, c2, g1, g2

Distinct == [c \in Conn |-> c]

=============================================================================
