---------------------------- MODULE MCLogWriter ----------------------------
(***************************************************************************)
(* A buffer of three lines that wraps around, channels of two, and two     *)
(* monitors that come and go.                                              *)
(***************************************************************************)
EXTENDS LogWriter

CONSTANTS m1, m2

MCSymmetry == Permutations({m1, m2})

=============================================================================
