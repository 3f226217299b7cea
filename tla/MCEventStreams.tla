--------------------------- MODULE MCEventStreams ---------------------------
(***************************************************************************)
(* Two streams on a connection, so that starting and stopping one falls    *)
(* into the fan-out to the other; channels that are full after one event.  *)
(***************************************************************************)
EXTENDS EventStreams

CONSTANTS st1, st2

=============================================================================
