------------------------------- MODULE MCRPC -------------------------------
(***************************************************************************)
(* One connection: the calls that set it up (h, a) and up to two calls     *)
(* of the user, which run at the same time.                                *)
(***************************************************************************)
EXTENDS RPC

CONSTANTS h, a, c1, c2

MCSetup == <<h, a>>

AllCommands ==
    {"force-leave", "join", "members", "members-filtered", "event", "leave", "tags", "respond",
     "install-key", "use-key", "remove-key", "list-keys", "stats", "get-coordinate",
     "list-microapps", "list-routers", "update-routers", "monitor", "stream", "query"}

\* Any command, and next to it one that is answered by a body or a stop.
MCCommands == [c \in Call |-> CASE c = c1 -> AllCommands
                               [] c = c2 -> {"stats", "stop"}
                               [] OTHER -> {}]

MCOneQuery == [c \in Call |-> IF c = c1 THEN {"query"} ELSE {}]

=============================================================================
