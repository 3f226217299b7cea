--------------------------- MODULE MCRouterTable ---------------------------
(***************************************************************************)
(* Two agents and two addresses are the least with which an address can    *)
(* change its agent while another one shares its router, two services the  *)
(* least with which it can change what it provides; a sync command carries *)
(* a table that grows old.  Sums of the digests wrap, and twice the one of  *)
(* a1 is nothing.                                                          *)
(***************************************************************************)
EXTENDS RouterTable, TLC

CONSTANTS n1, n2, a1, a2, s1, s2, c1

MCHash == [a \in Addr |-> IF a = a1 THEN 128 ELSE 200]

MCSymmetry == Permutations({s1, s2})

\* The bound of the run: the application at a2 never leaves n2, so that what
\* a1 leaves behind is seen next to one that stays.
StaysAtHome == \A h \in Node : ~ Routed(routers[h], [node |-> n1, addr |-> a2])

=============================================================================
