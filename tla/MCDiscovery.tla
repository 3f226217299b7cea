---------------------------- MODULE MCDiscovery ----------------------------
(***************************************************************************)
(* Two agents; one application that moves between them, changes what it    *)
(* offers and expires, or two that expire together.                        *)
(***************************************************************************)
EXTENDS Discovery, TLC

CONSTANTS n1, n2, a1, a2, s1, s2, c1

MCHash == [a \in Addr |-> IF a = a1 THEN 200 ELSE 100]

MCSymmetry == Permutations({n1, n2}) \cup Permutations({s1, s2})

=============================================================================
