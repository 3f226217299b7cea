----------------------------- MODULE RouterOps -----------------------------
(***************************************************************************)
(* The operations of DiscoverdRepo (discoverd/msd/msd_repo.go) on one      *)
(* routing table, as operators.  A table maps the names of the services    *)
(* that have a provider to a router: the addresses of the providers, each  *)
(* with the agent it registered with, and a checksum of the addresses.     *)
(*                                                                         *)
(* api.Router.Addrs is a slice; a router here has the set of its elements. *)
(* AddRouter never appends an address a router already has, so the slice   *)
(* has no duplicates.  The checksum has 16 independent byte lanes; one     *)
(* lane is modelled, Hash being that byte of the MD5 digest.               *)
(***************************************************************************)
EXTENDS Naturals, FiniteSetsExt

CONSTANTS
    Node,     \* names of the cluster members
    Addr,     \* addresses of micro applications
    Service,  \* names of services
    Hash      \* one byte of the MD5 digest of an address

ASSUME HashAssumption == Hash \in [Addr -> 0..255]
ASSUME FiniteAssumption == IsFiniteSet(Node) /\ IsFiniteSet(Addr) /\ IsFiniteSet(Service)

NodeAddr == [node : Node, addr : Addr]

\* Byte-wise sum of the digests, in Go's wrapping uint8 arithmetic.
calcChecksum(addrs) == SumFunction([na \in addrs |-> Hash[na.addr]]) % 256

NewRouter(addrs) == [addrs |-> addrs, checksum |-> calcChecksum(addrs)]

Router == {NewRouter(addrs) : addrs \in (SUBSET NodeAddr) \ {{}}}

\* Go maps with services as keys.
Table == UNION {[S -> Router] : S \in SUBSET Service}

EmptyTable == [s \in {} |-> s]

\* Mutant of Prune: routers without an address are kept.
PruneKeepsEmpty(T, dead) == [s \in DOMAIN T |-> NewRouter(T[s].addrs \ dead)]

\* Mutant of Prune: the checksum is not computed again.
PruneStale(T, dead) ==
    LET left == {s \in DOMAIN T : ~ (T[s].addrs \subseteq dead)}
    IN  [s \in left |-> [T[s] EXCEPT !.addrs = @ \ dead]]

\* The loop removeRouter and RemoveRouterByHost have in common: drop the
\* dead entries of every router, delete the routers that have none left and
\* rebuild the others.
Prune(T, dead) ==
    LET left == {s \in DOMAIN T : ~ (T[s].addrs \subseteq dead)}
    IN  [s \in left |-> NewRouter(T[s].addrs \ dead)]

removeRouter(T, addr) == Prune(T, {na \in NodeAddr : na.addr = addr})

removeRouterByHost(T, node) == Prune(T, {na \in NodeAddr : na.node = node})

\* Mutant of addRouter: the address is not removed first.
addRouterUncleared(T, node, addr, mss) ==
    LET na == [node |-> node, addr |-> addr]
    IN  [s \in DOMAIN T \cup mss |->
            IF s \notin mss THEN T[s]
            ELSE IF s \in DOMAIN T THEN NewRouter(T[s].addrs \cup {na})
            ELSE NewRouter({na})]

\* Mutant of addRouter: a router that exists is replaced instead of extended.
addRouterAlone(T, node, addr, mss) ==
    LET cleared == removeRouter(T, addr)
    IN  [s \in DOMAIN cleared \cup mss |->
            IF s \in mss THEN NewRouter({[node |-> node, addr |-> addr]}) ELSE cleared[s]]

\* First forget the address (the application may have come back with other
\* services), then append it to, or create, the router of every service.  A
\* service named twice finds the address the second time and is left alone,
\* so that the set of the names is enough.
addRouter(T, node, addr, mss) ==
    LET cleared == removeRouter(T, addr)
        na      == [node |-> node, addr |-> addr]
    IN  [s \in DOMAIN cleared \cup mss |->
            IF s \notin mss THEN cleared[s]
            ELSE IF s \in DOMAIN cleared THEN NewRouter(cleared[s].addrs \cup {na})
            ELSE NewRouter({na})]

-----------------------------------------------------------------------------
\* What a table says: the entries it has, that each address has one agent,
\* and the services of an address, by the inverse of the index.
Routed(T, na) == \E s \in DOMAIN T : na \in T[s].addrs

OneOwnerIn(T) ==
    \A na, nb \in NodeAddr :
        Routed(T, na) /\ Routed(T, nb) /\ na.addr = nb.addr => na.node = nb.node

ServicesOf(T, a) == {s \in DOMAIN T : \E na \in T[s].addrs : na.addr = a}

-----------------------------------------------------------------------------
\* What an agent has of an application that asks: whether its cache holds it
\* still, and how often its list of consumers names each service.

\* The checksums of the routers the list names, each as often as it does, in
\* byte-wise wrapping sums again.
SumOfChecksums(T, consumers) ==
    SumFunction([s \in DOMAIN T |-> consumers[s] * T[s].checksum]) % 256

\* What Refresh tells an application that polls: zeros if nothing is routed, or
\* if the application has expired.
calcRouterCheckSum(T, app) == IF app.found THEN SumOfChecksums(T, app.consumers) ELSE 0

\* What a fetch of the routers tells it: no checksum at all if there are none,
\* and no table, which has neither, if it has expired.
NoChecksum == 256
calcRouterTable(T, app) ==
    LET named == {s \in DOMAIN T : app.found /\ app.consumers[s] > 0}
    IN  [routers  |-> [s \in named |-> T[s]],
         checksum |-> IF named = {} THEN NoChecksum ELSE SumOfChecksums(T, app.consumers)]

=============================================================================
