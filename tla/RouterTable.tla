---------------------------- MODULE RouterTable ----------------------------
(***************************************************************************)
(* The routing tables of the agents of a cluster and every operation that  *)
(* changes them: AddRouter, RemoveRouter, RemoveRouterByHost and           *)
(* UpdateRouters of DiscoverdRepo, the last one driven by the sync command *)
(* (command/sync.go), which lists the routers of one agent and then, in a  *)
(* second call, writes them to another.  Each operation on a table is one  *)
(* step here.  That RemoveRouter takes no lock and UpdateRouters one for   *)
(* reading only is outside the model: Go says nothing of maps used so.     *)
(***************************************************************************)
EXTENDS RouterOps

CONSTANTS
    Syncer,  \* sync commands that may run at the same time
    NoHost   \* stands for the target of a sync command that holds no table

ASSUME NoHostAssumption == NoHost \notin Node

VARIABLES
    routers,  \* routers[h]: the table of agent h
    listed    \* listed[c]: the table command c has fetched, and for whom

vars == <<routers, listed>>

\* Every table is a map from services to routers that have an address left,
\* with the checksum of exactly the addresses they hold: every operation
\* that shrinks or extends a router deletes it or recomputes its checksum,
\* and the sync commands carry routers whose checksum is right.
TypeOK == /\ routers \in [Node -> Table]
          /\ listed \in [Syncer -> [host : Node \cup {NoHost}, table : Table]]

Idle == [host |-> NoHost, table |-> EmptyTable]

Init == /\ routers = [h \in Node |-> EmptyTable]
        /\ listed = [c \in Syncer |-> Idle]

AddRouter(h, node, addr, mss) ==
    /\ routers' = [routers EXCEPT ![h] = addRouter(routers[h], node, addr, mss)]
    /\ UNCHANGED listed

RemoveRouter(h, addr) ==
    /\ routers' = [routers EXCEPT ![h] = removeRouter(routers[h], addr)]
    /\ UNCHANGED listed

RemoveRouterByHost(h, node) ==
    /\ routers' = [routers EXCEPT ![h] = removeRouterByHost(routers[h], node)]
    /\ UNCHANGED listed

\* The table is kept in memory only: a new process makes an empty one.
NewDiscoverdRepo(h) ==
    /\ routers' = [routers EXCEPT ![h] = EmptyTable]
    /\ UNCHANGED listed

\* The command started against agent h has found agent m, which may be h
\* itself, and has the answer of its ListRouters.
ListRouters(c, h, m) ==
    /\ listed[c].host = NoHost
    /\ listed' = [listed EXCEPT ![c] = [host |-> h, table |-> routers[m]]]
    /\ UNCHANGED routers

\* Every router of the agent is deleted and the fetched ones are stored,
\* with the checksums they came with.
UpdateRouters(c) ==
    /\ listed[c].host # NoHost
    /\ routers' = [routers EXCEPT ![listed[c].host] = listed[c].table]
    /\ listed' = [listed EXCEPT ![c] = Idle]

\* The update call failed; the command goes on to the next responder.
UpdateFails(c) ==
    /\ listed[c].host # NoHost
    /\ listed' = [listed EXCEPT ![c] = Idle]
    /\ UNCHANGED routers

Next ==
    \/ \E h, n \in Node, a \in Addr, ss \in SUBSET Service : AddRouter(h, n, a, ss)
    \/ \E h \in Node, a \in Addr : RemoveRouter(h, a)
    \/ \E h, n \in Node : RemoveRouterByHost(h, n)
    \/ \E h \in Node : NewDiscoverdRepo(h)
    \/ \E c \in Syncer, h, m \in Node : ListRouters(c, h, m)
    \/ \E c \in Syncer : UpdateRouters(c) \/ UpdateFails(c)

Spec == Init /\ [][Next]_vars

-----------------------------------------------------------------------------
\* An address is routed on behalf of one agent only, whatever the service:
\* an application that comes back through another agent leaves nothing
\* behind under the old one, which RemoveRouterByHost would otherwise miss
\* or take for the application (AddRouter removes the address first).  The
\* tables the sync commands carry have the property too, or UpdateRouters
\* would bring the damage back.
OneOwner == /\ \A h \in Node : OneOwnerIn(routers[h])
            /\ \A c \in Syncer : OneOwnerIn(listed[c].table)

\* How often an application is led to each address by a table: through every
\* service its list names, as often as it names it; not at all once it has
\* expired.
Reached(T, app) ==
    [a \in Addr |-> IF app.found THEN SumFunction([s \in ServicesOf(T, a) |-> app.consumers[s]]) ELSE 0]

\* The digests of the addresses, as often as each is reached.
SumOfDigests(reached) == SumFunction([a \in Addr |-> reached[a] * Hash[a]]) % 256

OneMore(reached, a) == [reached EXCEPT ![a] = @ + 1]

\* An application with this list of consumers has fetched its routers, and
\* polls for the checksum only.  Whatever additions, removals and updates came
\* in between, at this agent or another, and whether it has expired: it is told
\* what it fetched if it reaches every address as often as before; it is told
\* something else if one address is reached once more or once less, unless its
\* digest is zero; and what several changes do together passes unnoticed only
\* when their digests cancel in the sum.  The table of a sync command stands
\* for one that was fetched earlier.
ToldOf(fetched, T, consumers, found) ==
    LET was  == Reached(fetched.routers, [found |-> TRUE, consumers |-> consumers])
        app  == [found |-> found, consumers |-> consumers]
        is   == Reached(T, app)
        same == calcRouterCheckSum(T, app) = fetched.checksum
    IN  /\ was = is => same
        /\ \A a \in Addr : (is = OneMore(was, a) \/ was = OneMore(is, a)) /\ Hash[a] # 0 => ~ same
        /\ same <=> SumOfDigests(was) = SumOfDigests(is)

Told(consumers) ==
    \A c \in Syncer :
        LET fetched == calcRouterTable(listed[c].table, [found |-> TRUE, consumers |-> consumers])
        IN  fetched.routers # EmptyTable =>
                \A h \in Node, found \in BOOLEAN : ToldOf(fetched, routers[h], consumers, found)

\* An application that polls is told of the changes of what it consumes that
\* the wrapping sum can show, and of nothing else (msd_repo.go:210-260): the
\* checksums of the routers, which every change of a table computes again, add
\* up to the digests of the addresses.  Lists of consumers that name a service
\* twice are in it.
PollingSound == \A consumers \in [Service -> 0..2] : Told(consumers)

OwnerOf(T, a) == CHOOSE n \in Node : Routed(T, [node |-> n, addr |-> a])

RegistryOf(T) == [a \in {b \in Addr : ServicesOf(T, b) # {}} |->
                    [node |-> OwnerOf(T, a), services |-> ServicesOf(T, a)]]

Abstract == INSTANCE Registry WITH
    reg    <- [h \in Node |-> RegistryOf(routers[h])],
    copies <- [c \in Syncer |->
                 [host |-> listed[c].host, view |-> RegistryOf(listed[c].table)]]

\* The service index with its repeated removals, rebuilt routers and whole
\* table updates behaves as a map from addresses to registrations: no
\* operation touches a registration it is not about.
ImplementsRegistry == Abstract!Spec

=============================================================================
