------------------------- MODULE RouterTableProofs -------------------------
(***************************************************************************)
(* Proofs about the routing tables, for any sets of agents, addresses,     *)
(* services and sync commands and any digest.                              *)
(***************************************************************************)
EXTENDS RouterTable, CommonLemmas

\* Every table an agent or a sync command holds is well formed: no router
\* without an address, no stale checksum.
THEOREM TypeCorrect == Spec => []TypeOK
  <1>1. Init => TypeOK
    BY EmptyTableType DEF Init, TypeOK, Idle
  <1>2. TypeOK /\ [Next]_vars => TypeOK'
    <2> SUFFICES ASSUME TypeOK, [Next]_vars
                 PROVE  TypeOK'
      OBVIOUS
    <2> USE DEF TypeOK
    <2>1. ASSUME NEW h \in Node, NEW n \in Node, NEW a \in Addr, NEW ss \in SUBSET Service,
                 AddRouter(h, n, a, ss)
          PROVE  TypeOK'
      <3>1. addRouter(routers[h], n, a, ss) \in Table
        BY AddEntries
      <3> QED BY <2>1, <3>1 DEF AddRouter
    <2>2. ASSUME NEW h \in Node, NEW a \in Addr, RemoveRouter(h, a)
          PROVE  TypeOK'
      <3>1. removeRouter(routers[h], a) \in Table
        BY PruneEntries DEF removeRouter
      <3> QED BY <2>2, <3>1 DEF RemoveRouter
    <2>3. ASSUME NEW h \in Node, NEW n \in Node, RemoveRouterByHost(h, n)
          PROVE  TypeOK'
      <3>1. removeRouterByHost(routers[h], n) \in Table
        BY PruneEntries DEF removeRouterByHost
      <3> QED BY <2>3, <3>1 DEF RemoveRouterByHost
    <2>4. ASSUME NEW c \in Syncer, NEW h \in Node, NEW m \in Node, ListRouters(c, h, m)
          PROVE  TypeOK'
      BY <2>4 DEF ListRouters
    <2>5. ASSUME NEW c \in Syncer, UpdateRouters(c)
          PROVE  TypeOK'
      BY <2>5, EmptyTableType DEF UpdateRouters, Idle
    <2>6. ASSUME NEW c \in Syncer, UpdateFails(c)
          PROVE  TypeOK'
      BY <2>6, EmptyTableType DEF UpdateFails, Idle
    <2>7. CASE UNCHANGED vars
      BY <2>7 DEF vars
    <2>8. ASSUME NEW h \in Node, NewDiscoverdRepo(h)
          PROVE  TypeOK'
      BY <2>8, EmptyTableType DEF NewDiscoverdRepo
    <2> QED
      BY <2>1, <2>2, <2>3, <2>4, <2>5, <2>6, <2>7, <2>8 DEF Next
  <1> QED
    BY <1>1, <1>2, PTL DEF Spec

-----------------------------------------------------------------------------
\* No interleaving of registrations, expiries, member failures and sync
\* commands makes an agent route one address on behalf of two agents.
THEOREM OwnersUnique == Spec => []OneOwner
  <1>1. Init => OneOwner
    BY EmptyOneOwner DEF Init, OneOwner, Idle
  <1>2. TypeOK /\ OneOwner /\ [Next]_vars => OneOwner'
    <2> SUFFICES ASSUME TypeOK, OneOwner, [Next]_vars
                 PROVE  OneOwner'
      OBVIOUS
    <2> USE DEF TypeOK, OneOwner
    <2>1. ASSUME NEW h \in Node, NEW n \in Node, NEW a \in Addr, NEW ss \in SUBSET Service,
                 AddRouter(h, n, a, ss)
          PROVE  OneOwner'
      <3>1. OneOwnerIn(addRouter(routers[h], n, a, ss))
        BY AddOneOwner
      <3> QED BY <2>1, <3>1 DEF AddRouter
    <2>2. ASSUME NEW h \in Node, NEW a \in Addr, RemoveRouter(h, a)
          PROVE  OneOwner'
      <3>1. OneOwnerIn(removeRouter(routers[h], a))
        BY PruneOneOwner DEF removeRouter
      <3> QED BY <2>2, <3>1 DEF RemoveRouter
    <2>3. ASSUME NEW h \in Node, NEW n \in Node, RemoveRouterByHost(h, n)
          PROVE  OneOwner'
      <3>1. OneOwnerIn(removeRouterByHost(routers[h], n))
        BY PruneOneOwner DEF removeRouterByHost
      <3> QED BY <2>3, <3>1 DEF RemoveRouterByHost
    <2>4. ASSUME NEW c \in Syncer, NEW h \in Node, NEW m \in Node, ListRouters(c, h, m)
          PROVE  OneOwner'
      BY <2>4 DEF ListRouters
    <2>5. ASSUME NEW c \in Syncer, UpdateRouters(c)
          PROVE  OneOwner'
      BY <2>5, EmptyOneOwner DEF UpdateRouters, Idle
    <2>6. ASSUME NEW c \in Syncer, UpdateFails(c)
          PROVE  OneOwner'
      BY <2>6, EmptyOneOwner DEF UpdateFails, Idle
    <2>7. CASE UNCHANGED vars
      BY <2>7 DEF vars
    <2>8. ASSUME NEW h \in Node, NewDiscoverdRepo(h)
          PROVE  OneOwner'
      BY <2>8, EmptyOneOwner DEF NewDiscoverdRepo
    <2> QED
      BY <2>1, <2>2, <2>3, <2>4, <2>5, <2>6, <2>7, <2>8 DEF Next
  <1> QED
    BY <1>1, <1>2, TypeCorrect, PTL DEF Spec

-----------------------------------------------------------------------------
\* The owner of an address is the agent of any of its entries.
LEMMA OwnerIs ==
  ASSUME NEW T \in Table, OneOwnerIn(T), NEW n \in Node, NEW a \in Addr,
         Routed(T, [node |-> n, addr |-> a])
  PROVE  OwnerOf(T, a) = n
  <1>1. /\ OwnerOf(T, a) \in Node
        /\ Routed(T, [node |-> OwnerOf(T, a), addr |-> a])
    BY DEF OwnerOf
  <1>2. [node |-> OwnerOf(T, a), addr |-> a] \in NodeAddr /\ [node |-> n, addr |-> a] \in NodeAddr
    BY <1>1 DEF NodeAddr
  <1> QED
    BY <1>1, <1>2 DEF OneOwnerIn

\* An address with a service has an owner.
LEMMA HasOwner ==
  ASSUME NEW T \in Table, NEW a \in Addr, ServicesOf(T, a) # {}
  PROVE  OwnerOf(T, a) \in Node /\ Routed(T, [node |-> OwnerOf(T, a), addr |-> a])
  <1>1. PICK s \in DOMAIN T : \E na \in T[s].addrs : na.addr = a
    BY DEF ServicesOf
  <1>2. PICK na \in T[s].addrs : na.addr = a
    BY <1>1
  <1>3. na \in NodeAddr
    BY TableEntry
  <1>4. na.node \in Node /\ na = [node |-> na.node, addr |-> a]
    BY <1>2, <1>3 DEF NodeAddr
  <1>5. Routed(T, [node |-> na.node, addr |-> a])
    BY <1>4 DEF Routed
  <1> QED
    BY <1>4, <1>5 DEF OwnerOf

\* Removing one agent or one address as a whole from a table is forgetting
\* those addresses of the registry.
LEMMA PruneIsForget ==
  ASSUME NEW T \in Table, OneOwnerIn(T), NEW dead \in SUBSET NodeAddr, NEW A \in SUBSET Addr,
         \A na \in NodeAddr : Routed(T, na) => (na \in dead <=> na.addr \in A)
  PROVE  RegistryOf(Prune(T, dead)) = Abstract!Forget(RegistryOf(T), A)
  <1> DEFINE P == Prune(T, dead)
  <1>1. P \in Table /\ OneOwnerIn(P)
    BY PruneEntries, PruneOneOwner
  <1>2. \A a \in Addr : ServicesOf(P, a) = IF a \in A THEN {} ELSE ServicesOf(T, a)
    BY PruneServices
  <1>3. ASSUME NEW a \in Addr, ServicesOf(P, a) # {}
        PROVE  OwnerOf(P, a) = OwnerOf(T, a)
    <2>1. OwnerOf(P, a) \in Node /\ Routed(P, [node |-> OwnerOf(P, a), addr |-> a])
      BY <1>1, <1>3, HasOwner
    <2>2. Routed(T, [node |-> OwnerOf(P, a), addr |-> a])
      BY <2>1, PruneRouted
    <2> QED BY <2>1, <2>2, OwnerIs
  <1>4. {a \in Addr : ServicesOf(P, a) # {}} = {a \in Addr : ServicesOf(T, a) # {}} \ A
    <2> HIDE DEF P
    <2> QED BY <1>2
  <1>5. \A a \in {b \in Addr : ServicesOf(P, b) # {}} :
           [node |-> OwnerOf(P, a), services |-> ServicesOf(P, a)]
           = [node |-> OwnerOf(T, a), services |-> ServicesOf(T, a)]
    <2> HIDE DEF P
    <2> QED BY <1>2, <1>3
  <1> HIDE DEF P
  <1> QED
    BY <1>4, <1>5 DEF RegistryOf, Abstract!Forget, P

\* AddRouter replaces the registration of its address and no other.
LEMMA AddIsRegister ==
  ASSUME NEW T \in Table, OneOwnerIn(T), NEW n \in Node, NEW a \in Addr, NEW ss \in SUBSET Service
  PROVE  RegistryOf(addRouter(T, n, a, ss)) = Abstract!Enroll(RegistryOf(T), n, a, ss)
  <1> DEFINE R == addRouter(T, n, a, ss)
  <1>1. R \in Table /\ OneOwnerIn(R)
    BY AddEntries, AddOneOwner
  <1>3. \A na \in NodeAddr : Routed(R, na)
              <=> IF na.addr = a THEN na.node = n /\ ss # {} ELSE Routed(T, na)
    BY AddRouted
  <1> HIDE DEF R
  <1>4. ServicesOf(R, a) = ss
    BY AddServices DEF R
  <1>5. \A b \in Addr : b # a => ServicesOf(R, b) = ServicesOf(T, b)
    BY AddServices DEF R
  <1>6. ss # {} => OwnerOf(R, a) = n
    <2>1. [node |-> n, addr |-> a] \in NodeAddr
      BY DEF NodeAddr
    <2> QED BY <1>1, <1>3, <2>1, OwnerIs
  <1>7. ASSUME NEW b \in Addr, b # a, ServicesOf(T, b) # {}
        PROVE  OwnerOf(R, b) = OwnerOf(T, b)
    <2>1. OwnerOf(T, b) \in Node /\ Routed(T, [node |-> OwnerOf(T, b), addr |-> b])
      BY <1>7, HasOwner
    <2>2. Routed(R, [node |-> OwnerOf(T, b), addr |-> b])
      BY <1>3, <1>7, <2>1 DEF NodeAddr
    <2> QED BY <1>1, <2>1, <2>2, OwnerIs
  <1>8. {b \in Addr : ServicesOf(R, b) # {}} =
          IF ss = {} THEN {b \in Addr : ServicesOf(T, b) # {}} \ {a}
          ELSE {b \in Addr : ServicesOf(T, b) # {}} \cup {a}
    BY <1>4, <1>5
  <1>9. \A b \in {b \in Addr : ServicesOf(R, b) # {}} :
           [node |-> OwnerOf(R, b), services |-> ServicesOf(R, b)]
           = IF b = a THEN [node |-> n, services |-> ss]
             ELSE [node |-> OwnerOf(T, b), services |-> ServicesOf(T, b)]
    BY <1>4, <1>5, <1>6, <1>7
  <1> QED
    BY <1>8, <1>9 DEF RegistryOf, R, Abstract!Enroll

\* A table without entries stands for no registration.
LEMMA EmptyRegistry == RegistryOf(EmptyTable) = Abstract!EmptyView
  <1>1. \A a \in Addr : ServicesOf(EmptyTable, a) = {}
    BY EmptyTableType DEF ServicesOf
  <1> QED
    BY <1>1 DEF RegistryOf, Abstract!EmptyView

\* The service index of the agents implements the map from addresses to
\* registrations, step by step.
THEOREM TableImplementsRegistry == Spec => ImplementsRegistry
  <1>1. Init => Abstract!Init
    BY EmptyRegistry DEF Init, Idle, Abstract!Init, Abstract!Idle
  <1>2. TypeOK /\ OneOwner /\ [Next]_vars => [Abstract!Next]_(Abstract!vars)
    <2> SUFFICES ASSUME TypeOK, OneOwner, [Next]_vars
                 PROVE  [Abstract!Next]_(Abstract!vars)
      OBVIOUS
    <2> USE DEF TypeOK, OneOwner
    <2>1. ASSUME NEW h \in Node, NEW n \in Node, NEW a \in Addr, NEW ss \in SUBSET Service,
                 AddRouter(h, n, a, ss)
          PROVE  Abstract!Register(h, n, a, ss)
      <3>1. RegistryOf(addRouter(routers[h], n, a, ss)) = Abstract!Enroll(RegistryOf(routers[h]), n, a, ss)
        BY AddIsRegister
      <3> QED BY <2>1, <3>1 DEF AddRouter, Abstract!Register
    <2>2. ASSUME NEW h \in Node, NEW a \in Addr, RemoveRouter(h, a)
          PROVE  Abstract!Unregister(h, a)
      <3>1. RegistryOf(removeRouter(routers[h], a)) = Abstract!Forget(RegistryOf(routers[h]), {a})
        BY PruneIsForget DEF removeRouter
      <3> QED BY <2>2, <3>1 DEF RemoveRouter, Abstract!Unregister
    <2>3. ASSUME NEW h \in Node, NEW n \in Node, RemoveRouterByHost(h, n)
          PROVE  Abstract!DropNode(h, n)
      <3> DEFINE T == routers[h]
                 A == {a \in DOMAIN RegistryOf(T) : RegistryOf(T)[a].node = n}
      <3>1. T \in Table /\ OneOwnerIn(T)
        OBVIOUS
      <3>2. ASSUME NEW na \in NodeAddr, Routed(T, na)
            PROVE  na.node = n <=> na.addr \in A
        <4>1. na.node \in Node /\ na.addr \in Addr /\ na = [node |-> na.node, addr |-> na.addr]
          BY DEF NodeAddr
        <4>2. OwnerOf(T, na.addr) = na.node
          BY <3>1, <3>2, <4>1, OwnerIs
        <4>3. ServicesOf(T, na.addr) # {}
          BY <3>2 DEF Routed, ServicesOf
        <4> HIDE DEF T
        <4> QED BY <4>1, <4>2, <4>3 DEF RegistryOf
      <3>3. A \in SUBSET Addr
        BY DEF RegistryOf
      <3>4. RegistryOf(removeRouterByHost(T, n)) = Abstract!Forget(RegistryOf(T), A)
        <4> HIDE DEF T, A
        <4> QED BY <3>1, <3>2, <3>3, PruneIsForget DEF removeRouterByHost
      <3> QED BY <2>3, <3>4 DEF RemoveRouterByHost, Abstract!DropNode
    <2>4. ASSUME NEW c \in Syncer, NEW h \in Node, NEW m \in Node, ListRouters(c, h, m)
          PROVE  Abstract!Fetch(c, h, m)
      BY <2>4 DEF ListRouters, Abstract!Fetch
    <2>5. ASSUME NEW c \in Syncer, UpdateRouters(c)
          PROVE  Abstract!Install(c)
      <3>1. listed[c].host \in Node
        BY <2>5 DEF UpdateRouters
      <3> QED BY <2>5, <3>1, EmptyRegistry DEF UpdateRouters, Idle, Abstract!Install, Abstract!Idle
    <2>6. ASSUME NEW c \in Syncer, UpdateFails(c)
          PROVE  Abstract!Abandon(c)
      BY <2>6, EmptyRegistry DEF UpdateFails, Idle, Abstract!Abandon, Abstract!Idle
    <2>7. CASE UNCHANGED vars
      BY <2>7 DEF vars, Abstract!vars
    <2>8. ASSUME NEW h \in Node, NewDiscoverdRepo(h)
          PROVE  Abstract!Reset(h)
      BY <2>8, EmptyRegistry DEF NewDiscoverdRepo, Abstract!Reset
    <2> QED
      BY <2>1, <2>2, <2>3, <2>4, <2>5, <2>6, <2>7, <2>8 DEF Next, Abstract!Next
  <1> QED
    BY <1>1, <1>2, TypeCorrect, OwnersUnique, PTL DEF Spec, ImplementsRegistry, Abstract!Spec

-----------------------------------------------------------------------------
(* What the sums of the checksums are. *)

\* There are finitely many entries, and digests are numbers.
LEMMA Digests ==
  /\ IsFiniteSet(NodeAddr) /\ IsFiniteSet(Addr) /\ IsFiniteSet(Service)
  /\ Hash \in [Addr -> Nat]
  <1> USE FiniteAssumption, HashAssumption
  <1> DEFINE pair == [na \in NodeAddr |-> <<na.node, na.addr>>]
  <1>1. IsFiniteSet(Node \X Addr)
    BY FS_Product
  <1>2. pair \in Injection(NodeAddr, Node \X Addr)
    BY DEF NodeAddr, Injection, IsInjective
  <1>3. IsFiniteSet(NodeAddr)
    <2> HIDE DEF pair
    <2> QED BY <1>1, <1>2, FS_Injection
  <1> QED BY <1>3

\* Addresses with their digest, and 0 for the others.
DigestOf(N, a) == IF \E na \in N : na.addr = a THEN Hash[a] ELSE 0

\* The digests of entries that have an address each can be summed by address.
LEMMA SumByAddress ==
  ASSUME NEW A \in SUBSET NodeAddr, \A x, y \in A : x.addr = y.addr => x = y
  PROVE  SumFunction([na \in A |-> Hash[na.addr]]) = SumFunction([a \in Addr |-> DigestOf(A, a)])
  <1> DEFINE Entries(N) == [na \in N |-> Hash[na.addr]]
             Addrs(N) == [a \in Addr |-> DigestOf(N, a)]
             G == {N \in SUBSET A : SumFunction(Entries(N)) = SumFunction(Addrs(N))}
  <1>1. IsFiniteSet(A) /\ IsFiniteSet(Addr) /\ Hash \in [Addr -> Nat]
    BY Digests, FS_Subset
  <1>2. ASSUME NEW N \in SUBSET A PROVE IsFiniteSet(N) /\ Entries(N) \in [N -> Nat] /\ Addrs(N) \in [Addr -> Nat]
    BY <1>1, FS_Subset DEF NodeAddr, DigestOf
  <1>3. ASSUME NEW N \in SUBSET A, \A x \in N : N \ {x} \in G PROVE N \in G
    <2>1. CASE N = {}
      <3>1. SumFunction(Entries(N)) = 0
        BY <1>2, <2>1, SumFacts
      <3>2. Addrs(N) = [a \in Addr |-> 0]
        BY <2>1 DEF DigestOf
      <3>3. SumFunction(Addrs(N)) = 0
        BY <1>1, <3>2, SumZero
      <3> QED BY <3>1, <3>3
    <2>2. ASSUME NEW x \in N PROVE N \in G
      <3> DEFINE M == N \ {x}
                 One == [a \in Addr |-> IF a = x.addr THEN Hash[x.addr] ELSE 0]
      <3>1. x.addr \in Addr /\ Hash[x.addr] \in Nat
        BY <1>1 DEF NodeAddr
      <3>2. M \in SUBSET A /\ SumFunction(Entries(M)) = SumFunction(Addrs(M))
        BY <1>3
      <3>3. Entries(N)[x] = Hash[x.addr] /\ [na \in N \ {x} |-> Entries(N)[na]] = Entries(M)
        OBVIOUS
      <3>4. Addrs(N) = [a \in Addr |-> Addrs(M)[a] + One[a]]
        <4>1. ASSUME NEW a \in Addr PROVE DigestOf(N, a) = DigestOf(M, a) + One[a]
          <5>1. CASE a = x.addr
            <6>1. ~ \E na \in M : na.addr = a
              BY <5>1
            <6> QED BY <3>1, <5>1, <6>1 DEF DigestOf
          <5>2. CASE a # x.addr
            <6>1. (\E na \in N : na.addr = a) <=> (\E na \in M : na.addr = a)
              BY <5>2
            <6> QED BY <1>1, <5>2, <6>1 DEF DigestOf
          <5> QED BY <5>1, <5>2
        <4> QED BY <4>1
      <3>5. SumFunction(One) = Hash[x.addr] /\ One \in [Addr -> Nat]
        BY <1>1, <3>1, SumPoint
      <3>6. SumFunction(Entries(N)) = Hash[x.addr] + SumFunction(Entries(M))
        <4>1. IsFiniteSet(N) /\ Entries(N) \in [N -> Nat]
          BY <1>2
        <4> HIDE DEF Entries, Addrs, One, M
        <4> QED BY <3>3, <4>1, SumStep
      <3>7. SumFunction(Addrs(N)) = SumFunction(Addrs(M)) + SumFunction(One)
        <4>1. Addrs(M) \in [Addr -> Nat]
          BY <1>2
        <4> HIDE DEF Entries, Addrs, One, M
        <4> QED BY <1>1, <3>4, <3>5, <4>1, SumPlus
      <3>8. SumFunction(Entries(M)) \in Nat
        <4>1. IsFiniteSet(M) /\ Entries(M) \in [M -> Nat]
          BY <1>2
        <4> HIDE DEF Entries, M
        <4> QED BY <4>1, SumFacts
      <3> HIDE DEF Entries, Addrs, One, M
      <3>9. SumFunction(Entries(N)) = SumFunction(Addrs(N))
        BY <3>1, <3>2, <3>5, <3>6, <3>7, <3>8
      <3> QED BY <3>9
    <2> QED BY <2>1, <2>2
  <1>4. SUBSET A \subseteq G
    <2> HIDE DEF G
    <2> QED BY <1>1, <1>3, SubsetInduction
  <1> QED BY <1>4

\* How often a list of consumers leads to each address, over some services, and
\* the digests weighted by it.
ReachOver(T, k, services) == [a \in Addr |-> SumFunction([s \in services \cap ServicesOf(T, a) |-> k[s]])]
Weighed(m) == SumFunction([a \in Addr |-> m[a] * Hash[a]])

\* Numbers that are equal modulo 256 may stand for each other in a sum.
LEMMA Wraps ==
  ASSUME NEW x \in Nat, NEW y \in Nat, NEW z \in Nat, NEW w \in Nat,
         x = z % 256, y % 256 = w % 256
  PROVE  (x + y) % 256 = (w + z) % 256
  OBVIOUS

\* So may two sums of such numbers.
LEMMA BothWrap ==
  ASSUME NEW x \in Nat, NEW y \in Nat, NEW z \in Nat, NEW w \in Nat,
         x % 256 = z % 256, y % 256 = w % 256
  PROVE  (x + y) % 256 = (w + z) % 256
  OBVIOUS

\* The same holds of one of them as often as the other.
LEMMA WrapsTimes ==
  ASSUME NEW k \in Nat, NEW x \in Nat, NEW z \in Nat, x = z % 256
  PROVE  (k * x) % 256 = (k * z) % 256 /\ k * x \in Nat /\ k * z \in Nat
  <1> DEFINE G == {j \in Nat : j * x \in Nat /\ j * z \in Nat /\ (j * x) % 256 = (j * z) % 256}
  <1>1. 0 \in G
    <2>1. 0 * x = 0 /\ 0 * z = 0
      OBVIOUS
    <2> QED BY <2>1
  <1>2. ASSUME NEW j \in Nat, j \in G PROVE j + 1 \in G
    <2>1. (j + 1) * x = x + j * x /\ (j + 1) * z = j * z + z
      OBVIOUS
    <2> DEFINE jx == j * x
               jz == j * z
    <2>2. jx \in Nat /\ jz \in Nat /\ jx % 256 = jz % 256
      BY <1>2
    <2> HIDE DEF jx, jz
    <2>3. (x + jx) % 256 = (jz + z) % 256 /\ x + jx \in Nat /\ jz + z \in Nat
      BY <2>2, Wraps
    <2> QED BY <2>1, <2>3 DEF jx, jz
  <1>3. Nat \subseteq G
    <2> HIDE DEF G
    <2> QED BY <1>1, <1>2, NumberInduction
  <1> QED BY <1>3

\* A sum of numbers that are all taken some times.
LEMMA SumTimes ==
  ASSUME NEW S, IsFiniteSet(S), NEW f \in [S -> Nat], NEW k \in Nat
  PROVE  /\ [x \in S |-> k * f[x]] \in [S -> Nat]
         /\ SumFunction([x \in S |-> k * f[x]]) = k * SumFunction(f)
  <1> DEFINE Taken(j) == [x \in S |-> j * f[x]]
             G == {j \in Nat : Taken(j) \in [S -> Nat] /\ SumFunction(Taken(j)) = j * SumFunction(f)}
  <1>1. SumFunction(f) \in Nat
    BY SumFacts
  <1>2. 0 \in G
    <2>1. \A h \in Nat : 0 * h = 0
      OBVIOUS
    <2>2. Taken(0) = [x \in S |-> 0]
      BY <2>1
    <2>3. SumFunction(Taken(0)) = 0
      BY <2>2, SumZero
    <2>4. Taken(0) \in [S -> Nat]
      BY <2>2
    <2> QED BY <1>1, <2>1, <2>3, <2>4
  <1>3. ASSUME NEW j \in Nat, j \in G PROVE j + 1 \in G
    <2>1. \A h \in Nat : (j + 1) * h = j * h + h
      OBVIOUS
    <2>2. Taken(j + 1) = [x \in S |-> Taken(j)[x] + f[x]]
      BY <2>1
    <2>3. Taken(j) \in [S -> Nat] /\ SumFunction(Taken(j)) = j * SumFunction(f)
      BY <1>3
    <2>4. Taken(j + 1) \in [S -> Nat]
      BY <2>2, <2>3
    <2> HIDE DEF Taken
    <2>5. SumFunction(Taken(j + 1)) = SumFunction(Taken(j)) + SumFunction(f)
      BY <2>2, <2>3, SumPlus
    <2>6. (j + 1) * SumFunction(f) = j * SumFunction(f) + SumFunction(f)
      BY <1>1, <2>1
    <2>7. SumFunction(Taken(j + 1)) = (j + 1) * SumFunction(f)
      BY <2>3, <2>5, <2>6
    <2> QED BY <2>4, <2>7
  <1>4. Nat \subseteq G
    <2> HIDE DEF G
    <2> QED BY <1>2, <1>3, NumberInduction
  <1> QED BY <1>4

\* A sum without some of its zeros.
LEMMA SumDrop ==
  ASSUME NEW S, IsFiniteSet(S), NEW f \in [S -> Nat], NEW Z \in SUBSET S, \A x \in Z : f[x] = 0
  PROVE  SumFunction([x \in S \ Z |-> f[x]]) = SumFunction(f)
  <1> DEFINE Left(U) == [x \in S \ U |-> f[x]]
             G == {U \in SUBSET Z : SumFunction(Left(U)) = SumFunction(f)}
  <1>1. ASSUME NEW U \in SUBSET Z, \A x \in U : U \ {x} \in G PROVE U \in G
    <2>1. CASE U = {}
      <3>1. Left(U) = f
        BY <2>1
      <3> QED BY <3>1
    <2>2. ASSUME NEW x \in U PROVE U \in G
      <3> DEFINE V == U \ {x}
      <3>1. SumFunction(Left(V)) = SumFunction(f)
        BY <1>1
      <3>2. IsFiniteSet(S \ V) /\ Left(V) \in [S \ V -> Nat] /\ x \in S \ V /\ Left(V)[x] = 0
        BY FS_Subset
      <3>3. [y \in (S \ V) \ {x} |-> Left(V)[y]] = Left(U) /\ IsFiniteSet(S \ U) /\ Left(U) \in [S \ U -> Nat]
        BY FS_Subset
      <3> HIDE DEF Left, V
      <3>4. SumFunction(Left(V)) = 0 + SumFunction(Left(U)) /\ SumFunction(Left(U)) \in Nat
        <4>1. SumFunction(Left(V)) = Left(V)[x] + SumFunction([y \in (S \ V) \ {x} |-> Left(V)[y]])
          BY <3>2, SumStep
        <4>2. SumFunction(Left(U)) \in Nat
          BY <3>3, SumFacts
        <4> QED BY <3>2, <3>3, <4>1, <4>2
      <3>5. SumFunction(Left(U)) = SumFunction(f)
        BY <3>1, <3>4
      <3> QED BY <3>5
    <2> QED BY <2>1, <2>2
  <1>2. SUBSET Z \subseteq G
    <2>1. IsFiniteSet(Z)
      BY FS_Subset
    <2> HIDE DEF G
    <2> QED BY <1>1, <2>1, SubsetInduction
  <1> QED BY <1>2

\* How often an address is reached is a number, to which each service adds what
\* the list names it, if the address provides it.
LEMMA ReachStep ==
  ASSUME NEW T \in Table, NEW k \in [Service -> Nat], NEW C \in SUBSET Service, NEW a \in Addr
  PROVE  /\ ReachOver(T, k, C)[a] \in Nat
         /\ C = {} => ReachOver(T, k, C)[a] = 0
         /\ \A s \in C : ReachOver(T, k, C)[a]
                           = ReachOver(T, k, C \ {s})[a] + IF s \in ServicesOf(T, a) THEN k[s] ELSE 0
  <1> DEFINE S == ServicesOf(T, a)
             Named(D) == [s \in D \cap S |-> k[s]]
  <1>1. \A D \in SUBSET Service : IsFiniteSet(D \cap S) /\ Named(D) \in [D \cap S -> Nat]
    BY Digests, FS_Subset
  <1>2. \A D : ReachOver(T, k, D)[a] = SumFunction(Named(D))
    BY DEF ReachOver
  <1>3. SumFunction(Named(C)) \in Nat /\ (C = {} => SumFunction(Named(C)) = 0)
    <2>1. C = {} => C \cap S = {}
      OBVIOUS
    <2>2. IsFiniteSet(C \cap S) /\ Named(C) \in [C \cap S -> Nat]
      BY <1>1
    <2> HIDE DEF Named, S
    <2> QED BY <2>1, <2>2, SumFacts
  <1>4. ASSUME NEW s \in C
        PROVE  SumFunction(Named(C)) = SumFunction(Named(C \ {s})) + IF s \in S THEN k[s] ELSE 0
    <2>1. CASE s \in S
      <3>1. s \in C \cap S /\ Named(C)[s] = k[s] /\ [x \in (C \cap S) \ {s} |-> Named(C)[x]] = Named(C \ {s})
        BY <2>1
      <3>2. IsFiniteSet(C \cap S) /\ Named(C) \in [C \cap S -> Nat] /\ k[s] \in Nat
        BY <1>1
      <3>3. SumFunction(Named(C \ {s})) \in Nat
        <4>1. IsFiniteSet((C \ {s}) \cap S) /\ Named(C \ {s}) \in [(C \ {s}) \cap S -> Nat]
          BY <1>1
        <4> HIDE DEF Named, S
        <4> QED BY <4>1, SumFacts
      <3> HIDE DEF Named, S
      <3>4. SumFunction(Named(C)) = k[s] + SumFunction(Named(C \ {s}))
        <4> DEFINE F == Named(C)
                   D == C \cap S
        <4>1. IsFiniteSet(D) /\ F \in [D -> Nat] /\ s \in D
          BY <3>1, <3>2
        <4> HIDE DEF F, D
        <4>2. SumFunction(F) = F[s] + SumFunction([x \in D \ {s} |-> F[x]])
          BY <4>1, SumStep
        <4> QED BY <3>1, <4>2 DEF F, D
      <3> QED BY <2>1, <3>2, <3>3, <3>4
    <2>2. CASE s \notin S
      <3>1. Named(C) = Named(C \ {s})
        BY <2>2
      <3> HIDE DEF Named
      <3> QED BY <1>3, <2>2, <3>1
    <2> QED BY <2>1, <2>2
  <1> HIDE DEF Named
  <1> QED BY <1>2, <1>3, <1>4

\* Weights make a number, and none if all are 0.
LEMMA WeightType ==
  ASSUME NEW m \in [Addr -> Nat]
  PROVE  /\ [a \in Addr |-> m[a] * Hash[a]] \in [Addr -> Nat]
         /\ Weighed(m) \in Nat
         /\ (\A a \in Addr : m[a] = 0) => Weighed(m) = 0
  <1> DEFINE W == [a \in Addr |-> m[a] * Hash[a]]
  <1>1. IsFiniteSet(Addr) /\ Hash \in [Addr -> Nat]
    BY Digests
  <1>2. W \in [Addr -> Nat]
    BY <1>1
  <1>3. (\A a \in Addr : m[a] = 0) => W = [a \in Addr |-> 0]
    <2>1. \A h \in Nat : 0 * h = 0
      OBVIOUS
    <2> QED BY <1>1, <2>1
  <1>4. Weighed(m) = SumFunction(W)
    BY DEF Weighed
  <1> HIDE DEF W
  <1>5. (\A a \in Addr : m[a] = 0) => Weighed(m) = 0
    BY <1>1, <1>3, <1>4, SumZero
  <1>6. Weighed(m) \in Nat
    BY <1>1, <1>2, <1>4, SumFacts
  <1> QED BY <1>2, <1>5, <1>6 DEF W

\* A router adds its digests as often as it is named.
LEMMA Weighing ==
  ASSUME NEW m \in [Addr -> Nat], NEW n \in [Addr -> Nat], NEW N, NEW k \in Nat,
         \A a \in Addr : m[a] = n[a] + IF \E na \in N : na.addr = a THEN k ELSE 0
  PROVE  Weighed(m) = Weighed(n) + k * SumFunction([a \in Addr |-> DigestOf(N, a)])
  <1> DEFINE W(f) == [a \in Addr |-> f[a] * Hash[a]]
             D == [a \in Addr |-> DigestOf(N, a)]
             kD == [a \in Addr |-> k * D[a]]
  <1>1. IsFiniteSet(Addr) /\ Hash \in [Addr -> Nat]
    BY Digests
  <1>2. W(m) \in [Addr -> Nat] /\ W(n) \in [Addr -> Nat]
    BY <1>1, WeightType
  <1>3. D \in [Addr -> Nat]
    BY <1>1 DEF DigestOf
  <1>4. kD \in [Addr -> Nat] /\ SumFunction(kD) = k * SumFunction(D)
    <2> HIDE DEF D
    <2> QED BY <1>1, <1>3, SumTimes
  <1>5. W(m) = [a \in Addr |-> W(n)[a] + kD[a]]
    <2>1. ASSUME NEW a \in Addr PROVE m[a] * Hash[a] = n[a] * Hash[a] + k * DigestOf(N, a)
      <3>1. m[a] \in Nat /\ n[a] \in Nat /\ Hash[a] \in Nat
        BY <1>1
      <3>2. CASE \E na \in N : na.addr = a
        <4>1. m[a] = n[a] + k /\ DigestOf(N, a) = Hash[a]
          BY <3>2 DEF DigestOf
        <4>2. \A i, j, h \in Nat : (j + i) * h = j * h + i * h
          OBVIOUS
        <4> QED BY <3>1, <4>1, <4>2
      <3>3. CASE ~ \E na \in N : na.addr = a
        <4>1. m[a] = n[a] /\ DigestOf(N, a) = 0
          BY <3>1, <3>3 DEF DigestOf
        <4>2. \A i, h \in Nat : i * h \in Nat /\ i * 0 = 0
          OBVIOUS
        <4>3. n[a] * Hash[a] \in Nat /\ k * 0 = 0
          BY <3>1, <4>2
        <4> QED BY <4>1, <4>3
      <3> QED BY <3>2, <3>3
    <2> QED BY <2>1
  <1>6. Weighed(m) = SumFunction(W(m)) /\ Weighed(n) = SumFunction(W(n))
    BY DEF Weighed
  <1> HIDE DEF W, D, kD
  <1>7. SumFunction(W(m)) = SumFunction(W(n)) + SumFunction(kD)
    BY <1>1, <1>2, <1>4, <1>5, SumPlus
  <1> QED BY <1>4, <1>6, <1>7 DEF D

\* The checksum of a router, by address.
LEMMA ChecksumByAddress ==
  ASSUME NEW T \in Table, OneOwnerIn(T), NEW s \in DOMAIN T
  PROVE  /\ SumFunction([a \in Addr |-> DigestOf(T[s].addrs, a)]) \in Nat
         /\ T[s].checksum = SumFunction([a \in Addr |-> DigestOf(T[s].addrs, a)]) % 256
         /\ T[s].checksum \in Nat
  <1>1. T[s].addrs \in SUBSET NodeAddr /\ T[s] = NewRouter(T[s].addrs)
    BY TableEntry
  <1>2. \A x, y \in T[s].addrs : x.addr = y.addr => x = y
    <2> SUFFICES ASSUME NEW x \in T[s].addrs, NEW y \in T[s].addrs, x.addr = y.addr PROVE x = y
      OBVIOUS
    <2>1. Routed(T, x) /\ Routed(T, y) /\ x \in NodeAddr /\ y \in NodeAddr
      BY <1>1 DEF Routed
    <2>2. x.node = y.node
      BY <2>1 DEF OneOwnerIn
    <2> QED BY <2>1, <2>2 DEF NodeAddr
  <1>3. T[s].checksum = SumFunction([na \in T[s].addrs |-> Hash[na.addr]]) % 256
    BY <1>1 DEF NewRouter, calcChecksum
  <1>4. SumFunction([na \in T[s].addrs |-> Hash[na.addr]]) = SumFunction([a \in Addr |-> DigestOf(T[s].addrs, a)])
    BY <1>1, <1>2, SumByAddress
  <1>5. SumFunction([a \in Addr |-> DigestOf(T[s].addrs, a)]) \in Nat
    <2>1. [a \in Addr |-> DigestOf(T[s].addrs, a)] \in [Addr -> Nat] /\ IsFiniteSet(Addr)
      BY Digests DEF DigestOf
    <2> QED BY <2>1, SumFacts
  <1>6. \A x \in Nat : x % 256 \in Nat
    OBVIOUS
  <1>7. T[s].checksum = SumFunction([a \in Addr |-> DigestOf(T[s].addrs, a)]) % 256
    BY <1>3, <1>4
  <1>8. T[s].checksum \in Nat
    BY <1>5, <1>6, <1>7
  <1> QED BY <1>5, <1>7, <1>8

\* The checksums of the routers a list names add up to the digests of the
\* addresses, each as often as the list leads to it.
LEMMA CheckSumIs ==
  ASSUME NEW T \in Table, OneOwnerIn(T), NEW k \in [Service -> Nat]
  PROVE  SumOfChecksums(T, k) = Weighed(ReachOver(T, k, Service)) % 256
  <1> DEFINE Sums(C) == [s \in C \cap DOMAIN T |-> k[s] * T[s].checksum]
             R(C) == ReachOver(T, k, C)
             G == {C \in SUBSET Service : SumFunction(Sums(C)) % 256 = Weighed(R(C)) % 256}
  <1>1. IsFiniteSet(Service) /\ IsFiniteSet(Addr) /\ Hash \in [Addr -> Nat]
    BY Digests
  <1>2. \A C \in SUBSET Service : R(C) \in [Addr -> Nat]
    BY ReachStep DEF ReachOver
  <1>3. ASSUME NEW C \in SUBSET Service PROVE IsFiniteSet(C \cap DOMAIN T) /\ Sums(C) \in [C \cap DOMAIN T -> Nat]
    <2>1. IsFiniteSet(C \cap DOMAIN T)
      BY <1>1, FS_Subset
    <2>2. ASSUME NEW s \in C \cap DOMAIN T PROVE k[s] * T[s].checksum \in Nat
      <3>1. k[s] \in Nat /\ T[s].checksum \in Nat
        BY ChecksumByAddress
      <3>2. \A x, y \in Nat : x * y \in Nat
        OBVIOUS
      <3> QED BY <3>1, <3>2
    <2> QED BY <2>1, <2>2
  <1>4. ASSUME NEW C \in SUBSET Service, \A x \in C : C \ {x} \in G PROVE C \in G
    <2>1. CASE C = {}
      <3>1. SumFunction(Sums(C)) = 0
        <4>1. IsFiniteSet(C \cap DOMAIN T) /\ Sums(C) \in [C \cap DOMAIN T -> Nat] /\ C \cap DOMAIN T = {}
          BY <1>3, <2>1
        <4> HIDE DEF Sums
        <4> QED BY <4>1, SumFacts
      <3>2. \A a \in Addr : R(C)[a] = 0
        BY <2>1, ReachStep
      <3>3. Weighed(R(C)) = 0
        <4> HIDE DEF R
        <4> QED BY <1>2, <3>2, WeightType
      <3> QED BY <3>1, <3>3
    <2>2. ASSUME NEW s \in C PROVE C \in G
      <3> DEFINE U == C \ {s}
      <3>1. U \in SUBSET Service /\ SumFunction(Sums(U)) % 256 = Weighed(R(U)) % 256
        BY <1>4
      <3>2. \A a \in Addr : R(C)[a] = R(U)[a] + IF s \in ServicesOf(T, a) THEN k[s] ELSE 0
        BY ReachStep
      <3>3. CASE s \notin DOMAIN T
        <4>1. Sums(C) = Sums(U)
          BY <3>3
        <4>2. \A a \in Addr : R(C)[a] = R(U)[a]
          <5>1. \A a \in Addr : s \notin ServicesOf(T, a)
            BY <3>3 DEF ServicesOf
          <5>2. \A a \in Addr : R(U)[a] \in Nat
            BY <1>2, <3>1
          <5> HIDE DEF U, R
          <5> QED BY <3>2, <5>1, <5>2
        <4>3. R(C) = R(U)
          BY <1>2, <3>1, <4>2
        <4> QED BY <3>1, <4>1, <4>3
      <3>4. CASE s \in DOMAIN T
        <4> DEFINE N == T[s].addrs
                   D == SumFunction([a \in Addr |-> DigestOf(N, a)])
                   kD == k[s] * D
                   kSum == k[s] * T[s].checksum
        <4>1. D \in Nat /\ T[s].checksum = D % 256 /\ T[s].checksum \in Nat /\ k[s] \in Nat
          BY <3>4, ChecksumByAddress
        <4>2. \A a \in Addr : s \in ServicesOf(T, a) <=> \E na \in N : na.addr = a
          BY <3>4 DEF ServicesOf
        <4>3. Weighed(R(C)) = Weighed(R(U)) + kD
          <5>1. \A a \in Addr : R(C)[a] = R(U)[a] + IF \E na \in N : na.addr = a THEN k[s] ELSE 0
            <6> HIDE DEF N, U, R
            <6> QED BY <3>2, <4>2
          <5> DEFINE m == R(C)
                     n == R(U)
          <5>2. m \in [Addr -> Nat] /\ n \in [Addr -> Nat] /\ k[s] \in Nat
            BY <1>2, <3>1, <4>1
          <5> HIDE DEF N, m, n
          <5>3. Weighed(m) = Weighed(n) + k[s] * SumFunction([a \in Addr |-> DigestOf(N, a)])
            <6>1. \A a \in Addr : m[a] = n[a] + IF \E na \in N : na.addr = a THEN k[s] ELSE 0
              BY <5>1 DEF m, n
            <6> QED BY <5>2, <6>1, Weighing
          <5> QED BY <5>3 DEF m, n
        <4>4. SumFunction(Sums(C)) = kSum + SumFunction(Sums(U))
          <5>1. s \in C \cap DOMAIN T /\ Sums(C)[s] = kSum
                /\ [y \in (C \cap DOMAIN T) \ {s} |-> Sums(C)[y]] = Sums(U)
            BY <3>4
          <5>2. IsFiniteSet(C \cap DOMAIN T) /\ Sums(C) \in [C \cap DOMAIN T -> Nat]
            BY <1>3
          <5> HIDE DEF Sums, U, kSum
          <5>3. SumFunction(Sums(C)) = Sums(C)[s] + SumFunction([y \in (C \cap DOMAIN T) \ {s} |-> Sums(C)[y]])
            BY <5>1, <5>2, SumStep
          <5> QED BY <5>1, <5>3
        <4>5. SumFunction(Sums(U)) \in Nat
          <5>1. IsFiniteSet(U \cap DOMAIN T) /\ Sums(U) \in [U \cap DOMAIN T -> Nat]
            BY <1>3
          <5> HIDE DEF Sums, U
          <5> QED BY <5>1, SumFacts
        <4>6. Weighed(R(U)) \in Nat
          <5> HIDE DEF R
          <5> QED BY <1>2, <3>1, WeightType
        <4>7. kSum % 256 = kD % 256 /\ kSum \in Nat /\ kD \in Nat
          <5> HIDE DEF D, N
          <5> QED BY <4>1, WrapsTimes
        <4>8. SumFunction(Sums(U)) % 256 = Weighed(R(U)) % 256
          BY <3>1
        <4> HIDE DEF D, U, N, R, Sums, kD, kSum
        <4>9. (kSum + SumFunction(Sums(U))) % 256 = (Weighed(R(U)) + kD) % 256
          BY <4>5, <4>6, <4>7, <4>8, BothWrap
        <4>10. SumFunction(Sums(C)) % 256 = Weighed(R(C)) % 256
          BY <4>3, <4>4, <4>9
        <4> QED BY <4>10
      <3> QED BY <3>3, <3>4
    <2> QED BY <2>1, <2>2
  <1>5. SUBSET Service \subseteq G
    <2> HIDE DEF G
    <2> QED BY <1>1, <1>4, SubsetInduction
  <1>6. SumFunction(Sums(Service)) % 256 = Weighed(R(Service)) % 256
    BY <1>5
  <1>7. DOMAIN T \subseteq Service
    BY TableEntry
  <1>8. Sums(Service) = [s \in DOMAIN T |-> k[s] * T[s].checksum]
    BY <1>7
  <1> QED BY <1>6, <1>8 DEF SumOfChecksums

\* What an application is told when it polls: the digests of the addresses it
\* reaches, none if it has expired.
LEMMA PolledIs ==
  ASSUME NEW T \in Table, OneOwnerIn(T), NEW k \in [Service -> Nat], NEW found \in BOOLEAN
  PROVE  LET app == [found |-> found, consumers |-> k]
         IN  /\ Reached(T, app) \in [Addr -> Nat]
             /\ calcRouterCheckSum(T, app) = SumOfDigests(Reached(T, app))
  <1> DEFINE app == [found |-> found, consumers |-> k]
  <1>1. CASE found
    <2>1. \A a \in Addr : Service \cap ServicesOf(T, a) = ServicesOf(T, a)
      BY TableEntry DEF ServicesOf
    <2>2. Reached(T, app) = ReachOver(T, k, Service)
      BY <1>1, <2>1 DEF Reached, ReachOver
    <2>3. ReachOver(T, k, Service) \in [Addr -> Nat]
      BY ReachStep DEF ReachOver
    <2>4. SumOfChecksums(T, k) = Weighed(ReachOver(T, k, Service)) % 256
      BY CheckSumIs
    <2> QED BY <1>1, <2>2, <2>3, <2>4 DEF calcRouterCheckSum, SumOfDigests, Weighed
  <1>2. CASE ~ found
    <2>1. Reached(T, app) = [a \in Addr |-> 0]
      BY <1>2 DEF Reached
    <2>2. Weighed([a \in Addr |-> 0]) = 0
      BY WeightType
    <2>3. 0 % 256 = 0
      OBVIOUS
    <2> QED BY <1>2, <2>1, <2>2, <2>3 DEF calcRouterCheckSum, SumOfDigests, Weighed
  <1> QED BY <1>1, <1>2

\* A fetch gives an application the routers its list names, with the sum of
\* their checksums, and leads it to what the table leads it to.
LEMMA Fetched ==
  ASSUME NEW T \in Table, OneOwnerIn(T), NEW k \in [Service -> Nat]
  PROVE  LET app == [found |-> TRUE, consumers |-> k]
             fetched == calcRouterTable(T, app)
         IN  fetched.routers # EmptyTable =>
                 /\ fetched.checksum = SumOfDigests(Reached(T, app))
                 /\ Reached(fetched.routers, app) = Reached(T, app)
  <1> DEFINE app == [found |-> TRUE, consumers |-> k]
             named == {s \in DOMAIN T : k[s] > 0}
             fetched == calcRouterTable(T, app)
  <1> SUFFICES ASSUME fetched.routers # EmptyTable
               PROVE  /\ fetched.checksum = SumOfDigests(Reached(T, app))
                      /\ Reached(fetched.routers, app) = Reached(T, app)
    OBVIOUS
  <1>1. /\ fetched.routers = [s \in named |-> T[s]]
        /\ fetched.checksum = IF named = {} THEN NoChecksum ELSE SumOfChecksums(T, k)
    BY DEF calcRouterTable
  <1>2. named # {}
    BY <1>1 DEF EmptyTable
  <1>3. fetched.checksum = SumOfDigests(Reached(T, app))
    BY <1>1, <1>2, PolledIs DEF calcRouterCheckSum
  <1>4. ASSUME NEW a \in Addr
        PROVE  SumFunction([s \in ServicesOf(fetched.routers, a) |-> k[s]])
                 = SumFunction([s \in ServicesOf(T, a) |-> k[s]])
    <2> DEFINE S == ServicesOf(T, a)
               f == [s \in S |-> k[s]]
               Z == {s \in S : k[s] = 0}
    <2>1. DOMAIN T \subseteq Service /\ S \subseteq DOMAIN T
      BY TableEntry DEF ServicesOf
    <2>2. ServicesOf(fetched.routers, a) = S \ Z
      <3>1. \A s \in DOMAIN T : k[s] > 0 <=> k[s] # 0
        BY <2>1
      <3> QED BY <1>1, <3>1 DEF ServicesOf
    <2>3. IsFiniteSet(S) /\ f \in [S -> Nat] /\ Z \in SUBSET S /\ \A s \in Z : f[s] = 0
      BY <2>1, Digests, FS_Subset
    <2>4. [s \in S \ Z |-> k[s]] = [s \in S \ Z |-> f[s]]
      OBVIOUS
    <2>5. SumFunction([s \in S \ Z |-> f[s]]) = SumFunction(f)
      <3> HIDE DEF S, f, Z
      <3> QED BY <2>3, SumDrop
    <2> QED BY <2>2, <2>4, <2>5
  <1>5. Reached(fetched.routers, app) = Reached(T, app)
    <2> HIDE DEF fetched
    <2> QED BY <1>4 DEF Reached
  <1> QED BY <1>3, <1>5

\* One address reached once more changes the sum, if its digest is not zero.
LEMMA OneMoreShows ==
  ASSUME NEW m \in [Addr -> Nat], NEW a \in Addr, Hash[a] # 0
  PROVE  SumOfDigests(OneMore(m, a)) # SumOfDigests(m)
  <1> DEFINE n == OneMore(m, a)
             W(f) == [b \in Addr |-> f[b] * Hash[b]]
             One == [b \in Addr |-> IF b = a THEN Hash[a] ELSE 0]
  <1>1. IsFiniteSet(Addr) /\ Hash \in [Addr -> Nat] /\ Hash[a] \in 0..255
    BY Digests, HashAssumption
  <1>2. n \in [Addr -> Nat] /\ \A b \in Addr : n[b] = m[b] + IF b = a THEN 1 ELSE 0
    BY DEF OneMore
  <1>3. W(m) \in [Addr -> Nat] /\ Weighed(m) \in Nat
    BY WeightType
  <1>4. One \in [Addr -> Nat] /\ SumFunction(One) = Hash[a]
    BY <1>1, SumPoint
  <1>5. W(n) = [b \in Addr |-> W(m)[b] + One[b]]
    <2>1. ASSUME NEW b \in Addr PROVE n[b] * Hash[b] = m[b] * Hash[b] + One[b]
      <3>1. m[b] \in Nat /\ Hash[b] \in Nat
        BY <1>1
      <3>2. \A j, h \in Nat : (j + 1) * h = j * h + h /\ j * h \in Nat
        OBVIOUS
      <3>3. CASE b = a
        <4>1. n[b] = m[b] + 1 /\ One[b] = Hash[b]
          BY <1>2, <3>3
        <4> HIDE DEF n, One
        <4> QED BY <3>1, <3>2, <4>1
      <3>4. CASE b # a
        <4>1. n[b] = m[b] /\ One[b] = 0
          BY <1>2, <3>1, <3>4
        <4> HIDE DEF n, One
        <4> QED BY <3>1, <3>2, <4>1
      <3> QED BY <3>3, <3>4
    <2> QED BY <2>1
  <1>6. Weighed(n) = Weighed(m) + Hash[a]
    <2>1. Weighed(n) = SumFunction(W(n)) /\ Weighed(m) = SumFunction(W(m))
      BY DEF Weighed
    <2> HIDE DEF W, One, n
    <2> QED BY <1>1, <1>3, <1>4, <1>5, <2>1, SumPlus
  <1>7. \A w \in Nat, h \in 0..255 : h # 0 => (w + h) % 256 # w % 256
    OBVIOUS
  <1>8. Weighed(n) % 256 # Weighed(m) % 256
    BY <1>1, <1>3, <1>6, <1>7
  <1> QED BY <1>8 DEF SumOfDigests, Weighed

\* Over any changes of the tables, an application that polls for its checksum
\* is told of one address more or less, of nothing if nothing changed for it,
\* and otherwise of what the sum of the digests shows; whatever the list of the
\* services it consumes.
THEOREM PollingTells ==
  Spec => [](PollingSound /\ \A consumers \in [Service -> Nat] : Told(consumers))
  <1> DEFINE ToldAll == \A consumers \in [Service -> Nat] : Told(consumers)
  <1>1. TypeOK /\ OneOwner => ToldAll
    <2> SUFFICES ASSUME TypeOK, OneOwner, NEW k \in [Service -> Nat], NEW c \in Syncer, NEW h \in Node,
                        NEW found \in BOOLEAN,
                        calcRouterTable(listed[c].table, [found |-> TRUE, consumers |-> k]).routers # EmptyTable
                 PROVE  ToldOf(calcRouterTable(listed[c].table, [found |-> TRUE, consumers |-> k]), routers[h],
                               k, found)
      BY DEF Told
    <2> DEFINE then    == [found |-> TRUE, consumers |-> k]
               app     == [found |-> found, consumers |-> k]
               T       == listed[c].table
               U       == routers[h]
               fetched == calcRouterTable(T, then)
               was     == Reached(fetched.routers, then)
               is      == Reached(U, app)
               same    == calcRouterCheckSum(U, app) = fetched.checksum
    <2>1. T \in Table /\ U \in Table /\ OneOwnerIn(T) /\ OneOwnerIn(U)
      BY DEF TypeOK, OneOwner
    <2>2. fetched.checksum = SumOfDigests(was) /\ was \in [Addr -> Nat]
      <3>1. fetched.routers # EmptyTable
        OBVIOUS
      <3> HIDE DEF T
      <3>2. fetched.checksum = SumOfDigests(Reached(T, then)) /\ was = Reached(T, then)
        BY <2>1, <3>1, Fetched
      <3>3. Reached(T, then) \in [Addr -> Nat]
        BY <2>1, PolledIs
      <3> QED BY <3>2, <3>3
    <2>3. calcRouterCheckSum(U, app) = SumOfDigests(is) /\ is \in [Addr -> Nat]
      <3> HIDE DEF U
      <3> QED BY <2>1, PolledIs
    <2> HIDE DEF was, is
    <2>4. same <=> SumOfDigests(was) = SumOfDigests(is)
      BY <2>2, <2>3
    <2>5. \A a \in Addr : (is = OneMore(was, a) \/ was = OneMore(is, a)) /\ Hash[a] # 0
                            => SumOfDigests(was) # SumOfDigests(is)
      BY <2>2, <2>3, OneMoreShows
    <2>6. /\ was = is => same
          /\ \A a \in Addr : (is = OneMore(was, a) \/ was = OneMore(is, a)) /\ Hash[a] # 0 => ~ same
          /\ same <=> SumOfDigests(was) = SumOfDigests(is)
      <3> HIDE DEF same
      <3> QED BY <2>4, <2>5
    <2> QED BY <2>6, Zenon DEF ToldOf, was, is, same
  <1>2. ToldAll => PollingSound
    <2>1. [Service -> 0..2] \subseteq [Service -> Nat]
      OBVIOUS
    <2> QED BY <2>1 DEF PollingSound
  <1> QED
    BY <1>1, <1>2, TypeCorrect, OwnersUnique, PTL

=============================================================================
