-------------------------- MODULE DiscoveryProofs --------------------------
(***************************************************************************)
(* Proofs about discovery across a cluster, for any agents, applications,  *)
(* services, sync commands and digests, and any bounds on the events and   *)
(* the faults.                                                             *)
(***************************************************************************)
EXTENDS Discovery, CommonLemmas, FiniteSetTheorems

\* The operations of the tables the agents have are those of RouterOps.
LEMMA SameRouters ==
  /\ \A A : Tables!NewRouter(A) = NewRouter(A)
  /\ Tables!Table = Table
  /\ Tables!EmptyTable = EmptyTable
  <1>1. \A A : Tables!NewRouter(A) = NewRouter(A)
    BY DEF Tables!NewRouter, NewRouter, Tables!calcChecksum, calcChecksum,
           Tables!SumFunction, SumFunction, Tables!SumFunctionOnSet, SumFunctionOnSet,
           Tables!FoldFunctionOnSet, FoldFunctionOnSet, Tables!MapThenFoldSet, MapThenFoldSet
  <1>2. Tables!Router = Router
    BY <1>1, Zenon DEF Tables!Router, Router, Tables!NodeAddr, NodeAddr
  <1>3. Tables!Table = Table
    BY <1>2, Zenon DEF Tables!Table, Table
  <1>4. Tables!EmptyTable = EmptyTable
    BY DEF Tables!EmptyTable, EmptyTable
  <1> QED BY <1>1, <1>3, <1>4

\* The operations on tables are the same through the instance of RouterTable.
LEMMA SameOps ==
  /\ \A T, d : Tables!Prune(T, d) = Prune(T, d)
  /\ \A T, a : Tables!removeRouter(T, a) = removeRouter(T, a)
  /\ \A T, n : Tables!removeRouterByHost(T, n) = removeRouterByHost(T, n)
  /\ \A T, n, a, ss : Tables!addRouter(T, n, a, ss) = addRouter(T, n, a, ss)
  <1>1. \A T, d : Tables!Prune(T, d) = Prune(T, d)
    BY SameRouters, Zenon DEF Tables!Prune, Prune
  <1>2. \A T, a : Tables!removeRouter(T, a) = removeRouter(T, a)
    BY <1>1 DEF Tables!removeRouter, removeRouter, Tables!NodeAddr, NodeAddr
  <1>3. \A T, n : Tables!removeRouterByHost(T, n) = removeRouterByHost(T, n)
    BY <1>1 DEF Tables!removeRouterByHost, removeRouterByHost, Tables!NodeAddr, NodeAddr
  <1>4. \A T, n, a, ss : Tables!addRouter(T, n, a, ss) = addRouter(T, n, a, ss)
    BY DEF Tables!addRouter, addRouter, Tables!removeRouter, removeRouter, Tables!NodeAddr, NodeAddr,
           Tables!Prune, Prune, Tables!NewRouter, NewRouter, Tables!calcChecksum, calcChecksum,
           Tables!SumFunction, SumFunction, Tables!SumFunctionOnSet, SumFunctionOnSet,
           Tables!FoldFunctionOnSet, FoldFunctionOnSet, Tables!MapThenFoldSet, MapThenFoldSet
  <1> QED BY <1>1, <1>2, <1>3, <1>4

-----------------------------------------------------------------------------
\* A table of which every address has one agent, and is routed as one event
\* that was broadcast says.
Sound(T, E) ==
    /\ OneOwnerIn(T)
    /\ \A s \in DOMAIN T : \A na \in T[s].addrs :
          \E e \in E : /\ e.name = RSCommand /\ e.node = na.node /\ e.addr = na.addr
                       /\ e.services = ServicesOf(T, na.addr)

\* An empty table is sound, and a sound one stays so when more is broadcast.
LEMMA SoundMore ==
  /\ \A E : Sound(EmptyTable, E)
  /\ \A T, E, F : Sound(T, E) /\ E \subseteq F => Sound(T, F)
  BY EmptyTableType, EmptyOneOwner DEF Sound

\* Removing all entries of some addresses leaves the others as they were.
LEMMA SoundPrune ==
  ASSUME NEW E, NEW T \in Table, Sound(T, E), NEW dead \in SUBSET NodeAddr, NEW A \in SUBSET Addr,
         \A na \in NodeAddr : Routed(T, na) => (na \in dead <=> na.addr \in A)
  PROVE  Sound(Prune(T, dead), E)
  <1> DEFINE P == Prune(T, dead)
  <1>1. OneOwnerIn(P)
    BY PruneOneOwner DEF Sound
  <1>2. \A a \in Addr : ServicesOf(P, a) = IF a \in A THEN {} ELSE ServicesOf(T, a)
    BY PruneServices
  <1>3. /\ DOMAIN P = {s \in DOMAIN T : T[s].addrs \ dead # {}}
        /\ \A s \in DOMAIN P : P[s].addrs = T[s].addrs \ dead
    BY PruneEntries
  <1> HIDE DEF P
  <1>4. ASSUME NEW s \in DOMAIN P, NEW na \in P[s].addrs
        PROVE  \E e \in E : /\ e.name = RSCommand /\ e.node = na.node /\ e.addr = na.addr
                            /\ e.services = ServicesOf(P, na.addr)
    <2>1. s \in DOMAIN T /\ na \in T[s].addrs /\ na \notin dead
      BY <1>3
    <2>2. na \in NodeAddr /\ na.addr \in Addr
      BY <2>1, TableEntry DEF NodeAddr
    <2>3. na.addr \notin A
      BY <2>1, <2>2 DEF Routed
    <2>4. ServicesOf(P, na.addr) = ServicesOf(T, na.addr)
      BY <1>2, <2>2, <2>3
    <2> QED BY <2>1, <2>4 DEF Sound
  <1> QED BY <1>1, <1>4 DEF Sound, P

\* The removal of an address, and that of an agent with all its addresses.
LEMMA SoundRemove ==
  ASSUME NEW E, NEW T \in Table, Sound(T, E)
  PROVE  /\ \A a \in Addr : removeRouter(T, a) \in Table /\ Sound(removeRouter(T, a), E)
         /\ \A n \in Node : removeRouterByHost(T, n) \in Table /\ Sound(removeRouterByHost(T, n), E)
  <1>1. ASSUME NEW a \in Addr
        PROVE  removeRouter(T, a) \in Table /\ Sound(removeRouter(T, a), E)
    <2> DEFINE dead == {na \in NodeAddr : na.addr = a}
    <2>1. \A na \in NodeAddr : na \in dead <=> na.addr \in {a}
      OBVIOUS
    <2>2. Prune(T, dead) \in Table
      BY PruneEntries
    <2>3. Sound(Prune(T, dead), E)
      <3> HIDE DEF dead
      <3>1. dead \in SUBSET NodeAddr /\ {a} \in SUBSET Addr
        BY DEF dead
      <3> QED BY <2>1, <3>1, SoundPrune
    <2> QED BY <2>2, <2>3 DEF removeRouter
  <1>2. ASSUME NEW n \in Node
        PROVE  removeRouterByHost(T, n) \in Table /\ Sound(removeRouterByHost(T, n), E)
    <2> DEFINE dead == {na \in NodeAddr : na.node = n}
               A    == {a \in Addr : Routed(T, [node |-> n, addr |-> a])}
    <2>1. ASSUME NEW na \in NodeAddr, Routed(T, na)
          PROVE  na \in dead <=> na.addr \in A
      <3>1. na.node \in Node /\ na.addr \in Addr /\ na = [node |-> na.node, addr |-> na.addr]
        BY DEF NodeAddr
      <3>2. CASE na.node = n
        BY <2>1, <3>1, <3>2
      <3>3. CASE na.node # n
        <4>1. [node |-> n, addr |-> na.addr] \in NodeAddr
          BY <3>1 DEF NodeAddr
        <4>2. ~ Routed(T, [node |-> n, addr |-> na.addr])
          BY <2>1, <3>3, <4>1 DEF Sound, OneOwnerIn
        <4> QED BY <3>3, <4>2
      <3> QED BY <3>2, <3>3
    <2>2. Prune(T, dead) \in Table
      BY PruneEntries
    <2>3. Sound(Prune(T, dead), E)
      <3> HIDE DEF dead, A
      <3>1. dead \in SUBSET NodeAddr /\ A \in SUBSET Addr
        BY DEF dead, A
      <3> QED BY <2>1, <3>1, SoundPrune
    <2> QED BY <2>2, <2>3 DEF removeRouterByHost
  <1> QED BY <1>1, <1>2

\* A registration that was broadcast.
LEMMA SoundAdd ==
  ASSUME NEW E, NEW T \in Table, Sound(T, E), NEW e \in E, e.name = RSCommand,
         e.node \in Node, e.addr \in Addr, e.services \in SUBSET Service
  PROVE  /\ addRouter(T, e.node, e.addr, e.services) \in Table
         /\ Sound(addRouter(T, e.node, e.addr, e.services), E)
  <1> DEFINE R == addRouter(T, e.node, e.addr, e.services)
  <1>1. R \in Table /\ OneOwnerIn(R)
    BY AddEntries, AddOneOwner DEF Sound
  <1>2. \A s \in Service, na \in NodeAddr :
              (s \in DOMAIN R /\ na \in R[s].addrs)
              <=> IF na.addr = e.addr THEN na.node = e.node /\ s \in e.services
                  ELSE s \in DOMAIN T /\ na \in T[s].addrs
    BY AddEntries
  <1>3. \A b \in Addr : ServicesOf(R, b) = IF b = e.addr THEN e.services ELSE ServicesOf(T, b)
    BY AddServices
  <1> HIDE DEF R
  <1>4. ASSUME NEW s \in DOMAIN R, NEW na \in R[s].addrs
        PROVE  \E f \in E : /\ f.name = RSCommand /\ f.node = na.node /\ f.addr = na.addr
                            /\ f.services = ServicesOf(R, na.addr)
    <2>1. s \in Service /\ na \in NodeAddr /\ na.addr \in Addr
      BY <1>1, TableEntry DEF NodeAddr
    <2>2. CASE na.addr = e.addr
      BY <1>2, <1>3, <2>1, <2>2
    <2>3. CASE na.addr # e.addr
      <3>1. s \in DOMAIN T /\ na \in T[s].addrs
        BY <1>2, <2>1, <2>3
      <3>2. ServicesOf(R, na.addr) = ServicesOf(T, na.addr)
        BY <1>3, <2>1, <2>3
      <3> QED BY <3>1, <3>2 DEF Sound
    <2> QED BY <2>2, <2>3
  <1> QED BY <1>1, <1>4 DEF Sound, R

-----------------------------------------------------------------------------
\* The types of what an agent keeps, ...
AgentTypes ==
    /\ up \subseteq Node
    /\ apps \in [Node -> AppCache]
    /\ calls \subseteq Call
    /\ expired \in [Node -> SUBSET SUBSET Addr]
    /\ sending \in [Node -> SUBSET Addr]
    /\ reports \in [Node -> SUBSET Node]
    /\ faults \in Faults

\* ... and of the events, of which an agent handles only those that were
\* broadcast, apart from the reports of members.
EventTypes ==
    /\ clock \in [Node -> Nat \ {0}]
    /\ IsFiniteSet(sent)
    /\ \A e \in sent : e \in Event /\ e.name # MemberDown /\ e.addr \in Addr
    /\ inbox \in [Node -> SUBSET sent] /\ latest \in [Node -> SUBSET sent]
    /\ eventCh \in [Node -> Seq(Event)]
    /\ \A n \in Node : \A i \in 1..Len(eventCh[n]) : eventCh[n][i].name = MemberDown \/ eventCh[n][i] \in sent

\* An application entered in, marked in and deleted from a cache.
LEMMA CacheTypes ==
  /\ EmptyTable \in AppCache
  /\ \A f \in AppCache, a \in Addr, x \in App :
        [b \in DOMAIN f \cup {a} |-> IF b = a THEN x ELSE f[b]] \in AppCache
  /\ \A f \in AppCache : \A a \in DOMAIN f : [f EXCEPT ![a].expired = TRUE] \in AppCache
  /\ \A A : \A f \in AppCache : [a \in DOMAIN f \ A |-> f[a]] \in AppCache
  <1>1. EmptyTable \in AppCache
    BY DEF EmptyTable, AppCache
  <1>2. ASSUME NEW f \in AppCache
        PROVE  DOMAIN f \in SUBSET Addr /\ f \in [DOMAIN f -> App]
    BY DEF AppCache
  <1>3. ASSUME NEW A \in SUBSET Addr, NEW f \in [A -> App]
        PROVE  f \in AppCache
    BY DEF AppCache
  <1>4. ASSUME NEW f \in AppCache, NEW a \in Addr, NEW x \in App
        PROVE  [b \in DOMAIN f \cup {a} |-> IF b = a THEN x ELSE f[b]] \in AppCache
    <2>1. [b \in DOMAIN f \cup {a} |-> IF b = a THEN x ELSE f[b]] \in [DOMAIN f \cup {a} -> App]
      BY <1>2
    <2> QED BY <1>2, <1>3, <2>1
  <1>5. ASSUME NEW f \in AppCache, NEW a \in DOMAIN f
        PROVE  [f EXCEPT ![a].expired = TRUE] \in AppCache
    <2>1. f[a] \in App
      BY <1>2
    <2>2. [f[a] EXCEPT !.expired = TRUE] \in App
      BY <2>1 DEF App
    <2>3. [f EXCEPT ![a].expired = TRUE] \in [DOMAIN f -> App]
      BY <1>2, <2>2
    <2> QED BY <1>2, <1>3, <2>3
  <1>6. ASSUME NEW f \in AppCache, NEW A
        PROVE  [a \in DOMAIN f \ A |-> f[a]] \in AppCache
    <2>1. [a \in DOMAIN f \ A |-> f[a]] \in [DOMAIN f \ A -> App]
      BY <1>2
    <2> QED BY <1>2, <1>3, <2>1
  <1> QED BY <1>1, <1>4, <1>5, <1>6

\* Every step keeps the types of what the agents have.
LEMMA AgentTypesStep ==
  ASSUME AgentTypes, [Next]_vars
  PROVE  AgentTypes'
  <1> USE DEF AgentTypes
  <1>1. CASE UNCHANGED <<up, apps, calls, expired, sending, reports, faults>>
    BY <1>1
  <1>2. ASSUME NEW n \in Node, Receive(n) \/ Flush(n) \/ HandleEvent(n)
        PROVE  AgentTypes'
    BY <1>1, <1>2 DEF Receive, Flush, HandleEvent
  <1>3. ASSUME NEW n \in Node, DeleteExpired(n)
        PROVE  AgentTypes'
    <2> DEFINE gone == {a \in DOMAIN apps[n] : apps[n][a].expired}
    <2>1. gone \in SUBSET Addr
      BY DEF AppCache
    <2>2. [a \in DOMAIN apps[n] \ gone |-> apps[n][a]] \in AppCache
      <3> HIDE DEF gone
      <3> QED BY CacheTypes
    <2>3. /\ apps' = [apps EXCEPT ![n] = [a \in DOMAIN apps[n] \ gone |-> apps[n][a]]]
          /\ expired' = [expired EXCEPT ![n] = @ \cup {gone}]
          /\ UNCHANGED <<up, calls, sending, reports, faults>>
      BY <1>3 DEF DeleteExpired
    <2> HIDE DEF gone
    <2> QED BY <2>1, <2>2, <2>3
  <1>4. ASSUME NEW n \in Node, OnAppExpired(n)
        PROVE  AgentTypes'
    BY <1>4 DEF OnAppExpired
  <1>5. ASSUME NEW n \in Node, UnregisterService(n)
        PROVE  AgentTypes'
    BY <1>5 DEF UnregisterService
  <1>6. ASSUME NEW n \in Node, ReportDown(n)
        PROVE  AgentTypes'
    <2>1. PICK m \in reports[n] : reports' = [reports EXCEPT ![n] = @ \ {m}]
      BY <1>6 DEF ReportDown
    <2>2. reports' \in [Node -> SUBSET Node]
      BY <2>1
    <2> QED BY <1>6, <2>2 DEF ReportDown
  <1>7. ASSUME NEW m \in Node, Stop(m)
        PROVE  AgentTypes'
    <2>1. faults' \in Faults
      BY <1>7, BoundAssumption DEF Stop, Faults
    <2>2. apps' \in [Node -> AppCache]
      BY <1>7, CacheTypes DEF Stop
    <2>3. reports' \in [Node -> SUBSET Node]
      BY <1>7 DEF Stop
    <2> QED BY <1>7, <2>1, <2>2, <2>3 DEF Stop
  <1>8. ASSUME NEW m \in Node, Restart(m)
        PROVE  AgentTypes'
    <2>1. reports' \in [Node -> SUBSET Node]
      BY <1>8 DEF Restart
    <2> QED BY <1>8, <2>1 DEF Restart
  <1>9. ASSUME NEW n \in Node, NEW a \in Addr, NEW ps \in Providers, Register(n, a, ps)
        PROVE  AgentTypes'
    <2>1. ps \in SUBSET Service
      BY ScenarioAssumption
    <2>2. [providers |-> ps, expired |-> FALSE] \in App
      BY <2>1 DEF App
    <2>3. [b \in DOMAIN apps[n] \cup {a} |->
             IF b = a THEN [providers |-> ps, expired |-> FALSE] ELSE apps[n][b]] \in AppCache
      <3> DEFINE x == [providers |-> ps, expired |-> FALSE]
      <3>1. x \in App /\ apps[n] \in AppCache
        BY <2>2
      <3> HIDE DEF x
      <3>2. [b \in DOMAIN apps[n] \cup {a} |-> IF b = a THEN x ELSE apps[n][b]] \in AppCache
        BY <3>1, CacheTypes
      <3> QED BY <3>2 DEF x
    <2>4. apps' \in [Node -> AppCache]
      BY <1>9, <2>3 DEF Register
    <2>5. calls' \subseteq Call
      BY <1>9, <2>1 DEF Register, FreeIds, Call
    <2> QED BY <1>9, <2>4, <2>5 DEF Register
  <1>10. ASSUME NEW c \in calls, RegisterService(c)
         PROVE  AgentTypes'
    BY <1>10 DEF RegisterService
  <1>11. ASSUME NEW n \in Node, NEW a \in Addr, Lapse(n, a)
         PROVE  AgentTypes'
    <2>1. a \in DOMAIN apps[n] /\ apps' = [apps EXCEPT ![n][a].expired = TRUE]
          /\ UNCHANGED <<up, calls, expired, sending, reports, faults>>
      BY <1>11 DEF Lapse
    <2>2. [apps[n] EXCEPT ![a].expired = TRUE] \in AppCache
      BY <2>1, CacheTypes
    <2>3. apps' = [apps EXCEPT ![n] = [apps[n] EXCEPT ![a].expired = TRUE]]
      BY <2>1
    <2> QED BY <2>1, <2>2, <2>3
  <1>12. ASSUME NEW n \in Node, NEW m \in Node, Suspect(n, m)
         PROVE  AgentTypes'
    BY <1>12, BoundAssumption DEF Suspect, Faults
  <1>13. ASSUME NEW c \in Syncer, NEW h \in Node, NEW m \in Node, SyncList(c, h, m)
         PROVE  AgentTypes'
    BY <1>1, <1>13 DEF SyncList, rest
  <1>14. ASSUME NEW c \in Syncer, SyncUpdate(c) \/ SyncFails(c)
         PROVE  AgentTypes'
    BY <1>1, <1>14 DEF SyncUpdate, SyncFails, rest
  <1> QED
    BY <1>1, <1>2, <1>3, <1>4, <1>5, <1>6, <1>7, <1>8, <1>9, <1>10, <1>11, <1>12, <1>13, <1>14
    DEF Next, vars

\* A broadcast adds one event with the sender's time.
LEMMA UserEventTypes ==
  ASSUME EventTypes, NEW n \in Node, NEW name \in {RSCommand, URSCommand}, NEW a \in Addr,
         NEW ss \in SUBSET Service, UserEvent(n, name, a, ss), UNCHANGED eventCh
  PROVE  EventTypes' /\ sent \subseteq sent'
  <1> DEFINE e == [name |-> name, ltime |-> clock[n], node |-> n, addr |-> a, services |-> ss]
  <1>1. /\ sent' = sent \cup {e}
        /\ clock' = [clock EXCEPT ![n] = @ + 1]
        /\ latest' = [latest EXCEPT ![n] = Coalesce(@, e)]
        /\ inbox' = [m \in Node |-> IF m \in up \ {n} THEN inbox[m] \cup {e} ELSE inbox[m]]
    BY DEF UserEvent
  <1>2. e \in Event /\ e.name # MemberDown /\ e.addr \in Addr
    BY DEF EventTypes, Event, RSCommand, URSCommand, MemberDown
  <1> HIDE DEF e
  <1>3. Coalesce(latest[n], e) \subseteq latest[n] \cup {e}
    BY DEF Coalesce
  <1>4. IsFiniteSet(sent')
    BY <1>1, FS_AddElement DEF EventTypes
  <1>5. latest' \in [Node -> SUBSET sent'] /\ inbox' \in [Node -> SUBSET sent']
    BY <1>1, <1>3 DEF EventTypes
  <1>6. clock' \in [Node -> Nat \ {0}]
    BY <1>1 DEF EventTypes
  <1>7. \A f \in sent' : f \in Event /\ f.name # MemberDown /\ f.addr \in Addr
    BY <1>1, <1>2 DEF EventTypes
  <1> QED BY <1>1, <1>4, <1>5, <1>6, <1>7 DEF EventTypes

\* The events of a flush, listed in some order.
LEMMA OrdersTypes ==
  ASSUME EventTypes, NEW n \in Node, NEW s \in Orders(latest[n])
  PROVE  s \in Seq(Event) /\ \A i \in 1..Len(s) : s[i] \in sent
  <1>1. IsFiniteSet(latest[n]) /\ latest[n] \subseteq sent
    BY FS_Subset DEF EventTypes
  <1>2. Cardinality(latest[n]) \in Nat
    BY <1>1, FS_CardinalityType
  <1>3. s \in [1..Cardinality(latest[n]) -> latest[n]]
    BY DEF Orders
  <1>4. latest[n] \subseteq Event
    BY <1>1 DEF EventTypes
  <1> QED BY <1>1, <1>2, <1>3, <1>4

\* Every step keeps the types of the events, and takes back no broadcast.
LEMMA EventTypesStep ==
  ASSUME AgentTypes, EventTypes, [Next]_vars
  PROVE  EventTypes' /\ sent \subseteq sent'
  <1>1. CASE UNCHANGED <<clock, sent, inbox, latest, eventCh>>
    BY <1>1 DEF EventTypes
  <1>2. ASSUME NEW n \in Node, Receive(n)
        PROVE  EventTypes' /\ sent \subseteq sent'
    <2>1. PICK e \in inbox[n] :
            /\ inbox' = [inbox EXCEPT ![n] = @ \ {e}]
            /\ clock' = [clock EXCEPT ![n] = IF e.ltime >= @ THEN e.ltime + 1 ELSE @]
            /\ latest' = [latest EXCEPT ![n] = Coalesce(@, e)]
      BY <1>2 DEF Receive
    <2>2. UNCHANGED <<sent, eventCh>>
      BY <1>2 DEF Receive
    <2>3. e \in sent /\ e.ltime \in Nat
      <3>1. e \in sent
        BY DEF EventTypes
      <3>2. e \in Event
        BY <3>1 DEF EventTypes
      <3> QED BY <3>1, <3>2 DEF Event
    <2>4. Coalesce(latest[n], e) \subseteq latest[n] \cup {e}
      BY DEF Coalesce
    <2>5. latest' \in [Node -> SUBSET sent'] /\ inbox' \in [Node -> SUBSET sent']
      BY <2>1, <2>2, <2>3, <2>4 DEF EventTypes
    <2>6. clock' \in [Node -> Nat \ {0}]
      BY <2>1, <2>3 DEF EventTypes
    <2> QED BY <2>2, <2>5, <2>6 DEF EventTypes
  <1>3. ASSUME NEW n \in Node, Flush(n)
        PROVE  EventTypes' /\ sent \subseteq sent'
    <2>1. PICK s \in Orders(latest[n]) : eventCh' = [eventCh EXCEPT ![n] = @ \o s]
      BY <1>3 DEF Flush
    <2>2. latest' = [latest EXCEPT ![n] = {}] /\ UNCHANGED <<clock, sent, inbox>>
      BY <1>3 DEF Flush
    <2>3. s \in Seq(Event) /\ \A i \in 1..Len(s) : s[i] \in sent
      BY OrdersTypes
    <2>4. eventCh[n] \in Seq(Event)
      BY DEF EventTypes
    <2>5. eventCh[n] \o s \in Seq(Event)
          /\ \A i \in 1..Len(eventCh[n] \o s) :
                (eventCh[n] \o s)[i].name = MemberDown \/ (eventCh[n] \o s)[i] \in sent
      BY <2>3, <2>4 DEF EventTypes
    <2> QED BY <2>1, <2>2, <2>5 DEF EventTypes
  <1>4. ASSUME NEW n \in Node, HandleEvent(n)
        PROVE  EventTypes' /\ sent \subseteq sent'
    <2>1. eventCh[n] # <<>> /\ eventCh' = [eventCh EXCEPT ![n] = Tail(@)]
          /\ UNCHANGED <<clock, sent, inbox, latest>>
      BY <1>4 DEF HandleEvent
    <2>2. eventCh[n] \in Seq(Event)
      BY DEF EventTypes
    <2>3. Tail(eventCh[n]) \in Seq(Event)
          /\ \A i \in 1..Len(Tail(eventCh[n])) :
                Tail(eventCh[n])[i].name = MemberDown \/ Tail(eventCh[n])[i] \in sent
      BY <2>1, <2>2 DEF EventTypes
    <2> QED BY <2>1, <2>3 DEF EventTypes
  <1>5. ASSUME NEW n \in Node, UnregisterService(n)
        PROVE  EventTypes' /\ sent \subseteq sent'
    <2>1. PICK a \in sending[n] : UserEvent(n, URSCommand, a, {})
      BY <1>5 DEF UnregisterService
    <2>2. UNCHANGED eventCh
      BY <1>5 DEF UnregisterService
    <2>3. a \in Addr
      BY DEF AgentTypes
    <2> QED BY <2>1, <2>2, <2>3, UserEventTypes
  <1>6. ASSUME NEW n \in Node, ReportDown(n)
        PROVE  EventTypes' /\ sent \subseteq sent'
    <2>1. PICK m \in reports[n] : eventCh' = [eventCh EXCEPT ![n] =
                Append(@, [name |-> MemberDown, ltime |-> 0, node |-> m, addr |-> "", services |-> {}])]
      BY <1>6 DEF ReportDown
    <2> DEFINE e == [name |-> MemberDown, ltime |-> 0, node |-> m, addr |-> "", services |-> {}]
    <2>2. e \in Event /\ e.name = MemberDown
      BY DEF AgentTypes, Event
    <2>3. eventCh' = [eventCh EXCEPT ![n] = Append(@, e)] /\ UNCHANGED <<clock, sent, inbox, latest>>
      BY <1>6, <2>1 DEF ReportDown
    <2> HIDE DEF e
    <2>4. eventCh[n] \in Seq(Event)
      BY DEF EventTypes
    <2>5. Append(eventCh[n], e) \in Seq(Event)
          /\ \A i \in 1..Len(Append(eventCh[n], e)) :
                Append(eventCh[n], e)[i].name = MemberDown \/ Append(eventCh[n], e)[i] \in sent
      BY <2>2, <2>4 DEF EventTypes
    <2> QED BY <2>3, <2>5 DEF EventTypes
  <1>7. ASSUME NEW m \in Node, Stop(m)
        PROVE  EventTypes' /\ sent \subseteq sent'
    BY <1>7 DEF Stop, EventTypes
  <1>8. ASSUME NEW m \in Node, Restart(m)
        PROVE  EventTypes' /\ sent \subseteq sent'
    <2>1. clock' \in [Node -> Nat \ {0}]
      BY <1>8 DEF Restart, AgentTypes, EventTypes
    <2>2. inbox' \in [Node -> SUBSET sent']
      BY <1>8 DEF Restart, EventTypes
    <2> QED BY <1>8, <2>1, <2>2 DEF Restart, EventTypes
  <1>9. ASSUME NEW c \in calls, RegisterService(c)
        PROVE  EventTypes' /\ sent \subseteq sent'
    <2>1. c.node \in Node /\ c.addr \in Addr /\ c.services \in SUBSET Service
      BY DEF AgentTypes, Call
    <2>2. CASE c.services \in Oversized
      BY <1>1, <1>9, <2>2 DEF RegisterService
    <2>3. CASE c.services \notin Oversized
      BY <1>9, <2>1, <2>3, UserEventTypes DEF RegisterService
    <2> QED BY <2>2, <2>3
  <1>10. ASSUME NEW n \in Node, DeleteExpired(n) \/ OnAppExpired(n)
         PROVE  EventTypes' /\ sent \subseteq sent'
    BY <1>1, <1>10 DEF DeleteExpired, OnAppExpired
  <1>11. ASSUME NEW n \in Node, NEW a \in Addr, Lapse(n, a) \/ \E ps \in Providers : Register(n, a, ps)
         PROVE  EventTypes' /\ sent \subseteq sent'
    BY <1>1, <1>11 DEF Lapse, Register
  <1>12. ASSUME NEW n \in Node, NEW m \in Node, Suspect(n, m)
         PROVE  EventTypes' /\ sent \subseteq sent'
    BY <1>1, <1>12 DEF Suspect
  <1>13. ASSUME NEW c \in Syncer,
                SyncUpdate(c) \/ SyncFails(c) \/ \E h, m \in Node : SyncList(c, h, m)
         PROVE  EventTypes' /\ sent \subseteq sent'
    BY <1>1, <1>13 DEF SyncUpdate, SyncFails, SyncList, rest
  <1> QED
    BY <1>1, <1>2, <1>3, <1>4, <1>5, <1>6, <1>7, <1>8, <1>9, <1>10, <1>11, <1>12, <1>13
    DEF Next, vars

-----------------------------------------------------------------------------
\* The tables of the agents, and those the sync commands carry, are sound.
TablesSound ==
    /\ routers \in [Node -> Table]
    /\ listed \in [Syncer -> [host : Node \cup {NoHost}, table : Table]]
    /\ \A h \in Node : Sound(routers[h], sent)
    /\ \A c \in Syncer : Sound(listed[c].table, sent)

\* To the tables a step is one of RouterTable, of which the event handler
\* takes its arguments from an event that was broadcast or from a report.
Handles(n, e) ==
    \/ /\ e \in sent /\ e.name = RSCommand
       /\ Tables!AddRouter(n, e.node, e.addr, e.services)
    \/ e.addr \in Addr /\ Tables!RemoveRouter(n, e.addr)
    \/ Tables!RemoveRouterByHost(n, e.node)

\* What an agent handles is in its channel, and was broadcast or reported.
LEMMA Handling ==
  ASSUME EventTypes, NEW n \in Node, HandleEvent(n)
  PROVE  \E e \in Event : (e.name # MemberDown => e.addr \in Addr) /\ Handles(n, e)
  <1> DEFINE e == Head(eventCh[n])
  <1>1. eventCh[n] \in Seq(Event) /\ eventCh[n] # <<>>
    BY DEF EventTypes, HandleEvent
  <1>2. e = eventCh[n][1] /\ 1 \in 1..Len(eventCh[n]) /\ e \in Event
    BY <1>1
  <1>3. e.name = MemberDown \/ e \in sent
    BY <1>2 DEF EventTypes
  <1>4. Apply(n, e)
    BY DEF HandleEvent
  <1> HIDE DEF e
  <1>5. e.name # MemberDown => e \in sent /\ e.addr \in Addr
    BY <1>3 DEF EventTypes
  <1>6. e.name \in {RSCommand, URSCommand, MemberDown}
    BY <1>2 DEF Event
  <1>7. Handles(n, e)
    <2>1. CASE e.name = RSCommand
      BY <1>4, <1>5, <2>1 DEF Apply, Handles, RSCommand, URSCommand, MemberDown
    <2>2. CASE e.name = URSCommand
      BY <1>4, <1>5, <2>2 DEF Apply, Handles, RSCommand, URSCommand, MemberDown
    <2>3. CASE e.name = MemberDown
      BY <1>4, <2>3 DEF Apply, Handles, RSCommand, URSCommand, MemberDown
    <2> QED BY <1>6, <2>1, <2>2, <2>3
  <1> QED BY <1>2, <1>5, <1>7

\* Every step of the cluster is one of the tables, or leaves them alone.
LEMMA TableMoves ==
  ASSUME EventTypes, [Next]_vars
  PROVE  \/ UNCHANGED <<routers, listed>>
         \/ \E n \in Node : \E e \in Event : (e.name # MemberDown => e.addr \in Addr) /\ Handles(n, e)
         \/ \E m \in Node : Tables!NewDiscoverdRepo(m)
         \/ \E c \in Syncer : \/ \E h, m \in Node : Tables!ListRouters(c, h, m)
                              \/ Tables!UpdateRouters(c) \/ Tables!UpdateFails(c)
  <1>1. CASE UNCHANGED vars
    BY <1>1 DEF vars
  <1>2. ASSUME NEW n \in Node, \/ Receive(n) \/ Flush(n) \/ DeleteExpired(n) \/ OnAppExpired(n)
                               \/ UnregisterService(n) \/ ReportDown(n) \/ Restart(n)
        PROVE  UNCHANGED <<routers, listed>>
    BY <1>2 DEF Receive, Flush, DeleteExpired, OnAppExpired, UnregisterService, ReportDown, Restart
  <1>3. ASSUME NEW n \in Node, NEW a \in Addr, Lapse(n, a) \/ \E ps \in Providers : Register(n, a, ps)
        PROVE  UNCHANGED <<routers, listed>>
    BY <1>3 DEF Lapse, Register
  <1>4. CASE (\E c \in calls : RegisterService(c)) \/ \E n, m \in Node : Suspect(n, m)
    BY <1>4 DEF RegisterService, Suspect
  <1>5. CASE \E n \in Node : HandleEvent(n)
    BY <1>5, Handling
  <1>6. CASE \E m \in Node : Stop(m)
    BY <1>6 DEF Stop
  <1>7. CASE \/ \E c \in Syncer, h, m \in Node : SyncList(c, h, m)
             \/ \E c \in Syncer : SyncUpdate(c) \/ SyncFails(c)
    BY <1>7 DEF SyncList, SyncUpdate, SyncFails
  <1> QED
    BY <1>1, <1>2, <1>3, <1>4, <1>5, <1>6, <1>7 DEF Next

\* Every step keeps the tables sound.
LEMMA TablesSoundStep ==
  ASSUME EventTypes, TablesSound, sent \subseteq sent', [Next]_vars
  PROVE  TablesSound'
  <1>0. /\ routers \in [Node -> Table]
        /\ listed \in [Syncer -> [host : Node \cup {NoHost}, table : Table]]
        /\ \A h \in Node : routers[h] \in Table /\ Sound(routers[h], sent')
        /\ \A c \in Syncer : listed[c].table \in Table /\ Sound(listed[c].table, sent')
    BY SoundMore DEF TablesSound
  <1>1. CASE UNCHANGED <<routers, listed>>
    BY <1>0, <1>1 DEF TablesSound
  <1>2. ASSUME NEW h \in Node, NEW T \in Table, Sound(T, sent'),
               routers' = [routers EXCEPT ![h] = T], UNCHANGED listed
        PROVE  TablesSound'
    BY <1>0, <1>2 DEF TablesSound
  <1>3. ASSUME NEW c \in Syncer, NEW h \in Node \cup {NoHost}, NEW T \in Table, Sound(T, sent'),
               listed' = [listed EXCEPT ![c] = [host |-> h, table |-> T]],
               \/ UNCHANGED routers
               \/ \E n \in Node, S \in Table : Sound(S, sent') /\ routers' = [routers EXCEPT ![n] = S]
        PROVE  TablesSound'
    <2>1. /\ listed' \in [Syncer -> [host : Node \cup {NoHost}, table : Table]]
          /\ \A d \in Syncer : Sound(listed'[d].table, sent')
      BY <1>0, <1>3
    <2>2. routers' \in [Node -> Table] /\ \A n \in Node : Sound(routers'[n], sent')
      BY <1>0, <1>3
    <2> QED BY <2>1, <2>2 DEF TablesSound
  <1>4. ASSUME NEW n \in Node, NEW e \in Event, Handles(n, e)
        PROVE  TablesSound'
    <2>1. e.node \in Node /\ e.services \in SUBSET Service
      BY DEF Event
    <2>2. CASE e \in sent /\ e.name = RSCommand /\ Tables!AddRouter(n, e.node, e.addr, e.services)
      <3>1. e \in sent' /\ e.addr \in Addr
        BY <2>2 DEF EventTypes
      <3>2. /\ addRouter(routers[n], e.node, e.addr, e.services) \in Table
            /\ Sound(addRouter(routers[n], e.node, e.addr, e.services), sent')
        BY <1>0, <2>1, <2>2, <3>1, SoundAdd
      <3> QED BY <1>2, <2>2, <3>2, SameOps DEF Tables!AddRouter
    <2>3. CASE e.addr \in Addr /\ Tables!RemoveRouter(n, e.addr)
      <3>1. removeRouter(routers[n], e.addr) \in Table /\ Sound(removeRouter(routers[n], e.addr), sent')
        BY <1>0, <2>3, SoundRemove
      <3> QED BY <1>2, <2>3, <3>1, SameOps DEF Tables!RemoveRouter
    <2>4. CASE Tables!RemoveRouterByHost(n, e.node)
      <3>1. /\ removeRouterByHost(routers[n], e.node) \in Table
            /\ Sound(removeRouterByHost(routers[n], e.node), sent')
        BY <1>0, <2>1, SoundRemove
      <3> QED BY <1>2, <2>4, <3>1, SameOps DEF Tables!RemoveRouterByHost
    <2> QED BY <1>4, <2>2, <2>3, <2>4 DEF Handles
  <1>5. EmptyTable \in Table /\ Sound(EmptyTable, sent')
    BY EmptyTableType, SoundMore
  <1>6. ASSUME NEW m \in Node, Tables!NewDiscoverdRepo(m)
        PROVE  TablesSound'
    BY <1>2, <1>5, <1>6, SameRouters DEF Tables!NewDiscoverdRepo
  <1>7. ASSUME NEW c \in Syncer, NEW h \in Node, NEW m \in Node, Tables!ListRouters(c, h, m)
        PROVE  TablesSound'
    BY <1>0, <1>3, <1>7 DEF Tables!ListRouters
  <1>8. ASSUME NEW c \in Syncer, Tables!UpdateRouters(c)
        PROVE  TablesSound'
    <2>1. /\ listed[c].host \in Node
          /\ routers' = [routers EXCEPT ![listed[c].host] = listed[c].table]
          /\ listed' = [listed EXCEPT ![c] = [host |-> NoHost, table |-> EmptyTable]]
      BY <1>0, <1>8, SameRouters DEF Tables!UpdateRouters, Tables!Idle
    <2> QED BY <1>0, <1>3, <1>5, <2>1
  <1>9. ASSUME NEW c \in Syncer, Tables!UpdateFails(c)
        PROVE  TablesSound'
    <2>1. /\ UNCHANGED routers
          /\ listed' = [listed EXCEPT ![c] = [host |-> NoHost, table |-> EmptyTable]]
      BY <1>9, SameRouters DEF Tables!UpdateFails, Tables!Idle
    <2> QED BY <1>3, <1>5, <2>1
  <1> QED
    BY <1>1, <1>4, <1>6, <1>7, <1>8, <1>9, TableMoves

-----------------------------------------------------------------------------
\* Who answers for a registration that was broadcast: see RoutesAnsweredFor.
AnsweredFor(e) ==
    \/ e.node \in faults.stopped
    \/ e.addr \in DOMAIN apps[e.node]
    \/ Ending(e.node, e.addr)
    \/ \E u \in sent : Announces(u, e.node, e.addr) /\ u.ltime > e.ltime

\* Somebody answers for every registration; a call has stored an application
\* that cannot have expired since, and what its agent will broadcast is later
\* than what it has.
Answered ==
    /\ Node \ up \subseteq faults.stopped
    /\ \A e \in sent : e.name = RSCommand => AnsweredFor(e)
    /\ \A c \in calls : c.node \in faults.stopped \/ LiveAt(c.node, c.addr)
    /\ \A e \in sent : e.node \in faults.stopped \/ e.ltime < clock[e.node]

\* An event of an agent is the last of it so far.
LEMMA BroadcastLast ==
  ASSUME EventTypes, Answered, NEW n \in Node, NEW name, NEW a, NEW ss,
         UserEvent(n, name, a, ss), UNCHANGED faults
  PROVE  \E u : /\ u = [name |-> name, ltime |-> clock[n], node |-> n, addr |-> a, services |-> ss]
                /\ sent' = sent \cup {u}
                /\ \A e \in sent' : e.node \in faults'.stopped \/ e.ltime < clock'[e.node]
                /\ \A e \in sent : e.node = n => e.node \in faults.stopped \/ e.ltime < u.ltime
  <1> DEFINE u == [name |-> name, ltime |-> clock[n], node |-> n, addr |-> a, services |-> ss]
  <1>1. sent' = sent \cup {u} /\ clock' = [clock EXCEPT ![n] = @ + 1]
    BY DEF UserEvent
  <1>2. clock[n] \in Nat /\ clock \in [Node -> Nat \ {0}]
    BY DEF EventTypes
  <1>3. \A e \in sent : e.node \in Node /\ e.ltime \in Nat
    BY DEF EventTypes, Event
  <1>4. u.node = n /\ u.ltime = clock[n]
    OBVIOUS
  <1>5. \A e \in sent : e.node \in faults.stopped \/ e.ltime < clock[e.node]
    BY DEF Answered
  <1> HIDE DEF u
  <1>6. \A e \in sent' : e.node \in faults'.stopped \/ e.ltime < clock'[e.node]
    <2> SUFFICES ASSUME NEW e \in sent' PROVE e.node \in faults.stopped \/ e.ltime < clock'[e.node]
      OBVIOUS
    <2>1. CASE e = u
      BY <1>1, <1>2, <1>4, <2>1
    <2>2. CASE e \in sent
      <3>1. e.node \in Node /\ e.ltime \in Nat /\ clock[e.node] \in Nat
        BY <1>2, <1>3, <2>2
      <3>2. clock'[e.node] = clock[e.node] \/ clock'[e.node] = clock[e.node] + 1
        BY <1>1, <1>2, <3>1
      <3> QED BY <1>5, <2>2, <3>1, <3>2
    <2> QED BY <1>1, <2>1, <2>2
  <1> QED BY <1>1, <1>4, <1>5, <1>6 DEF u

\* Every step leaves somebody to answer for every registration.
LEMMA AnsweredStep ==
  ASSUME AgentTypes, EventTypes, Answered, [Next]_vars
  PROVE  Answered'
  <1>1. \A e \in sent : e.node \in Node /\ e.ltime \in Nat /\ clock[e.node] \in Nat
    BY DEF EventTypes, Event
  <1>2. \A c \in calls : c.node \in Node /\ c.addr \in Addr
    BY DEF AgentTypes, Call
  <1>3. CASE UNCHANGED <<up, apps, calls, expired, sending, sent, clock, faults>>
    BY <1>3 DEF Answered, AnsweredFor, Ending, LiveAt, Announces
  <1>4. ASSUME NEW n \in Node, Flush(n) \/ HandleEvent(n) \/ ReportDown(n)
        PROVE  Answered'
    BY <1>3, <1>4 DEF Flush, HandleEvent, ReportDown
  <1>5. ASSUME NEW n \in Node, Receive(n)
        PROVE  Answered'
    <2>1. PICK e \in inbox[n] : clock' = [clock EXCEPT ![n] = IF e.ltime >= @ THEN e.ltime + 1 ELSE @]
      BY <1>5 DEF Receive
    <2>2. e.ltime \in Nat /\ clock \in [Node -> Nat \ {0}]
      BY <1>1 DEF EventTypes
    <2>3. \A f \in sent : f.ltime < clock[f.node] => f.ltime < clock'[f.node]
      BY <1>1, <2>1, <2>2
    <2>4. UNCHANGED <<up, apps, calls, expired, sending, sent, faults>>
      BY <1>5 DEF Receive
    <2> QED BY <2>3, <2>4 DEF Answered, AnsweredFor, Ending, LiveAt, Announces
  <1>6. ASSUME NEW n \in Node, DeleteExpired(n)
        PROVE  Answered'
    <2> DEFINE gone == {a \in DOMAIN apps[n] : apps[n][a].expired}
    <2>1. /\ apps' = [apps EXCEPT ![n] = [a \in DOMAIN apps[n] \ gone |-> apps[n][a]]]
          /\ expired' = [expired EXCEPT ![n] = @ \cup {gone}]
          /\ UNCHANGED <<up, calls, sending, sent, clock, faults>>
      BY <1>6 DEF DeleteExpired
    <2>2. /\ apps \in [Node -> AppCache] /\ expired \in [Node -> SUBSET SUBSET Addr]
      BY DEF AgentTypes
    <2>3. ASSUME NEW e \in sent, e.name = RSCommand PROVE AnsweredFor(e)'
      <3>1. AnsweredFor(e) /\ e.node \in Node
        BY <1>1, <2>3 DEF Answered
      <3>2. e.addr \in DOMAIN apps[e.node] => e.addr \in DOMAIN apps'[e.node] \/ e.addr \in UNION expired'[e.node]
        BY <2>1, <2>2, <3>1
      <3>3. e.addr \in UNION expired[e.node] => e.addr \in UNION expired'[e.node]
        BY <2>1, <2>2, <3>1
      <3> QED BY <2>1, <3>1, <3>2, <3>3 DEF AnsweredFor, Ending, Announces
    <2>4. ASSUME NEW c \in calls, LiveAt(c.node, c.addr) PROVE LiveAt(c.node, c.addr)'
      BY <1>2, <2>1, <2>2, <2>4 DEF LiveAt
    <2> HIDE DEF gone
    <2> QED BY <2>1, <2>3, <2>4 DEF Answered
  <1>7. ASSUME NEW n \in Node, OnAppExpired(n)
        PROVE  Answered'
    <2>1. PICK batch \in expired[n] : /\ sending' = [sending EXCEPT ![n] = batch]
                                      /\ expired' = [expired EXCEPT ![n] = @ \ {batch}]
      BY <1>7 DEF OnAppExpired
    <2>2. sending[n] = {} /\ UNCHANGED <<up, apps, calls, sent, clock, faults>>
      BY <1>7 DEF OnAppExpired
    <2>3. expired \in [Node -> SUBSET SUBSET Addr] /\ sending \in [Node -> SUBSET Addr]
      BY DEF AgentTypes
    <2>4. \A m \in Node, a \in Addr : Ending(m, a) => Ending(m, a)'
      <3> SUFFICES ASSUME NEW m \in Node, NEW a \in Addr, Ending(m, a) PROVE Ending(m, a)'
        OBVIOUS
      <3>1. CASE m = n
        <4>1. PICK b \in expired[n] : a \in b
          BY <2>2, <3>1 DEF Ending
        <4> QED BY <2>1, <2>3, <3>1, <4>1 DEF Ending
      <3>2. CASE m # n
        BY <2>1, <2>3, <3>2 DEF Ending
      <3> QED BY <3>1, <3>2
    <2>5. \A e \in sent : e.node \in Node /\ e.addr \in Addr
      BY <1>1 DEF EventTypes
    <2> QED BY <2>2, <2>4, <2>5 DEF Answered, AnsweredFor, LiveAt, Announces
  <1>8. ASSUME NEW n \in Node, UnregisterService(n)
        PROVE  Answered'
    <2>1. PICK a \in sending[n] : sending' = [sending EXCEPT ![n] = @ \ {a}] /\ UserEvent(n, URSCommand, a, {})
      BY <1>8 DEF UnregisterService
    <2>2. UNCHANGED <<up, apps, calls, expired, faults>> /\ sending \in [Node -> SUBSET Addr]
      BY <1>8 DEF UnregisterService, AgentTypes
    <2>3. PICK u : /\ u = [name |-> URSCommand, ltime |-> clock[n], node |-> n, addr |-> a, services |-> {}]
                   /\ sent' = sent \cup {u}
                   /\ \A e \in sent' : e.node \in faults'.stopped \/ e.ltime < clock'[e.node]
                   /\ \A e \in sent : e.node = n => e.node \in faults.stopped \/ e.ltime < u.ltime
      BY <2>1, <2>2, BroadcastLast
    <2>4. ASSUME NEW e \in sent', e.name = RSCommand PROVE AnsweredFor(e)'
      <3>1. e \in sent
        BY <2>3, <2>4 DEF RSCommand, URSCommand
      <3>2. AnsweredFor(e) /\ e.node \in Node /\ e.ltime \in Nat
        BY <1>1, <2>4, <3>1 DEF Answered
      <3>3. CASE e.node = n /\ e.addr = a
        <4>1. Announces(u, e.node, e.addr)
          BY <2>3, <3>3 DEF Announces
        <4>2. e.node \in faults.stopped \/ u.ltime > e.ltime
          <5>1. u.ltime \in Nat
            BY <2>3 DEF EventTypes
          <5> QED BY <2>3, <3>1, <3>2, <3>3, <5>1
        <4> QED BY <2>2, <2>3, <4>1, <4>2 DEF AnsweredFor, Announces
      <3>4. CASE ~ (e.node = n /\ e.addr = a)
        <4>1. Ending(e.node, e.addr) => Ending(e.node, e.addr)'
          BY <2>1, <2>2, <3>2, <3>4 DEF Ending
        <4> QED BY <2>2, <2>3, <3>2, <4>1 DEF AnsweredFor, Announces
      <3> QED BY <3>3, <3>4
    <2> QED BY <2>2, <2>3, <2>4 DEF Answered, LiveAt
  <1>9. ASSUME NEW m \in Node, Stop(m)
        PROVE  Answered'
    <2>1. /\ faults'.stopped = faults.stopped \cup {m} /\ up' = up \ {m}
          /\ calls' \subseteq calls /\ UNCHANGED <<clock, sent>>
      BY <1>9 DEF Stop
    <2>2. \A n \in Node : n # m => apps'[n] = apps[n] /\ expired'[n] = expired[n] /\ sending'[n] = sending[n]
      BY <1>9 DEF Stop, AgentTypes
    <2>3. ASSUME NEW e \in sent, e.name = RSCommand PROVE AnsweredFor(e)'
      <3>1. AnsweredFor(e) /\ e.node \in Node
        BY <1>1, <2>3 DEF Answered
      <3> QED BY <2>1, <2>2, <3>1 DEF AnsweredFor, Ending, Announces
    <2>4. ASSUME NEW c \in calls PROVE c.node \in faults'.stopped \/ LiveAt(c.node, c.addr)'
      BY <1>2, <2>1, <2>2 DEF Answered, LiveAt
    <2> QED BY <2>1, <2>3, <2>4 DEF Answered
  <1>10. ASSUME NEW m \in Node, Restart(m)
         PROVE  Answered'
    <2>1. m \in faults.stopped /\ up' = up \cup {m}
          /\ UNCHANGED <<apps, calls, expired, sending, sent, faults>>
      BY <1>10 DEF Restart, Answered
    <2>2. \A n \in Node : n # m => clock'[n] = clock[n]
      BY <1>10 DEF Restart, EventTypes
    <2> QED BY <1>1, <2>1, <2>2 DEF Answered, AnsweredFor, Ending, LiveAt, Announces
  <1>11. ASSUME NEW n \in Node, NEW a \in Addr, NEW ps \in Providers, Register(n, a, ps)
         PROVE  Answered'
    <2>1. /\ apps' = [apps EXCEPT ![n] = [b \in DOMAIN apps[n] \cup {a} |->
                        IF b = a THEN [providers |-> ps, expired |-> FALSE] ELSE apps[n][b]]]
          /\ UNCHANGED <<up, expired, sending, clock, sent, faults>>
      BY <1>11 DEF Register
    <2>2. PICK x : x.node = n /\ x.addr = a /\ calls' = calls \cup {x}
      BY <1>11 DEF Register
    <2>3. \A m \in Node : DOMAIN apps[m] \subseteq DOMAIN apps'[m]
      BY <2>1 DEF AgentTypes
    <2>4. LiveAt(n, a)'
      BY <2>1 DEF LiveAt, AgentTypes
    <2>5. \A m \in Node, b \in Addr : LiveAt(m, b) => LiveAt(m, b)'
      BY <2>1 DEF LiveAt, AgentTypes
    <2>6. ASSUME NEW e \in sent, e.name = RSCommand PROVE AnsweredFor(e)'
      BY <1>1, <2>1, <2>3, <2>6 DEF Answered, AnsweredFor, Ending, Announces
    <2> QED BY <1>2, <2>1, <2>2, <2>4, <2>5, <2>6 DEF Answered
  <1>12. ASSUME NEW c \in calls, RegisterService(c)
         PROVE  Answered'
    <2>1. UNCHANGED <<up, apps, expired, sending, faults>> /\ calls' = calls \ {c}
      BY <1>12 DEF RegisterService
    <2>2. CASE c.services \in Oversized
      <3>1. UNCHANGED <<clock, sent>>
        BY <1>12, <2>2 DEF RegisterService
      <3> QED BY <2>1, <3>1 DEF Answered, AnsweredFor, Ending, LiveAt, Announces
    <2>3. CASE c.services \notin Oversized
      <3>1. UserEvent(c.node, RSCommand, c.addr, c.services) /\ c.node \in Node
        BY <1>2, <1>12, <2>3 DEF RegisterService
      <3>2. PICK u : /\ u = [name |-> RSCommand, ltime |-> clock[c.node], node |-> c.node,
                             addr |-> c.addr, services |-> c.services]
                     /\ sent' = sent \cup {u}
                     /\ \A e \in sent' : e.node \in faults'.stopped \/ e.ltime < clock'[e.node]
        BY <2>1, <3>1, BroadcastLast
      <3>3. u.node = c.node /\ u.addr = c.addr
        BY <3>2
      <3>4. AnsweredFor(u)'
        BY <2>1, <3>3 DEF Answered, AnsweredFor, LiveAt
      <3>5. ASSUME NEW e \in sent, e.name = RSCommand PROVE AnsweredFor(e)'
        BY <2>1, <3>2, <3>5 DEF Answered, AnsweredFor, Ending, Announces
      <3> QED BY <2>1, <3>2, <3>4, <3>5 DEF Answered, LiveAt
    <2> QED BY <2>2, <2>3
  <1>13. ASSUME NEW n \in Node, NEW a \in Addr, Lapse(n, a)
         PROVE  Answered'
    <2>1. /\ apps' = [apps EXCEPT ![n][a].expired = TRUE] /\ a \in DOMAIN apps[n]
          /\ UNCHANGED <<up, calls, expired, sending, clock, sent, faults>>
      BY <1>13 DEF Lapse
    <2>2. \A c \in calls : c.addr # a
      BY <1>13 DEF Lapse, Settled
    <2>3. \A m \in Node : DOMAIN apps'[m] = DOMAIN apps[m]
      BY <2>1 DEF AgentTypes
    <2>4. \A m \in Node, b \in Addr : b # a => (LiveAt(m, b) => LiveAt(m, b)')
      BY <2>1 DEF LiveAt, AgentTypes
    <2>5. ASSUME NEW e \in sent, e.name = RSCommand PROVE AnsweredFor(e)'
      BY <1>1, <2>1, <2>3, <2>5 DEF Answered, AnsweredFor, Ending, Announces
    <2> QED BY <1>2, <2>1, <2>2, <2>4, <2>5 DEF Answered
  <1>14. ASSUME NEW n \in Node, NEW m \in Node, Suspect(n, m)
         PROVE  Answered'
    <2>1. faults'.stopped = faults.stopped /\ UNCHANGED <<up, apps, calls, expired, sending, clock, sent>>
      BY <1>14 DEF Suspect, AgentTypes, Faults
    <2> QED BY <2>1 DEF Answered, AnsweredFor, Ending, LiveAt, Announces
  <1>15. ASSUME NEW c \in Syncer,
                SyncUpdate(c) \/ SyncFails(c) \/ \E h, m \in Node : SyncList(c, h, m)
         PROVE  Answered'
    BY <1>3, <1>15 DEF SyncUpdate, SyncFails, SyncList, rest
  <1> QED
    BY <1>3, <1>4, <1>5, <1>6, <1>7, <1>8, <1>9, <1>10, <1>11, <1>12, <1>13, <1>14, <1>15
    DEF Next, vars

-----------------------------------------------------------------------------
\* The inductive invariant of the cluster.
ClusterInv == AgentTypes /\ EventTypes /\ TablesSound /\ Answered

\* It holds when the agents start ...
LEMMA ClusterInvInit == Init => ClusterInv
  <1> SUFFICES ASSUME Init PROVE ClusterInv
    OBVIOUS
  <1>1. AgentTypes
    BY CacheTypes, BoundAssumption DEF Init, AgentTypes, Faults
  <1>2. IsFiniteSet(sent) /\ <<>> \in Seq(Event) /\ Len(<<>>) = 0
    BY FS_EmptySet DEF Init
  <1>3. EventTypes
    BY <1>2 DEF Init, EventTypes
  <1>4. TablesSound
    BY EmptyTableType, SoundMore, SameRouters DEF Init, TablesSound, Tables!Init, Tables!Idle
  <1>5. Answered
    BY DEF Init, Answered
  <1> QED BY <1>1, <1>3, <1>4, <1>5 DEF ClusterInv

\* ... and every step keeps it.
LEMMA ClusterInvStep == ClusterInv /\ [Next]_vars => ClusterInv'
  BY AgentTypesStep, EventTypesStep, TablesSoundStep, AnsweredStep DEF ClusterInv

\* The cluster's state is well typed: an agent handles and holds only events
\* that were broadcast, and every table and every table a sync command carries
\* has only routers with an address and the checksum of their addresses.
THEOREM ClusterTypeCorrect == Spec => []TypeOK
  <1>1. ClusterInv => TypeOK
    BY SameRouters DEF ClusterInv, AgentTypes, EventTypes, TablesSound, TypeOK, Tables!TypeOK
  <1> QED BY <1>1, ClusterInvInit, ClusterInvStep, PTL DEF Spec

\* Whatever is lost, reordered, coalesced, reported or copied, an agent routes
\* an address as one registration that was broadcast says, never a mixture.
THEOREM RoutesFromRegistrations == Spec => []RoutesAreRegistrations
  <1>1. ClusterInv => RoutesAreRegistrations
    BY DEF ClusterInv, TablesSound, Sound, RoutesAreRegistrations
  <1> QED BY <1>1, ClusterInvInit, ClusterInvStep, PTL DEF Spec

\* No agent routes to an application without an agent that has it still, is
\* about to announce its end or has announced it, unless that agent stopped.
THEOREM NoRouteForgotten == Spec => []RoutesAnsweredFor
  <1>1. ClusterInv => RoutesAnsweredFor
    <2> SUFFICES ASSUME ClusterInv, NEW h \in Node, NEW s \in DOMAIN routers[h], NEW na \in routers[h][s].addrs
                 PROVE  \/ na.node \in faults.stopped
                        \/ na.addr \in DOMAIN apps[na.node]
                        \/ Ending(na.node, na.addr)
                        \/ \E e, u \in sent :
                              /\ e.name = RSCommand /\ e.node = na.node /\ e.addr = na.addr
                              /\ e.services = ServicesOf(routers[h], na.addr)
                              /\ Announces(u, na.node, na.addr) /\ u.ltime > e.ltime
      BY DEF RoutesAnsweredFor
    <2>1. PICK e \in sent : /\ e.name = RSCommand /\ e.node = na.node /\ e.addr = na.addr
                            /\ e.services = ServicesOf(routers[h], na.addr)
      BY DEF ClusterInv, TablesSound, Sound
    <2>2. AnsweredFor(e)
      BY <2>1 DEF ClusterInv, Answered
    <2> QED BY <2>1, <2>2 DEF AnsweredFor
  <1> QED BY <1>1, ClusterInvInit, ClusterInvStep, PTL DEF Spec

=============================================================================
