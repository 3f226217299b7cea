----------------------------- MODULE Discovery -----------------------------
(***************************************************************************)
(* Service discovery across a cluster: from the registration of an         *)
(* application with its agent (Register), over the user events "rs" and    *)
(* "us" that the agents broadcast (cluster.go), to the routing tables in   *)
(* which every agent applies them (discoverd_event_handler.go), and back   *)
(* through the expiry of applications that do not refresh (OnAppExpired).  *)
(*                                                                         *)
(* Serf, outside this repository, is modelled by what the code gets from   *)
(* it: an event carries the Lamport time of its sender, reaches every      *)
(* running agent once, in any order; the user event coalescer the agent    *)
(* switches on (command.go:297) keeps per event name those with the        *)
(* highest time and passes them on, the names in any order.  Failures and  *)
(* departures of members are reported some time later or, when the member  *)
(* is soon back, not at all, and may be reported of a member that runs.    *)
(*                                                                         *)
(* Time is left out: an application that refreshes keeps its place, one    *)
(* that does not may expire.  See module Cache for the times.              *)
(***************************************************************************)
EXTENDS RouterOps, Sequences

CONSTANTS
    Syncer, NoHost,  \* as in RouterTable
    Providers,       \* lists of services that applications register
    Lapsing,         \* applications that may miss their refreshes
    Oversized,       \* provider lists that exceed the size of a user event
    MaxEvents,       \* bound on the events broadcast, and on the calls at a time
    MaxFaults        \* bound on the processes that stop and the false reports of that

ASSUME BoundAssumption == MaxEvents \in Nat /\ MaxFaults \in Nat
ASSUME ScenarioAssumption == /\ Lapsing \subseteq Addr
                             /\ Providers \subseteq SUBSET Service
                             /\ Oversized \subseteq SUBSET Service

VARIABLES
    up,       \* the agents whose process runs
    apps,     \* apps[n]: the cache of agent n, from addresses to applications
    calls,    \* Register calls that have stored the application only, numbered
              \* so that equal ones stay apart
    expired,  \* expired[n]: batches whose OnAppExpired waits for rtLock
    sending,  \* sending[n]: what the OnAppExpired that has rtLock still sends
    clock,    \* clock[n]: Lamport time of the next event of n
    sent,     \* all events broadcast
    inbox,    \* inbox[n]: events on their way to n
    latest,   \* latest[n]: events the coalescer of n holds back
    eventCh,  \* eventCh[n]: events n has yet to handle
    reports,  \* reports[n]: members whose end will be reported to n
    faults,   \* the stops and suspicions so far, and the members that have stopped
    routers, listed  \* as in RouterTable

vars == <<up, apps, calls, expired, sending, clock, sent, inbox, latest, eventCh,
          reports, faults, routers, listed>>

Tables == INSTANCE RouterTable

RSCommand == "rs"
URSCommand == "us"
MemberDown == "member-down"  \* member-failed and member-leave

App == [providers : SUBSET Service, expired : BOOLEAN]

Call == [node : Node, addr : Addr, services : SUBSET Service, id : 1..MaxEvents]

Faults == [stopped : SUBSET Node, number : 0..MaxFaults]

\* What a cache can be: a map from some addresses to applications.
AppCache == UNION {[A -> App] : A \in SUBSET Addr}

Event == [name : {RSCommand, URSCommand, MemberDown}, ltime : Nat,
          node : Node, addr : Addr \cup {""}, services : SUBSET Service]

TypeOK ==
    /\ up \subseteq Node
    /\ apps \in [Node -> AppCache]
    /\ calls \subseteq Call
    /\ expired \in [Node -> SUBSET SUBSET Addr]
    /\ sending \in [Node -> SUBSET Addr]
    /\ clock \in [Node -> Nat \ {0}]
    /\ \A e \in sent : e \in Event
    /\ inbox \in [Node -> SUBSET sent] /\ latest \in [Node -> SUBSET sent]
    /\ eventCh \in [Node -> Seq(Event)]
    /\ reports \in [Node -> SUBSET Node]
    /\ faults \in Faults
    /\ Tables!TypeOK

Init ==
    /\ up = Node
    /\ apps = [n \in Node |-> EmptyTable]
    /\ calls = {}
    /\ expired = [n \in Node |-> {}]
    /\ sending = [n \in Node |-> {}]
    /\ clock = [n \in Node |-> 1]
    /\ sent = {}
    /\ inbox = [n \in Node |-> {}]
    /\ latest = [n \in Node |-> {}]
    /\ eventCh = [n \in Node |-> <<>>]
    /\ reports = [n \in Node |-> {}]
    /\ faults = [stopped |-> {}, number |-> 0]
    /\ Tables!Init

-----------------------------------------------------------------------------
(* Serf: user events. *)

\* The coalescer keeps, of each name, the events with the highest time.
Coalesce(held, e) ==
    {f \in held \cup {e} : \A g \in held \cup {e} : g.name = f.name => g.ltime <= f.ltime}

\* The event goes into the sender's own pipeline at once and to the others.
UserEvent(n, name, addr, services) ==
    LET e == [name |-> name, ltime |-> clock[n], node |-> n, addr |-> addr, services |-> services]
    IN  /\ sent' = sent \cup {e}
        /\ clock' = [clock EXCEPT ![n] = @ + 1]
        /\ latest' = [latest EXCEPT ![n] = Coalesce(@, e)]
        /\ inbox' = [m \in Node |-> IF m \in up \ {n} THEN inbox[m] \cup {e} ELSE inbox[m]]

Receive(n) ==
    /\ n \in up
    /\ \E e \in inbox[n] :
          /\ inbox' = [inbox EXCEPT ![n] = @ \ {e}]
          /\ clock' = [clock EXCEPT ![n] = IF e.ltime >= @ THEN e.ltime + 1 ELSE @]
          /\ latest' = [latest EXCEPT ![n] = Coalesce(@, e)]
    /\ UNCHANGED <<up, apps, calls, expired, sending, sent, eventCh, reports, faults, routers, listed>>

\* The ways to list some events with those of a name together.
Orders(E) ==
    {s \in [1..Cardinality(E) -> E] :
        /\ \A i, j \in DOMAIN s : s[i] = s[j] => i = j
        /\ \A i, j, k \in DOMAIN s : i < j /\ j < k /\ s[i].name = s[k].name => s[j].name = s[i].name}

Flush(n) ==
    /\ n \in up
    /\ latest[n] # {}
    /\ \E s \in Orders(latest[n]) : eventCh' = [eventCh EXCEPT ![n] = @ \o s]
    /\ latest' = [latest EXCEPT ![n] = {}]
    /\ UNCHANGED <<up, apps, calls, expired, sending, clock, sent, inbox, reports, faults, routers, listed>>

-----------------------------------------------------------------------------
(* The repository: registration and expiry of applications. *)

\* The events broadcast, and those the calls and expiries under way will be.
EventsToCome ==
    Cardinality(sent) + Cardinality(calls) +
    MapThenSumSet(LAMBDA n : Cardinality({a \in DOMAIN apps[n] : apps[n][a].expired})
                             + Cardinality(sending[n]) + Cardinality(UNION expired[n]), Node)

FreeIds == {i \in 1..MaxEvents : \A c \in calls : c.id # i}

\* PUT /msd/register: the application is stored first, replacing what the
\* cache has for the address.  Its event follows in a second step, so that
\* calls for one address may broadcast in another order than they stored.
Register(n, a, ps) ==
    /\ n \in up
    /\ EventsToCome < MaxEvents /\ FreeIds # {}
    /\ apps' = [apps EXCEPT ![n] =
                  [b \in DOMAIN apps[n] \cup {a} |->
                     IF b = a THEN [providers |-> ps, expired |-> FALSE] ELSE apps[n][b]]]
    /\ calls' = calls \cup {[node |-> n, addr |-> a, services |-> ps, id |-> CHOOSE i \in FreeIds : TRUE]}
    /\ UNCHANGED <<up, expired, sending, clock, sent, inbox, latest, eventCh, reports, faults,
                   routers, listed>>

\* Mutant of RegisterService: the event is not sent.
RegisterServiceSilently(c) ==
    /\ calls' = calls \ {c}
    /\ UNCHANGED <<clock, sent, inbox, latest>>
    /\ UNCHANGED <<up, apps, expired, sending, eventCh, reports, faults, routers, listed>>

\* Serf refuses an event that is too large; Register logs the error and the
\* caller is told that all went well.
RegisterService(c) ==
    /\ calls' = calls \ {c}
    /\ IF c.services \in Oversized
       THEN UNCHANGED <<clock, sent, inbox, latest>>
       ELSE UserEvent(c.node, RSCommand, c.addr, c.services)
    /\ UNCHANGED <<up, apps, expired, sending, eventCh, reports, faults, routers, listed>>

\* The application has not refreshed within its time to live.  That is long
\* compared to the delivery of an event: whatever was broadcast for the
\* address has been handled by then.
Settled(a) ==
    /\ \A c \in calls : c.addr # a
    /\ \A n \in Node : /\ \A e \in inbox[n] \cup latest[n] : e.addr # a
                       /\ \A i \in DOMAIN eventCh[n] : eventCh[n][i].addr # a
                       /\ a \notin sending[n] \cup UNION expired[n]

Lapse(n, a) ==
    /\ a \in Lapsing
    /\ a \in DOMAIN apps[n] /\ ~ apps[n][a].expired
    /\ Settled(a)
    /\ EventsToCome < MaxEvents
    /\ apps' = [apps EXCEPT ![n][a].expired = TRUE]
    /\ UNCHANGED <<up, calls, expired, sending, clock, sent, inbox, latest, eventCh, reports, faults,
                   routers, listed>>

\* Mutant of DeleteExpired: the handler was not registered with the cache.
DeleteExpiredQuietly(n) ==
    LET gone == {a \in DOMAIN apps[n] : apps[n][a].expired}
    IN  /\ gone # {}
        /\ apps' = [apps EXCEPT ![n] = [a \in DOMAIN apps[n] \ gone |-> apps[n][a]]]
        /\ UNCHANGED <<up, calls, expired, sending, clock, sent, inbox, latest, eventCh, reports,
                       faults, routers, listed>>

\* The janitor of the cache, which starts OnAppExpired in a goroutine.
DeleteExpired(n) ==
    LET gone == {a \in DOMAIN apps[n] : apps[n][a].expired}
    IN  /\ gone # {}
        /\ apps' = [apps EXCEPT ![n] = [a \in DOMAIN apps[n] \ gone |-> apps[n][a]]]
        /\ expired' = [expired EXCEPT ![n] = @ \cup {gone}]
        /\ UNCHANGED <<up, calls, sending, clock, sent, inbox, latest, eventCh, reports, faults,
                       routers, listed>>

\* OnAppExpired has rtLock while it sends one event after the other, in the
\* order in which Go happens to iterate over the map.
OnAppExpired(n) ==
    /\ sending[n] = {}
    /\ \E batch \in expired[n] :
          /\ sending' = [sending EXCEPT ![n] = batch]
          /\ expired' = [expired EXCEPT ![n] = @ \ {batch}]
    /\ UNCHANGED <<up, apps, calls, clock, sent, inbox, latest, eventCh, reports, faults, routers, listed>>

UnregisterService(n) ==
    /\ \E a \in sending[n] :
          /\ sending' = [sending EXCEPT ![n] = @ \ {a}]
          /\ UserEvent(n, URSCommand, a, {})
    /\ UNCHANGED <<up, apps, calls, expired, eventCh, reports, faults, routers, listed>>

-----------------------------------------------------------------------------
(* The event handler.  AddRouter and RemoveRouterByHost wait for rtLock,    *)
(* RemoveRouter does not take it.                                           *)

Unlocked(n) == sending[n] = {}

Apply(n, e) ==
    CASE e.name = RSCommand  -> Unlocked(n) /\ Tables!AddRouter(n, e.node, e.addr, e.services)
      [] e.name = URSCommand -> Tables!RemoveRouter(n, e.addr)
      [] e.name = MemberDown -> Unlocked(n) /\ Tables!RemoveRouterByHost(n, e.node)

HandleEvent(n) ==
    /\ eventCh[n] # <<>>
    /\ Apply(n, Head(eventCh[n]))
    /\ eventCh' = [eventCh EXCEPT ![n] = Tail(@)]
    /\ UNCHANGED <<up, apps, calls, expired, sending, clock, sent, inbox, latest, reports, faults>>

-----------------------------------------------------------------------------
(* Members that fail, leave, are suspected and come back.                   *)

\* The process ends, by a crash or after a leave: all it has in memory goes.
Stop(m) ==
    /\ m \in up
    /\ faults.number < MaxFaults
    /\ faults' = [stopped |-> faults.stopped \cup {m}, number |-> faults.number + 1]
    /\ up' = up \ {m}
    /\ apps' = [apps EXCEPT ![m] = EmptyTable]
    /\ calls' = {c \in calls : c.node # m}
    /\ expired' = [expired EXCEPT ![m] = {}]
    /\ sending' = [sending EXCEPT ![m] = {}]
    /\ inbox' = [inbox EXCEPT ![m] = {}]
    /\ latest' = [latest EXCEPT ![m] = {}]
    /\ eventCh' = [eventCh EXCEPT ![m] = <<>>]
    /\ reports' = [n \in Node |-> IF n = m THEN {} ELSE IF n \in up THEN reports[n] \cup {m} ELSE reports[n]]
    /\ Tables!NewDiscoverdRepo(m)
    /\ UNCHANGED <<clock, sent>>

\* It joins the others, whose highest clock it takes over.  With ReplayOnJoin
\* it is sent old events, those the others still have.  Where its end was not
\* reported yet, it need not be any more.
Restart(m) ==
    /\ m \notin up
    /\ up' = up \cup {m}
    /\ \E t \in {clock[n] : n \in up} \cup {1} :
          /\ \A n \in up : t >= clock[n]
          /\ clock' = [clock EXCEPT ![m] = t]
    /\ \E old \in SUBSET sent : inbox' = [inbox EXCEPT ![m] = old]
    /\ \E N \in SUBSET up : reports' = [n \in Node |-> IF n \in N THEN reports[n] \ {m} ELSE reports[n]]
    /\ UNCHANGED <<apps, calls, expired, sending, sent, latest, eventCh, faults, routers, listed>>

\* Agent n takes a member that runs for failed.
Suspect(n, m) ==
    /\ {n, m} \subseteq up /\ n # m
    /\ faults.number < MaxFaults
    /\ faults' = [faults EXCEPT !.number = @ + 1]
    /\ reports' = [reports EXCEPT ![n] = @ \cup {m}]
    /\ UNCHANGED <<up, apps, calls, expired, sending, clock, sent, inbox, latest, eventCh, routers, listed>>

ReportDown(n) ==
    /\ \E m \in reports[n] :
          /\ reports' = [reports EXCEPT ![n] = @ \ {m}]
          /\ eventCh' = [eventCh EXCEPT ![n] =
                Append(@, [name |-> MemberDown, ltime |-> 0, node |-> m, addr |-> "", services |-> {}])]
    /\ UNCHANGED <<up, apps, calls, expired, sending, clock, sent, inbox, latest, faults, routers, listed>>

-----------------------------------------------------------------------------
(* The sync command: ListRouters and UpdateRouters take rtLock for reading. *)

rest == <<up, apps, calls, expired, sending, clock, sent, inbox, latest, eventCh, reports, faults>>

SyncList(c, h, m) ==
    /\ {h, m} \subseteq up
    /\ Unlocked(m)
    /\ Tables!ListRouters(c, h, m)
    /\ UNCHANGED rest

SyncUpdate(c) ==
    /\ listed[c].host \in up
    /\ Unlocked(listed[c].host)
    /\ Tables!UpdateRouters(c)
    /\ UNCHANGED rest

SyncFails(c) == Tables!UpdateFails(c) /\ UNCHANGED rest

Next ==
    \/ \E n \in Node : \/ Receive(n) \/ Flush(n) \/ HandleEvent(n)
                       \/ DeleteExpired(n) \/ OnAppExpired(n) \/ UnregisterService(n)
                       \/ ReportDown(n) \/ Stop(n) \/ Restart(n)
    \/ \E n \in Node, a \in Addr, ps \in Providers : Register(n, a, ps)
    \/ \E c \in calls : RegisterService(c)
    \/ \E n \in Node, a \in Addr : Lapse(n, a)
    \/ \E n, m \in Node : Suspect(n, m)
    \/ \E c \in Syncer, h, m \in Node : SyncList(c, h, m)
    \/ \E c \in Syncer : SyncUpdate(c) \/ SyncFails(c)

Spec == Init /\ [][Next]_vars

\* Gossip arrives, timers fire and goroutines are scheduled.
Fairness ==
    /\ \A n \in Node : /\ WF_vars(Receive(n)) /\ WF_vars(Flush(n)) /\ WF_vars(HandleEvent(n))
                       /\ WF_vars(DeleteExpired(n)) /\ WF_vars(OnAppExpired(n))
                       /\ WF_vars(UnregisterService(n)) /\ WF_vars(ReportDown(n))
    /\ \A i \in 1..MaxEvents : WF_vars(\E c \in calls : c.id = i /\ RegisterService(c))

FairSpec == Spec /\ Fairness

-----------------------------------------------------------------------------
\* What an agent routes for an address is one registration, as a whole: the
\* agent and the services are those of one event that was broadcast.  No
\* order of events, member reports and table copies makes up a mixture of
\* two registrations or brings in a service the application never had.
RoutesAreRegistrations ==
    \A h \in Node : \A s \in DOMAIN routers[h] : \A na \in routers[h][s].addrs :
        \E e \in sent : /\ e.name = RSCommand /\ e.node = na.node /\ e.addr = na.addr
                        /\ e.services = ServicesOf(routers[h], na.addr)

Announces(e, n, a) == e.name = URSCommand /\ e.node = n /\ e.addr = a

\* The end of the application at address a is under way from the cache of
\* agent n to its broadcast.
Ending(n, a) == a \in sending[n] \cup UNION expired[n]

\* No route is forgotten.  A registration that an agent still routes is that
\* of an application its own agent still has, or is about to announce the end
\* of, or has announced the end of since (so that the announcement removes
\* the route, or has been coalesced with others of that name); or the agent
\* stopped and is itself to be reported.  An expired application goes through
\* the janitor, a batch of its own goroutine and the lock before its events
\* are sent one by one, while it may come back, with calls that overlap and
\* are broadcast late, and while tables are copied from agent to agent.
RoutesAnsweredFor ==
    \A h \in Node : \A s \in DOMAIN routers[h] : \A na \in routers[h][s].addrs :
        \/ na.node \in faults.stopped
        \/ na.addr \in DOMAIN apps[na.node]
        \/ Ending(na.node, na.addr)
        \/ \E e, u \in sent : /\ e.name = RSCommand /\ e.node = na.node /\ e.addr = na.addr
                              /\ e.services = ServicesOf(routers[h], na.addr)
                              /\ Announces(u, na.node, na.addr) /\ u.ltime > e.ltime

RoutedAt(h, a) == ServicesOf(routers[h], a) # {}

LiveAt(n, a) == a \in DOMAIN apps[n] /\ ~ apps[n][a].expired

Offers(n, a) == LiveAt(n, a) /\ apps[n][a].providers \notin Oversized \cup {{}}

\* "The service registed to Blued will invalid after 60 second" (README.md):
\* once an application is with no agent any more, every agent stops routing
\* to it.
ExpiredUnrouted ==
    \A a \in Addr : <>[](\A n \in Node : ~ LiveAt(n, a)) => <>[](\A h \in Node : ~ RoutedAt(h, a))

\* "if you want make your service keeping active, you must refresh it"
\* (README.md): an application that does, with an agent that runs, and for
\* whose address no expiry was ever announced, is in the end routed to by
\* every agent that runs, wherever and however often it registers, calls that
\* overlap and earlier ones that were too large to be announced included.  An
\* application whose last registration is too large or offers nothing is left
\* out: nothing about it is broadcast, or nothing is there to route.  The
\* premise is needed: the announcement of an expiry may overtake the return of
\* the application and take away its new route.
UnexpiredRouted ==
    \A n \in Node, a \in Addr :
        [](\A e \in sent : ~ (e.name = URSCommand /\ e.addr = a)) /\ <>[]Offers(n, a)
        => <>[](\A h \in up : RoutedAt(h, a))

=============================================================================
