# Blued in TLA+

Blued is a service discovery daemon built on Serf. Micro applications register
with the agent of their host over HTTP; the agents tell each other over Serf's
gossip and each keeps a routing table from services to application addresses.
An application that does not refresh its registration expires and its routes
are withdrawn. A local RPC protocol (the one of Serf's agent, extended by three
commands) lets tools query and steer an agent, follow its events and its log.

This directory has TLA+ models of these parts, the TLC runs that check them on
small instances, and TLAPS proofs for instances of every size.
`PROJECT.json` lists components, runs, mutants, hazards and theorems, and maps
every definition to the lines of the source it stands for.

## Inventory

| Part | Source | State | Operations | What is hard |
|---|---|---|---|---|
| Routing tables | `discoverd/msd/msd_repo.go` | `routers`: service -> addresses and a checksum | AddRouter, RemoveRouter, RemoveRouterByHost, UpdateRouters, ListRouters | the index is by service while everything that happens is about an address or an agent; checksums must follow; some methods lack the lock |
| Expiring cache | `discoverd/util/cache/cache.go` | items with a deadline, a janitor with a ticker | Set, Add, Refresh, Delete, Flush, DeleteExpired | expired items remain until the janitor comes; boundary of the deadline |
| Registration and expiry | `msd_repo.go`, `msd_rs.go` | the cache, one goroutine per expired batch | Register, Refresh, OnAppExpired | an expiry under way while the application comes back |
| Cluster events | `discoverd/cluster/cluster.go`, `command/agent/discoverd_event_handler.go` | events in flight, Serf's coalescer | user events `rs` and `us`, member failed/left | loss by coalescing, reordering, late or false failure reports, restarts |
| Sync command | `command/sync.go` | a fetched table | list from one agent, update another | everything that happens between the two calls |
| Event loop and streams | `agent.go`, `ipc_event_stream.go` | handler list, one channel and goroutine per stream | register, deregister, dispatch, stop | a copied list used after the lock is released, full and closed channels |
| RPC connections | `ipc.go` (listen, Shutdown) | table of clients | accept, deregister, shut down | accept against shutdown, a table keyed by address |
| RPC session | `ipc.go`, `ipc_query_response_stream.go` | version, authentication, streams | 23 commands | frames without delimiters, refusals, records between answers |
| RPC client | `client/rpc_client.go` | table of handlers, reader, channels | calls, streams, Stop, Close | handlers called and cleaned up without a lock, blocking sends, waits without a timeout |
| Log writer and monitors | `log_writer.go`, `ipc_log_stream.go` | circular buffer, handlers, channels | Write, Register/DeregisterHandler, Stop | wrap-around, drops that are logged themselves, order of deregistration and close |
| Gated writer | `gated_writer.go` | buffer, a flag | Write, Flush | append under a read lock, drain without one |
| Agent lifecycle | `command.go`, `agent.go`, `rest_server.go` | process, serf, event loop, REST server, retries, leaves | start, joins, signals, leave by signal or RPC, shutdown | goroutines that may end the agent or the process while Run is anywhere; time limits |
| Configuration | `config.go`, `command.go` | the configuration in force | decode, merge, reload | one merge rule per kind of setting; reloads that are refused in part |
| Tags | `agent.go`, `ipc.go` | tags file, serf's tags | SetTags from clients and reloads, load at start | no lock, a file written in place, crashes |
| Event scripts | `event_handler.go`, `invoke.go` | list in use, list to come | UpdateScripts, HandleEvent | a list swapped between events |
| mDNS | `mdns.go` | timers | announce, join | network outside the program |
| REST server, command line | `rest_server.go`, `discoverd.go`, `command/*.go` | none of their own | calls of the above | the REST server's end is fatal |

How they interact: `PUT /msd/register` stores the application in the cache and
broadcasts `rs`; every agent's event loop hands the event to its
`DiscoverdEventHandler`, which changes the routing table. The cache's janitor
hands expired applications to `OnAppExpired`, which broadcasts `us` for each.
Member failures and departures remove the routes of that member. The sync
command copies a table over two RPC calls. RPC clients subscribe to the same
event loop and to the log. Applications poll with `GET /msd/fresh/:addr` for a
sum of checksums and fetch their routers when it has changed. Run starts all of
this in order, waits for a signal or for the end of a part, and shuts down.
SIGHUP reads the configuration again; tags can also be changed over RPC.

## Modules

* **RouterOps** - the table operations as operators. A router's addresses are a
  set (AddRouter never adds one twice); the 16 checksum bytes are independent,
  one is modelled with its wrap-around (`% 256`).
* **RouterTable** - the tables of all agents, each repository method an action,
  and the sync command in its two steps. **Registry** is its abstraction: per
  agent, a map from addresses to one registration (agent and services).
  `ImplementsRegistry` is the refinement. `calcRouterCheckSum` and
  `calcRouterTable` are what a polling application is told, depending on whether
  the agent still has it and on its list of consumers, which may name a service
  more than once.
* **Cache** - the expiring cache in units of time. `Tick` is time and the
  janitor's ticker (with Go's one-slot channel: a tick that finds one waiting is
  dropped), `DeleteExpired` the janitor, which may be late by `MaxLag`.
  **Lease** is its abstraction: items that are gone exactly when their time is
  up, and are then owed to the handler once.
* **Discovery** - the cluster: registration in two steps (cache, then event),
  expiry in four (lapse, janitor, lock, one event after the other), delivery in
  any order with Lamport clocks, the user event coalescer, the event handler,
  stops, restarts (with a replay of old events, if the join asks for one), false
  suspicion and the sync command. Its tables are changed by the operators of
  RouterTable. Calls of Register may overlap, also for one address.
* **EventStreams** - the agent's event loop with its copied handler list, and
  the event streams of one connection. A send on a closed channel sets
  `panicked`. What a stream is named is used once: one that is started again with
  the number of a stopped one is a stream of its own. Events that its filter lets
  pass are all the events it has.
* **AgentIPC** - accept, registration, failure, reset and shutdown of
  connections.
* **GatedWriter** - the gate that holds log lines back while the agent starts.
  An append is two steps, the read of the buffer and the store, so that two of
  them under the read lock can overlap.
* **Lifecycle** - composes AgentIPC and GatedWriter with the process: `run` is
  where Run is, `code` what it is to return, `status` how the process ended, and
  there is one variable for each goroutine that can end the agent (event loop,
  REST server, retried join, graceful leave, leaves of clients). `Dies` is the
  end of the process; it forgets everything else.
* **Config** - defaults, files and command line and their merge, event handlers
  and their filters, as operators. One setting of each kind is kept.
* **Reload** - what changes while the agent runs: SIGHUP, tags set by clients,
  the tags file with truncation and write as two steps, crashes and restarts. The
  tags of the agent's configuration and of serf's are one map at the start
  (`command.go:292`), so that both have what was restored from the file.
* **Session** - the agent's side of one connection, every command of
  `handleRequest`. Frames are headers or bodies; a body decoded as a header
  leaves the header as it was, as the codec does. **AnyClient** closes it with a
  client that sends any requests without waiting.
* **RPCClient** - the client library, down to the steps between a check, a
  channel operation and the release of a lock. **RPC** composes it with Session
  over one connection.
* **LogWriter** - the log sink, its lock, and the monitors.
* **RouterTableProofs, CacheProofs, DiscoveryProofs, ConnectionProofs**
  (EventStreams and RPC)**, AnyClientProofs, LifecycleProofs** (with AgentIPC and
  GatedWriter)**, OperatorProofs** (LogWriter and Reload) - theorems;
  **CommonLemmas** - lemmas on tables and queues that several of them use.
* **MC...** - constants for TLC.

Operators that a comment calls a mutant are not part of the models: each is a
wrong version of the definition that follows it, used to show that a property
notices.

## Runs

| Run | Checks | Instance |
|---|---|---|
| `routers` | `TypeOK` (no empty router, no stale checksum), `OneOwner`, `PollingSound`, `ImplementsRegistry` | 2 agents, 2 addresses, 2 services, 1 sync command; one of the addresses stays with its agent (`StaysAtHome`); two of one of the digests cancel; every list of consumers that names each service up to twice |
| `cache` | `TypeOK`, `Residence`, `ImplementsLease` | 2 keys, 2 objects, lifetimes longer and shorter than the cleanup interval and unlimited ones, janitor late by 1 |
| `discovery` | `TypeOK`, `RoutesAreRegistrations`, `RoutesAnsweredFor` | 2 agents, 1 application with 3 provider lists (one too large to broadcast), 2 events, 1 stop or suspicion, 1 sync command |
| `discovery_progress` | `ExpiredUnrouted`, `UnexpiredRouted` | 2 agents, 1 application with 2 provider lists, one too large to broadcast, 3 events or calls |
| `lost_expiry` | `ExpiredUnrouted`, which **fails** | 1 agent, 2 applications |
| `event_streams` | `TypeOK`, `OkBeforeEvents`, `NoGaps`, `CleanEnd`, `QueueDrains` | 2 streams, channels of 1, 3 events |
| `lifecycle` | `LifeTypeOK`, `NoStaleClients`, `ShutdownClosesAll`, `ZeroMeansLeft`, `AnsweredBeforeDown`, `LinesKept`, `Ends` | 2 connections, 2 loggers with a line each to hold back, a limit of one attempt for the retried join, which fails twice |
| `reload` | `LevelInForce`, `ScriptsFresh`, `TagsAsAsked`, `ConfigByPrecedence`, `Durable` | 6 configurations of up to 2 files, one of them unreadable and one invalid, 2 clients with 4 requests, room for 1 tag |
| `rpc` | `RPCTypeOK`, `RequestsAligned`, `BodiesMatch`, `CallsReturn`, `QueriesEnd` | set-up, any of 20 commands, and a second call (stats or stop), with the right, a wrong and no key |
| `rpc_close` | `QueriesEnd`, which **fails** | 1 query and Close |
| `any_client` | `AnswersInOrder`, `NothingUnauthorised`, `AllAnswered` | 4 requests, 1 record |
| `log_writer` | `TypeOK`, `NoLineMissing`, `StoppedNotInvoked` | buffer of 3, channels of 2, 5 lines, 2 monitors |

Why the bounds are enough to be interesting: with two agents an application can
move, and with two events one can overtake the other or be coalesced with it;
three events let it register, expire, come back and, since a list that is too
large costs no event, expire again at one or both agents, with calls that
overlap. A stream channel of one is full after one event; three events fill,
drop and follow. The log buffer wraps with five lines and a monitor can start at
every fill. Two connections are the least of which one can ask the agent to
leave while the other is being accepted or asks the same; two lines at the gate
the least that can overlap. Room for one tag lets serf refuse two; two clients
and a reload can have three tag changes under way. Two calls on a connection are the least with which an answer can be
taken by the wrong handler. Deadlock is not checked where the bounded
environment stops (all calls made, all events sent) and users need do nothing.

### Where the code does not do what it says

* `lost_expiry`: expiries are broadcast under one event name with coalescing
  on. Of two applications that expire together, agents hear of one; the other
  is routed to for ever, though `README.md:57` has it invalid after 60 seconds.
* `rpc_close`: Close while the first answer of a query is being handled blocks
  on `initCh` with `dispatchLock`; the query's channels are not closed
  (`rpc_client.go:665`).

Other places where comments, tests or help texts and the code part ways, met
while modelling; the modules do what the code does:

* `DeregisterEventHandler` "prevents more invocations" (`agent.go:224`), but the
  event loop uses a copy of the list (`agent.go:243-248`): a handler can be
  invoked afterwards, and for an event stream that has been stopped this is a
  send on a closed channel.
* A graceful leave returns 0 from Run (`command_test.go:52`), but on the way out
  `ipc.Shutdown` closes the REST server, whose goroutine calls `Fatalf`
  (`rest_server.go:29`): if that comes before the exit, the status is 1.
* "If two messages are sent on the ShutdownCh it will forcibly exit"
  (`command.go:34`): the second select does not look at `ShutdownCh`.
* `RetryMaxAttempts` is "used to limit the maximum attempts" (`config.go:187`), but
  `retryJoin` gives up only when the count of failures is greater
  (`command.go:489-490`): one more join fails, and `LifeTypeOK` says so.
* A leave by RPC that fails, because another one is under way, still shuts the
  agent down (`ipc.go:958`), in the middle of the other, and Run returns 0.
* An RPC request for applications or routers that arrives between
  `NewAgentIPC` and `SetDiscoverd` (`command.go:416-421`) meets a nil pointer.
* `-service-ttl` has the default 60 and is never unset (`command.go:78`), so that
  a `service_ttl` in a file has no effect.
* The tags file is to keep tags changed while the agent runs (`config.go:60`),
  but SIGHUP replaces them, in the file too, by those of the configuration,
  which must be none. A crash between truncation and write, or tags that serf
  refuses as too large, leave a file with which the agent does not start.
* The sum of checksums over the consumed services does not change when an
  address moves from one of them to another, or when several changes cancel in
  it: a polling application is not told. `PollingSound` says exactly when.
* Two registrations for one address at the same time may be stored in one order
  and broadcast in the other (`msd_repo.go:55-66`): the agent then has one of them
  and every table the other.

Some properties have a premise, and the premise is there because the property
fails without it:

* `UnexpiredRouted` is about an application for which no expiry was announced,
  alone and with members that are not reported, and whose last registration is
  small enough to be announced. An `us` event sent for an
  application that has come back meanwhile removes its new route; two
  registrations in a coalescing window make one of them disappear on some
  agents (refreshing does not repeat it); and a member that is suspected by
  mistake loses its routes for good.
* `CallsReturn` and `BodiesMatch` leave out clients that ask a guarded agent
  for a stream without a key (`Disowned`): the request is refused twice because
  its body is taken for a second header, the stream's handler takes the second
  refusal for a record, and the next answer is lost to it.
* `BodiesMatch` is about a client that the user has not closed. Close makes the
  waiting call of a monitor or stream return and clean its handler up, which sets
  `init` (`rpc_client.go:452-457`). The reader, when it has looked the handler up
  but not tested `init`, takes the header of the first response for one with a
  record, and decodes the next header as that record. Close closes the connection
  right after, so that nothing else comes of it.
* `QueueDrains` is about a client that reads (`ClientReads`): a send to one that
  does not holds the lock of the connection and has no deadline
  (`ipc.go:275-294`), so that what is queued stays there until the connection ends.
  `CleanEnd` does without: the end of the connection makes the sends fail.
* `RoutesAnsweredFor` leaves out agents that have stopped: their routes go when
  their end is reported, which may never be.
* `CallsReturn`, `QueriesEnd`, `CleanEnd` and `QueueDrains` accept the end of
  the process by a send on a closed channel: `Stop` closes the channel of a
  stream on which the reader may be about to send.
* `ShutdownClosesAll` takes distinct client addresses: `deregisterClient` deletes
  by address without looking whose entry it is.
* `LinesKept` is about lines of appends that did not overlap, and lines that are
  held back when a start fails are never shown.
* `TagsAsAsked` takes a reload for what it is, the replacement of all tags, those
  set by clients too, by the configuration's.
* `TagsAsAsked` and `Durable` leave out tag changes at the same time, which may
  undo each other in serf and garble the file, and those that failed half-way
  (`dirty`), until a change that is alone has succeeded.
* `ZeroMeansLeft` accepts a 0 after a client's leave that failed, see above.
* `Residence` is a cleanup interval after the deadline. The repository uses the
  time to live for both, so an application is gone up to twice that time after
  its last refresh.

### Fairness

Weak fairness only, of goroutines that are runnable, of timers (tickers,
coalescing windows, query deadlines) and of gossip delivery to agents that run.
Users and failures are never forced to act: nobody has to register, refresh,
stop a stream or close a connection. Nor does a client of `EventStreams` have to
read: only on a closed connection must a send end. In `Discovery` an application expires only
after what was broadcast for its address has been handled (`Settled`): the time
to live, 60 seconds by default, is long compared to the three seconds of a
coalescing window. In `Lifecycle` one weak fairness is enough: as long as a
goroutine can go on with what it has begun, some goroutine does. `serf.Leave` and
`Join` have time limits of their own, and Run waits three seconds at most for a
graceful leave. `RetryJoin` and the REST server's end are under no fairness.

## Proofs

All for arbitrary constants under the named assumptions of the modules.

* **RouterTableProofs.** `TypeCorrect` (no router without an address, every
  checksum that of its addresses, for any digest), `OwnersUnique` and
  `TableImplementsRegistry`. `TypeOK` and `OneOwner` are inductive together; the
  lemmas `PruneEntries` and `AddEntries` say what the two table operations do to
  every entry, and the refinement follows from them: each action of the tables
  is the action of the registry with the same name or a stutter. `OneOwner` is
  what makes the mapping well defined (the agent of an address is chosen).
  Then what a polling application is told. A checksum that it polls for is the
  sum, modulo 256, of the digests of the addresses it can reach, each as often as
  it is in a consumed service (`CheckSumIs`; the code adds service by service).
  `PollingTells` says of any digests and any list of consumers what the checksum
  tells: nothing while every address is there as often; something when one address
  is there once more or less and its digest is not zero; and nothing of several
  changes exactly if their digests cancel. Nothing is assumed of the digests but
  that they are bytes.
* **CacheProofs.** `TypeCorrect`, `ResidenceBounded` and
  `CacheImplementsLease`. `Residence` is not inductive: how long an expired item
  may still stay depends on the ticker, so the invariant is `ResidenceByPhase`,
  which adds the time to the next tick, or the janitor's delay when one is due.
  The refinement maps the unexpired items to the abstract cache and the expired
  ones to what is owed.
* **LifecycleProofs.** First, of AgentIPC alone, `TypeCorrect` and `TableClean`:
  `NoStaleClients` needs to know that a connection is only entered under its own
  name, and that a connection just accepted has no goroutine (`Entered`). Then
  `LifeTypeCorrect`, `ZeroOnlyAfterLeave`, `AnswerFirst`, `GateKeepsLines` and
  `TableCleanInProcess`, for any connections, loggers and
  limit of retries. The lemmas `RPCMoves` and `GateMoves` show that every step of
  the process is, to its connections and to its gate, a step of AgentIPC and of
  GatedWriter, a stutter, or the end of the process, which brings them back to
  their start; so `Entered` and `GateInv` carry over. `GateInv` adds to
  `LinesKept` that an append which is alone started from the buffer as it is.
  What Run returns and who was answered is not inductive: `Accounted` says for
  which reason the agent may be down at each stage of Run and what each leave has
  returned, and `Served` that the goroutine of a client in its leave is still
  there and that a client which was told has the answer or is gone.

* **CommonLemmas.** What the removal of entries and the addition of a router
  do to the entries, the owners and the services of a table; what appending to a
  queue and taking its head do to its elements and to its order. Then sums over a
  finite set, which code that adds up in any order needs. The induction over finite
  sets is stated with a set instead of a predicate (`SubsetInduction`,
  `NumberInduction`): a set of subsets that has the empty one and, with each, the one
  with an element more, has them all. From it: there is exactly one sum (`SumExists`,
  `SumIs`), it adds up (`SumStep`, `SumPlus`), and the last of a sequence's elements
  with a property is found by a fold (`LastOfSome`).
* **DiscoveryProofs.** `ClusterTypeCorrect`, `RoutesFromRegistrations` and
  `NoRouteForgotten` (`RoutesAnsweredFor`), for any agents, applications and
  digests. The invariant has four parts: `AgentTypes`, `EventTypes`, `TablesSound`
  and `Answered`.
  `RoutesAreRegistrations` is not inductive for one table: a sync command writes
  what it fetched earlier, so that its copy has to be as sound as the tables are;
  and which event a table goes back to matters only as far as its services and
  agent, so that `Sound` asks for one registration with both (`SoundAdd`,
  `SoundRemove`: every operation on a table keeps it). `RoutesAnsweredFor` is not
  about tables first: `Answered` says it of every registration that was broadcast,
  which no table can undo, since an application leaves the cache of its agent only
  into a batch, a batch only into the hands of OnAppExpired, and those only by an
  event that is later than the registration.
* **ConnectionProofs.** Of EventStreams `StreamsTypeCorrect`, `ResponseFirst` and
  `StreamsWithoutGaps`. `NoGaps` speaks of what a stream was given or was dropped;
  it is inductive only with what is due to it from the fan-out in progress, and
  with its place in life: in the handler list exactly while it is active, and
  untouched before (`Account`, `Stage`). Of RPC `RPCTypeCorrect` and
  `RequestsAgreed`, for any number of calls of any methods at the same time. The
  invariant `Line` describes the whole queue: each header is followed by the body
  of its request if and only if its command has one, and the first frame is a body
  only after its refusal. That the two sides draw the line at the same commands is
  a lemma of its own (`MethodOf`: a method of the client sends a body exactly if
  the handler of its command reads one).
  On the way back, `BodiesAgreed` (`BodiesMatch`, if the user does not close the
  client) and `BodiesUntilClose` (if he may). Their invariant `BodyInv` has to know
  the reader, the handlers and the agent at the same time. `Outward` describes the
  queue of responses: a header to a stream has a body if and only if it is not the
  first, one to a call if its command is answered with one and was not refused for
  want of a key. `Reading` puts the reader into it: a body is in front exactly when
  the reader is about to decode it, or has ignored its header, and both have the same
  number. This needs, of each handler, that a stream has one until its first response
  (`Handled`); of the requests, that none has an answer before it is read
  (`Inward`, `Untouched`); and of the key, that no success of the authentication is
  on its way before the session knows (`AuthFirst`), since which answers have no
  body depends on it. All of this holds while the connection is open and no client
  has been `Disowned` (`Live`); `Settings` and `Occupied`, which calls there can be
  and that the reader serves one that was made, always. After Close there is no such
  invariant: the cleanup of a handler sets `init` when no answer has come yet, and
  the handler would take the first response for a record.
* **AnyClientProofs.** `AnsweredInOrder` and `OnlyWithKey`, whatever a client sends
  and however much. The queue of frames is described as above, and next to it what
  was answered lies before the next request (`Earlier`), what the session believes
  of version and key goes back to requests before it (`Told`), and only while the
  connection is open: after that the order stays as it is and nothing is served.
* **OperatorProofs.** Of LogWriter `LogTypeCorrect`, `NoCallAfterDeregister` and
  `MonitorsMissNothing`, for any size of the buffer and of the channels. The
  invariant gives the line in every slot of the circular buffer (`Circular`), and
  of each monitor that what it was handed, with what was dropped and what is on its
  way to it, is all lines from its first, in order (`Account`). Of Reload
  `LevelAsConfigured`; `ConfigMerged` (`ConfigByPrecedence`): the merge, one file at
  a time, of any number of files is the last one that has a setting, or all of them
  in order, by an induction on the prefixes of the list, and a start puts the tags
  restored over it; `ScriptsAsConfigured`
  (`ScriptsFresh`): the scripts run for an event are those that the merged
  configuration names for it, no more and no less, from `ScriptsOfConfiguration`,
  which adds the list left by UpdateScripts for the event loop to what is in force
  (`Fresh`); and `TagsAddUp`
  and `TagsSurvive`, whose invariant says, for calls that do not overlap, how far
  the file is at each step of a call (`Calls`), that serf and the file agree unless
  a call is under way (`InStep`), and what a crash leaves behind (`CutOff`).

The assumptions are of three kinds. Sizes and durations are natural numbers, or
positive ones where `make` or a ticker asks for that, and there are finitely many
agents, addresses and services (`FiniteAssumption`). Model values that stand for
"none" are not in the sets they extend. And the environment is that of the
program: what a user calls are methods of the client (`CommandsAssumption`), the
two calls of the set-up are different ones and no others (`ClientAssumption`:
`getSeq` numbers every call anew), files hold lists of handler settings
(`FilesAssumption`), and a handshake of any client names a version the agent
supports or one it does not (`AsksAssumption`).
`MaxEvents`, `MaxFaults`, `MaxLines`, `MaxRequests` and `MaxRecords` are bounds of
the model; the theorems hold for every value of them.

Model-checked only is liveness, which is out of the prover's reach: `CallsReturn`,
`QueriesEnd`, `CleanEnd`, `QueueDrains`, `Ends`, `ShutdownClosesAll`, `AllAnswered`,
`ExpiredUnrouted` and `UnexpiredRouted`. Every invariant and action property of a
run, and every refinement, is the property of a theorem.

## Not modelled

* The repository's unlocked accesses (RemoveRouter without `rtLock`,
  UpdateRouters under a read lock, slices shared with readers, ListMicroApps that
  sizes its result under another lock): tables change in one step here. In Go
  such a race may end the process at once, and no statement about the lines
  involved survives it.
* The table of pending queries (`RegisterQuery`): lookup and removal are under
  one lock, and serf checks the deadline itself. What commands do to Serf.
* The loop of dropped log lines that are logged and dropped again: with one
  client that does not read it lasts until its connection ends, and with two
  each line makes two more. There is no bound to check.
* The keyring file, which is read once at the start; the texts of JSON, flags,
  addresses and durations; syslog.
* The execution of event scripts, mDNS, the printing commands of the command
  line and the routing of the REST requests: input and output around operations
  that are modelled.
* Serf itself: modelled as far as this code depends on it, and marked external.

## Plan

Done, in the order of importance: tables and cache with their abstractions and
proofs; the cluster; event streams; the RPC protocol from both sides; log
monitors; polling; the gate of the log; the life of the process; configuration,
tags and event scripts; and proofs of what the runs check but liveness. To come: the repository with its
locks, and ListMicroApps next to the cache.
