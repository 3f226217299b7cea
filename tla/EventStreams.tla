---------------------------- MODULE EventStreams ----------------------------
(***************************************************************************)
(* The way of an event from the agent's event loop to the clients that     *)
(* asked for it: the handler list of the agent (agent.go), the event       *)
(* streams of one RPC connection with their buffered channels and          *)
(* goroutines (ipc_event_stream.go), and the commands of the connection    *)
(* that start and stop them (handleStream, handleStop and                  *)
(* deregisterClient of ipc.go).                                            *)
(*                                                                         *)
(* Goroutines: the event loop, the one that serves the connection, and one *)
(* per stream.  The event loop copies the handler list under the lock and  *)
(* calls the handlers without it.  Events are numbered as the loop takes   *)
(* them: those that pass the filters of the streams.  That a number in use *)
(* is refused is in module Session.                                        *)
(***************************************************************************)
EXTENDS Naturals, Sequences, FiniteSets

CONSTANTS
    Stream,    \* the streams the client asks for; one asked for again after a
               \* stop, under the same number or another, is another of them
    Capacity,  \* of the channel of a stream
    MaxEvents  \* bound on the events

ASSUME CapacityAssumption == Capacity \in Nat \ {0}
ASSUME MaxEventsAssumption == MaxEvents \in Nat

VARIABLES
    handlers,  \* streams in the agent's handler list
    event,     \* number of the event the loop has taken last
    fanout,    \* handlers the loop has yet to call with it
    conn,      \* "open" or "closed"
    task,      \* what the goroutine of the connection is about to do
    chan,      \* chan[s]: "none", "open" or "closed"
    queue,     \* queue[s]: events in the channel
    sender,    \* sender[s]: whether the goroutine of the stream runs
    wire,      \* wire[s]: what the client has been sent, Ok or events
    dropped,   \* dropped[s]: events that found the channel full
    panicked   \* a send on a closed channel has ended the process

vars == <<handlers, event, fanout, conn, task, chan, queue, sender, wire, dropped, panicked>>

Ok == 0  \* the response to the stream command

Serve == [op |-> "serve", streams |-> {}]
Do(op, S) == [op |-> op, streams |-> S]

TypeOK ==
    /\ handlers \subseteq Stream /\ fanout \subseteq Stream
    /\ event \in 0..MaxEvents
    /\ conn \in {"open", "closed"}
    /\ task \in [op : {"serve", "respond", "register", "close", "deregister", "stop", "end"},
                 streams : SUBSET Stream]
    /\ chan \in [Stream -> {"none", "open", "closed"}]
    /\ queue \in [Stream -> Seq(1..MaxEvents)]
    /\ \A s \in Stream : Len(queue[s]) <= Capacity
    /\ sender \in [Stream -> BOOLEAN]
    /\ wire \in [Stream -> Seq(0..MaxEvents)]
    /\ dropped \in [Stream -> SUBSET (1..MaxEvents)]
    /\ panicked \in BOOLEAN

Init ==
    /\ handlers = {} /\ fanout = {}
    /\ event = 0
    /\ conn = "open"
    /\ task = Serve
    /\ chan = [s \in Stream |-> "none"]
    /\ queue = [s \in Stream |-> <<>>]
    /\ sender = [s \in Stream |-> FALSE]
    /\ wire = [s \in Stream |-> <<>>]
    /\ dropped = [s \in Stream |-> {}]
    /\ panicked = FALSE

-----------------------------------------------------------------------------
(* The event loop. *)

TakeEvent ==
    /\ ~ panicked
    /\ fanout = {}
    /\ event < MaxEvents
    /\ event' = event + 1
    /\ fanout' = handlers
    /\ UNCHANGED <<handlers, conn, task, chan, queue, sender, wire, dropped, panicked>>

\* Mutant of HandleEvent: the channel has no bound.
HandleEventUnbounded(s) ==
    /\ ~ panicked
    /\ s \in fanout
    /\ fanout' = fanout \ {s}
    /\ IF chan[s] = "closed"
       THEN panicked' = TRUE /\ UNCHANGED queue
       ELSE queue' = [queue EXCEPT ![s] = Append(@, event)] /\ UNCHANGED panicked
    /\ UNCHANGED <<handlers, event, conn, task, chan, sender, wire, dropped>>

\* A send that does not block; on a closed channel it panics.
HandleEvent(s) ==
    /\ ~ panicked
    /\ s \in fanout
    /\ fanout' = fanout \ {s}
    /\ CASE chan[s] = "closed" ->
              panicked' = TRUE /\ UNCHANGED <<queue, dropped>>
         [] chan[s] = "open" /\ Len(queue[s]) < Capacity ->
              queue' = [queue EXCEPT ![s] = Append(@, event)] /\ UNCHANGED <<dropped, panicked>>
         [] OTHER ->
              dropped' = [dropped EXCEPT ![s] = @ \cup {event}] /\ UNCHANGED <<queue, panicked>>
    /\ UNCHANGED <<handlers, event, conn, task, chan, sender, wire>>

-----------------------------------------------------------------------------
(* The goroutine of a stream. *)

\* It gives up at the first error; what is in the channel stays there.
SendEvent(s) ==
    /\ ~ panicked
    /\ sender[s] /\ queue[s] # <<>>
    /\ queue' = [queue EXCEPT ![s] = Tail(@)]
    /\ IF conn = "open"
       THEN wire' = [wire EXCEPT ![s] = Append(@, Head(queue[s]))] /\ UNCHANGED sender
       ELSE sender' = [sender EXCEPT ![s] = FALSE] /\ UNCHANGED wire
    /\ UNCHANGED <<handlers, event, fanout, conn, task, chan, dropped, panicked>>

EndStream(s) ==
    /\ ~ panicked
    /\ sender[s] /\ queue[s] = <<>> /\ chan[s] = "closed"
    /\ sender' = [sender EXCEPT ![s] = FALSE]
    /\ UNCHANGED <<handlers, event, fanout, conn, task, chan, queue, wire, dropped, panicked>>

-----------------------------------------------------------------------------
(* The goroutine of the connection. *)

\* Mutants of handleStream: registration does not wait for the response,
\* and the goroutine of the stream is not started.
handleStreamEager(s) ==
    /\ ~ panicked
    /\ task = Serve /\ conn = "open" /\ chan[s] = "none"
    /\ chan' = [chan EXCEPT ![s] = "open"]
    /\ sender' = [sender EXCEPT ![s] = TRUE]
    /\ handlers' = handlers \cup {s}
    /\ task' = Do("respond", {s})
    /\ UNCHANGED <<event, fanout, conn, queue, wire, dropped, panicked>>

handleStreamUnserved(s) ==
    /\ ~ panicked
    /\ task = Serve /\ conn = "open" /\ chan[s] = "none"
    /\ chan' = [chan EXCEPT ![s] = "open"]
    /\ task' = Do("respond", {s})
    /\ UNCHANGED <<handlers, event, fanout, conn, queue, sender, wire, dropped, panicked>>

\* newEventStream, with its channel and goroutine.
handleStream(s) ==
    /\ ~ panicked
    /\ task = Serve /\ conn = "open" /\ chan[s] = "none"
    /\ chan' = [chan EXCEPT ![s] = "open"]
    /\ sender' = [sender EXCEPT ![s] = TRUE]
    /\ task' = Do("respond", {s})
    /\ UNCHANGED <<handlers, event, fanout, conn, queue, wire, dropped, panicked>>

\* The response is sent before the stream is registered ...
Respond(s) ==
    /\ ~ panicked
    /\ task = Do("respond", {s})
    /\ wire' = [wire EXCEPT ![s] = IF conn = "open" THEN Append(@, Ok) ELSE @]
    /\ task' = Do("register", {s})
    /\ UNCHANGED <<handlers, event, fanout, conn, chan, queue, sender, dropped, panicked>>

\* Mutant of RegisterEventHandler: the list is rebuilt without the others.
RegisterEventHandlerAlone(s) ==
    /\ ~ panicked
    /\ task = Do("register", {s})
    /\ handlers' = {s}
    /\ task' = Serve
    /\ UNCHANGED <<event, fanout, conn, chan, queue, sender, wire, dropped, panicked>>

\* ... which happens also when it could not be sent, after which the
\* connection is given up.
RegisterEventHandler(s) ==
    /\ ~ panicked
    /\ task = Do("register", {s})
    /\ handlers' = handlers \cup {s}
    /\ task' = Serve
    /\ UNCHANGED <<event, fanout, conn, chan, queue, sender, wire, dropped, panicked>>

\* Deregister, then close the channel.
handleStop(s) ==
    /\ ~ panicked
    /\ task = Serve /\ conn = "open" /\ chan[s] = "open"
    /\ handlers' = handlers \ {s}
    /\ task' = Do("stop", {s})
    /\ UNCHANGED <<event, fanout, conn, chan, queue, sender, wire, dropped, panicked>>

Stop(s) ==
    /\ ~ panicked
    /\ task = Do("stop", {s})
    /\ chan' = [chan EXCEPT ![s] = "closed"]
    /\ task' = IF conn = "open" THEN Serve ELSE Do("close", {})
    /\ UNCHANGED <<handlers, event, fanout, conn, queue, sender, wire, dropped, panicked>>

\* The client goes away, or the agent closes the connection (Shutdown).
Disconnect ==
    /\ ~ panicked
    /\ conn = "open"
    /\ conn' = "closed"
    /\ UNCHANGED <<handlers, event, fanout, task, chan, queue, sender, wire, dropped, panicked>>

\* Mutant of deregisterClient: the streams are forgotten.
deregisterClientOnly ==
    /\ ~ panicked
    /\ conn = "closed"
    /\ task = Serve \/ task = Do("close", {})
    /\ task' = Do("end", {})
    /\ UNCHANGED <<handlers, event, fanout, conn, chan, queue, sender, wire, dropped, panicked>>

\* The streams of the connection are stopped one by one, in any order.
deregisterClient ==
    /\ ~ panicked
    /\ conn = "closed"
    /\ task = Serve \/ task = Do("close", {})
    /\ LET open == {s \in Stream : chan[s] = "open"}
       IN  IF open = {}
           THEN task' = Do("end", {}) /\ UNCHANGED handlers
           ELSE \E s \in open : handlers' = handlers \ {s} /\ task' = Do("stop", {s})
    /\ UNCHANGED <<event, fanout, conn, chan, queue, sender, wire, dropped, panicked>>

Next ==
    \/ TakeEvent
    \/ \E s \in Stream : \/ HandleEvent(s) \/ SendEvent(s) \/ EndStream(s)
                         \/ handleStream(s) \/ Respond(s) \/ RegisterEventHandler(s)
                         \/ handleStop(s) \/ Stop(s)
    \/ Disconnect
    \/ deregisterClient

Spec == Init /\ [][Next]_vars

\* The goroutines run; clients ask for and stop streams as they like.  While
\* the connection is open what is sent on it may wait for the client for ever:
\* Send has the lock of the connection and no deadline (ipc.go:275-294).
Fairness ==
    /\ \A s \in Stream : /\ WF_vars(HandleEvent(s)) /\ WF_vars(EndStream(s))
                         /\ WF_vars(RegisterEventHandler(s)) /\ WF_vars(Stop(s))
                         /\ WF_vars(conn = "closed" /\ SendEvent(s))
                         /\ WF_vars(conn = "closed" /\ Respond(s))
    /\ WF_vars(TakeEvent) /\ WF_vars(deregisterClient)

\* The client reads what it is sent: no send waits for ever.
ClientReads == \A s \in Stream : WF_vars(SendEvent(s)) /\ WF_vars(Respond(s))

FairSpec == Spec /\ Fairness

-----------------------------------------------------------------------------
\* What a stream was given, in order: sent after the response, or waiting in
\* its channel.
Given(s) == (IF wire[s] = <<>> THEN <<>> ELSE Tail(wire[s])) \o queue[s]

Got(s) == {Given(s)[i] : i \in DOMAIN Given(s)}

\* The event that is on its way to the stream.
Due(s) == IF s \in fanout THEN {event} ELSE {}

\* The client has started the stream and has not stopped it.
Active(s) == chan[s] = "open" /\ s \notin task.streams

Interval(S) == \A x, y \in S : x..y \subseteq S

\* The client hears that its stream exists before it gets an event of it:
\* registration waits for the response ("avoids any possible race
\* condition", ipc.go:873), though events arrive all the time.
OkBeforeEvents == \A s \in Stream : wire[s] # <<>> => wire[s][1] = Ok

\* A client gets the events in the order in which the agent saw them, none
\* twice, and all of them from the first on, but for those that found the
\* channel full: registering and stopping other streams while the loop goes
\* through its copy of the list costs nobody an event.
NoGaps ==
    \A s \in Stream :
        LET seen == Got(s) \cup dropped[s] \cup Due(s)
        IN  /\ \A i, j \in DOMAIN Given(s) : i < j => Given(s)[i] < Given(s)[j]
            /\ conn = "open" => Interval(seen)
            /\ conn = "open" /\ Active(s) /\ seen # {} => event \in seen

\* When a connection has ended, none of its streams is called any more, no
\* goroutine is left behind, and the handler list is clean, unless the
\* process itself is gone; also if the client never read.
CleanEnd == task.op = "end" /\ conn = "closed" ~>
                panicked \/ (handlers = {} /\ \A s \in Stream : ~ sender[s])

\* What is in the channel of a stream reaches a client that reads, while it is
\* there: the goroutine of the stream is started with it and outlives none of
\* the starts and stops of the others.
QueueDrains ==
    ClientReads =>
        \A s \in Stream : queue[s] # <<>> ~> queue[s] = <<>> \/ conn = "closed" \/ panicked

=============================================================================
