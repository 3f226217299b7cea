-------------------------- MODULE ConnectionProofs --------------------------
(***************************************************************************)
(* Proofs about a connection to the agent: its event streams (module       *)
(* EventStreams), for any streams, any capacity of their channels and any  *)
(* number of events; then the requests that a client (RPC) and its session *)
(* exchange over it, for any calls, methods and key, and the responses on  *)
(* their way back.                                                         *)
(***************************************************************************)
EXTENDS EventStreams, RPC, CommonLemmas

-----------------------------------------------------------------------------
(* The inductive invariant. *)

\* The stream has not yet got its place in the handler list.
Fresh(s) == chan[s] = "none" \/ (s \in task.streams /\ task.op \in {"respond", "register"})

Unanswered(s) == chan[s] = "none" \/ (s \in task.streams /\ task.op = "respond")

\* Where a stream is in its life: it is in the handler list exactly while it
\* is active, nothing has happened to it before, and its client gets the
\* response first.
Stage(s) ==
    /\ s \in handlers <=> Active(s)
    /\ s \in task.streams => chan[s] = "open"
    /\ Fresh(s) => queue[s] = <<>> /\ dropped[s] = {} /\ s \notin fanout /\ wire[s] \in {<<>>, <<Ok>>}
    /\ Unanswered(s) => wire[s] = <<>>
    /\ conn = "open" /\ ~ Unanswered(s) => wire[s] # <<>>
    /\ wire[s] # <<>> => wire[s][1] = Ok

Seen(s) == Got(s) \cup dropped[s] \cup Due(s)

\* What a stream has been given: only what has happened, each event at most
\* once, and no event left out.
Account(s) ==
    /\ Ascending(Given(s))
    /\ Got(s) \cup dropped[s] \subseteq 1..event
    /\ s \in fanout => event \in 1..MaxEvents /\ event \notin Got(s) \cup dropped[s]
    /\ conn = "open" => Interval(Seen(s))
    /\ conn = "open" /\ s \in handlers /\ Seen(s) # {} => event \in Seen(s)

StreamsInv == TypeOK /\ \A s \in Stream : Stage(s) /\ Account(s)

\* It holds before the first event.
LEMMA StreamsInit == Init => StreamsInv
  <1> SUFFICES ASSUME Init PROVE StreamsInv
    OBVIOUS
  <1>1. TypeOK
    <2>1. Len(<<>>) <= Capacity /\ 0 \in 0..MaxEvents /\ <<>> \in Seq(1..MaxEvents) /\ <<>> \in Seq(0..MaxEvents)
      BY CapacityAssumption, MaxEventsAssumption
    <2> QED BY <2>1 DEF Init, TypeOK, Serve
  <1>2. ASSUME NEW s \in Stream PROVE Stage(s)
    BY DEF Init, Stage, Active, Fresh, Unanswered, Serve
  <1>3. ASSUME NEW s \in Stream PROVE Account(s)
    <2>1. Given(s) = <<>>
      BY DEF Init, Given
    <2>2. Got(s) = {} /\ dropped[s] = {} /\ s \notin fanout
      BY <2>1 DEF Init, Got
    <2> QED BY <2>1, <2>2 DEF Account, Ascending, Seen, Due, Interval
  <1> QED BY <1>1, <1>2, <1>3 DEF StreamsInv

\* Types: an event that is handed over has a number, as the loop has taken
\* it, and a full channel takes no more.
LEMMA StreamTypesStep == StreamsInv /\ [Next]_vars => TypeOK'
  <1> SUFFICES ASSUME StreamsInv, [Next]_vars PROVE TypeOK'
    OBVIOUS
  <1> USE CapacityAssumption, MaxEventsAssumption
  <1>0. TypeOK
    BY DEF StreamsInv
  <1>1. CASE TakeEvent
    BY <1>0, <1>1 DEF TypeOK, TakeEvent
  <1>2. ASSUME NEW s \in Stream, HandleEvent(s) PROVE TypeOK'
    <2>1. event \in 1..MaxEvents
      BY <1>2 DEF StreamsInv, Account, HandleEvent
    <2>2. queue' \in [Stream -> Seq(1..MaxEvents)] /\ \A t \in Stream : Len(queue'[t]) <= Capacity
      <3>1. CASE queue' = queue
        BY <1>0, <3>1 DEF TypeOK
      <3>2. CASE Len(queue[s]) < Capacity /\ queue' = [queue EXCEPT ![s] = Append(@, event)]
        <4>1. queue[s] \in Seq(1..MaxEvents) /\ Len(queue[s]) \in Nat
          BY <1>0 DEF TypeOK
        <4>2. Append(queue[s], event) \in Seq(1..MaxEvents) /\ Len(Append(queue[s], event)) = Len(queue[s]) + 1
          BY <2>1, <4>1
        <4>3. Len(Append(queue[s], event)) <= Capacity
          BY <3>2, <4>1, <4>2
        <4> QED BY <1>0, <3>2, <4>2, <4>3 DEF TypeOK
      <3> QED BY <1>2, <3>1, <3>2 DEF HandleEvent
    <2>3. dropped' \in [Stream -> SUBSET (1..MaxEvents)]
      <3>1. dropped' = dropped \/ dropped' = [dropped EXCEPT ![s] = @ \cup {event}]
        BY <1>2 DEF HandleEvent
      <3>2. dropped[s] \cup {event} \in SUBSET (1..MaxEvents)
        BY <1>0, <2>1 DEF TypeOK
      <3> QED BY <1>0, <3>1, <3>2 DEF TypeOK
    <2> QED BY <1>0, <1>2, <2>2, <2>3 DEF TypeOK, HandleEvent
  <1>3. ASSUME NEW s \in Stream, SendEvent(s) PROVE TypeOK'
    <2>1. /\ queue[s] \in Seq(1..MaxEvents) /\ queue[s] # <<>> /\ Len(queue[s]) <= Capacity
          /\ wire[s] \in Seq(0..MaxEvents)
      BY <1>0, <1>3 DEF TypeOK, SendEvent
    <2>2. /\ Tail(queue[s]) \in Seq(1..MaxEvents) /\ Len(Tail(queue[s])) <= Capacity
          /\ Head(queue[s]) \in 0..MaxEvents
      <3>1. /\ Tail(queue[s]) \in Seq(1..MaxEvents) /\ Head(queue[s]) \in 1..MaxEvents
            /\ Len(Tail(queue[s])) = Len(queue[s]) - 1
        BY <2>1, HeadTailProperties
      <3>2. Len(queue[s]) \in Nat
        BY <2>1
      <3> QED BY <2>1, <3>1, <3>2
    <2>3. Append(wire[s], Head(queue[s])) \in Seq(0..MaxEvents)
      BY <2>1, <2>2
    <2>4. queue' \in [Stream -> Seq(1..MaxEvents)] /\ \A t \in Stream : Len(queue'[t]) <= Capacity
      BY <1>0, <1>3, <2>2 DEF TypeOK, SendEvent
    <2>5. wire' \in [Stream -> Seq(0..MaxEvents)] /\ sender' \in [Stream -> BOOLEAN]
      BY <1>0, <1>3, <2>3 DEF TypeOK, SendEvent
    <2> QED BY <1>0, <1>3, <2>4, <2>5 DEF TypeOK, SendEvent
  <1>4. ASSUME NEW s \in Stream, EndStream(s) PROVE TypeOK'
    BY <1>0, <1>4 DEF TypeOK, EndStream
  <1>5. ASSUME NEW s \in Stream, handleStream(s) PROVE TypeOK'
    BY <1>0, <1>5 DEF TypeOK, handleStream, Do
  <1>6. ASSUME NEW s \in Stream, Respond(s) PROVE TypeOK'
    <2>1. wire[s] \in Seq(0..MaxEvents) /\ Ok \in 0..MaxEvents
      BY <1>0 DEF TypeOK, Ok
    <2>2. Append(wire[s], Ok) \in Seq(0..MaxEvents)
      BY <2>1
    <2>3. wire' \in [Stream -> Seq(0..MaxEvents)]
      BY <1>0, <1>6, <2>2 DEF TypeOK, Respond
    <2> QED BY <1>0, <1>6, <2>3 DEF TypeOK, Respond, Do
  <1>7. ASSUME NEW s \in Stream, RegisterEventHandler(s) PROVE TypeOK'
    BY <1>0, <1>7 DEF TypeOK, RegisterEventHandler, Serve
  <1>8. ASSUME NEW s \in Stream, handleStop(s) PROVE TypeOK'
    BY <1>0, <1>8 DEF TypeOK, handleStop, Do
  <1>9. ASSUME NEW s \in Stream, Stop(s) PROVE TypeOK'
    BY <1>0, <1>9 DEF TypeOK, Stop, Do, Serve
  <1>10. CASE Disconnect
    BY <1>0, <1>10 DEF TypeOK, Disconnect
  <1>11. CASE deregisterClient
    BY <1>0, <1>11 DEF TypeOK, deregisterClient, Do
  <1>12. CASE UNCHANGED vars
    BY <1>0, <1>12 DEF TypeOK, vars
  <1> QED BY <1>1, <1>2, <1>3, <1>4, <1>5, <1>6, <1>7, <1>8, <1>9, <1>10, <1>11, <1>12 DEF Next

\* The stages of a stream: only the goroutine of the connection moves it
\* on, and the events it gets meanwhile find it registered.
LEMMA StageStep == StreamsInv /\ [Next]_vars => \A t \in Stream : Stage(t)'
  <1> SUFFICES ASSUME StreamsInv, [Next]_vars, NEW t \in Stream PROVE Stage(t)'
    OBVIOUS
  <1>0. TypeOK /\ Stage(t)
    BY DEF StreamsInv
  <1> USE DEF Stage, Active, Fresh, Unanswered
  <1>1. CASE TakeEvent
    BY <1>0, <1>1 DEF TakeEvent
  <1>2. ASSUME NEW s \in Stream, HandleEvent(s) PROVE Stage(t)'
    BY <1>0, <1>2 DEF HandleEvent, TypeOK
  <1>3. ASSUME NEW s \in Stream, SendEvent(s) PROVE Stage(t)'
    <2>1. CASE t # s
      BY <1>0, <1>3, <2>1 DEF SendEvent, TypeOK
    <2>2. CASE t = s
      <3>0. queue[s] \in Seq(1..MaxEvents) /\ queue[s] # <<>>
        BY <1>0, <1>3 DEF SendEvent, TypeOK
      <3>1. ~ Fresh(s) /\ wire[s] \in Seq(0..MaxEvents) /\ Head(queue[s]) \in 0..MaxEvents
        <4>1. Head(queue[s]) \in 1..MaxEvents
          BY <3>0, HeadTailProperties
        <4>2. Head(queue[s]) \in 0..MaxEvents
          BY <4>1
        <4> QED BY <1>0, <2>2, <3>0, <4>2 DEF TypeOK
      <3>2. conn = "open" => wire[s] # <<>> /\ wire'[s] = Append(wire[s], Head(queue[s]))
        BY <1>0, <1>3, <2>2, <3>1 DEF SendEvent, TypeOK
      <3>3. conn = "open" => wire'[s] # <<>> /\ wire'[s][1] = wire[s][1]
        BY <3>1, <3>2
      <3>4. conn # "open" => wire' = wire
        BY <1>3 DEF SendEvent
      <3> QED BY <1>0, <1>3, <2>2, <3>1, <3>2, <3>3, <3>4 DEF SendEvent
    <2> QED BY <2>1, <2>2
  <1>4. ASSUME NEW s \in Stream, EndStream(s) PROVE Stage(t)'
    BY <1>0, <1>4 DEF EndStream
  <1>5. ASSUME NEW s \in Stream, handleStream(s) PROVE Stage(t)'
    BY <1>0, <1>5 DEF handleStream, TypeOK, Do, Serve
  <1>6. ASSUME NEW s \in Stream, Respond(s) PROVE Stage(t)'
    <2>1. CASE t # s
      BY <1>0, <1>6, <2>1 DEF Respond, TypeOK, Do
    <2>2. CASE t = s
      <3>1. wire[s] = <<>> /\ wire'[s] = IF conn = "open" THEN <<Ok>> ELSE <<>>
        BY <1>0, <1>6, <2>2 DEF Respond, TypeOK, Do
      <3>2. <<Ok>> # <<>> /\ <<Ok>>[1] = Ok
        OBVIOUS
      <3> QED BY <1>0, <1>6, <2>2, <3>1, <3>2 DEF Respond, TypeOK, Do
    <2> QED BY <2>1, <2>2
  <1>7. ASSUME NEW s \in Stream, RegisterEventHandler(s) PROVE Stage(t)'
    BY <1>0, <1>7 DEF RegisterEventHandler, TypeOK, Do, Serve
  <1>8. ASSUME NEW s \in Stream, handleStop(s) PROVE Stage(t)'
    BY <1>0, <1>8 DEF handleStop, TypeOK, Do, Serve
  <1>9. ASSUME NEW s \in Stream, Stop(s) PROVE Stage(t)'
    BY <1>0, <1>9 DEF Stop, TypeOK, Do, Serve
  <1>10. CASE Disconnect
    BY <1>0, <1>10 DEF Disconnect
  <1>11. CASE deregisterClient
    BY <1>0, <1>11 DEF deregisterClient, TypeOK, Do, Serve
  <1>12. CASE UNCHANGED vars
    BY <1>0, <1>12 DEF vars
  <1> QED BY <1>1, <1>2, <1>3, <1>4, <1>5, <1>6, <1>7, <1>8, <1>9, <1>10, <1>11, <1>12 DEF Next

\* The account of a stream stays right while nothing happens to it, its
\* connection does not reopen and it is not put into the handler list.
LEMMA AccountStays ==
  ASSUME NEW s \in Stream, Account(s), Given(s)' = Given(s), dropped'[s] = dropped[s],
         event' = event, s \in fanout' <=> s \in fanout,
         conn' = "open" => conn = "open", s \in handlers' => s \in handlers
  PROVE  Account(s)'
  <1>1. Got(s)' = Got(s) /\ Due(s)' = Due(s)
    BY DEF Got, Due
  <1>2. Seen(s)' = Seen(s)
    BY <1>1 DEF Seen
  <1> QED BY <1>1, <1>2 DEF Account, Ascending, Interval

\* The account of a stream: an event is added once, by the loop, and is the
\* largest so far; sending moves it from the channel to the client.
LEMMA AccountStep == StreamsInv /\ [Next]_vars => \A t \in Stream : Account(t)'
  <1> SUFFICES ASSUME StreamsInv, [Next]_vars, NEW t \in Stream PROVE Account(t)'
    OBVIOUS
  <1>0. TypeOK /\ Stage(t) /\ Account(t)
    BY DEF StreamsInv
  <1>t. /\ queue[t] \in Seq(Nat) /\ wire[t] \in Seq(Nat) /\ event \in Nat
        /\ Got(t) = Elements(Given(t))
    <2>1. queue[t] \in Seq(1..MaxEvents) /\ wire[t] \in Seq(0..MaxEvents) /\ event \in 0..MaxEvents
      BY <1>0 DEF TypeOK
    <2> QED BY <2>1, Numbers, MaxEventsAssumption DEF Got, Elements
  <1> DEFINE sent == IF wire[t] = <<>> THEN <<>> ELSE Tail(wire[t])
  <1>g. sent \in Seq(Nat) /\ Given(t) = sent \o queue[t] /\ Given(t) \in Seq(Nat)
    BY <1>t DEF Given
  <1> HIDE DEF sent
  <1>s. wire'[t] = wire[t] /\ queue'[t] = queue[t] => Given(t)' = Given(t)
    BY DEF Given
  <1>1. CASE TakeEvent
    <2>1. /\ Given(t)' = Given(t) /\ dropped' = dropped /\ event' = event + 1 /\ fanout' = handlers
          /\ fanout = {} /\ conn' = conn /\ handlers' = handlers /\ event < MaxEvents
      BY <1>1, <1>s DEF TakeEvent
    <2>2. Got(t)' = Got(t)
      BY <2>1 DEF Got
    <2>3. event + 1 \in 1..MaxEvents /\ event + 1 \notin 1..event /\ 1..event \subseteq 1..event + 1
      BY <1>t, <2>1, MaxEventsAssumption
    <2>4. Seen(t) = Got(t) \cup dropped[t] /\ Seen(t) \subseteq 1..event
      BY <1>0, <2>1 DEF Seen, Due, Account
    <2>5. Seen(t)' = Seen(t) \cup IF t \in handlers THEN {event + 1} ELSE {}
      BY <2>1, <2>2, <2>4 DEF Seen, Due
    <2>6. ASSUME conn = "open", t \in handlers, NEW x \in Seen(t)', NEW y \in Seen(t)' PROVE x..y \subseteq Seen(t)'
      <3>1. CASE y = event + 1 /\ x # event + 1
        <4>1. x \in Seen(t) /\ event \in Seen(t)
          BY <1>0, <2>5, <2>6, <3>1 DEF Account
        <4>2. x..event \subseteq Seen(t)
          BY <1>0, <2>6, <4>1 DEF Account, Interval
        <4>3. x..y = x..event \cup {event + 1}
          BY <1>t, <2>4, <3>1, <4>1
        <4> QED BY <2>5, <2>6, <4>2, <4>3
      <3>2. CASE y # event + 1 /\ x # event + 1
        BY <1>0, <2>5, <2>6, <3>2 DEF Account, Interval
      <3>3. CASE x = event + 1
        <4>1. y \in 1..event + 1
          BY <2>4, <2>5, <2>3, <1>t
        <4>2. x..y \subseteq {event + 1}
          BY <1>t, <3>3, <4>1
        <4> QED BY <2>5, <2>6, <4>2
      <3> QED BY <3>1, <3>2, <3>3
    <2>7. conn = "open" => Interval(Seen(t))'
      <3>1. CASE t \in handlers
        BY <2>6, <3>1 DEF Interval
      <3>2. CASE t \notin handlers
        BY <1>0, <2>5, <3>2 DEF Account, Interval
      <3> QED BY <3>1, <3>2
    <2> QED BY <1>0, <2>1, <2>2, <2>3, <2>5, <2>7 DEF Account, Ascending
  <1>2. ASSUME NEW s \in Stream, HandleEvent(s) PROVE Account(t)'
    <2>1. CASE t # s
      <3>1. queue'[t] = queue[t] /\ dropped'[t] = dropped[t] /\ wire' = wire
        BY <1>0, <1>2, <2>1 DEF HandleEvent, TypeOK
      <3> QED BY <1>0, <1>2, <1>s, <2>1, <3>1, AccountStays DEF HandleEvent
    <2>2. CASE t = s
      <3>1. /\ t \in fanout /\ t \notin fanout' /\ wire' = wire /\ event' = event /\ handlers' = handlers
            /\ conn' = conn
        BY <1>2, <2>2 DEF HandleEvent
      <3>2. /\ event \in 1..MaxEvents /\ event \notin Got(t) \cup dropped[t]
            /\ Got(t) \cup dropped[t] \subseteq 1..event
            /\ Seen(t) = Got(t) \cup dropped[t] \cup {event}
        BY <1>0, <3>1 DEF Account, Seen, Due
      <3>3. CASE queue' = queue /\ dropped' = dropped /\ chan[t] = "closed"
        <4>1. Given(t)' = Given(t) /\ Got(t)' = Got(t)
          BY <1>s, <3>1, <3>3 DEF Got
        <4>2. Seen(t)' = Got(t) \cup dropped[t]
          BY <3>1, <3>3, <4>1 DEF Seen, Due
        <4>3. t \notin handlers
          BY <1>0, <3>3 DEF Stage, Active
        <4>4. conn = "open" => Interval(Got(t) \cup dropped[t])
          <5> SUFFICES ASSUME conn = "open", NEW x \in Got(t) \cup dropped[t], NEW y \in Got(t) \cup dropped[t],
                              NEW z \in x..y
                       PROVE  z \in Got(t) \cup dropped[t]
            BY DEF Interval
          <5>1. z \in Seen(t)
            BY <1>0, <3>2 DEF Account, Interval
          <5>2. z # event
            BY <1>t, <3>2
          <5> QED BY <3>2, <5>1, <5>2
        <4> QED BY <1>0, <3>1, <3>3, <4>1, <4>2, <4>3, <4>4 DEF Account, Ascending
      <3>4. CASE queue' = [queue EXCEPT ![t] = Append(@, event)] /\ dropped' = dropped
        <4>1. queue'[t] = Append(queue[t], event)
          BY <1>0, <3>4 DEF TypeOK
        <4>2. Given(t)' = sent \o Append(queue[t], event)
          BY <3>1, <4>1 DEF Given, sent
        <4>3. Given(t)' = Append(Given(t), event)
          BY <1>t, <1>g, <4>2, ConcatAppend
        <4>4. \A x \in Elements(Given(t)) : x < event
          BY <1>t, <3>2
        <4>5. Ascending(Given(t)') /\ Elements(Given(t)') = Elements(Given(t)) \cup {event}
          <5>1. Ascending(Given(t))
            BY <1>0 DEF Account
          <5>2. /\ Ascending(Append(Given(t), event))
                /\ Elements(Append(Given(t), event)) = Elements(Given(t)) \cup {event}
            BY <1>t, <1>g, <4>4, <5>1, AppendLast
          <5> QED BY <4>3, <5>2
        <4>6. Got(t)' = Got(t) \cup {event}
          BY <1>t, <4>5 DEF Got, Elements
        <4>7. Seen(t)' = Seen(t)
          BY <3>1, <3>2, <3>4, <4>6 DEF Seen, Due
        <4> QED BY <1>0, <3>1, <3>2, <3>4, <4>5, <4>6, <4>7 DEF Account, Interval
      <3>5. CASE queue' = queue /\ dropped' = [dropped EXCEPT ![t] = @ \cup {event}]
        <4>1. Given(t)' = Given(t) /\ Got(t)' = Got(t) /\ dropped'[t] = dropped[t] \cup {event}
          BY <1>0, <1>s, <3>1, <3>5 DEF Got, TypeOK
        <4>2. Seen(t)' = Seen(t)
          BY <3>1, <3>2, <4>1 DEF Seen, Due
        <4> QED BY <1>0, <3>1, <3>2, <4>1, <4>2 DEF Account, Ascending, Interval
      <3> QED BY <1>2, <2>2, <3>3, <3>4, <3>5 DEF HandleEvent
    <2> QED BY <2>1, <2>2
  <1>3. ASSUME NEW s \in Stream, SendEvent(s) PROVE Account(t)'
    <2>1. CASE t # s
      <3>1. queue'[t] = queue[t] /\ wire'[t] = wire[t]
        BY <1>0, <1>3, <2>1 DEF SendEvent, TypeOK
      <3> QED BY <1>0, <1>3, <1>s, <3>1, AccountStays DEF SendEvent
    <2>2. CASE t = s
      <3>1. queue[t] # <<>> /\ queue'[t] = Tail(queue[t])
        BY <1>0, <1>3, <2>2 DEF SendEvent, TypeOK
      <3>2. CASE conn = "open"
        <4>1. wire'[t] = Append(wire[t], Head(queue[t])) /\ wire[t] # <<>>
          BY <1>0, <1>3, <2>2, <3>1, <3>2 DEF SendEvent, TypeOK, Stage, Fresh, Unanswered
        <4>2. Head(queue[t]) \in Nat
          BY <1>t, <3>1, HeadTailProperties
        <4>3. wire'[t] # <<>> /\ Tail(wire'[t]) = Append(sent, Head(queue[t]))
          BY <1>t, <4>1, <4>2, TailAppend DEF sent
        <4>4. Given(t)' = Append(sent, Head(queue[t])) \o Tail(queue[t])
          BY <3>1, <4>3 DEF Given
        <4>5. Given(t)' = Given(t)
          <5>1. Append(sent, Head(queue[t])) \o Tail(queue[t]) = sent \o queue[t]
            BY <1>t, <1>g, <3>1, MoveHead
          <5> QED BY <1>g, <4>4, <5>1
        <4> QED BY <1>0, <1>3, <4>5, AccountStays DEF SendEvent
      <3>3. CASE conn # "open"
        <4>1. Given(t)' = sent \o Tail(queue[t])
          BY <1>3, <3>1, <3>3 DEF SendEvent, Given, sent
        <4>2. Ascending(Given(t)') /\ Elements(Given(t)') \subseteq Elements(Given(t))
          <5>1. Ascending(sent \o queue[t])
            BY <1>0, <1>g DEF Account
          <5>2. /\ Ascending(sent \o Tail(queue[t]))
                /\ Elements(sent \o Tail(queue[t])) \subseteq Elements(sent \o queue[t])
            BY <1>t, <1>g, <3>1, <5>1, DropHead
          <5> QED BY <1>g, <4>1, <5>2
        <4>3. Got(t)' \subseteq Got(t)
          BY <1>t, <4>2 DEF Got, Elements
        <4> QED BY <1>0, <1>3, <3>3, <4>2, <4>3 DEF Account, SendEvent
      <3> QED BY <3>2, <3>3
    <2> QED BY <2>1, <2>2
  <1>4. ASSUME NEW s \in Stream, EndStream(s) PROVE Account(t)'
    BY <1>0, <1>4, <1>s, AccountStays DEF EndStream
  <1>5. ASSUME NEW s \in Stream, handleStream(s) PROVE Account(t)'
    BY <1>0, <1>5, <1>s, AccountStays DEF handleStream
  <1>6. ASSUME NEW s \in Stream, Respond(s) PROVE Account(t)'
    <2>1. CASE t # s
      <3>1. wire'[t] = wire[t] /\ queue' = queue
        BY <1>0, <1>6, <2>1 DEF Respond, TypeOK
      <3> QED BY <1>0, <1>6, <1>s, <3>1, AccountStays DEF Respond
    <2>2. CASE t = s
      <3>1. wire[t] = <<>> /\ queue' = queue /\ (wire'[t] = <<>> \/ wire'[t] = Append(<<>>, Ok))
        BY <1>0, <1>6, <2>2 DEF Respond, TypeOK, Do, Stage, Unanswered
      <3>2. Append(<<>>, Ok) # <<>> /\ Tail(Append(<<>>, Ok)) = <<>>
        BY DEF Ok
      <3>3. Given(t)' = Given(t)
        BY <3>1, <3>2 DEF Given
      <3> QED BY <1>0, <1>6, <3>3, AccountStays DEF Respond
    <2> QED BY <2>1, <2>2
  <1>7. ASSUME NEW s \in Stream, RegisterEventHandler(s) PROVE Account(t)'
    <2>1. Given(t)' = Given(t)
      BY <1>7, <1>s DEF RegisterEventHandler
    <2>2. CASE t # s
      BY <1>0, <1>7, <2>1, <2>2, AccountStays DEF RegisterEventHandler
    <2>3. CASE t = s
      <3>1. queue[t] = <<>> /\ wire[t] \in {<<>>, <<Ok>>} /\ dropped[t] = {} /\ t \notin fanout
        BY <1>0, <1>7, <2>3 DEF RegisterEventHandler, Do, Stage, Fresh
      <3>2. Given(t) = <<>>
        <4>1. <<Ok>> # <<>> /\ Tail(<<Ok>>) = <<>> /\ <<>> \o <<>> = <<>>
          BY DEF Ok
        <4> QED BY <3>1, <4>1 DEF Given
      <3>3. Got(t) = {} /\ Got(t)' = {}
        BY <2>1, <3>2 DEF Got
      <3>4. Seen(t)' = {}
        BY <1>7, <3>1, <3>3 DEF Seen, Due, RegisterEventHandler
      <3> QED BY <1>0, <1>7, <2>1, <3>1, <3>3, <3>4 DEF Account, Ascending, Interval, RegisterEventHandler
    <2> QED BY <2>2, <2>3
  <1>8. ASSUME NEW s \in Stream, handleStop(s) PROVE Account(t)'
    BY <1>0, <1>8, <1>s, AccountStays DEF handleStop
  <1>9. ASSUME NEW s \in Stream, Stop(s) PROVE Account(t)'
    BY <1>0, <1>9, <1>s, AccountStays DEF Stop
  <1>10. CASE Disconnect
    BY <1>0, <1>10, <1>s, AccountStays DEF Disconnect
  <1>11. CASE deregisterClient
    <2>1. t \in handlers' => t \in handlers
      BY <1>11 DEF deregisterClient
    <2> QED BY <1>0, <1>11, <1>s, <2>1, AccountStays DEF deregisterClient
  <1>12. CASE UNCHANGED vars
    BY <1>0, <1>12, <1>s, AccountStays DEF vars
  <1> QED BY <1>1, <1>2, <1>3, <1>4, <1>5, <1>6, <1>7, <1>8, <1>9, <1>10, <1>11, <1>12 DEF Next

\* The invariant holds in every state.
LEMMA StreamsInvariant == Spec => []StreamsInv
  <1>1. StreamsInv /\ [Next]_vars => StreamsInv'
    BY StreamTypesStep, StageStep, AccountStep DEF StreamsInv
  <1> QED BY <1>1, StreamsInit, PTL DEF Spec

-----------------------------------------------------------------------------
\* The variables keep their types; above all, the channel of a stream never
\* holds more than its capacity (ipc_event_stream.go).
THEOREM StreamsTypeCorrect == Spec => []TypeOK
  <1>1. StreamsInv => TypeOK
    BY DEF StreamsInv
  <1> QED BY <1>1, StreamsInvariant, PTL

\* The response to the stream command reaches the client before any event of
\* the stream, as handleStream registers it only after that.
THEOREM ResponseFirst == Spec => []OkBeforeEvents
  <1>1. StreamsInv => OkBeforeEvents
    BY DEF StreamsInv, Stage, OkBeforeEvents
  <1> QED BY <1>1, StreamsInvariant, PTL

\* Every stream gets the events in order, none twice, and all since the first
\* one but those that found its channel full.
THEOREM StreamsWithoutGaps == Spec => []NoGaps
  <1>1. StreamsInv => NoGaps
    <2> SUFFICES ASSUME StreamsInv, NEW s \in Stream
                 PROVE  /\ Ascending(Given(s))
                        /\ conn = "open" => Interval(Seen(s))
                        /\ conn = "open" /\ Active(s) /\ Seen(s) # {} => event \in Seen(s)
      BY DEF NoGaps, Seen, Ascending
    <2> QED BY DEF StreamsInv, Stage, Account
  <1> QED BY <1>1, StreamsInvariant, PTL

-----------------------------------------------------------------------------
(* RPC: types. *)

SessionTypes ==
    /\ version \in 0..1 /\ didAuth \in BOOLEAN /\ leaving \in BOOLEAN
    /\ streams \in [Call -> {"none", "open", "monitor", "query", "stopped", "done"}]
    /\ pushed \in 0..MaxRecords
    /\ link \subseteq {"client", "agent"}

ClientTypes ==
    /\ pc \in [Call -> {"idle", "begun", "registered", "waiting", "leaving", "cleaning", "returned"}]
    /\ result \in [Call -> {"none", "ok", "failed", "closed"}]
    /\ reply \in [Call -> {<<>>, <<"ok">>, <<"failed">>}]
    /\ dispatch \subseteq Call
    /\ init \in [Call -> BOOLEAN] /\ userCh \in [Call -> {"open", "closed"}]
    /\ cleanup \in [Call -> {"no", "started", "notify", "close", "done"}]
    /\ shutdown \in BOOLEAN /\ crashed \in BOOLEAN
    /\ closer \in {"no", "begun", "deregistering", "closed"}
    /\ reader.at \in {"read", "answer", "check", "init", "record", "cleaning", "ended"}
    /\ reader = [at |-> reader.at, seq |-> reader.seq, error |-> reader.error]

\* What the session does keeps its types.
LEMMA SessionTypesStep == SessionTypes /\ Agent!SessionNext => SessionTypes'
  <1> SUFFICES ASSUME SessionTypes, Agent!SessionNext PROVE SessionTypes'
    OBVIOUS
  <1> USE DEF SessionTypes, Agent!Hangup, Agent!same
  <1>0. MaxRecords \in Nat
    BY AgentAssumption
  <1>1. CASE Agent!handshakeRequired \/ Agent!refuse \/ Agent!decodeFailed \/ Agent!unsupportedCommand
             \/ Agent!filterFails \/ Agent!Shutdown
    BY <1>1 DEF Agent!handshakeRequired, Agent!refuse, Agent!decodeFailed, Agent!unsupportedCommand,
                Agent!filterFails, Agent!Shutdown
  <1>2. CASE Agent!handleHandshake \/ Agent!handleAuth
    <2>1. CASE Agent!handleHandshake
      <3>1. version' \in {version, 1} /\ UNCHANGED <<link, didAuth, streams, pushed, leaving>>
        BY <2>1 DEF Agent!handleHandshake
      <3> QED BY <3>1
    <2>2. CASE Agent!handleAuth
      <3>1. didAuth' \in {didAuth, TRUE} /\ UNCHANGED <<link, version, streams, pushed, leaving>>
        BY <2>2, Zenon DEF Agent!handleAuth
      <3> QED BY <3>1
    <2> QED BY <1>2, <2>1, <2>2
  <1>3. ASSUME NEW name, NEW errors,
               Agent!Acts(name, errors) \/ Agent!Exchanges(name, errors) \/ Agent!Tells(name, errors)
        PROVE  SessionTypes'
    BY <1>3 DEF Agent!Acts, Agent!Exchanges, Agent!Tells
  <1>4. CASE Agent!handleLeave \/ Agent!handleStop
    BY <1>4 DEF Agent!handleLeave, Agent!handleStop
  <1>5. CASE Agent!handleStream \/ Agent!handleMonitor \/ Agent!handleQuery
    BY <1>5 DEF Agent!handleStream, Agent!handleMonitor, Agent!handleQuery, Agent!Subscribe
  <1>6. ASSUME NEW s \in Call, Agent!sendRecord(s) \/ Agent!sendDone(s) PROVE SessionTypes'
    <2>1. CASE Agent!sendRecord(s)
      <3>1. pushed < MaxRecords /\ pushed' = pushed + 1 /\ UNCHANGED <<link, version, didAuth, streams, leaving>>
        BY <2>1 DEF Agent!sendRecord
      <3> QED BY <1>0, <3>1
    <2>2. CASE Agent!sendDone(s)
      BY <2>2 DEF Agent!sendDone
    <2> QED BY <1>6, <2>1, <2>2
  <1>7. CASE Agent!handleMembers
    BY <1>1, <1>3, <1>7 DEF Agent!handleMembers
  <1>8. CASE Agent!handleRequest
    BY <1>1, <1>2, <1>3, <1>4, <1>5, <1>7, <1>8
    DEF Agent!handleRequest, Agent!handleEvent, Agent!handleForceLeave, Agent!handleTags, Agent!handleRespond,
        Agent!handleUpdateRouters, Agent!handleJoin, Agent!handleInstallKey, Agent!handleUseKey,
        Agent!handleRemoveKey, Agent!handleGetCoordinate, Agent!handleListKeys, Agent!handleStats,
        Agent!handleListMicroApps, Agent!handleListRouters
  <1> QED BY <1>1, <1>6, <1>8 DEF Agent!SessionNext

\* And so does the client.
LEMMA ClientTypesStep ==
  ClientTypes /\ link \subseteq {"client", "agent"} /\ Client!ClientNext
    => ClientTypes' /\ link' \subseteq {"client", "agent"}
  <1> SUFFICES ASSUME ClientTypes, link \subseteq {"client", "agent"}, Client!ClientNext
               PROVE  ClientTypes' /\ link' \subseteq {"client", "agent"}
    OBVIOUS
  <1> USE DEF ClientTypes
  <1> DEFINE Types == ClientTypes /\ link \subseteq {"client", "agent"}
  <1>1. ASSUME NEW i \in DOMAIN Setup, Client!ClientFromConfig(i) PROVE Types'
    BY <1>1 DEF Client!ClientFromConfig
  <1>2. ASSUME NEW c \in Call, NEW name \in Commands[c], Client!Begin(c, name) PROVE Types'
    BY <1>2 DEF Client!Begin
  <1>3. ASSUME NEW c \in Call, NEW g \in Call, Client!BeginStop(c, g) PROVE Types'
    BY <1>3 DEF Client!BeginStop, Client!deregisterHandler
  <1>4. ASSUME NEW c \in Call, Client!handleSeq(c) \/ Client!send(c) \/ Client!sendFails(c) PROVE Types'
    BY <1>4 DEF Client!handleSeq, Client!send, Client!sendFails
  <1>5. ASSUME NEW c \in Call, Client!Answered(c) PROVE Types'
    <2>1. reply[c][1] \in {"ok", "failed"}
      BY <1>5 DEF Client!Answered
    <2> QED BY <1>5, <2>1 DEF Client!Answered
  <1>6. ASSUME NEW c \in Call, Client!Abandoned(c) \/ Client!Deregister(c) \/ Client!Return(c) PROVE Types'
    BY <1>6 DEF Client!Abandoned, Client!Deregister, Client!Return, Client!deregisterHandler
  <1>7. ASSUME NEW c \in Call, Client!CleanupStep(c) PROVE Types'
    BY <1>7 DEF Client!CleanupStep, Client!CleanupCheck, Client!CleanupNotify, Client!CleanupClose
  <1>8. CASE Client!ReaderStep
    <2> USE DEF Client!rest, Client!At, Client!ToError
    <2>1. CASE Client!respondSeq
      BY <2>1 DEF Client!respondSeq
    <2>2. CASE Client!HandleAnswer
      BY <2>2 DEF Client!HandleAnswer
    <2>3. CASE Client!HandleCheck \/ Client!HandleInit \/ Client!HandleReturn
      BY <2>3 DEF Client!HandleCheck, Client!HandleInit, Client!HandleReturn
    <2>4. CASE Client!HandleRecord
      BY <2>4 DEF Client!HandleRecord
    <2>5. CASE Client!HandleEnd
      BY <2>5 DEF Client!HandleEnd, Client!deregisterHandler
    <2>6. CASE Client!listenEnds
      BY <2>6 DEF Client!listenEnds, Client!beginClose, Client!afterClose
    <2> QED BY <1>8, <2>1, <2>2, <2>3, <2>4, <2>5, <2>6 DEF Client!ReaderStep
  <1>9. CASE Client!Close
    BY <1>9 DEF Client!Close, Client!beginClose, Client!afterClose
  <1>10. CASE Client!CloseStep
    BY <1>10 DEF Client!CloseStep, Client!deregisterAll, Client!CloseConn, Client!CleanupNext, Client!afterClose
  <1> QED
    BY <1>1, <1>2, <1>3, <1>4, <1>5, <1>6, <1>7, <1>8, <1>9, <1>10 DEF Client!ClientNext, Client!CallStep

-----------------------------------------------------------------------------
(* RPC: the requests on their way to the agent. *)

Names == {m.name : m \in Client!Methods}
Args == Keys \cup Call \cup {"none"}
Frame == [frame : {"header", "body"}, command : Names, seq : Call, arg : Args]

Bodiless == {"members", "stats", "list-keys", "list-microapps", "list-routers", "leave", "unknown"}

\* A header that the body of its request follows.
HasMore(x) == x.frame = "header" /\ x.command \notin Bodiless

\* What follows it.
Follows(x, y) == IF HasMore(x) THEN y.frame = "body" /\ y.seq = x.seq /\ y.command = x.command
                               ELSE y.frame = "header"

\* Requests, the first perhaps without its header.
Queue(q) ==
    /\ \A i \in DOMAIN q : i < Len(q) => Follows(q[i], q[i + 1])
    /\ q # <<>> => ~ HasMore(q[Len(q)])

Beheaded(q) == q # <<>> /\ Head(q).frame = "body"

\* What follows the first frame.
LEMMA SecondFrame ==
  ASSUME NEW q \in Seq(Frame), q # <<>>, Queue(q)
  PROVE  /\ Head(q) \in Frame /\ Tail(q) \in Seq(Frame) /\ Queue(Tail(q))
         /\ \/ Tail(q) = <<>> /\ ~ HasMore(Head(q))
            \/ Tail(q) # <<>> /\ Follows(Head(q), Head(Tail(q)))
  <1>1. /\ Head(q) = q[1] /\ Head(q) \in Frame /\ 1 \in DOMAIN q /\ Len(q) \in Nat /\ Len(q) >= 1
        /\ DOMAIN q = 1..Len(q) /\ Tail(q) \in Seq(Frame) /\ Len(Tail(q)) = Len(q) - 1
        /\ DOMAIN Tail(q) = 1..Len(q) - 1
    BY EmptySeq, LenProperties, HeadTailProperties
  <1>2. \A i \in DOMAIN Tail(q) : i + 1 \in DOMAIN q /\ Tail(q)[i] = q[i + 1]
    BY <1>1, HeadTailProperties
  <1>3. Queue(Tail(q))
    <2>1. ASSUME NEW i \in DOMAIN Tail(q), i < Len(Tail(q)) PROVE Follows(Tail(q)[i], Tail(q)[i + 1])
      <3>1. i \in Nat /\ i + 1 \in DOMAIN Tail(q) /\ i + 1 \in DOMAIN q /\ i + 1 < Len(q)
        BY <1>1, <2>1
      <3>2. Tail(q)[i] = q[i + 1] /\ Tail(q)[i + 1] = q[(i + 1) + 1]
        BY <1>2, <3>1
      <3> QED BY <3>1, <3>2 DEF Queue
    <2>2. ASSUME Tail(q) # <<>> PROVE ~ HasMore(Tail(q)[Len(Tail(q))])
      <3>1. Len(Tail(q)) \in DOMAIN Tail(q) /\ Len(Tail(q)) + 1 = Len(q)
        BY <1>1, <2>2, EmptySeq
      <3>2. Tail(q)[Len(Tail(q))] = q[Len(q)]
        BY <1>2, <3>1
      <3> QED BY <3>2 DEF Queue
    <2> QED BY <2>1, <2>2 DEF Queue
  <1>4. CASE Len(q) = 1
    <2>1. Len(Tail(q)) = 0
      BY <1>1, <1>4
    <2>2. Tail(q) = <<>>
      BY <1>1, <2>1, EmptySeq
    <2> QED BY <1>1, <1>3, <1>4, <2>2 DEF Queue
  <1>5. CASE Len(q) > 1
    <2>1. Len(Tail(q)) >= 1 /\ 1 \in 1..Len(Tail(q)) /\ 1 < Len(q)
      BY <1>1, <1>5
    <2>5. Tail(q) # <<>>
      <3>1. ASSUME Tail(q) = <<>> PROVE Len(Tail(q)) = 0
        BY <3>1, EmptySeq
      <3>2. 0 # 1 /\ ~ 0 >= 1
        OBVIOUS
      <3> QED BY <2>1, <3>1, <3>2
    <2>2. Tail(q) # <<>> /\ Head(Tail(q)) = Tail(q)[1]
      BY <1>1, <2>5
    <2>3. Tail(q)[1] = q[1 + 1]
      BY <2>1, HeadTailProperties
    <2>4. Follows(q[1], q[1 + 1])
      BY <1>1, <2>1 DEF Queue
    <2> QED BY <1>1, <1>3, <2>2, <2>3, <2>4
  <1> QED BY <1>1, <1>4, <1>5

\* A request is read as a whole.
LEMMA WholeRequest ==
  ASSUME NEW q \in Seq(Frame), q # <<>>, Queue(q), Head(q).frame = "header",
         NEW left, left = IF Head(q).command \in Bodiless THEN Tail(q) ELSE Tail(Tail(q))
  PROVE  left \in Seq(Frame) /\ Queue(left) /\ ~ Beheaded(left)
  <1>1. CASE Head(q).command \in Bodiless
    BY <1>1, SecondFrame DEF HasMore, Follows, Beheaded
  <1>2. CASE Head(q).command \notin Bodiless
    <2>1. /\ Tail(q) \in Seq(Frame) /\ Tail(q) # <<>> /\ Queue(Tail(q)) /\ ~ HasMore(Head(Tail(q)))
      BY <1>2, SecondFrame DEF HasMore, Follows
    <2> QED BY <1>2, <2>1, SecondFrame DEF Follows, Beheaded
  <1> QED BY <1>1, <1>2

\* Another request joins them.
LEMMA QueueGrows ==
  ASSUME NEW q \in Seq(Frame), Queue(q), NEW g \in Seq(Frame), Queue(g), g # <<>>, ~ Beheaded(g)
  PROVE  /\ q \o g \in Seq(Frame) /\ Queue(q \o g)
         /\ Beheaded(q \o g) => Beheaded(q) /\ Head(q \o g) = Head(q)
  <1>1. PICK m \in Nat, k \in Nat : m = Len(q) /\ k = Len(g) /\ k >= 1
    BY LenProperties, EmptySeq
  <1> DEFINE r == q \o g
  <1>2. /\ r \in Seq(Frame) /\ Len(r) = m + k /\ DOMAIN r = 1..(m + k) /\ DOMAIN q = 1..m /\ DOMAIN g = 1..k
        /\ \A i \in 1..(m + k) : r[i] = IF i <= m THEN q[i] ELSE g[i - m]
    BY <1>1, ConcatProperties, LenProperties
  <1> HIDE DEF r
  <1>3. /\ q = <<>> <=> m = 0
        /\ g[1].frame = "header"
        /\ r # <<>> /\ Head(r) = r[1] /\ (q # <<>> => Head(q) = q[1])
    <2>1. (q = <<>> <=> m = 0) /\ r # <<>> /\ 1 \in 1..k
      BY <1>1, <1>2, EmptySeq
    <2>2. Head(g) = g[1] /\ g[1] \in Frame
      BY <1>1, <1>2, <2>1, ElementOfSeq
    <2> QED BY <2>1, <2>2 DEF Beheaded, Frame
  <1>4. \A i \in 1..m : r[i] = q[i]
    BY <1>2
  <1>5. \A i \in 1..k : r[m + i] = g[i]
    <2>1. \A i \in 1..k : m + i \in 1..(m + k) /\ ~ m + i <= m /\ (m + i) - m = i
      BY <1>1
    <2> QED BY <1>2, <2>1
  <1>6. ASSUME NEW i \in DOMAIN r, i < Len(r) PROVE Follows(r[i], r[i + 1])
    <2>1. CASE i < m
      <3>1. i \in 1..m /\ i + 1 \in 1..m
        BY <1>2, <2>1
      <3> QED BY <1>1, <1>2, <1>4, <2>1, <3>1 DEF Queue
    <2>2. CASE i = m
      <3>1. m \in 1..m /\ 1 \in 1..k /\ q # <<>>
        BY <1>1, <1>2, <1>3, <2>2
      <3>2. r[i] = q[m] /\ r[i + 1] = g[1]
        BY <1>4, <1>5, <2>2, <3>1
      <3> QED BY <1>1, <1>3, <3>1, <3>2 DEF Queue, Follows
    <2>3. CASE i > m
      <3> DEFINE j == i - m
      <3>1. j \in 1..k /\ j + 1 \in 1..k /\ j < k /\ m + j = i /\ m + (j + 1) = i + 1
        BY <1>1, <1>2, <1>6, <2>3
      <3> HIDE DEF j
      <3>2. r[m + j] = g[j] /\ r[m + (j + 1)] = g[j + 1]
        BY <1>5, <3>1
      <3> QED BY <1>1, <1>2, <3>1, <3>2 DEF Queue
    <2> QED BY <1>2, <2>1, <2>2, <2>3
  <1>7. ~ HasMore(r[Len(r)])
    <2>1. k \in 1..k /\ r[m + k] = g[k]
      BY <1>1, <1>5
    <2> QED BY <1>1, <1>2, <2>1 DEF Queue
  <1>8. Beheaded(r) => Beheaded(q) /\ Head(r) = Head(q)
    <2>1. CASE m = 0
      <3>1. r[m + 1] = g[1] /\ m + 1 = 1
        BY <1>1, <1>5, <2>1
      <3> QED BY <1>3, <3>1 DEF Beheaded
    <2>2. CASE m # 0
      BY <1>1, <1>3, <1>4, <2>2 DEF Beheaded
    <2> QED BY <2>1, <2>2
  <1> QED BY <1>2, <1>6, <1>7, <1>8 DEF Queue, r

-----------------------------------------------------------------------------
(* RPC: both sides agree on the requests. *)

\* Calls are of methods of the client.
Calls ==
    /\ key \in Keys
    /\ target \in [Call -> Call \cup {"none"}]
    /\ command \in [Call -> Names \cup {"none"}]
    /\ \A c \in Call : pc[c] # "idle" => command[c] \in Names

\* The agent finds whole requests, or the body of the one it has just refused.
Line ==
    "agent" \notin link =>
        /\ requests \in Seq(Frame) /\ Queue(requests)
        /\ Beheaded(requests) => /\ Guarded /\ ~ didAuth
                                 /\ reqHeader.command \notin {"handshake", "auth"}
                                 /\ reqHeader.seq = Head(requests).seq

RPCInv == SessionTypes /\ ClientTypes /\ Calls /\ Line

\* A method sends a body exactly if the agent reads one for its command.
LEMMA MethodOf ==
  ASSUME NEW c \in Call, command[c] \in Names
  PROVE  Client!Method(c).sends <=> command[c] \notin Bodiless
  <1>1. \A x \in Client!Methods : x.sends = (x.name \notin Bodiless)
    <2> DEFINE Sending == {Client!handshake, Client!auth, Client!ForceLeave, Client!Join, Client!MembersFiltered,
             Client!UserEvent, Client!UpdateTags, Client!Respond, Client!InstallKey, Client!UseKey,
             Client!RemoveKey, Client!GetCoordinate, Client!UpdateRouters, Client!Stop, Client!Monitor,
             Client!Stream, Client!Query}
           Silent == {Client!Members, Client!Leave, Client!ListKeys, Client!Stats, Client!ListMicroApps,
             Client!ListRouters}
    <2>1. \A x \in Sending : x.sends = TRUE /\ x.name \notin Bodiless
      BY DEF Client!Rpc, Client!handshake, Client!auth, Client!ForceLeave, Client!Join,
           Client!MembersFiltered, Client!UserEvent, Client!UpdateTags,
           Client!Respond, Client!InstallKey, Client!UseKey, Client!RemoveKey,
           Client!GetCoordinate, Client!UpdateRouters,
           Client!Stop, Client!Monitor, Client!Stream, Client!Query, Bodiless
    <2>2. \A x \in Silent : x.sends = FALSE /\ x.name \in Bodiless
      BY DEF Client!Rpc, Client!Members, Client!Leave, Client!ListKeys, Client!Stats, Client!ListMicroApps,
           Client!ListRouters, Bodiless
    <2>3. \A x \in Client!Methods : x \in Sending \/ x \in Silent
      BY DEF Client!Methods
    <2> HIDE DEF Sending, Silent
    <2> QED BY <2>1, <2>2, <2>3
  <1>2. \E m \in Client!Methods : m.name = command[c]
    BY DEF Names
  <1>3. Client!Method(c) \in Client!Methods /\ Client!Method(c).name = command[c]
    BY <1>2 DEF Client!Method
  <1> QED BY <1>1, <1>3

\* So that what is written is a request.
LEMMA RequestIs ==
  ASSUME Calls, NEW c \in Call, command[c] \in Names
  PROVE  /\ Client!Request(c) \in Seq(Frame) /\ Queue(Client!Request(c))
         /\ Client!Request(c) # <<>> /\ ~ Beheaded(Client!Request(c))
  <1> DEFINE x == [frame |-> "header", command |-> command[c], seq |-> c, arg |-> "none"]
             y == [frame |-> "body", command |-> command[c], seq |-> c, arg |-> Client!ArgOf(c)]
  <1>1. Client!ArgOf(c) \in Args
    BY DEF Calls, Client!ArgOf, Args
  <1>2. x \in Frame /\ y \in Frame
    BY <1>1 DEF Frame, Args
  <1>3. /\ x.frame = "header" /\ y.frame = "body" /\ y.seq = x.seq /\ y.command = x.command
        /\ x.command = command[c]
    OBVIOUS
  <1> DEFINE g == Client!Request(c)
  <1>4. /\ command[c] \in Bodiless => g = <<x>> \o <<>>
        /\ command[c] \notin Bodiless => g = <<x>> \o <<y>>
    BY MethodOf DEF Client!Request
  <1> HIDE DEF x, y, g
  <1>5. CASE command[c] \in Bodiless
    <2>1. g = <<x>> \o <<>>
      BY <1>4, <1>5
    <2>2. g \in Seq(Frame) /\ Len(g) = 1 /\ g[1] = x
      BY <1>2, <2>1
    <2>3. Queue(g) /\ g # <<>> /\ ~ Beheaded(g)
      BY <1>2, <1>3, <1>5, <2>2 DEF Queue, Beheaded, HasMore
    <2> QED BY <2>2, <2>3 DEF g
  <1>6. CASE command[c] \notin Bodiless
    <2>1. g = <<x>> \o <<y>>
      BY <1>4, <1>6
    <2>2. g \in Seq(Frame) /\ Len(g) = 2 /\ g[1] = x /\ g[2] = y
      BY <1>2, <2>1
    <2>3. Follows(x, y) /\ ~ HasMore(y) /\ g # <<>> /\ DOMAIN g = 1..2
      <3>1. DOMAIN g = 1..2
        BY <2>2, LenProperties
      <3>2. g # <<>>
        BY <2>2, <3>1, EmptySeq
      <3>3. ~ HasMore(y)
        BY <1>3 DEF HasMore
      <3>4. Follows(x, y)
        BY <1>3, <1>6 DEF Follows, HasMore
      <3> QED BY <3>1, <3>2, <3>3, <3>4
    <2>4. \A i \in DOMAIN g : i < Len(g) => Follows(g[i], g[i + 1])
      <3>1. \A i \in DOMAIN g : i < Len(g) => i = 1
        BY <2>2, <2>3
      <3>2. g[1 + 1] = y
        BY <2>2
      <3> QED BY <2>2, <2>3, <3>1, <3>2
    <2>5. ~ HasMore(g[Len(g)]) /\ Head(g) = x
      BY <2>2, <2>3
    <2>6. Queue(g) /\ ~ Beheaded(g)
      BY <1>3, <2>4, <2>5 DEF Queue, Beheaded
    <2> QED BY <2>2, <2>3, <2>6 DEF g
  <1> QED BY <1>5, <1>6

\* The agent serves, refuses or hangs up.
LEMMA SessionLine == ASSUME RPCInv, Agent!SessionNext PROVE Line'
  <1> USE DEF Agent!same
  <1>1. ASSUME NEW name, Agent!Admitted(name), IF name \in Bodiless THEN Agent!NoBody ELSE Agent!ReadBody
        PROVE  Line'
    <2>1. /\ "agent" \notin link /\ requests # <<>> /\ Agent!Decoded.command = name
          /\ Guarded => didAuth \/ name \in {"auth", "handshake"}
      BY <1>1 DEF Agent!Admitted
    <2>2. requests \in Seq(Frame) /\ Queue(requests) /\ Head(requests) \in Frame
      BY <2>1, SecondFrame DEF RPCInv, Line
    <2>3. ~ Beheaded(requests)
      BY <2>1 DEF RPCInv, Line, Beheaded, Agent!Decoded
    <2>4. Head(requests).frame = "header" /\ Head(requests).command = name
      BY <2>1, <2>2, <2>3 DEF Beheaded, Frame, Agent!Decoded
    <2>5. requests' = IF Head(requests).command \in Bodiless THEN Tail(requests) ELSE Tail(Tail(requests))
      BY <1>1, <2>4 DEF Agent!NoBody, Agent!ReadBody
    <2>6. requests' \in Seq(Frame) /\ Queue(requests') /\ ~ Beheaded(requests')
      BY <2>1, <2>2, <2>4, <2>5, WholeRequest
    <2> QED BY <2>6 DEF Line
  <1>2. CASE Agent!handshakeRequired \/ Agent!decodeFailed \/ Agent!filterFails \/ Agent!Shutdown
    <2>1. "agent" \in link'
      BY <1>2 DEF Agent!handshakeRequired, Agent!decodeFailed, Agent!filterFails, Agent!Shutdown, Agent!Hangup
    <2> QED BY <2>1 DEF Line
  <1>3. CASE Agent!refuse
    <2>1. /\ "agent" \notin link /\ requests # <<>> /\ Guarded /\ ~ didAuth
          /\ Agent!Decoded.command \notin {"handshake", "auth"}
          /\ requests' = Tail(requests) /\ reqHeader' = Agent!Decoded /\ UNCHANGED <<link, didAuth>>
      BY <1>3 DEF Agent!refuse
    <2>2. /\ requests \in Seq(Frame) /\ Queue(requests) /\ Head(requests) \in Frame
          /\ requests' \in Seq(Frame) /\ Queue(requests')
      BY <2>1, SecondFrame DEF RPCInv, Line
    <2>3. ASSUME Beheaded(requests') PROVE reqHeader'.seq = Head(requests').seq
      <3>1. HasMore(Head(requests)) /\ Head(requests').seq = Head(requests).seq
        BY <2>1, <2>2, <2>3, SecondFrame DEF Beheaded, Follows
      <3> QED BY <2>1, <3>1 DEF Agent!Decoded, HasMore
    <2> QED BY <2>1, <2>2, <2>3 DEF Line
  <1>4. CASE Agent!unsupportedCommand \/ Agent!handleHandshake \/ Agent!handleAuth
    BY <1>1, <1>4 DEF Agent!unsupportedCommand, Agent!handleHandshake, Agent!handleAuth, Bodiless
  <1>5. ASSUME NEW name, name \notin Bodiless, NEW errors, Agent!Acts(name, errors) \/ Agent!Exchanges(name, errors)
        PROVE  Line'
    BY <1>1, <1>5 DEF Agent!Acts, Agent!Exchanges
  <1>6. ASSUME NEW name, name \in Bodiless, NEW errors, Agent!Tells(name, errors) PROVE Line'
    BY <1>1, <1>6 DEF Agent!Tells
  <1>7. CASE Agent!handleLeave \/ Agent!handleStop
    BY <1>1, <1>7 DEF Agent!handleLeave, Agent!handleStop, Bodiless
  <1>8. CASE Agent!handleStream \/ Agent!handleMonitor \/ Agent!handleQuery
    BY <1>1, <1>8 DEF Agent!handleStream, Agent!handleMonitor, Agent!handleQuery, Agent!Subscribe, Bodiless
  <1>9. CASE Agent!handleMembers
    BY <1>2, <1>5, <1>6, <1>9 DEF Agent!handleMembers, Bodiless
  <1>10. CASE \/ Agent!handleEvent \/ Agent!handleForceLeave \/ Agent!handleTags \/ Agent!handleRespond
              \/ Agent!handleUpdateRouters \/ Agent!handleJoin \/ Agent!handleInstallKey
              \/ Agent!handleUseKey \/ Agent!handleRemoveKey \/ Agent!handleGetCoordinate
    BY <1>5, <1>10 DEF Agent!handleEvent, Agent!handleForceLeave, Agent!handleTags, Agent!handleRespond,
        Agent!handleUpdateRouters, Agent!handleJoin, Agent!handleInstallKey, Agent!handleUseKey,
        Agent!handleRemoveKey, Agent!handleGetCoordinate, Bodiless
  <1>11. CASE Agent!handleListKeys \/ Agent!handleStats \/ Agent!handleListMicroApps \/ Agent!handleListRouters
    BY <1>6, <1>11 DEF Agent!handleListKeys, Agent!handleStats, Agent!handleListMicroApps,
        Agent!handleListRouters, Bodiless
  <1>12. ASSUME NEW s \in Call, Agent!sendRecord(s) \/ Agent!sendDone(s) PROVE Line'
    <2>1. UNCHANGED <<requests, link, didAuth, reqHeader>>
      BY <1>12 DEF Agent!sendRecord, Agent!sendDone
    <2> QED BY <2>1 DEF RPCInv, Line
  <1> QED BY <1>2, <1>3, <1>4, <1>7, <1>8, <1>9, <1>10, <1>11, <1>12 DEF Agent!SessionNext, Agent!handleRequest

\* The client writes whole requests and closes its side.
LEMMA ClientLine ==
  ASSUME RPCInv, Client!ClientNext, UNCHANGED session PROVE Line'
  <1>1. UNCHANGED <<didAuth, reqHeader>>
    BY DEF session
  <1>2. ASSUME requests' = requests, link \subseteq link' PROVE Line'
    BY <1>1, <1>2 DEF RPCInv, Line
  <1>3. ASSUME NEW c \in Call, Client!send(c) PROVE Line'
    <2>1. CASE link = {}
      <3>1. requests' = requests \o Client!Request(c) /\ command[c] \in Names
        BY <1>3, <2>1 DEF Client!send, RPCInv, Calls
      <3>2. requests \in Seq(Frame) /\ Queue(requests)
        BY <2>1 DEF RPCInv, Line
      <3>3. /\ Client!Request(c) \in Seq(Frame) /\ Queue(Client!Request(c))
            /\ Client!Request(c) # <<>> /\ ~ Beheaded(Client!Request(c))
        BY <3>1, RequestIs DEF RPCInv
      <3>4. /\ requests' \in Seq(Frame) /\ Queue(requests')
            /\ Beheaded(requests') => Beheaded(requests) /\ Head(requests') = Head(requests)
        BY <3>1, <3>2, <3>3, QueueGrows
      <3> QED BY <1>1, <2>1, <3>4 DEF RPCInv, Line
    <2>2. CASE link # {}
      BY <1>2, <1>3, <2>2 DEF Client!send
    <2> QED BY <2>1, <2>2
  <1>4. ASSUME NEW i \in DOMAIN Setup, Client!ClientFromConfig(i) PROVE Line'
    BY <1>2, <1>4 DEF Client!ClientFromConfig
  <1>5. ASSUME NEW c \in Call, NEW name \in Commands[c], Client!Begin(c, name) PROVE Line'
    BY <1>2, <1>5 DEF Client!Begin
  <1>6. ASSUME NEW c \in Call, NEW g \in Call, Client!BeginStop(c, g) PROVE Line'
    BY <1>2, <1>6 DEF Client!BeginStop
  <1>7. ASSUME NEW c \in Call, Client!CallStep(c) \/ Client!CleanupStep(c) PROVE Line'
    BY <1>2, <1>3, <1>7
    DEF Client!CallStep, Client!handleSeq, Client!sendFails, Client!Answered, Client!Abandoned,
        Client!Deregister, Client!Return, Client!CleanupStep, Client!CleanupCheck, Client!CleanupNotify,
        Client!CleanupClose
  <1>8. CASE Client!ReaderStep
    BY <1>2, <1>8
    DEF Client!ReaderStep, Client!respondSeq, Client!HandleAnswer, Client!HandleCheck, Client!HandleInit,
        Client!HandleRecord, Client!HandleEnd, Client!HandleReturn, Client!listenEnds, Client!rest,
        Client!afterClose
  <1>9. CASE Client!Close \/ Client!CloseStep
    BY <1>2, <1>9
    DEF Client!Close, Client!CloseStep, Client!deregisterAll, Client!CloseConn, Client!CleanupNext,
        Client!afterClose
  <1> QED BY <1>4, <1>5, <1>6, <1>7, <1>8, <1>9 DEF Client!ClientNext

\* What is called is a method of the client.
LEMMA ClientCalls ==
  ASSUME ClientTypes, Calls, Client!ClientNext PROVE Calls'
  <1> USE DEF Calls
  <1>1. ASSUME NEW name, \E m \in Client!Methods : m.name = name PROVE name \in Names
    BY <1>1 DEF Names
  <1>2. ASSUME NEW c \in Call, NEW name \in Names, pc[c] = "idle",
               command' = [command EXCEPT ![c] = name], pc' = [pc EXCEPT ![c] = "begun"],
               key' = key, target' \in [Call -> Call \cup {"none"}]
        PROVE  Calls'
    BY <1>2 DEF ClientTypes
  <1>3. ASSUME UNCHANGED <<key, target, command>>, \A c \in Call : pc'[c] # "idle" => pc[c] # "idle"
        PROVE  Calls'
    BY <1>3
  <1>4. ASSUME NEW i \in DOMAIN Setup, Client!ClientFromConfig(i) PROVE Calls'
    <2>1. Setup[i] \in Call
      <3>1. Setup \in Seq(Call)
        BY ClientAssumption
      <3>2. i \in 1..Len(Setup)
        BY <1>4, <3>1, LenProperties
      <3> QED BY <3>1, <3>2, ElementOfSeq
    <2>2. "handshake" \in Names /\ "auth" \in Names
      <3>1. /\ Client!handshake \in Client!Methods /\ Client!handshake.name = "handshake"
            /\ Client!auth \in Client!Methods /\ Client!auth.name = "auth"
        BY DEF Client!Methods, Client!handshake, Client!auth, Client!Rpc
      <3> QED BY <1>1, <3>1
    <2> QED BY <1>2, <1>4, <2>1, <2>2 DEF Client!ClientFromConfig
  <1>5. ASSUME NEW c \in Call, NEW name \in Commands[c], Client!Begin(c, name) PROVE Calls'
    BY <1>1, <1>2, <1>5, CommandsAssumption DEF Client!Begin
  <1>6. ASSUME NEW c \in Call, NEW g \in Call, Client!BeginStop(c, g) PROVE Calls'
    <2>1. "stop" \in Names
      BY <1>1, <1>6, CommandsAssumption DEF Client!BeginStop
    <2>2. target' \in [Call -> Call \cup {"none"}]
      BY <1>6 DEF Client!BeginStop
    <2> QED BY <1>2, <1>6, <2>1, <2>2 DEF Client!BeginStop
  <1>7. ASSUME NEW c \in Call, Client!CallStep(c) \/ Client!CleanupStep(c) PROVE Calls'
    <2>1. ASSUME NEW to, pc[c] # "idle", pc' = [pc EXCEPT ![c] = to]
          PROVE  \A d \in Call : pc'[d] # "idle" => pc[d] # "idle"
      BY <2>1 DEF ClientTypes
    <2>2. CASE Client!CallStep(c)
      <3>1. UNCHANGED <<key, target, command>> /\ pc[c] # "idle" /\ \E to : pc' = [pc EXCEPT ![c] = to]
        BY <2>2
        DEF Client!CallStep, Client!handleSeq, Client!send, Client!sendFails, Client!Answered,
            Client!Abandoned, Client!Deregister, Client!Return
      <3> QED BY <1>3, <2>1, <3>1
    <2>3. CASE Client!CleanupStep(c)
      BY <1>3, <2>3
      DEF Client!CleanupStep, Client!CleanupCheck, Client!CleanupNotify, Client!CleanupClose
    <2> QED BY <1>7, <2>2, <2>3
  <1>8. CASE Client!ReaderStep
    BY <1>3, <1>8
    DEF Client!ReaderStep, Client!respondSeq, Client!HandleAnswer, Client!HandleCheck, Client!HandleInit,
        Client!HandleRecord, Client!HandleEnd, Client!HandleReturn, Client!listenEnds, Client!rest,
        Client!afterClose
  <1>9. CASE Client!Close \/ Client!CloseStep
    BY <1>3, <1>9
    DEF Client!Close, Client!CloseStep, Client!deregisterAll, Client!CloseConn, Client!CleanupNext,
        Client!afterClose
  <1> QED BY <1>4, <1>5, <1>6, <1>7, <1>8, <1>9 DEF Client!ClientNext

\* It holds of a new connection ...
LEMMA RPCStart == RPCInit => RPCInv
  <1> SUFFICES ASSUME RPCInit PROVE RPCInv
    OBVIOUS
  <1>1. SessionTypes
    <2>1. 0 \in 0..1 /\ 0 \in 0..MaxRecords
      BY AgentAssumption
    <2> QED BY <2>1 DEF RPCInit, Agent!SessionInit, SessionTypes
  <1>2. ClientTypes
    BY DEF RPCInit, Client!ClientInit, Client!IdleReader, ClientTypes
  <1>3. Calls
    BY DEF RPCInit, Client!ClientInit, Calls
  <1>4. Line
    BY EmptySeq DEF RPCInit, Line, Queue, Beheaded
  <1> QED BY <1>1, <1>2, <1>3, <1>4 DEF RPCInv

\* ... and is kept by both sides.
LEMMA RPCInvariant == RPCSpec => []RPCInv
  <1>1. RPCInit => RPCInv
    BY RPCStart
  <1>2. RPCInv /\ [RPCNext]_rpcVars => RPCInv'
    <2> SUFFICES ASSUME RPCInv, [RPCNext]_rpcVars PROVE RPCInv'
      OBVIOUS
    <2>1. CASE AgentStep(Agent!SessionNext)
      <3>1. Agent!SessionNext /\ UNCHANGED client
        BY <2>1 DEF AgentStep
      <3>2. SessionTypes'
        BY <3>1, SessionTypesStep DEF RPCInv
      <3>3. ClientTypes' /\ Calls'
        BY <3>1 DEF RPCInv, ClientTypes, Calls, client
      <3>4. Line'
        BY <3>1, SessionLine
      <3> QED BY <3>2, <3>3, <3>4 DEF RPCInv
    <2>2. CASE ClientStep(Client!ClientNext)
      <3>1. Client!ClientNext /\ UNCHANGED session
        BY <2>2 DEF ClientStep
      <3>2. ClientTypes' /\ link' \subseteq {"client", "agent"}
        BY <3>1, ClientTypesStep DEF RPCInv, SessionTypes
      <3>3. SessionTypes'
        BY <3>1, <3>2 DEF RPCInv, SessionTypes, session
      <3>4. Calls' /\ Line'
        BY <3>1, ClientCalls, ClientLine DEF RPCInv
      <3> QED BY <3>2, <3>3, <3>4 DEF RPCInv
    <2>3. CASE UNCHANGED rpcVars
      BY <2>3 DEF RPCInv, SessionTypes, ClientTypes, Calls, Line, rpcVars, rpcWire, session, client
    <2> QED BY <2>1, <2>2, <2>3 DEF RPCNext
  <1> QED BY <1>1, <1>2, PTL DEF RPCSpec

\* The variables of a connection keep their types; of the answers to a call
\* at most one waits for it.
THEOREM RPCTypeCorrect == RPCSpec => []RPCTypeOK
  <1>1. RPCInv => RPCTypeOK
    <2> SUFFICES ASSUME RPCInv PROVE RPCTypeOK
      OBVIOUS
    <2>1. \A c \in Call : Len(reply[c]) <= 1
      <3>1. \A c \in Call : reply[c] \in {<<>>, <<"ok">>, <<"failed">>}
        BY DEF RPCInv, ClientTypes
      <3>2. Len(<<>>) <= 1 /\ Len(<<"ok">>) <= 1 /\ Len(<<"failed">>) <= 1
        <4>1. <<>> \in Seq(STRING) /\ Len(<<>>) = 0
          BY EmptySeq
        <4>2. Len(<<"ok">>) = 1 /\ Len(<<"failed">>) = 1
          OBVIOUS
        <4> QED BY <4>1, <4>2
      <3> QED BY <3>1, <3>2
    <2> QED BY <2>1 DEF RPCInv, SessionTypes, ClientTypes, RPCTypeOK
  <1> QED BY <1>1, RPCInvariant, PTL

\* The server and the client agree on where a request starts, except for the
\* body of the request the server has just refused (handleRequest in ipc.go).
THEOREM RequestsAgreed == RPCSpec => []RequestsAligned
  <1>1. RPCInv => RequestsAligned
    BY DEF RPCInv, Line, Beheaded, RequestsAligned
  <1> QED BY <1>1, RPCInvariant, PTL

-----------------------------------------------------------------------------
(* RPC: the responses on their way to the client. *)

\* The calls of ClientFromConfig.
HandshakeCall == Setup[1]
AuthCall == Setup[2]

Errors == {"", "failed", "authRequired", "handshakeRequired", "unsupportedCommand", "unsupportedIPCVersion",
           "duplicateHandshake", "invalidAuthToken", "answer", "record", "done"}
Reply == [frame : {"header", "body"}, seq : Call, error : Errors]

\* The body of the i-th frame follows it, and the i-th frame is a header for c.
Bodied(q, i) == i + 1 \in DOMAIN q /\ q[i + 1].frame = "body"
For(q, i, c) == q[i].frame = "header" /\ q[i].seq = c

\* What the agent sends at once.
Messages(c, error, more, type) ==
    IF more THEN Agent!Response(c, error) \o Agent!Record(c, type) ELSE Agent!Response(c, error)

\* What is left of a sequence without its first element.
Shorter(q, s, S) ==
    /\ s \in Seq(S) /\ 1 \in DOMAIN q /\ Head(q) = q[1] /\ q[1] \in S
    /\ \A i \in DOMAIN s : i \in Nat \ {0} /\ i + 1 \in DOMAIN q /\ s[i] = q[i + 1]
    /\ \A i \in DOMAIN q : i = 1 \/ \E j \in DOMAIN s : i = j + 1
    /\ s # <<>> <=> 1 + 1 \in DOMAIN q
    /\ s # <<>> => Head(s) = q[1 + 1]

\* That is its tail.
LEMMA Popped ==
  ASSUME NEW S, NEW q \in Seq(S), q # <<>>, NEW s, s = Tail(q)
  PROVE  Shorter(q, s, S)
  <1>1. /\ Head(q) = q[1] /\ Head(q) \in S /\ 1 \in DOMAIN q /\ Len(q) \in Nat /\ Len(q) >= 1
        /\ DOMAIN q = 1..Len(q) /\ s \in Seq(S) /\ Len(s) = Len(q) - 1
        /\ DOMAIN s = 1..Len(q) - 1
    BY EmptySeq, LenProperties, HeadTailProperties
  <1>2. \A i \in DOMAIN s : i \in Nat \ {0} /\ i + 1 \in DOMAIN q /\ s[i] = q[i + 1]
    BY <1>1, HeadTailProperties
  <1>3. ASSUME NEW i \in DOMAIN q, i # 1 PROVE \E j \in DOMAIN s : i = j + 1
    <2>1. i - 1 \in DOMAIN s /\ i = (i - 1) + 1
      BY <1>1, <1>3
    <2> QED BY <2>1
  <1>4. s # <<>> <=> 1 + 1 \in DOMAIN q
    <2>1. s = <<>> <=> Len(s) = 0
      BY <1>1, EmptySeq
    <2> QED BY <1>1, <2>1
  <1>5. ASSUME s # <<>> PROVE Head(s) = q[1 + 1]
    <2>1. 1 \in DOMAIN s /\ Head(s) = s[1]
      BY <1>1, <1>4, <1>5
    <2> QED BY <1>2, <2>1
  <1> QED BY <1>1, <1>2, <1>3, <1>4, <1>5 DEF Shorter

\* A queue to which something was added: for one call, a header and perhaps
\* its body.
Extended(q, r, c, error, more) ==
    /\ r \in Seq(Reply)
    /\ \A i \in DOMAIN q : i \in DOMAIN r /\ r[i] = q[i] /\ (Bodied(r, i) <=> Bodied(q, i))
    /\ \E n \in DOMAIN r \ DOMAIN q :
          /\ For(r, n, c) /\ r[n].error = error /\ (Bodied(r, n) <=> more)
          /\ \A i \in DOMAIN q : i < n
          /\ \A i \in DOMAIN r \ DOMAIN q :
                /\ r[i].seq = c
                /\ i # n => r[i].frame = "body" /\ i = n + 1 /\ ~ Bodied(r, i)
    /\ \A i \in DOMAIN r : i \in Nat
    /\ r # <<>> /\ Head(r) = IF q = <<>> THEN [frame |-> "header", seq |-> c, error |-> error] ELSE Head(q)

\* That is what is sent.
LEMMA Appended ==
  ASSUME NEW q \in Seq(Reply), NEW c \in Call, NEW error \in Errors, NEW more \in BOOLEAN,
         NEW type \in Errors, NEW r, r = q \o Messages(c, error, more, type)
  PROVE  Extended(q, r, c, error, more)
  <1> DEFINE x == [frame |-> "header", seq |-> c, error |-> error]
             y == [frame |-> "body", seq |-> c, error |-> type]
             g == Messages(c, error, more, type)
  <1>1. x \in Reply /\ y \in Reply
    BY DEF Reply
  <1>2. g = IF more THEN <<x>> \o <<y>> ELSE <<x>>
    BY DEF Messages, Agent!Response, Agent!Record
  <1>3. /\ x.frame = "header" /\ x.seq = c /\ x.error = error
        /\ y.frame = "body" /\ y.seq = c
    OBVIOUS
  <1> HIDE DEF x, y, g
  <1>4. g \in Seq(Reply) /\ Len(g) = IF more THEN 2 ELSE 1
    BY <1>1, <1>2
  <1>5. g[1] = x /\ (more => g[2] = y)
    BY <1>1, <1>2
  <1>6. PICK m \in Nat : m = Len(q)
    BY LenProperties
  <1>7. PICK k \in {1, 2} : k = Len(g) /\ (more <=> k = 2)
    BY <1>4
  <1>8. r = q \o g
    BY DEF g
  <1>9. /\ r \in Seq(Reply) /\ DOMAIN r = 1..(m + k) /\ DOMAIN q = 1..m /\ Len(r) = m + k
        /\ \A i \in 1..(m + k) : r[i] = IF i <= m THEN q[i] ELSE g[i - m]
    <2>1. q \o g \in Seq(Reply) /\ Len(q \o g) = Len(q) + Len(g)
          /\ \A i \in 1..Len(q) + Len(g) : (q \o g)[i] = IF i <= Len(q) THEN q[i] ELSE g[i - Len(q)]
      BY <1>4, ConcatProperties
    <2>2. r \in Seq(Reply) /\ Len(r) = m + k
      BY <1>6, <1>7, <1>8, <2>1
    <2>3. DOMAIN r = 1..Len(r) /\ DOMAIN q = 1..Len(q)
      BY <2>2, LenProperties
    <2>4. \A i \in 1..(m + k) : r[i] = IF i <= m THEN q[i] ELSE g[i - m]
      BY <1>6, <1>7, <1>8, <2>1
    <2> QED BY <1>6, <2>2, <2>3, <2>4
  <1>10. r[m + 1] = x /\ (more => r[m + 2] = y)
    <2>1. m + 1 \in 1..(m + k) /\ ~ m + 1 <= m /\ (m + 1) - m = 1
      BY <1>7
    <2>2. more => m + 2 \in 1..(m + k) /\ ~ m + 2 <= m /\ (m + 2) - m = 2
      BY <1>7
    <2> QED BY <1>5, <1>9, <2>1, <2>2
  <1>11. \A i \in DOMAIN q : i \in DOMAIN r /\ r[i] = q[i]
    BY <1>7, <1>9
  <1>12. ASSUME NEW i \in DOMAIN q PROVE Bodied(r, i) <=> Bodied(q, i)
    <2>1. CASE i < m
      <3>1. i + 1 \in DOMAIN q /\ i + 1 \in DOMAIN r /\ r[i + 1] = q[i + 1]
        BY <1>9, <1>11, <2>1
      <3> QED BY <3>1 DEF Bodied
    <2>2. CASE i = m
      <3>1. i + 1 \notin DOMAIN q /\ r[i + 1] = x
        BY <1>9, <1>10, <2>2
      <3> QED BY <1>3, <3>1 DEF Bodied
    <2> QED BY <1>9, <2>1, <2>2
  <1>13. m + 1 \in DOMAIN r \ DOMAIN q /\ \A i \in DOMAIN q : i < m + 1
    BY <1>7, <1>9
  <1>14. Bodied(r, m + 1) <=> more
    <2>1. (m + 1) + 1 = m + 2 /\ (m + 2 \in DOMAIN r <=> k = 2)
      BY <1>7, <1>9
    <2> QED BY <1>3, <1>7, <1>10, <2>1 DEF Bodied
  <1>15. For(r, m + 1, c) /\ r[m + 1].error = error
    BY <1>3, <1>10 DEF For
  <1>16. ASSUME NEW i \in DOMAIN r \ DOMAIN q
         PROVE  /\ r[i].seq = c
                /\ i # m + 1 => r[i].frame = "body" /\ i = (m + 1) + 1 /\ ~ Bodied(r, i)
    <2>0. i \in 1..(m + k) /\ ~ i \in 1..m
      BY <1>9
    <2>1. i = m + 1 \/ (i = m + 2 /\ more)
      <3>1. k = 1 \/ k = 2
        BY <1>7
      <3>2. i = m + 1 \/ (i = m + 2 /\ k = 2)
        <4>1. ASSUME NEW j \in Nat, NEW b \in Nat, NEW o \in Nat, b \in {1, 2}, j <= o + b, ~ j <= o
              PROVE  j = o + 1 \/ (j = o + 2 /\ b = 2)
          BY <4>1
        <4>2. i \in Nat /\ i <= m + k /\ ~ i <= m /\ k \in Nat
          BY <1>7, <2>0
        <4> QED BY <3>1, <4>1, <4>2
      <3> QED BY <1>7, <3>2, Zenon
    <2>2. m + 2 = (m + 1) + 1 /\ (m + 2) + 1 \notin 1..(m + k)
      BY <1>7
    <2>3. (m + 2) + 1 \notin DOMAIN r
      BY <1>9, <2>2
    <2> QED BY <1>3, <1>10, <2>1, <2>2, <2>3 DEF Bodied
  <1>17. r # <<>> /\ Head(r) = IF q = <<>> THEN x ELSE Head(q)
    <2>1. r # <<>> /\ Head(r) = r[1] /\ (q # <<>> => Head(q) = q[1]) /\ (q = <<>> <=> m = 0)
      <3>1. (r = <<>> <=> m + k = 0) /\ (q = <<>> <=> m = 0)
        BY <1>6, <1>9, EmptySeq
      <3> QED BY <1>7, <1>9, <3>1
    <2>2. m = 0 => m + 1 = 1
      OBVIOUS
    <2>3. m # 0 => 1 \in DOMAIN q
      BY <1>9
    <2> QED BY <1>10, <1>11, <2>1, <2>2, <2>3
  <1>18. \A i \in DOMAIN r : i \in Nat
    BY <1>9
  <1> QED BY <1>9, <1>11, <1>12, <1>13, <1>14, <1>15, <1>16, <1>17, <1>18 DEF x, Extended

-----------------------------------------------------------------------------
(* RPC: the inductive invariant for the responses. *)

\* The methods that decode a body.
Expecting == {"join", "members", "members-filtered", "install-key", "use-key", "remove-key", "list-keys",
              "stats", "get-coordinate", "list-microapps", "list-routers"}
Expects(c) == command[c] \in Expecting

\* The request of a call has been written.
Written(c) == pc[c] \notin {"idle", "begun", "registered"}

\* While neither side closes, which is never undone.
Live == link = {} /\ ~ shutdown /\ ~ Disowned

\* What calls there can be: nothing but the two of ClientFromConfig before it
\* has succeeded.
Settings ==
    /\ command[HandshakeCall] \in {"none", "handshake"} /\ command[AuthCall] \in {"none", "auth"}
    /\ pc[AuthCall] # "idle" => key # "none"
    /\ \A c \in Call : /\ pc[c] = "idle" => command[c] = "none"
                       /\ pc[c] # "idle" /\ c \notin {HandshakeCall, AuthCall} => Client!Connected
    /\ closer # "no" => shutdown

\* A handler is that of a call that was made, and the reader is in that of its
\* kind.  Unless the user closes it, a client is shut down while the connection
\* is open for a failure of ClientFromConfig only.
Occupied ==
    /\ \A c \in dispatch : pc[c] # "idle"
    /\ reader.at \notin {"read", "ended"} =>
          /\ reader.seq \in Call /\ pc[reader.seq] # "idle"
          /\ reader.at = "answer" <=> ~ Client!Streaming(reader.seq)
    /\ shutdown => MayClose \/ link # {} \/ Client!SetupFailed

\* The agent has not read the request of a call yet.
Asked(c) == \E i \in DOMAIN requests : For(requests, i, c)

\* Requests are of calls that wait, each once.
Inward ==
    /\ \A i \in DOMAIN requests : Written(requests[i].seq) /\ requests[i].command = command[requests[i].seq]
    /\ \A i, j \in DOMAIN requests :
          i < j /\ requests[j].frame = "header" => requests[j].seq # requests[i].seq

\* The reader has seen the first response of a stream.
Opened(c) == init[c] \/ (reader.at \in {"check", "init"} /\ reader.seq = c)

\* A body follows the header for its call, and it does so in every response to
\* a call that expects one, and in every one to a stream but the first.
Outward ==
    /\ responses \in Seq(Reply)
    /\ \A i \in DOMAIN responses : /\ Written(responses[i].seq)
                                   /\ Bodied(responses, i) => For(responses, i, responses[i + 1].seq)
    /\ \A i \in DOMAIN responses : \A c \in Call : For(responses, i, c) =>
          (Bodied(responses, i) <=>
              IF Client!Streaming(c)
              THEN Opened(c) \/ \E j \in DOMAIN responses : j < i /\ For(responses, j, c)
              ELSE responses[i].error # "authRequired" /\ Expects(c))
    /\ \A c \in Call : streams[c] # "none" =>
          Client!Streaming(c) /\ (Opened(c) \/ \E j \in DOMAIN responses : For(responses, j, c))

\* The reader is about to decode a body.
Awaits == \/ reader.at = "record"
          \/ reader.at = "check" /\ init[reader.seq]
          \/ reader.at = "answer" /\ reader.error # "authRequired" /\ Expects(reader.seq)

BodyFirst(q) == q # <<>> /\ Head(q).frame = "body"

\* It does so exactly where there is one, or the header was ignored.
Reading ==
    /\ reader.at # "read" => reader.seq \in Call /\ Written(reader.seq)
    /\ reader.at = "record" => init[reader.seq]
    /\ reader.at # "ended"
    /\ Awaits => BodyFirst(responses)
    /\ BodyFirst(responses) =>
          Head(responses).seq = reader.seq /\ (Awaits \/ (reader.at = "read" /\ reader.seq \notin dispatch))

\* A call has a handler as long as it waits, a stream at least until its first
\* response.
Handled ==
    /\ \A c \in Call : pc[c] = "registered" => c \in dispatch
    /\ \A c \in Call : cleanup[c] # "no" => Client!Streaming(c) /\ init[c]
    /\ \A c \in Call : Client!Streaming(c) =>
          /\ pc[c] \notin {"leaving", "cleaning"}
          /\ reply[c] = <<"ok">> \/ result[c] = "ok" \/ (Written(c) /\ c \notin dispatch) => init[c]

\* Nothing has come for a call whose request was not read.
Untouched ==
    \A c \in Call : ~ Written(c) \/ Asked(c) =>
        /\ \A i \in DOMAIN responses : responses[i].seq # c
        /\ reader.at # "read" => reader.seq # c
        /\ ~ init[c] /\ streams[c] = "none" /\ reply[c] = <<>> /\ result[c] = "none"

\* No success of the authentication is on its way before the agent knows it.
AuthFirst ==
    Guarded /\ ~ didAuth =>
        /\ \A i \in DOMAIN responses : For(responses, i, AuthCall) => responses[i].error # ""
        /\ reader.at # "read" /\ reader.seq = AuthCall => reader.error # ""
        /\ reply[AuthCall] # <<"ok">> /\ result[AuthCall] # "ok"

Lively == Inward /\ Outward /\ Reading /\ Handled /\ Untouched /\ AuthFirst
BodyInv == RPCInv /\ Settings /\ Occupied /\ (Live => Lively)

-----------------------------------------------------------------------------
(* RPC: what calls there can be. *)

LEMMA SetupCalls ==
  /\ HandshakeCall \in Call /\ AuthCall \in Call /\ HandshakeCall # AuthCall
  /\ \A i \in DOMAIN Setup : i = 1 \/ i = 2
  /\ Commands[HandshakeCall] = {} /\ Commands[AuthCall] = {}
  <1>1. Setup \in Seq(Call) /\ Len(Setup) = 2 /\ Setup[1] # Setup[2] /\ \A c \in {Setup[1], Setup[2]} : Commands[c] = {}
    BY ClientAssumption
  <1>2. DOMAIN Setup = 1..2
    BY <1>1, LenProperties
  <1>3. 1 \in DOMAIN Setup /\ 2 \in DOMAIN Setup /\ \A i \in DOMAIN Setup : i = 1 \/ i = 2
    BY <1>2
  <1>4. Setup[1] \in Call /\ Setup[2] \in Call
    BY <1>1, <1>3, ElementOfSeq
  <1> QED BY <1>1, <1>3, <1>4 DEF HandshakeCall, AuthCall

\* "none" is no method, and which a call is does not change.
LEMMA NoneIsNoMethod == "none" \notin Names
  <1>1. \A x \in Client!Methods : x.name # "none"
    BY DEF Client!Methods, Client!Rpc, Client!handshake, Client!auth, Client!ForceLeave, Client!Join,
           Client!Members, Client!MembersFiltered, Client!UserEvent, Client!Leave, Client!UpdateTags,
           Client!Respond, Client!InstallKey, Client!UseKey, Client!RemoveKey, Client!ListKeys, Client!Stats,
           Client!GetCoordinate, Client!ListMicroApps, Client!ListRouters, Client!UpdateRouters,
           Client!Stop, Client!Monitor, Client!Stream, Client!Query
  <1> QED BY <1>1 DEF Names

\* A method decodes a body exactly if it is one of those.
LEMMA ExpectsOf ==
  ASSUME NEW c \in Call, command[c] \in Names
  PROVE  Client!Method(c).expects <=> Expects(c)
  <1> DEFINE With == {Client!Join, Client!Members, Client!MembersFiltered, Client!InstallKey, Client!UseKey,
             Client!RemoveKey, Client!ListKeys, Client!Stats, Client!GetCoordinate, Client!ListMicroApps,
             Client!ListRouters}
           Without == {Client!handshake, Client!auth, Client!ForceLeave, Client!UserEvent, Client!Leave,
             Client!UpdateTags, Client!Respond, Client!UpdateRouters, Client!Stop, Client!Monitor,
             Client!Stream, Client!Query}
  <1>1. \A x \in Client!Methods : x.expects <=> x.name \in Expecting
    <2>1. \A x \in With : x.expects = TRUE /\ x.name \in Expecting
      BY DEF Client!Rpc, Client!Join, Client!Members, Client!MembersFiltered, Client!InstallKey, Client!UseKey,
             Client!RemoveKey, Client!ListKeys, Client!Stats, Client!GetCoordinate, Client!ListMicroApps,
             Client!ListRouters, Expecting
    <2>2. \A x \in Without : x.expects = FALSE /\ x.name \notin Expecting
      BY DEF Client!Rpc, Client!handshake, Client!auth, Client!ForceLeave, Client!UserEvent, Client!Leave,
             Client!UpdateTags, Client!Respond, Client!UpdateRouters, Client!Stop, Client!Monitor,
             Client!Stream, Client!Query, Expecting
    <2>3. \A x \in Client!Methods : x \in With \/ x \in Without
      BY DEF Client!Methods
    <2> HIDE DEF With, Without
    <2> SUFFICES ASSUME NEW x \in Client!Methods PROVE x.expects <=> x.name \in Expecting
      OBVIOUS
    <2> QED BY <2>1, <2>2, <2>3, Zenon
  <1>2. \E m \in Client!Methods : m.name = command[c]
    BY DEF Names
  <1>3. Client!Method(c) \in Client!Methods /\ Client!Method(c).name = command[c]
    BY <1>2 DEF Client!Method
  <1> QED BY <1>1, <1>3 DEF Expects

\* ClientFromConfig has gone on with success only, and that stays.
LEMMA SettingsStep ==
  ASSUME RPCInv, Settings, Client!ClientNext
  PROVE  /\ Settings' /\ key' = key
         /\ \A c \in Call : pc[c] # "idle" => pc'[c] # "idle" /\ command'[c] = command[c]
         /\ \A c \in Call : pc[c] = "returned" => pc'[c] = "returned" /\ result'[c] = result[c]
  <1> DEFINE Kept == /\ key' = key
                     /\ \A c \in Call : pc[c] # "idle" => pc'[c] # "idle" /\ command'[c] = command[c]
                     /\ \A c \in Call : pc[c] = "returned" => pc'[c] = "returned" /\ result'[c] = result[c]
  <1> USE SetupCalls
  <1>0. ClientTypes /\ command \in [Call -> Names \cup {"none"}]
    BY DEF RPCInv, Calls
  <1>c. ASSUME Kept PROVE Client!Connected => Client!Connected'
    BY <1>c DEF Client!Connected, Client!Succeeded, Client!Returned, HandshakeCall, AuthCall
  <1>1. ASSUME UNCHANGED <<key, command>>, NEW c \in Call, NEW step, pc[c] \notin {"idle", "returned"},
               pc' = [pc EXCEPT ![c] = step], step # "idle",
               result' = result \/ \E x : result' = [result EXCEPT ![c] = x]
        PROVE  Kept
    <2>1. \A d \in Call : pc[d] # "idle" => pc'[d] # "idle"
      BY <1>0, <1>1 DEF ClientTypes
    <2>2. \A d \in Call : pc[d] = "returned" => pc'[d] = "returned" /\ result'[d] = result[d]
      BY <1>0, <1>1 DEF ClientTypes
    <2> QED BY <1>1, <2>1, <2>2
  <1>s. ASSUME Kept, \A d \in Call : pc[d] = "idle" => pc'[d] = "idle" /\ command'[d] = command[d],
               closer' # "no" => shutdown'
        PROVE  Settings'
    <2>1. \A d \in Call : command'[d] = command[d] /\ (pc'[d] = "idle" <=> pc[d] = "idle")
      BY <1>s
    <2> QED BY <1>c, <1>s, <2>1 DEF Settings
  <1>2. ASSUME NEW c \in Call, NEW name, pc[c] = "idle", command' = [command EXCEPT ![c] = name],
               pc' = [pc EXCEPT ![c] = "begun"], UNCHANGED <<key, result, shutdown, closer>>,
               c = HandshakeCall => name = "handshake",
               c = AuthCall => name = "auth" /\ key # "none",
               c \notin {HandshakeCall, AuthCall} => Client!Connected
        PROVE  Settings' /\ Kept
    <2>1. Kept
      BY <1>0, <1>2 DEF ClientTypes
    <2>2. /\ \A d \in Call : d # c => command'[d] = command[d] /\ pc'[d] = pc[d]
          /\ command'[c] = name /\ pc'[c] = "begun"
      BY <1>0, <1>2 DEF ClientTypes
    <2> HIDE DEF Kept
    <2>3. Client!Connected => Client!Connected'
      BY <1>c, <2>1
    <2> QED BY <1>2, <2>1, <2>2, <2>3 DEF Settings
  <1>3. ASSUME NEW i \in DOMAIN Setup, Client!ClientFromConfig(i) PROVE Settings' /\ Kept
    <2>1. CASE i = 1
      BY <1>2, <1>3, <2>1, SetupCalls DEF Client!ClientFromConfig, HandshakeCall, AuthCall
    <2>2. CASE i = 2
      BY <1>2, <1>3, <2>2, SetupCalls DEF Client!ClientFromConfig, HandshakeCall, AuthCall
    <2> QED BY <2>1, <2>2, SetupCalls
  <1>4. ASSUME NEW c \in Call, NEW name \in Commands[c], Client!Begin(c, name) PROVE Settings' /\ Kept
    BY <1>2, <1>4 DEF Client!Begin
  <1>5. ASSUME NEW c \in Call, NEW g \in Call, Client!BeginStop(c, g) PROVE Settings' /\ Kept
    BY <1>2, <1>5 DEF Client!BeginStop
  <1>6. ASSUME UNCHANGED <<key, command, pc, result>>, closer' # "no" => shutdown' PROVE Settings' /\ Kept
    <2>1. Kept
      BY <1>6
    <2> QED BY <1>6, <1>s, <2>1
  <1>7. ASSUME NEW c \in Call, Client!CallStep(c) PROVE Settings' /\ Kept
    <2>1. /\ UNCHANGED <<key, command, closer, shutdown>> /\ pc[c] \notin {"idle", "returned"}
          /\ \E step : step # "idle" /\ pc' = [pc EXCEPT ![c] = step]
          /\ result' = result \/ \E x : result' = [result EXCEPT ![c] = x]
      <3>1. CASE Client!handleSeq(c) \/ Client!send(c) \/ Client!Deregister(c) \/ Client!Return(c)
        BY <3>1 DEF Client!handleSeq, Client!send, Client!Deregister, Client!Return, Client!deregisterHandler
      <3>2. CASE Client!sendFails(c)
        BY <3>2, Zenon DEF Client!sendFails
      <3>3. CASE Client!Answered(c)
        <4>1. /\ UNCHANGED <<key, command, closer, shutdown>> /\ pc[c] = "waiting"
              /\ result' = [result EXCEPT ![c] = reply[c][1]]
              /\ \E step \in {"returned", "leaving"} : pc' = [pc EXCEPT ![c] = step]
          BY <3>3 DEF Client!Answered
        <4> QED BY <4>1
      <3>4. CASE Client!Abandoned(c)
        BY <3>4 DEF Client!Abandoned
      <3> QED BY <1>7, <3>1, <3>2, <3>3, <3>4 DEF Client!CallStep
    <2>2. Kept
      BY <1>1, <2>1
    <2>3. \A d \in Call : pc[d] = "idle" => pc'[d] = "idle"
      BY <1>0, <2>1 DEF ClientTypes
    <2> QED BY <1>s, <2>1, <2>2, <2>3 DEF Settings
  <1>8. ASSUME NEW c \in Call, Client!CleanupStep(c) PROVE Settings' /\ Kept
    <2>1. UNCHANGED <<key, command, pc, result, closer, shutdown>>
      BY <1>8 DEF Client!CleanupStep, Client!CleanupCheck, Client!CleanupNotify, Client!CleanupClose
    <2> QED BY <1>6, <2>1 DEF Settings
  <1>9. CASE Client!ReaderStep
    <2>1. UNCHANGED <<key, command, pc, result>> /\ (closer' # "no" => shutdown')
      BY <1>9 DEF Client!ReaderStep, Client!respondSeq, Client!HandleAnswer, Client!HandleCheck, Client!HandleInit,
          Client!HandleRecord, Client!HandleEnd, Client!HandleReturn, Client!listenEnds, Client!rest,
          Client!afterClose, Client!beginClose, Settings
    <2> QED BY <1>6, <2>1
  <1>10. CASE Client!Close \/ Client!CloseStep
    <2>1. UNCHANGED <<key, command, pc, result>> /\ (closer' # "no" => shutdown')
      BY <1>10 DEF Client!Close, Client!CloseStep, Client!deregisterAll, Client!CloseConn, Client!CleanupNext,
          Client!afterClose, Client!beginClose, Settings
    <2> QED BY <1>6, <2>1
  <1> QED BY <1>3, <1>4, <1>5, <1>7, <1>8, <1>9, <1>10 DEF Client!ClientNext

-----------------------------------------------------------------------------
(* RPC: what the agent sends. *)

\* The response to the first request, or the refusal of what is taken for one.
Answering(c, error, more) ==
    /\ requests # <<>> /\ c = Head(requests).seq
    /\ requests' = Tail(requests) \/ (Tail(requests) # <<>> /\ requests' = Tail(Tail(requests)))
    /\ IF Client!Streaming(c) THEN Asked(c) /\ ~ more ELSE more <=> error # "authRequired" /\ Expects(c)
    /\ c = AuthCall /\ error = "" => didAuth'

\* A record of a stream.
Pushing(c, more) ==
    more /\ streams[c] # "none" /\ UNCHANGED <<requests, didAuth>>

SendsFor(c, error, more, type) ==
    /\ responses' = responses \o Messages(c, error, more, type)
    /\ \A s \in Call \ {c} : streams'[s] = "none" <=> streams[s] = "none"
    /\ streams'[c] # "none" => Client!Streaming(c)
    /\ didAuth => didAuth'
    /\ Answering(c, error, more) \/ Pushing(c, more)

Sends == \E c \in Call, error \in Errors, more \in BOOLEAN, type \in Errors : SendsFor(c, error, more, type)

\* The request that is admitted is that of a call of this command.
LEMMA AdmittedIs ==
  ASSUME BodyInv, Live, NEW name, Agent!Admitted(name)
  PROVE  /\ requests # <<>> /\ Agent!ReqSeq = Head(requests).seq /\ Agent!ReqSeq \in Call
         /\ command[Agent!ReqSeq] = name /\ name \in Names /\ Asked(Agent!ReqSeq)
         /\ Guarded => didAuth \/ name \in {"auth", "handshake"}
         /\ Agent!ReadBody => Tail(requests) # <<>>
  <1>1. /\ "agent" \notin link /\ requests # <<>> /\ Agent!Decoded.command = name
        /\ Guarded => didAuth \/ name \in {"auth", "handshake"}
    BY DEF Agent!Admitted
  <1>2. requests \in Seq(Frame) /\ Queue(requests)
    BY <1>1 DEF BodyInv, RPCInv, Line
  <1>3. ~ Beheaded(requests)
    BY <1>1 DEF BodyInv, RPCInv, Line, Beheaded, Agent!Decoded
  <1>4. Head(requests) = requests[1] /\ 1 \in DOMAIN requests /\ requests[1] \in Frame
    BY <1>1, <1>2, Popped DEF Shorter
  <1>5. requests[1].frame = "header" /\ Agent!Decoded = requests[1]
    BY <1>1, <1>3, <1>4 DEF Beheaded, Frame, Agent!Decoded
  <1>6. Agent!ReqSeq = requests[1].seq /\ requests[1].command = name /\ name \in Names /\ requests[1].seq \in Call
    BY <1>1, <1>4, <1>5 DEF Agent!ReqSeq, Frame
  <1>7. command[requests[1].seq] = name
    BY <1>4, <1>6 DEF BodyInv, Lively, Inward
  <1>8. Asked(requests[1].seq)
    BY <1>4, <1>5 DEF Asked, For
  <1>9. Agent!ReadBody => Tail(requests) # <<>>
    <2>1. ASSUME Agent!ReadBody PROVE 1 + 1 \in DOMAIN requests
      <3>1. Len(requests) > 1 /\ Len(requests) \in Nat /\ DOMAIN requests = 1..Len(requests)
        BY <1>2, <2>1, LenProperties DEF Agent!ReadBody
      <3> QED BY <3>1
    <2> QED BY <1>1, <1>2, <2>1, Popped DEF Shorter
  <1> QED BY <1>1, <1>4, <1>6, <1>7, <1>8, <1>9

\* How an admitted request is answered.
LEMMA AnswerIs ==
  ASSUME BodyInv, Live, NEW name, Agent!Admitted(name), Agent!NoBody \/ Agent!ReadBody,
         NEW error \in Errors, NEW more \in BOOLEAN, NEW type \in Errors,
         Agent!Send(Messages(Agent!ReqSeq, error, more, type)), error # "authRequired",
         IF name \in {"monitor", "stream", "query"} THEN ~ more ELSE more <=> name \in Expecting,
         \A s \in Call \ {Agent!ReqSeq} : streams'[s] = "none" <=> streams[s] = "none",
         streams'[Agent!ReqSeq] # "none" => name \in {"monitor", "stream", "query"},
         didAuth => didAuth', name = "auth" /\ error = "" => didAuth'
  PROVE  Sends
  <1> DEFINE c == Agent!ReqSeq
  <1>1. /\ requests # <<>> /\ c = Head(requests).seq /\ c \in Call /\ command[c] = name /\ name \in Names
        /\ Asked(c) /\ (Agent!ReadBody => Tail(requests) # <<>>)
    BY AdmittedIs
  <1>2. responses' = responses \o Messages(c, error, more, type)
    BY DEF Agent!Send, Live
  <1> HIDE DEF c
  <1>3. c = AuthCall => name = "auth"
    BY <1>1, NoneIsNoMethod DEF BodyInv, Settings
  <1>4. Client!Streaming(c) <=> name \in {"monitor", "stream", "query"}
    BY <1>1 DEF Client!Streaming
  <1>5. Expects(c) <=> name \in Expecting
    BY <1>1 DEF Expects
  <1>6. requests' = Tail(requests) \/ (Tail(requests) # <<>> /\ requests' = Tail(Tail(requests)))
    BY <1>1 DEF Agent!NoBody, Agent!ReadBody
  <1>7. IF Client!Streaming(c) THEN Asked(c) /\ ~ more ELSE more <=> error # "authRequired" /\ Expects(c)
    BY <1>1, <1>4, <1>5
  <1>8. Answering(c, error, more)
    BY <1>1, <1>3, <1>6, <1>7 DEF Answering
  <1>9. SendsFor(c, error, more, type)
    BY <1>2, <1>4, <1>8 DEF SendsFor, c
  <1> QED BY <1>1, <1>9 DEF Sends

\* A stream is never refused, unless its client has no key.
LEMMA StreamsAdmitted ==
  ASSUME BodyInv, Live, Guarded, ~ didAuth, NEW c \in Call, Client!Streaming(c)
  PROVE  FALSE
  <1>1. Settings /\ AuthFirst
    BY DEF BodyInv, Lively
  <1>2. command[c] \notin {"none", "handshake", "auth"}
    BY DEF Client!Streaming
  <1>3. Client!Connected
    BY <1>1, <1>2 DEF Settings
  <1>4. key = "none" \/ result[AuthCall] = "ok"
    BY <1>3 DEF Client!Connected, Client!Succeeded, AuthCall
  <1>5. key # "none"
    BY DEF Live, Disowned
  <1> QED BY <1>1, <1>4, <1>5 DEF AuthFirst

\* Whatever the agent does, it sends something for one call, or hangs up.
LEMMA AgentSends == ASSUME BodyInv, Live, Agent!SessionNext, link' = {} PROVE Sends
  <1> USE DEF Agent!same
  <1>0. SessionTypes
    BY DEF BodyInv, RPCInv
  <1>e. {"", "failed", "unsupportedIPCVersion", "duplicateHandshake", "invalidAuthToken", "answer", "record",
         "done", "authRequired"} \subseteq Errors
    BY DEF Errors
  <1>b. TRUE \in BOOLEAN /\ FALSE \in BOOLEAN
    OBVIOUS
  <1>s. ASSUME NEW c, NEW error PROVE Agent!Response(c, error) = Messages(c, error, FALSE, "answer")
    BY DEF Messages
  <1>r. ASSUME NEW c, NEW error, NEW type
        PROVE  Agent!Response(c, error) \o Agent!Record(c, type) = Messages(c, error, TRUE, type)
    BY DEF Messages
  <1>n. \A c \in Call : streams[c] # "none" => Client!Streaming(c)
    BY DEF BodyInv, Lively, Outward
  <1>m. ASSUME NEW name, Agent!Admitted(name), streams[Agent!ReqSeq] # "none"
        PROVE  name \in {"monitor", "stream", "query"}
    <2>1. Agent!ReqSeq \in Call /\ command[Agent!ReqSeq] = name
      BY <1>m, AdmittedIs
    <2> QED BY <1>m, <1>n, <2>1 DEF Client!Streaming
  <1>u. ASSUME NEW name, Agent!Admitted(name),
               \A s \in Call : streams'[s] = "none" <=> streams[s] = "none"
        PROVE  /\ \A s \in Call \ {Agent!ReqSeq} : streams'[s] = "none" <=> streams[s] = "none"
               /\ streams'[Agent!ReqSeq] # "none" => name \in {"monitor", "stream", "query"}
    <2>1. Agent!ReqSeq \in Call
      BY <1>u, AdmittedIs
    <2> QED BY <1>m, <1>u, <2>1
  <1>1. ASSUME "agent" \in link' PROVE FALSE
    BY <1>1
  <1>2. CASE Agent!handshakeRequired \/ Agent!decodeFailed \/ Agent!unsupportedCommand \/ Agent!filterFails
             \/ Agent!Shutdown
    <2>1. "agent" \in link'
      BY <1>2 DEF Agent!handshakeRequired, Agent!decodeFailed, Agent!unsupportedCommand, Agent!filterFails,
                  Agent!Shutdown, Agent!Hangup
    <2> QED BY <1>1, <2>1
  <1>3. CASE Agent!refuse
    <2> DEFINE c == Agent!ReqSeq
    <2>1. /\ "agent" \notin link /\ requests # <<>> /\ Guarded /\ ~ didAuth
          /\ Agent!Decoded.command \notin {"auth", "handshake"}
          /\ Agent!Send(Messages(c, "authRequired", FALSE, "answer"))
          /\ requests' = Tail(requests) /\ UNCHANGED <<didAuth, streams>>
      BY <1>3, <1>s DEF Agent!refuse, Agent!authRequired
    <2>2. requests \in Seq(Frame)
      BY <2>1 DEF BodyInv, RPCInv, Line
    <2>3. Head(requests) \in Frame
      BY <2>1, <2>2, Popped DEF Shorter
    <2>4. c = Head(requests).seq /\ c \in Call
      <3>1. CASE Head(requests).frame = "header"
        BY <2>3, <3>1 DEF Agent!ReqSeq, Agent!Decoded, Frame
      <3>2. CASE Head(requests).frame # "header"
        <4>1. Beheaded(requests)
          BY <2>1, <2>3, <3>2 DEF Beheaded, Frame
        <4>2. reqHeader.seq = Head(requests).seq
          BY <2>1, <4>1 DEF BodyInv, RPCInv, Line
        <4> QED BY <2>3, <3>2, <4>2 DEF Agent!ReqSeq, Agent!Decoded, Frame
      <3> QED BY <3>1, <3>2
    <2>5. ~ Client!Streaming(c)
      BY <2>1, <2>4, StreamsAdmitted
    <2>6. responses' = responses \o Messages(c, "authRequired", FALSE, "answer")
      BY <2>1 DEF Agent!Send, Live
    <2> HIDE DEF c
    <2>7. Answering(c, "authRequired", FALSE)
      BY <2>1, <2>4, <2>5 DEF Answering
    <2>8. SendsFor(c, "authRequired", FALSE, "answer")
      BY <1>n, <2>1, <2>4, <2>6, <2>7 DEF SendsFor
    <2> QED BY <1>b, <1>e, <2>4, <2>8 DEF Sends
  <1>4. CASE Agent!handleHandshake
    <2>1. PICK error \in {"unsupportedIPCVersion", "duplicateHandshake", ""} :
             Agent!Send(Agent!Response(Agent!ReqSeq, error))
      BY <1>4 DEF Agent!handleHandshake
    <2>2. Agent!Admitted("handshake") /\ Agent!ReadBody /\ UNCHANGED <<streams, didAuth>>
      BY <1>4 DEF Agent!handleHandshake
    <2>3. Agent!Send(Messages(Agent!ReqSeq, error, FALSE, "answer"))
      BY <1>s, <2>1
    <2>4. error \in Errors /\ error # "authRequired" /\ "handshake" \notin Expecting
      BY <1>e DEF Expecting
    <2>5. /\ \A s \in Call \ {Agent!ReqSeq} : streams'[s] = "none" <=> streams[s] = "none"
          /\ streams'[Agent!ReqSeq] # "none" => "handshake" \in {"monitor", "stream", "query"}
      BY <1>u, <2>1, <2>2
    <2> QED BY <1>b, <1>e, <2>2, <2>3, <2>4, <2>5, AnswerIs
  <1>5. CASE Agent!handleAuth
    <2>1. PICK error \in {"invalidAuthToken", ""} :
             Agent!Send(Agent!Response(Agent!ReqSeq, error)) /\ (error = "" => didAuth') /\ (didAuth => didAuth')
      <3>1. CASE Agent!Arg = "right"
        BY <1>5, <3>1 DEF Agent!handleAuth
      <3>2. CASE Agent!Arg # "right"
        BY <1>5, <3>2 DEF Agent!handleAuth
      <3> QED BY <3>1, <3>2
    <2>2. Agent!Admitted("auth") /\ Agent!ReadBody /\ UNCHANGED streams
      BY <1>5 DEF Agent!handleAuth
    <2>3. Agent!Send(Messages(Agent!ReqSeq, error, FALSE, "answer"))
      BY <1>s, <2>1
    <2>4. error \in Errors /\ error # "authRequired" /\ "auth" \notin Expecting
      BY <1>e DEF Expecting
    <2>5. /\ \A s \in Call \ {Agent!ReqSeq} : streams'[s] = "none" <=> streams[s] = "none"
          /\ streams'[Agent!ReqSeq] # "none" => "auth" \in {"monitor", "stream", "query"}
      BY <1>u, <2>1, <2>2
    <2> QED BY <1>b, <1>e, <2>1, <2>2, <2>3, <2>4, <2>5, AnswerIs
  <1>6. ASSUME NEW name, name \notin Expecting \cup {"auth", "monitor", "stream", "query"},
               NEW errors \in SUBSET {"", "failed"}, Agent!Acts(name, errors)
        PROVE  Sends
    <2>1. PICK error \in errors : Agent!Send(Agent!Response(Agent!ReqSeq, error))
      BY <1>6 DEF Agent!Acts
    <2>2. Agent!Admitted(name) /\ Agent!ReadBody /\ UNCHANGED <<streams, didAuth>>
      BY <1>6 DEF Agent!Acts
    <2>3. Agent!Send(Messages(Agent!ReqSeq, error, FALSE, "answer"))
      BY <1>s, <2>1
    <2>5. /\ \A s \in Call \ {Agent!ReqSeq} : streams'[s] = "none" <=> streams[s] = "none"
          /\ streams'[Agent!ReqSeq] # "none" => name \in {"monitor", "stream", "query"}
      BY <1>u, <2>1, <2>2
    <2> QED BY <1>b, <1>e, <1>6, <2>2, <2>3, <2>5, AnswerIs
  <1>7. ASSUME NEW name, name \in Expecting, NEW errors \in SUBSET {"", "failed"},
               Agent!Exchanges(name, errors)
        PROVE  Sends
    <2>1. PICK error \in errors :
             Agent!Send(Agent!Response(Agent!ReqSeq, error) \o Agent!Record(Agent!ReqSeq, "answer"))
      BY <1>7 DEF Agent!Exchanges
    <2>2. Agent!Admitted(name) /\ Agent!ReadBody /\ UNCHANGED <<streams, didAuth>>
      BY <1>7 DEF Agent!Exchanges
    <2>3. Agent!Send(Messages(Agent!ReqSeq, error, TRUE, "answer"))
      BY <1>r, <2>1
    <2>4. name \notin {"auth", "monitor", "stream", "query"}
      BY <1>7 DEF Expecting
    <2>5. /\ \A s \in Call \ {Agent!ReqSeq} : streams'[s] = "none" <=> streams[s] = "none"
          /\ streams'[Agent!ReqSeq] # "none" => name \in {"monitor", "stream", "query"}
      BY <1>u, <2>1, <2>2
    <2> QED BY <1>b, <1>e, <1>7, <2>2, <2>3, <2>4, <2>5, AnswerIs
  <1>8. ASSUME NEW name, name \in Expecting, NEW errors \in SUBSET {"", "failed"},
               Agent!Tells(name, errors)
        PROVE  Sends
    <2>1. PICK error \in errors :
             Agent!Send(Agent!Response(Agent!ReqSeq, error) \o Agent!Record(Agent!ReqSeq, "answer"))
      BY <1>8 DEF Agent!Tells
    <2>2. Agent!Admitted(name) /\ Agent!NoBody /\ UNCHANGED <<streams, didAuth>>
      BY <1>8 DEF Agent!Tells
    <2>3. Agent!Send(Messages(Agent!ReqSeq, error, TRUE, "answer"))
      BY <1>r, <2>1
    <2>4. name \notin {"auth", "monitor", "stream", "query"}
      BY <1>8 DEF Expecting
    <2>5. /\ \A s \in Call \ {Agent!ReqSeq} : streams'[s] = "none" <=> streams[s] = "none"
          /\ streams'[Agent!ReqSeq] # "none" => name \in {"monitor", "stream", "query"}
      BY <1>u, <2>1, <2>2
    <2> QED BY <1>b, <1>e, <1>8, <2>2, <2>3, <2>4, <2>5, AnswerIs
  <1>9. CASE Agent!handleLeave
    <2>1. PICK error \in {"", "failed"} : Agent!Send(Agent!Response(Agent!ReqSeq, error))
      BY <1>9 DEF Agent!handleLeave, Agent!MayFail
    <2>2. Agent!Admitted("leave") /\ Agent!NoBody /\ UNCHANGED <<streams, didAuth>>
      BY <1>9 DEF Agent!handleLeave
    <2>3. Agent!Send(Messages(Agent!ReqSeq, error, FALSE, "answer"))
      BY <1>s, <2>1
    <2>4. "leave" \notin Expecting
      BY DEF Expecting
    <2>5. /\ \A s \in Call \ {Agent!ReqSeq} : streams'[s] = "none" <=> streams[s] = "none"
          /\ streams'[Agent!ReqSeq] # "none" => "leave" \in {"monitor", "stream", "query"}
      BY <1>u, <2>1, <2>2
    <2>6. /\ IF "leave" \in {"monitor", "stream", "query"} THEN ~ FALSE ELSE FALSE <=> "leave" \in Expecting
          /\ "leave" # "auth" /\ error \in Errors /\ error # "authRequired" /\ "answer" \in Errors
      BY <1>e, <2>4
    <2> QED BY <1>b, <2>1, <2>2, <2>3, <2>5, <2>6, AnswerIs
  <1>10. CASE Agent!handleStop
    <2>1. Agent!Admitted("stop") /\ Agent!ReadBody /\ UNCHANGED didAuth
      BY <1>10 DEF Agent!handleStop
    <2>2. \A s \in Call : streams'[s] = "none" <=> streams[s] = "none"
      BY <1>10 DEF Agent!handleStop
    <2>3. Agent!Send(Messages(Agent!ReqSeq, "", FALSE, "answer"))
      BY <1>10, <1>s DEF Agent!handleStop
    <2>4. "stop" \notin Expecting /\ Agent!ReqSeq \in Call
      BY <2>1, AdmittedIs DEF Expecting
    <2>5. /\ \A s \in Call \ {Agent!ReqSeq} : streams'[s] = "none" <=> streams[s] = "none"
          /\ streams'[Agent!ReqSeq] # "none" => "stop" \in {"monitor", "stream", "query"}
      BY <1>u, <2>1, <2>2
    <2>6. /\ IF "stop" \in {"monitor", "stream", "query"} THEN ~ FALSE ELSE FALSE <=> "stop" \in Expecting
          /\ "stop" # "auth" /\ "" \in Errors /\ "" # "authRequired" /\ "answer" \in Errors
      BY <1>e, <2>4
    <2> QED BY <1>b, <2>1, <2>2, <2>3, <2>5, <2>6, AnswerIs
  <1>11. ASSUME NEW name \in {"monitor", "stream", "query"}, NEW to, Agent!Subscribe(name, to) PROVE Sends
    <2>1. Agent!Admitted(name) /\ Agent!ReadBody /\ UNCHANGED didAuth
      BY <1>11 DEF Agent!Subscribe
    <2>2. PICK error \in {"", "failed"} : Agent!Send(Agent!Response(Agent!ReqSeq, error))
      BY <1>11 DEF Agent!Subscribe
    <2>3. \A s \in Call \ {Agent!ReqSeq} : streams'[s] = "none" <=> streams[s] = "none"
      BY <1>0, <1>11 DEF Agent!Subscribe, SessionTypes
    <2>4. Agent!Send(Messages(Agent!ReqSeq, error, FALSE, "answer"))
      BY <1>s, <2>2
    <2> QED BY <1>b, <1>e, <2>1, <2>3, <2>4, AnswerIs
  <1>12. ASSUME NEW s \in Call, Agent!sendRecord(s) \/ Agent!sendDone(s) PROVE Sends
    <2>1. /\ streams[s] # "none" /\ UNCHANGED <<requests, didAuth>>
          /\ \E type \in {"record", "done"} : Agent!Send(Agent!Response(s, "") \o Agent!Record(s, type))
          /\ \A d \in Call \ {s} : streams'[d] = streams[d]
      BY <1>0, <1>12 DEF Agent!sendRecord, Agent!sendDone, SessionTypes
    <2>2. PICK type \in {"record", "done"} : Agent!Send(Agent!Response(s, "") \o Agent!Record(s, type))
      BY <2>1
    <2>3. responses' = responses \o Messages(s, "", TRUE, type)
      BY <1>r, <2>2 DEF Agent!Send, Live
    <2>4. Pushing(s, TRUE)
      BY <2>1 DEF Pushing
    <2>5. SendsFor(s, "", TRUE, type)
      BY <1>n, <2>1, <2>3, <2>4 DEF SendsFor
    <2> QED BY <1>b, <1>e, <2>5 DEF Sends
  <1>13. CASE Agent!handleStream \/ Agent!handleMonitor \/ Agent!handleQuery
    BY <1>11, <1>13 DEF Agent!handleStream, Agent!handleMonitor, Agent!handleQuery
  <1>14. CASE Agent!handleMembers
    BY <1>2, <1>7, <1>8, <1>14 DEF Agent!handleMembers, Expecting, Agent!NeverFails
  <1>15. CASE \/ Agent!handleEvent \/ Agent!handleForceLeave \/ Agent!handleTags \/ Agent!handleRespond
              \/ Agent!handleUpdateRouters
    BY <1>6, <1>15 DEF Agent!handleEvent, Agent!handleForceLeave, Agent!handleTags, Agent!handleRespond,
        Agent!handleUpdateRouters, Expecting, Agent!MayFail, Agent!NeverFails
  <1>16. CASE \/ Agent!handleJoin \/ Agent!handleInstallKey \/ Agent!handleUseKey \/ Agent!handleRemoveKey
              \/ Agent!handleGetCoordinate
    BY <1>7, <1>16 DEF Agent!handleJoin, Agent!handleInstallKey, Agent!handleUseKey,
        Agent!handleRemoveKey, Agent!handleGetCoordinate, Expecting, Agent!MayFail, Agent!NeverFails
  <1>17. CASE Agent!handleListKeys \/ Agent!handleStats \/ Agent!handleListMicroApps \/ Agent!handleListRouters
    BY <1>8, <1>17 DEF Agent!handleListKeys, Agent!handleStats, Agent!handleListMicroApps,
        Agent!handleListRouters, Expecting, Agent!MayFail, Agent!NeverFails
  <1> QED BY <1>2, <1>3, <1>4, <1>5, <1>9, <1>10, <1>12, <1>13, <1>14, <1>15, <1>16, <1>17
          DEF Agent!SessionNext, Agent!handleRequest

\* The requests that are left keep their order, behind those that were read.
LEMMA Behind ==
  ASSUME NEW S, NEW q \in Seq(S), q # <<>>, NEW r,
         r = Tail(q) \/ (Tail(q) # <<>> /\ r = Tail(Tail(q)))
  PROVE  /\ 1 \in DOMAIN q /\ Head(q) = q[1]
         /\ \E k \in {1, 2} : \A i \in DOMAIN r : i \in Nat \ {0} /\ i + k \in DOMAIN q /\ r[i] = q[i + k]
  <1>1. /\ Tail(q) \in Seq(S) /\ 1 \in DOMAIN q /\ Head(q) = q[1]
        /\ \A i \in DOMAIN Tail(q) : i \in Nat \ {0} /\ i + 1 \in DOMAIN q /\ Tail(q)[i] = q[i + 1]
    BY Popped DEF Shorter
  <1>2. CASE r = Tail(q)
    BY <1>1, <1>2
  <1>3. CASE Tail(q) # <<>> /\ r = Tail(Tail(q))
    <2>1. \A i \in DOMAIN r : i \in Nat \ {0} /\ i + 1 \in DOMAIN Tail(q) /\ r[i] = Tail(q)[i + 1]
      BY <1>1, <1>3, Popped DEF Shorter
    <2>2. ASSUME NEW i \in DOMAIN r PROVE i \in Nat \ {0} /\ i + 2 \in DOMAIN q /\ r[i] = q[i + 2]
      <3>1. i \in Nat \ {0} /\ (i + 1) + 1 \in DOMAIN q /\ r[i] = q[(i + 1) + 1]
        BY <1>1, <2>1
      <3>2. (i + 1) + 1 = i + 2
        BY <3>1
      <3> QED BY <3>1, <3>2
    <2> QED BY <1>1, <2>2
  <1> QED BY <1>2, <1>3

\* What was read is not asked for any more.
LEMMA ReadOnce ==
  ASSUME BodyInv, Live, NEW c \in Call, NEW error, NEW more,
         Answering(c, error, more) \/ Pushing(c, more), UNCHANGED client
  PROVE  /\ Inward' /\ Written(c)
         /\ \A d \in Call : Asked(d)' => Asked(d) /\ d # c
  <1>0. Inward /\ Untouched /\ requests \in Seq(Frame)
    BY DEF BodyInv, Lively, Live, RPCInv, Line
  <1>1. \A d : Written(d)' = Written(d) /\ command'[d] = command[d]
    BY DEF client, Written
  <1>2. CASE Answering(c, error, more)
    <2>1. /\ requests # <<>> /\ c = Head(requests).seq
          /\ requests' = Tail(requests) \/ (Tail(requests) # <<>> /\ requests' = Tail(Tail(requests)))
      BY <1>2 DEF Answering
    <2>2. /\ 1 \in DOMAIN requests /\ Head(requests) = requests[1]
          /\ \E k \in {1, 2} : \A i \in DOMAIN requests' :
                i \in Nat \ {0} /\ i + k \in DOMAIN requests /\ requests'[i] = requests[i + k]
      BY <1>0, <2>1, Behind
    <2>3. PICK k \in {1, 2} : \A i \in DOMAIN requests' :
                i \in Nat \ {0} /\ i + k \in DOMAIN requests /\ requests'[i] = requests[i + k]
      BY <2>2
    <2>4. Written(c)
      BY <1>0, <2>1, <2>2 DEF Inward
    <2>5. \A i \in DOMAIN requests' : Written(requests'[i].seq) /\ requests'[i].command = command[requests'[i].seq]
      BY <1>0, <2>3 DEF Inward
    <2>6. ASSUME NEW i \in DOMAIN requests', NEW j \in DOMAIN requests', i < j, requests'[j].frame = "header"
          PROVE  requests'[j].seq # requests'[i].seq
      <3>1. i + k < j + k
        BY <2>3, <2>6
      <3> QED BY <1>0, <2>3, <2>6, <3>1 DEF Inward
    <2>7. Inward'
      BY <1>1, <2>5, <2>6 DEF Inward
    <2>8. ASSUME NEW d \in Call, Asked(d)' PROVE Asked(d) /\ d # c
      <3>1. PICK j \in DOMAIN requests' : For(requests', j, d)
        BY <2>8 DEF Asked
      <3>2. j + k \in DOMAIN requests /\ For(requests, j + k, d) /\ 1 < j + k
        BY <2>3, <3>1 DEF For
      <3>3. d # c
        BY <1>0, <2>1, <2>2, <3>2 DEF Inward, For
      <3> QED BY <3>2, <3>3 DEF Asked
    <2> QED BY <2>4, <2>7, <2>8
  <1>3. CASE Pushing(c, more)
    <2>1. streams[c] # "none" /\ requests' = requests
      BY <1>3 DEF Pushing
    <2>2. Written(c) /\ ~ Asked(c)
      BY <1>0, <2>1 DEF Untouched
    <2>3. \A d : Asked(d)' = Asked(d)
      BY <2>1 DEF Asked
    <2> QED BY <1>0, <1>1, <2>1, <2>2, <2>3 DEF Inward
  <1> QED BY <1>2, <1>3

\* So all that is sent is of the right shape.
LEMMA AgentLively ==
  ASSUME BodyInv, Live, Sends, UNCHANGED client
  PROVE  Lively'
  <1>1. PICK c \in Call, error \in Errors, more \in BOOLEAN, type \in Errors : SendsFor(c, error, more, type)
    BY DEF Sends
  <1> DEFINE q == responses
             r == responses'
  <1>2. /\ r = q \o Messages(c, error, more, type) /\ (didAuth => didAuth')
        /\ \A s \in Call \ {c} : streams'[s] = "none" <=> streams[s] = "none"
        /\ streams'[c] # "none" => Client!Streaming(c)
        /\ Answering(c, error, more) \/ Pushing(c, more)
    BY <1>1 DEF SendsFor
  <1>3. Inward /\ Outward /\ Reading /\ Handled /\ Untouched /\ AuthFirst /\ Settings
    BY DEF BodyInv, Lively
  <1>4. q \in Seq(Reply)
    BY <1>3 DEF Outward
  <1> HIDE DEF q, r
  <1>e. Extended(q, r, c, error, more)
    <2>1. r = q \o Messages(c, error, more, type)
      BY <1>2
    <2> HIDE <1>2, <1>3
    <2> QED BY <1>4, <2>1, Appended
  <1>5. /\ r \in Seq(Reply)
        /\ \A i \in DOMAIN q : i \in DOMAIN r /\ r[i] = q[i] /\ (Bodied(r, i) <=> Bodied(q, i))
        /\ \A i \in DOMAIN r : i \in Nat
        /\ r # <<>> /\ Head(r) = IF q = <<>> THEN [frame |-> "header", seq |-> c, error |-> error] ELSE Head(q)
    BY <1>e DEF Extended
  <1>6. PICK n \in DOMAIN r \ DOMAIN q :
              /\ For(r, n, c) /\ r[n].error = error /\ (Bodied(r, n) <=> more)
              /\ \A i \in DOMAIN q : i < n
              /\ \A i \in DOMAIN r \ DOMAIN q :
                    /\ r[i].seq = c
                    /\ i # n => r[i].frame = "body" /\ i = n + 1 /\ ~ Bodied(r, i)
    BY <1>e DEF Extended
  <1>7. /\ Inward' /\ Written(c)
        /\ \A d \in Call : Asked(d)' => Asked(d) /\ d # c
    BY <1>2, ReadOnce
  <1>8. /\ \A d : Written(d)' = Written(d) /\ Opened(d)' = Opened(d)
        /\ \A d : Client!Streaming(d)' = Client!Streaming(d) /\ Expects(d)' = Expects(d)
        /\ Awaits' = Awaits /\ Handled' = Handled
        /\ UNCHANGED <<reader, dispatch, init, reply, result>>
    BY DEF client, Written, Opened, Client!Streaming, Expects, Awaits, Handled
  <1>9. \A i \in DOMAIN q : \A d : For(r, i, d) <=> For(q, i, d)
    BY <1>5 DEF For
  <1>10. ASSUME NEW i \in DOMAIN r, NEW d, For(r, i, d), i \notin DOMAIN q PROVE i = n /\ d = c
    BY <1>6, <1>10 DEF For
  <1>o. /\ \A i \in DOMAIN q : /\ Written(q[i].seq)
                               /\ Bodied(q, i) => For(q, i, q[i + 1].seq)
        /\ \A i \in DOMAIN q : \A d \in Call : For(q, i, d) =>
              (Bodied(q, i) <=>
                  IF Client!Streaming(d)
                  THEN Opened(d) \/ \E j \in DOMAIN q : j < i /\ For(q, j, d)
                  ELSE q[i].error # "authRequired" /\ Expects(d))
        /\ \A d \in Call : streams[d] # "none" =>
              Client!Streaming(d) /\ (Opened(d) \/ \E j \in DOMAIN q : For(q, j, d))
    BY <1>3 DEF Outward, q
  <1>11. ASSUME NEW i \in DOMAIN r
         PROVE  Written(r[i].seq) /\ (Bodied(r, i) => For(r, i, r[i + 1].seq))
    <2>1. CASE i \in DOMAIN q
      <3>1. r[i] = q[i] /\ (Bodied(r, i) <=> Bodied(q, i))
        BY <1>5, <2>1
      <3>2. Bodied(q, i) => r[i + 1] = q[i + 1]
        BY <1>5 DEF Bodied
      <3> QED BY <1>9, <1>o, <2>1, <3>1, <3>2
    <2>2. CASE i = n
      <3>1. ASSUME Bodied(r, i) PROVE r[i + 1].seq = c
        <4>1. i + 1 \in DOMAIN r /\ i \in Nat
          BY <1>5, <3>1 DEF Bodied
        <4>2. i + 1 \notin DOMAIN q
          BY <1>5, <1>6, <2>2, <4>1
        <4> QED BY <1>6, <4>1, <4>2
      <3> QED BY <1>6, <1>7, <2>2, <3>1
    <2>3. CASE i \notin DOMAIN q /\ i # n
      BY <1>6, <1>7, <2>3
    <2> QED BY <2>1, <2>2, <2>3
  <1>12. ASSUME NEW i \in DOMAIN q, NEW d
         PROVE  (\E j \in DOMAIN r : j < i /\ For(r, j, d)) <=> (\E j \in DOMAIN q : j < i /\ For(q, j, d))
    <2>1. ASSUME NEW j \in DOMAIN r, j < i, For(r, j, d) PROVE j \in DOMAIN q
      <3>1. i < n /\ i \in Nat /\ j \in Nat /\ n \in Nat
        BY <1>5, <1>6
      <3> QED BY <1>10, <2>1, <3>1
    <2> QED BY <1>5, <1>9, <2>1
  <1>13. ASSUME NEW i \in DOMAIN q, NEW d \in Call, For(r, i, d)
         PROVE  Bodied(r, i) <=>
                  IF Client!Streaming(d)
                  THEN Opened(d) \/ \E j \in DOMAIN r : j < i /\ For(r, j, d)
                  ELSE r[i].error # "authRequired" /\ Expects(d)
    <2>1. For(q, i, d) /\ r[i] = q[i] /\ (Bodied(r, i) <=> Bodied(q, i))
      BY <1>5, <1>9, <1>13
    <2>2. Bodied(q, i) <=>
                  IF Client!Streaming(d)
                  THEN Opened(d) \/ \E j \in DOMAIN q : j < i /\ For(q, j, d)
                  ELSE q[i].error # "authRequired" /\ Expects(d)
      BY <1>o, <2>1
    <2> QED BY <1>12, <2>1, <2>2
  <1>14. Bodied(r, n) <=>
                  IF Client!Streaming(c)
                  THEN Opened(c) \/ \E j \in DOMAIN r : j < n /\ For(r, j, c)
                  ELSE r[n].error # "authRequired" /\ Expects(c)
    <2>1. CASE Client!Streaming(c) /\ Answering(c, error, more)
      <3>1. Asked(c) /\ ~ more
        BY <2>1 DEF Answering
      <3>2. ~ Opened(c) /\ \A j \in DOMAIN q : q[j].seq # c
        BY <1>3, <3>1 DEF Untouched, Opened, q
      <3>3. ASSUME NEW j \in DOMAIN r, j < n, For(r, j, c) PROVE FALSE
        <4>1. j \in DOMAIN q
          <5>1. j \in Nat /\ n \in Nat
            BY <1>5
          <5> QED BY <1>10, <3>3, <5>1
        <4> QED BY <1>5, <3>2, <3>3, <4>1 DEF For
      <3> QED BY <1>6, <2>1, <3>1, <3>2, <3>3
    <2>2. CASE Pushing(c, more)
      <3>1. more /\ streams[c] # "none"
        BY <2>2 DEF Pushing
      <3>2. Client!Streaming(c) /\ (Opened(c) \/ \E j \in DOMAIN q : For(q, j, c))
        BY <1>o, <3>1
      <3> QED BY <1>5, <1>6, <1>9, <3>1, <3>2
    <2>3. CASE ~ Client!Streaming(c) /\ Answering(c, error, more)
      BY <1>6, <2>3 DEF Answering
    <2> QED BY <1>2, <2>1, <2>2, <2>3
  <1>15. ASSUME NEW d \in Call, streams'[d] # "none"
         PROVE  Client!Streaming(d) /\ (Opened(d) \/ \E j \in DOMAIN r : For(r, j, d))
    <2>1. CASE d = c
      BY <1>2, <1>6, <1>15, <2>1
    <2>2. CASE d # c
      <3>1. Client!Streaming(d) /\ (Opened(d) \/ \E j \in DOMAIN q : For(q, j, d))
        BY <1>2, <1>o, <1>15, <2>2
      <3> QED BY <1>5, <1>9, <3>1
    <2> QED BY <2>1, <2>2
  <1>16. Outward'
    <2>1. \A i \in DOMAIN r : \A d \in Call : For(r, i, d) =>
              (Bodied(r, i) <=>
                  IF Client!Streaming(d)
                  THEN Opened(d) \/ \E j \in DOMAIN r : j < i /\ For(r, j, d)
                  ELSE r[i].error # "authRequired" /\ Expects(d))
      BY <1>10, <1>13, <1>14
    <2>2. UNCHANGED <<pc, init, reader, command>>
      BY DEF client
    <2>3. (\A i \in DOMAIN responses : \A d \in Call : For(responses, i, d) =>
              (Bodied(responses, i) <=>
                  IF Client!Streaming(d)
                  THEN Opened(d) \/ \E j \in DOMAIN responses : j < i /\ For(responses, j, d)
                  ELSE responses[i].error # "authRequired" /\ Expects(d)))'
      BY <2>1, <2>2, Zenon DEF Opened, Client!Streaming, Expects, r
    <2>4. (\A i \in DOMAIN responses : /\ Written(responses[i].seq)
                                       /\ Bodied(responses, i) => For(responses, i, responses[i + 1].seq))'
      BY <1>11, <2>2, Zenon DEF Written, r
    <2>5. (\A d \in Call : streams[d] # "none" =>
             Client!Streaming(d) /\ (Opened(d) \/ \E j \in DOMAIN responses : For(responses, j, d)))'
      BY <1>15, <2>2, Zenon DEF Opened, Client!Streaming, r
    <2> QED BY <1>5, <2>3, <2>4, <2>5 DEF Outward, r
  <1>17. Reading'
    <2>1. /\ BodyFirst(r) <=> BodyFirst(q)
          /\ BodyFirst(r) => Head(r) = Head(q)
      BY <1>5 DEF BodyFirst
    <2> QED BY <1>3, <1>8, <2>1 DEF Reading, q, r
  <1>18. Untouched'
    <2>1. ASSUME NEW d \in Call, ~ Written(d) \/ Asked(d)'
          PROVE  /\ \A i \in DOMAIN r : r[i].seq # d
                 /\ reader.at # "read" => reader.seq # d
                 /\ ~ init[d] /\ streams'[d] = "none" /\ reply[d] = <<>> /\ result[d] = "none"
      <3>1. d # c /\ (~ Written(d) \/ Asked(d))
        BY <1>7, <2>1
      <3>2. /\ \A i \in DOMAIN q : q[i].seq # d
            /\ reader.at # "read" => reader.seq # d
            /\ ~ init[d] /\ streams[d] = "none" /\ reply[d] = <<>> /\ result[d] = "none"
        BY <1>3, <3>1 DEF Untouched, q
      <3>3. \A i \in DOMAIN r : i \notin DOMAIN q => r[i].seq = c
        BY <1>6
      <3> QED BY <1>2, <1>5, <3>1, <3>2, <3>3
    <2> QED BY <1>8, <2>1 DEF Untouched, r
  <1>19. AuthFirst'
    <2>1. ASSUME Guarded, ~ didAuth', NEW i \in DOMAIN r, For(r, i, AuthCall) PROVE r[i].error # ""
      <3>1. CASE i \in DOMAIN q
        <4>1. For(q, i, AuthCall) /\ r[i] = q[i]
          BY <1>5, <1>9, <2>1, <3>1
        <4>2. \A j \in DOMAIN q : For(q, j, AuthCall) => q[j].error # ""
          BY <1>2, <1>3, <2>1 DEF AuthFirst, q
        <4> QED BY <3>1, <4>1, <4>2
      <3>2. CASE i \notin DOMAIN q
        <4>1. i = n /\ c = AuthCall
          BY <1>10, <2>1, <3>2
        <4>2. ~ Pushing(c, more)
          BY <1>3, <1>o, <4>1 DEF Pushing, Settings, Client!Streaming
        <4> QED BY <1>2, <1>6, <2>1, <4>1, <4>2 DEF Answering
      <3> QED BY <3>1, <3>2
    <2> QED BY <1>2, <1>3, <1>8, <2>1 DEF AuthFirst, r
  <1> QED BY <1>3, <1>7, <1>8, <1>16, <1>17, <1>18, <1>19 DEF Lively

-----------------------------------------------------------------------------
(* RPC: what the client does with it. *)

\* Who has a handler, and whom the reader serves, was called.
LEMMA OccupiedStep ==
  ASSUME RPCInv, Settings, Occupied, Client!ClientNext
  PROVE  Occupied' /\ link \subseteq link' /\ (shutdown => shutdown')
  <1>0. ClientTypes /\ Calls
    BY DEF RPCInv
  <1>1. /\ \A c \in Call : pc[c] # "idle" => pc'[c] # "idle" /\ command'[c] = command[c]
        /\ \A c \in Call : pc[c] = "returned" => pc'[c] = "returned" /\ result'[c] = result[c]
    BY SettingsStep
  <1>2. Client!SetupFailed => Client!SetupFailed'
    <2>1. \A i \in DOMAIN Setup : Setup[i] \in Call
      BY SetupCalls DEF HandshakeCall, AuthCall
    <2> QED BY <1>1, <2>1 DEF Client!SetupFailed, Client!Returned
  <1>3. \A c \in Call : pc[c] # "idle" => (Client!Streaming(c)' <=> Client!Streaming(c))
    BY <1>1 DEF Client!Streaming
  <1> DEFINE Grow == link \subseteq link' /\ (shutdown => shutdown')
             Shut == shutdown' => shutdown \/ MayClose \/ link # {} \/ Client!SetupFailed
             Called == \A c \in dispatch' : c \in dispatch \/ (c \in Call /\ pc'[c] # "idle")
             Reader == \/ reader' = reader
                       \/ reader'.at \in {"read", "ended"}
                       \/ /\ reader.at \notin {"read", "answer", "ended"}
                          /\ reader'.at \notin {"read", "answer", "ended"}
                          /\ reader'.seq = reader.seq
                       \/ /\ reader'.seq \in dispatch
                          /\ reader'.at \notin {"read", "ended"}
                          /\ reader'.at = "answer" <=> ~ Client!Streaming(reader'.seq)
  <1>4. ASSUME Grow, Shut, Called, Reader PROVE Occupied' /\ Grow
    <2>1. \A c \in dispatch' : pc'[c] # "idle"
      <3>1. \A c \in dispatch : c \in Call /\ pc[c] # "idle"
        BY <1>0 DEF Occupied, ClientTypes
      <3> QED BY <1>1, <1>4, <3>1
    <2>2. ASSUME reader'.at \notin {"read", "ended"}
          PROVE  reader'.seq \in Call /\ pc'[reader'.seq] # "idle"
                 /\ (reader'.at = "answer" <=> command'[reader'.seq] \notin {"monitor", "stream", "query"})
      <3>1. /\ reader'.seq \in Call /\ pc[reader'.seq] # "idle"
            /\ reader'.at = "answer" <=> ~ Client!Streaming(reader'.seq)
        <4>1. CASE reader' = reader
          BY <2>2, <4>1 DEF Occupied
        <4>2. CASE /\ reader.at \notin {"read", "answer", "ended"}
                   /\ reader'.at \notin {"read", "answer", "ended"}
                   /\ reader'.seq = reader.seq
          BY <4>2 DEF Occupied
        <4>3. CASE /\ reader'.seq \in dispatch
                   /\ reader'.at = "answer" <=> ~ Client!Streaming(reader'.seq)
          BY <1>0, <4>3 DEF Occupied, ClientTypes
        <4> QED BY <1>4, <2>2, <4>1, <4>2, <4>3
      <3> QED BY <1>1, <3>1 DEF Client!Streaming
    <2>3. shutdown' => MayClose \/ link' # {} \/ Client!SetupFailed'
      BY <1>2, <1>4 DEF Occupied
    <2> QED BY <1>4, <2>1, <2>2, <2>3 DEF Occupied, Client!Streaming
  <1> HIDE DEF Grow, Shut, Called, Reader
  <1>5. ASSUME UNCHANGED <<link, shutdown, reader>>, Called PROVE Occupied' /\ Grow
    <2>1. Grow /\ Shut /\ Reader
      BY <1>5 DEF Grow, Shut, Reader
    <2> QED BY <1>4, <1>5, <2>1
  <1>6. ASSUME dispatch' \subseteq dispatch PROVE Called
    BY <1>6 DEF Called
  <1>7. ASSUME NEW i \in DOMAIN Setup, Client!ClientFromConfig(i) PROVE Occupied' /\ Grow
    BY <1>5, <1>6, <1>7 DEF Client!ClientFromConfig
  <1>8. ASSUME NEW c \in Call, NEW name \in Commands[c], Client!Begin(c, name) PROVE Occupied' /\ Grow
    BY <1>5, <1>6, <1>8 DEF Client!Begin
  <1>9. ASSUME NEW c \in Call, NEW g \in Call, Client!BeginStop(c, g) PROVE Occupied' /\ Grow
    BY <1>5, <1>6, <1>9 DEF Client!BeginStop, Client!deregisterHandler
  <1>10. ASSUME NEW c \in Call, Client!CallStep(c) PROVE Occupied' /\ Grow
    <2>1. CASE Client!handleSeq(c)
      <3>1. Called
        BY <1>0, <2>1 DEF Client!handleSeq, Called, ClientTypes
      <3> QED BY <1>5, <2>1, <3>1 DEF Client!handleSeq
    <2>2. CASE Client!send(c) \/ Client!sendFails(c) \/ Client!Answered(c) \/ Client!Abandoned(c)
               \/ Client!Deregister(c) \/ Client!Return(c)
      BY <1>5, <1>6, <2>2 DEF Client!send, Client!sendFails, Client!Answered, Client!Abandoned,
         Client!Deregister, Client!Return, Client!deregisterHandler
    <2> QED BY <1>10, <2>1, <2>2 DEF Client!CallStep
  <1>11. ASSUME NEW c \in Call, Client!CleanupStep(c) PROVE Occupied' /\ Grow
    BY <1>5, <1>6, <1>11 DEF Client!CleanupStep, Client!CleanupCheck, Client!CleanupNotify, Client!CleanupClose
  <1>12. CASE Client!ReaderStep
    <2> USE DEF Client!rest, Client!At
    <2>1. CASE Client!respondSeq
      <3>1. Grow /\ Shut /\ Called
        BY <2>1 DEF Client!respondSeq, Grow, Shut, Called
      <3>2. Reader
        BY <2>1 DEF Client!respondSeq, Reader
      <3> QED BY <1>4, <3>1, <3>2 DEF Grow
    <2>2. CASE Client!HandleAnswer \/ Client!HandleInit \/ Client!HandleRecord \/ Client!HandleReturn
      <3>1. Grow /\ Shut /\ Called
        BY <2>2 DEF Client!HandleAnswer, Client!HandleInit, Client!HandleRecord, Client!HandleReturn, Grow, Shut, Called
      <3>2. Reader
        BY <1>0, <2>2 DEF Client!HandleAnswer, Client!HandleInit, Client!HandleRecord, Client!HandleReturn, Reader,
           ClientTypes
      <3> QED BY <1>4, <3>1, <3>2 DEF Grow
    <2>3. CASE Client!HandleCheck
      <3>1. Grow /\ Shut /\ Called
        BY <2>3 DEF Client!HandleCheck, Grow, Shut, Called
      <3>2. Reader
        BY <1>0, <2>3 DEF Client!HandleCheck, Reader, ClientTypes
      <3> QED BY <1>4, <3>1, <3>2 DEF Grow
    <2>4. CASE Client!HandleEnd
      <3>1. Grow /\ Shut /\ Called
        BY <1>6, <2>4 DEF Client!HandleEnd, Client!deregisterHandler, Grow, Shut
      <3>2. Reader
        BY <1>0, <2>4 DEF Client!HandleEnd, Reader, ClientTypes
      <3> QED BY <1>4, <3>1, <3>2 DEF Grow
    <2>5. CASE Client!listenEnds
      <3>1. Grow /\ Shut /\ Called
        BY <2>5 DEF Client!listenEnds, Client!beginClose, Client!afterClose, Client!Ended, Grow, Shut, Called
      <3>2. Reader
        BY <1>0, <2>5 DEF Client!listenEnds, Reader, ClientTypes
      <3> QED BY <1>4, <3>1, <3>2 DEF Grow
    <2> QED BY <1>12, <2>1, <2>2, <2>3, <2>4, <2>5 DEF Client!ReaderStep
  <1>13. CASE Client!Close
    <2>1. Grow /\ Shut /\ Called /\ Reader
      BY <1>13 DEF Client!Close, Client!beginClose, Client!afterClose, Grow, Shut, Called, Reader
    <2> QED BY <1>4, <2>1 DEF Grow
  <1>14. CASE Client!CloseStep
    <2>1. Grow /\ Shut /\ Called /\ Reader
      BY <1>14 DEF Client!CloseStep, Client!deregisterAll, Client!CloseConn, Client!CleanupNext, Client!afterClose,
         Grow, Shut, Called, Reader
    <2> QED BY <1>4, <2>1 DEF Grow
  <1>15. Occupied' /\ Grow
    BY <1>7, <1>8, <1>9, <1>10, <1>11, <1>12, <1>13, <1>14 DEF Client!ClientNext, Grow
  <1> QED BY <1>15 DEF Grow

\* What a step of a client leaves: calls that have written, and their methods.
Onward == \A c \in Call : /\ Written(c) => pc'[c] \notin {"idle", "begun", "registered"}
                          /\ pc[c] # "idle" => command'[c] = command[c]

\* As long as neither side closes, the parts that it does not disturb are kept:
\* the requests, ...
LEMMA InwardKept ==
  ASSUME Inward, requests \in Seq(Frame), Onward, requests' = requests
  PROVE  Inward'
  <1>1. \A i \in DOMAIN requests : requests[i].seq \in Call
    <2>1. \A i \in DOMAIN requests : requests[i] \in Frame
      BY ElementOfSeq
    <2> QED BY <2>1 DEF Frame
  <1>2. \A i \in DOMAIN requests : Written(requests[i].seq) /\ requests[i].command = command[requests[i].seq]
    BY DEF Inward
  <1>3. \A c \in Call : Written(c) => pc'[c] \notin {"idle", "begun", "registered"} /\ command'[c] = command[c]
    BY DEF Onward, Written
  <1>4. \A i \in DOMAIN requests : /\ pc'[requests[i].seq] \notin {"idle", "begun", "registered"}
                                   /\ requests[i].command = command'[requests[i].seq]
    BY <1>1, <1>2, <1>3
  <1> QED BY <1>4 DEF Inward, Written

\* ... the responses, ...
LEMMA OutwardKept ==
  ASSUME BodyInv, Live, Onward, UNCHANGED <<responses, streams>>,
         \A c \in Call : Client!Streaming(c) => (Opened(c)' <=> Opened(c))
  PROVE  Outward'
  <1> DEFINE q == responses
  <1>0. Outward /\ Settings
    BY DEF BodyInv, Lively
  <1>1. \A i \in DOMAIN q : q[i].seq \in Call /\ Written(q[i].seq)
    <2>1. \A i \in DOMAIN q : q[i] \in Reply
      BY <1>0, ElementOfSeq DEF Outward
    <2> QED BY <1>0, <2>1 DEF Outward, Reply
  <1>2. \A c \in Call : Written(c) => /\ pc'[c] \notin {"idle", "begun", "registered"}
                                      /\ Client!Streaming(c)' = Client!Streaming(c)
                                      /\ Expects(c)' = Expects(c)
    BY DEF Onward, Written, Client!Streaming, Expects
  <1>3. \A c \in Call : Client!Streaming(c) => Client!Streaming(c)'
    BY <1>0 DEF Onward, Client!Streaming, Settings
  <1>4. (\A i \in DOMAIN responses : /\ Written(responses[i].seq)
                                     /\ Bodied(responses, i) => For(responses, i, responses[i + 1].seq))'
    BY <1>0, <1>1, <1>2 DEF Outward, Written
  <1>5. ASSUME NEW i \in DOMAIN q, NEW c \in Call, For(q, i, c)
        PROVE  Bodied(q, i) <=>
                  IF Client!Streaming(c)'
                  THEN Opened(c)' \/ \E j \in DOMAIN q : j < i /\ For(q, j, c)
                  ELSE q[i].error # "authRequired" /\ Expects(c)'
    <2>1. Written(c)
      BY <1>1, <1>5 DEF For
    <2>2. Bodied(q, i) <=>
                  IF Client!Streaming(c)
                  THEN Opened(c) \/ \E j \in DOMAIN q : j < i /\ For(q, j, c)
                  ELSE q[i].error # "authRequired" /\ Expects(c)
      BY <1>0, <1>5 DEF Outward
    <2> QED BY <1>2, <2>1, <2>2
  <1>6. (\A i \in DOMAIN responses : \A c \in Call : For(responses, i, c) =>
            (Bodied(responses, i) <=>
                IF Client!Streaming(c)
                THEN Opened(c) \/ \E j \in DOMAIN responses : j < i /\ For(responses, j, c)
                ELSE responses[i].error # "authRequired" /\ Expects(c)))'
    BY <1>5
  <1>7. (\A c \in Call : streams[c] # "none" =>
           Client!Streaming(c) /\ (Opened(c) \/ \E j \in DOMAIN responses : For(responses, j, c)))'
    <2>1. \A c \in Call : streams[c] # "none" =>
             Client!Streaming(c) /\ (Opened(c) \/ \E j \in DOMAIN responses : For(responses, j, c))
      BY <1>0 DEF Outward
    <2> QED BY <1>3, <2>1
  <1> QED BY <1>0, <1>4, <1>6, <1>7 DEF Outward

\* ... and where the reader is.
LEMMA ReadingKept ==
  ASSUME BodyInv, Live, Onward, UNCHANGED <<responses, reader, init>>,
         \A c \in dispatch' : c \in dispatch \/ ~ Written(c)
  PROVE  Reading'
  <1>0. Outward /\ Reading
    BY DEF BodyInv, Lively
  <1>1. reader.at # "read" => /\ pc'[reader.seq] \notin {"idle", "begun", "registered"}
                              /\ Expects(reader.seq)' = Expects(reader.seq)
    BY <1>0 DEF Reading, Onward, Written, Expects
  <1>2. Awaits' = Awaits
    BY <1>1 DEF Awaits, Expects
  <1>3. BodyFirst(responses) => Written(Head(responses).seq)
    <2>1. ASSUME responses # <<>> PROVE 1 \in DOMAIN responses /\ Head(responses) = responses[1]
      BY <1>0, <2>1, Popped DEF Outward, Shorter
    <2> QED BY <1>0, <2>1 DEF Outward, BodyFirst
  <1>4. BodyFirst(responses) /\ reader.seq \notin dispatch => reader.seq \notin dispatch'
    BY <1>0, <1>3 DEF Reading
  <1>5. BodyFirst(responses)' = BodyFirst(responses)
    OBVIOUS
  <1> QED BY <1>0, <1>1, <1>2, <1>4, <1>5 DEF Reading, Written

\* The reader takes a frame from the responses: the first header for a stream
\* opens it.
LEMMA OutwardPopped ==
  ASSUME BodyInv, Live, responses # <<>>, responses' = Tail(responses), UNCHANGED <<pc, command, streams>>,
         \A c \in Call : Client!Streaming(c) => (Opened(c)' <=> Opened(c) \/ For(responses, 1, c))
  PROVE  /\ Outward' /\ Head(responses) = responses[1] /\ responses[1] \in Reply /\ Written(responses[1].seq)
         /\ \A i \in DOMAIN responses' : \E j \in DOMAIN responses : responses'[i] = responses[j]
         /\ BodyFirst(responses)' <=> Bodied(responses, 1)
         /\ Bodied(responses, 1) => /\ For(responses, 1, Head(responses').seq)
                                    /\ ~ BodyFirst(responses)
  <1> DEFINE q == responses
             r == responses'
  <1>0. Outward /\ q \in Seq(Reply)
    BY DEF BodyInv, Lively, Outward
  <1>1. /\ r \in Seq(Reply) /\ 1 \in DOMAIN q /\ Head(q) = q[1] /\ q[1] \in Reply
        /\ \A i \in DOMAIN r : i \in Nat \ {0} /\ i + 1 \in DOMAIN q /\ r[i] = q[i + 1]
        /\ \A i \in DOMAIN q : i = 1 \/ \E j \in DOMAIN r : i = j + 1
        /\ r # <<>> <=> 1 + 1 \in DOMAIN q
        /\ r # <<>> => Head(r) = q[1 + 1]
    <2>1. q # <<>> /\ r = Tail(q)
      OBVIOUS
    <2> HIDE DEF q, r
    <2>2. q \in Seq(Reply)
      BY <1>0
    <2>3. Shorter(q, r, Reply)
      BY <2>1, <2>2, Popped
    <2> QED BY <2>3 DEF Shorter
  <1>2. /\ \A i \in DOMAIN q : /\ Written(q[i].seq)
                               /\ Bodied(q, i) => For(q, i, q[i + 1].seq)
        /\ \A i \in DOMAIN q : \A c \in Call : For(q, i, c) =>
              (Bodied(q, i) <=>
                  IF Client!Streaming(c)
                  THEN Opened(c) \/ \E j \in DOMAIN q : j < i /\ For(q, j, c)
                  ELSE q[i].error # "authRequired" /\ Expects(c))
        /\ \A c \in Call : streams[c] # "none" =>
              Client!Streaming(c) /\ (Opened(c) \/ \E j \in DOMAIN q : For(q, j, c))
    BY <1>0 DEF Outward
  <1>3. ASSUME NEW i \in DOMAIN r
        PROVE  (Bodied(r, i) <=> Bodied(q, i + 1)) /\ (Bodied(r, i) => r[i + 1] = q[(i + 1) + 1])
    <2>1. ASSUME Bodied(r, i) PROVE Bodied(q, i + 1) /\ r[i + 1] = q[(i + 1) + 1]
      BY <1>1, <2>1 DEF Bodied
    <2>2. ASSUME Bodied(q, i + 1) PROVE Bodied(r, i)
      <3>1. (i + 1) + 1 \in DOMAIN q /\ q[(i + 1) + 1].frame = "body" /\ i \in Nat \ {0}
        BY <1>1, <2>2 DEF Bodied
      <3>2. PICK j \in DOMAIN r : (i + 1) + 1 = j + 1
        <4>1. (i + 1) + 1 # 1
          BY <3>1
        <4> QED BY <1>1, <3>1, <4>1
      <3>3. j = i + 1
        BY <1>1, <3>1, <3>2
      <3> QED BY <1>1, <3>1, <3>2, <3>3 DEF Bodied
    <2> QED BY <2>1, <2>2
  <1>4. \A i \in DOMAIN r : \A c : For(r, i, c) <=> For(q, i + 1, c)
    BY <1>1 DEF For
  <1>5. \A i \in DOMAIN r : /\ Written(r[i].seq)
                            /\ Bodied(r, i) => For(r, i, r[i + 1].seq)
    BY <1>1, <1>2, <1>3, <1>4
  <1>6. ASSUME NEW i \in DOMAIN r, NEW c
        PROVE  (\E j \in DOMAIN q : j < i + 1 /\ For(q, j, c))
                  <=> For(q, 1, c) \/ \E j \in DOMAIN r : j < i /\ For(r, j, c)
    <2>1. ASSUME NEW j \in DOMAIN q, j < i + 1, For(q, j, c), j # 1
          PROVE  \E k \in DOMAIN r : k < i /\ For(r, k, c)
      <3>1. PICK k \in DOMAIN r : j = k + 1
        BY <1>1, <2>1
      <3>2. k < i
        BY <1>1, <2>1, <3>1
      <3> QED BY <1>4, <2>1, <3>1, <3>2
    <2>2. ASSUME NEW k \in DOMAIN r, k < i, For(r, k, c)
          PROVE  \E j \in DOMAIN q : j < i + 1 /\ For(q, j, c)
      <3>1. k + 1 \in DOMAIN q /\ k + 1 < i + 1 /\ For(q, k + 1, c)
        BY <1>1, <1>4, <2>2
      <3> QED BY <3>1
    <2>3. 1 \in DOMAIN q /\ 1 < i + 1
      BY <1>1
    <2> QED BY <2>1, <2>2, <2>3
  <1>7. ASSUME NEW i \in DOMAIN r, NEW c \in Call, For(r, i, c)
        PROVE  Bodied(r, i) <=>
                  IF Client!Streaming(c)
                  THEN Opened(c)' \/ \E j \in DOMAIN r : j < i /\ For(r, j, c)
                  ELSE r[i].error # "authRequired" /\ Expects(c)
    <2>1. i + 1 \in DOMAIN q /\ For(q, i + 1, c) /\ r[i] = q[i + 1] /\ (Bodied(r, i) <=> Bodied(q, i + 1))
      BY <1>1, <1>3, <1>4, <1>7
    <2>2. Bodied(q, i + 1) <=>
                  IF Client!Streaming(c)
                  THEN Opened(c) \/ \E j \in DOMAIN q : j < i + 1 /\ For(q, j, c)
                  ELSE q[i + 1].error # "authRequired" /\ Expects(c)
      BY <1>2, <2>1
    <2>3. (\E j \in DOMAIN q : j < i + 1 /\ For(q, j, c))
                  <=> For(q, 1, c) \/ \E j \in DOMAIN r : j < i /\ For(r, j, c)
      BY <1>6
    <2> QED BY <2>1, <2>2, <2>3
  <1>8. ASSUME NEW c \in Call, streams[c] # "none"
        PROVE  Client!Streaming(c) /\ (Opened(c)' \/ \E j \in DOMAIN r : For(r, j, c))
    <2>1. Client!Streaming(c) /\ (Opened(c) \/ \E j \in DOMAIN q : For(q, j, c))
      BY <1>2, <1>8
    <2>2. ASSUME NEW j \in DOMAIN q, For(q, j, c), j # 1 PROVE \E k \in DOMAIN r : For(r, k, c)
      BY <1>1, <1>4, <2>2
    <2> QED BY <2>1, <2>2
  <1>9. Outward'
    <2>1. (\A i \in DOMAIN responses : /\ Written(responses[i].seq)
                                       /\ Bodied(responses, i) => For(responses, i, responses[i + 1].seq))'
      BY <1>5, Zenon DEF Written
    <2>2. (\A i \in DOMAIN responses : \A c \in Call : For(responses, i, c) =>
              (Bodied(responses, i) <=>
                  IF Client!Streaming(c)
                  THEN Opened(c) \/ \E j \in DOMAIN responses : j < i /\ For(responses, j, c)
                  ELSE responses[i].error # "authRequired" /\ Expects(c)))'
      BY <1>7 DEF Client!Streaming, Expects
    <2>3. (\A c \in Call : streams[c] # "none" =>
             Client!Streaming(c) /\ (Opened(c) \/ \E j \in DOMAIN responses : For(responses, j, c)))'
      BY <1>8 DEF Client!Streaming
    <2> QED BY <1>1, <2>1, <2>2, <2>3 DEF Outward
  <1>10. BodyFirst(responses)' <=> Bodied(q, 1)
    BY <1>1 DEF BodyFirst, Bodied
  <1>11. ASSUME Bodied(q, 1) PROVE For(q, 1, Head(r).seq) /\ ~ BodyFirst(q)
    <2>1. For(q, 1, q[1 + 1].seq) /\ 1 + 1 \in DOMAIN q
      BY <1>1, <1>2, <1>11 DEF Bodied
    <2> QED BY <1>1, <2>1 DEF For, BodyFirst
  <1> QED BY <1>1, <1>2, <1>9, <1>10, <1>11

\* What the reader does with it: the body it decodes is there and its own.
LEMMA ReaderLively ==
  ASSUME BodyInv, Live, Live', Client!ReaderStep, UNCHANGED session
  PROVE  Lively'
  <1> DEFINE q == responses
             Down == \A i \in DOMAIN responses' : \E j \in DOMAIN responses : responses'[i] = responses[j]
             From == reader'.at # "read" =>
                        \/ reader.at # "read" /\ reader'.seq = reader.seq /\ reader'.error = reader.error
                        \/ \E j \in DOMAIN responses : For(q, j, reader'.seq) /\ reader'.error = responses[j].error
             Serves == \A c \in Call : \/ init'[c] = init[c] /\ reply'[c] = reply[c]
                                       \/ reader.at # "read" /\ c = reader.seq
             Tells == reply'[AuthCall] = <<"ok">> =>
                        reply[AuthCall] = <<"ok">>
                          \/ (reader.at # "read" /\ reader.seq = AuthCall /\ reader.error = "")
  <1>0. /\ Inward /\ Outward /\ Reading /\ Handled /\ Untouched /\ AuthFirst /\ Settings /\ Occupied
        /\ ClientTypes /\ SessionTypes /\ Calls
        /\ requests \in Seq(Frame)
    BY DEF BodyInv, Lively, Live, RPCInv, Line
  <1>l. link = {} /\ ~ shutdown /\ ~ shutdown' /\ ~ Client!Ended
    BY DEF Live, Client!Ended
  <1>s. UNCHANGED <<version, didAuth, reqHeader, streams, pushed, leaving>>
    BY DEF session
  <1>a. ~ Client!Streaming(AuthCall) /\ AuthCall \in Call
    BY <1>0, SetupCalls DEF Settings, Client!Streaming
  <1>c. UNCHANGED <<requests, pc, command, result>>
    BY DEF Client!ReaderStep, Client!respondSeq, Client!HandleAnswer, Client!HandleCheck, Client!HandleInit,
           Client!HandleRecord, Client!HandleEnd, Client!HandleReturn, Client!listenEnds, Client!rest,
           Client!afterClose
  <1>o. Onward
    BY <1>c DEF Onward, Written
  <1>i. Inward'
    BY <1>0, <1>c, <1>o, InwardKept
  \* What it takes up is what it takes from the responses.
  <1>1. ASSUME Down, From, Serves PROVE Untouched'
    <2>1. ASSUME NEW c \in Call, ~ Written(c) \/ Asked(c)
          PROVE  /\ \A i \in DOMAIN responses' : responses'[i].seq # c
                 /\ reader'.at # "read" => reader'.seq # c
                 /\ ~ init'[c] /\ streams[c] = "none" /\ reply'[c] = <<>> /\ result[c] = "none"
      <3>1. /\ \A i \in DOMAIN responses : responses[i].seq # c
            /\ reader.at # "read" => reader.seq # c
            /\ ~ init[c] /\ streams[c] = "none" /\ reply[c] = <<>> /\ result[c] = "none"
        BY <1>0, <2>1 DEF Untouched
      <3>2. \A i \in DOMAIN responses' : responses'[i].seq # c
        BY <1>1, <3>1
      <3>3. reader'.at # "read" => reader'.seq # c
        BY <1>1, <3>1 DEF For
      <3> QED BY <1>1, <3>1, <3>2, <3>3
    <2>2. \A c : Written(c)' = Written(c) /\ Asked(c)' = Asked(c)
      BY <1>c DEF Written, Asked
    <2> QED BY <1>c, <1>s, <2>1, <2>2 DEF Untouched
  <1>2. ASSUME Down, From, Tells PROVE AuthFirst'
    <2> SUFFICES ASSUME Guarded, ~ didAuth
                 PROVE  /\ \A i \in DOMAIN responses' : For(responses', i, AuthCall) => responses'[i].error # ""
                        /\ reader'.at # "read" /\ reader'.seq = AuthCall => reader'.error # ""
                        /\ reply'[AuthCall] # <<"ok">> /\ result[AuthCall] # "ok"
      BY <1>c, <1>s DEF AuthFirst
    <2>1. /\ \A i \in DOMAIN q : For(q, i, AuthCall) => q[i].error # ""
          /\ reader.at # "read" /\ reader.seq = AuthCall => reader.error # ""
          /\ reply[AuthCall] # <<"ok">> /\ result[AuthCall] # "ok"
      BY <1>0 DEF AuthFirst
    <2>2. \A i \in DOMAIN responses' : For(responses', i, AuthCall) => responses'[i].error # ""
      BY <1>2, <2>1 DEF For
    <2>3. reader'.at # "read" /\ reader'.seq = AuthCall => reader'.error # ""
      BY <1>2, <2>1
    <2> QED BY <1>2, <2>1, <2>2, <2>3
  <1>3. ASSUME ~ BodyFirst(responses)', reader'.at \in {"read", "cleaning"}, reader'.seq = reader.seq,
               reader.at # "read" \/ reader'.at = "read"
        PROVE  Reading'
    BY <1>0, <1>3, <1>c DEF Reading, Awaits, Written
  <1> HIDE DEF Down, From, Serves, Tells
  <1>4. ASSUME Outward', Reading', Handled', Down, From, Serves, Tells PROVE Lively'
    BY <1>1, <1>2, <1>4, <1>i DEF Lively
  <1>5. ASSUME UNCHANGED <<responses, init, reply>> PROVE Down /\ Serves /\ Tells
    BY <1>5 DEF Down, Serves, Tells
  <1>6. ASSUME UNCHANGED <<cleanup, reply, init, dispatch>> PROVE Handled'
    BY <1>0, <1>6, <1>c DEF Handled, Client!Streaming, Written
  \* A body is decoded.
  <1>7. ASSUME Awaits, responses' = Tail(responses), init' = init, reader.at \in {"record", "answer"},
               reader'.at \in {"read", "cleaning"}, reader'.seq = reader.seq
        PROVE  Outward' /\ Reading' /\ Down
    <2>1. BodyFirst(responses) /\ responses # <<>>
      BY <1>0, <1>7 DEF Reading, BodyFirst
    <2>2. \A c \in Call : Opened(c)' <=> Opened(c)
      BY <1>7 DEF Opened
    <2>3. 1 \in DOMAIN responses /\ Head(responses) = responses[1]
      BY <1>0, <2>1, Popped DEF Outward, Shorter
    <2>4. \A c : ~ For(responses, 1, c)
      BY <2>1, <2>3 DEF BodyFirst, For
    <2>5. \A c \in Call : Client!Streaming(c) => (Opened(c)' <=> Opened(c) \/ For(responses, 1, c))
      BY <2>2, <2>4
    <2>6. /\ Outward'
          /\ \A i \in DOMAIN responses' : \E j \in DOMAIN responses : responses'[i] = responses[j]
          /\ BodyFirst(responses)' <=> Bodied(responses, 1)
          /\ Bodied(responses, 1) => ~ BodyFirst(responses)
      BY <1>7, <1>c, <1>s, <2>1, <2>5, OutwardPopped
    <2>7. ~ BodyFirst(responses)'
      BY <2>1, <2>6
    <2> QED BY <1>3, <1>7, <2>6, <2>7 DEF Down
  <1>8. CASE Client!respondSeq
    <2>1. /\ reader.at = "read" /\ responses # <<>> /\ responses' = Tail(responses)
          /\ UNCHANGED <<reply, dispatch, init, cleanup>>
      BY <1>8 DEF Client!respondSeq
    <2>2. /\ 1 \in DOMAIN responses /\ Head(responses) = responses[1] /\ responses[1] \in Reply
          /\ \A i \in DOMAIN responses : ~ i < 1
      <3>1. Len(responses) \in Nat /\ DOMAIN responses = 1..Len(responses)
        BY <1>0, LenProperties DEF Outward
      <3> QED BY <1>0, <2>1, <3>1, Popped DEF Outward, Shorter
    <2>3. Serves /\ Tells /\ Handled'
      BY <1>6, <2>1 DEF Serves, Tells
    <2>4. CASE responses[1].frame = "header"
      <3>1. PICK c \in Call : c = responses[1].seq /\ For(q, 1, c)
        BY <2>2, <2>4 DEF Reply, For
      <3>2. /\ reader'.at = IF c \notin dispatch THEN "read" ELSE IF Client!Streaming(c) THEN "check" ELSE "answer"
            /\ reader'.seq = c /\ reader'.error = responses[1].error
        BY <1>8, <2>2, <2>4, <3>1 DEF Client!respondSeq
      <3>3. Written(c)
        BY <1>0, <2>2, <3>1 DEF Outward
      <3>4. c \notin dispatch /\ Client!Streaming(c) => init[c]
        BY <1>0, <3>3 DEF Handled
      <3>5. ASSUME NEW d \in Call, Client!Streaming(d) PROVE Opened(d)' <=> Opened(d) \/ For(q, 1, d)
        <4>1. Opened(d) <=> init[d]
          BY <2>1 DEF Opened
        <4>2. For(q, 1, d) <=> d = c
          BY <2>4, <3>1 DEF For
        <4>3. Opened(d)' <=> init[d] \/ (reader'.at = "check" /\ c = d)
          BY <2>1, <3>2 DEF Opened
        <4> QED BY <3>2, <3>4, <3>5, <4>1, <4>2, <4>3
      <3>6. /\ Outward'
            /\ \A i \in DOMAIN responses' : \E j \in DOMAIN responses : responses'[i] = responses[j]
            /\ BodyFirst(responses)' <=> Bodied(responses, 1)
            /\ Bodied(responses, 1) => For(responses, 1, Head(responses').seq)
        BY <1>c, <1>s, <2>1, <3>5, OutwardPopped
      <3>7. From /\ Down
        BY <2>2, <3>1, <3>2, <3>6 DEF From, Down
      <3>8. Bodied(q, 1) <=> IF Client!Streaming(c) THEN init[c]
                             ELSE responses[1].error # "authRequired" /\ Expects(c)
        <4>1. Bodied(q, 1) <=>
                  IF Client!Streaming(c)
                  THEN Opened(c) \/ \E j \in DOMAIN q : j < 1 /\ For(q, j, c)
                  ELSE q[1].error # "authRequired" /\ Expects(c)
          BY <1>0, <2>2, <3>1 DEF Outward
        <4>2. Opened(c) <=> init[c]
          BY <2>1 DEF Opened
        <4> QED BY <2>2, <4>1, <4>2
      <3>9. BodyFirst(responses)' => Head(responses').seq = c
        BY <3>1, <3>6 DEF For
      <3>10. Awaits' <=> c \in dispatch /\ Bodied(q, 1)
        BY <1>c, <2>1, <3>2, <3>8 DEF Awaits, Expects
      <3>11. Reading'
        <4>1. reader'.at # "record" /\ reader'.at # "ended" /\ reader'.seq \in Call /\ Written(reader'.seq)
          BY <3>1, <3>2, <3>3
        <4>2. Awaits' => BodyFirst(responses)'
          BY <3>6, <3>10
        <4>3. BodyFirst(responses)' => Awaits' \/ (reader'.at = "read" /\ reader'.seq \notin dispatch)
          BY <3>2, <3>6, <3>10
        <4> QED BY <1>c, <2>1, <3>2, <3>9, <4>1, <4>2, <4>3 DEF Reading, Written
      <3> QED BY <1>4, <2>3, <3>6, <3>7, <3>11
    <2>5. CASE responses[1].frame # "header"
      <3>1. BodyFirst(responses)
        BY <2>1, <2>2, <2>5 DEF BodyFirst, Reply
      <3>2. reader.seq \notin dispatch
        BY <1>0, <2>1, <3>1 DEF Reading, Awaits
      <3>3. reader'.at = "read" /\ reader'.seq = reader.seq
        BY <1>8, <2>2, <2>5, <3>2 DEF Client!respondSeq
      <3>4. \A d \in Call : Client!Streaming(d) => (Opened(d)' <=> Opened(d) \/ For(responses, 1, d))
        BY <2>1, <2>5, <3>3 DEF Opened, For
      <3>5. /\ Outward'
            /\ \A i \in DOMAIN responses' : \E j \in DOMAIN responses : responses'[i] = responses[j]
            /\ BodyFirst(responses)' <=> Bodied(responses, 1)
            /\ Bodied(responses, 1) => ~ BodyFirst(responses)
        BY <1>c, <1>s, <2>1, <3>4, OutwardPopped
      <3>6. Reading'
        BY <1>3, <3>1, <3>3, <3>5
      <3>7. From /\ Down
        BY <3>3, <3>5 DEF From, Down
      <3> QED BY <1>4, <2>3, <3>5, <3>6, <3>7
    <2> QED BY <2>4, <2>5
  <1>9. CASE Client!HandleAnswer
    <2>1. /\ reader.at = "answer" /\ reply[reader.seq] = <<>> /\ init' = init
          /\ reader'.at = "read" /\ reader'.seq = reader.seq
          /\ reply' = [reply EXCEPT ![reader.seq] = <<Client!ToError(reader.error)>>]
          /\ UNCHANGED <<cleanup, dispatch>>
      BY <1>0, <1>9, <1>l DEF Client!HandleAnswer, Client!At, Client!Handler, ClientTypes
    <2>2. reader.seq \in Call /\ ~ Client!Streaming(reader.seq) /\ command[reader.seq] \in Names
      BY <1>0, <2>1 DEF Occupied, Calls
    <2>3. Client!Method(reader.seq).expects <=> Expects(reader.seq)
      BY <2>2, ExpectsOf
    <2>4. From
      BY <2>1 DEF From
    <2>5. Serves /\ Tells
      <3>1. \A c \in Call : c # reader.seq => reply'[c] = reply[c]
        BY <1>0, <2>1 DEF ClientTypes
      <3>2. reply'[reader.seq] = <<Client!ToError(reader.error)>>
        BY <1>0, <2>1, <2>2 DEF ClientTypes
      <3>3. reader.error # "" => <<Client!ToError(reader.error)>> # <<"ok">>
        BY DEF Client!ToError
      <3> QED BY <1>a, <2>1, <3>1, <3>2, <3>3 DEF Serves, Tells
    <2>6. Handled'
      <3>1. \A c \in Call : Client!Streaming(c) => reply'[c] = reply[c]
        BY <1>0, <2>1, <2>2 DEF ClientTypes
      <3> QED BY <1>0, <1>c, <2>1, <3>1 DEF Handled, Client!Streaming, Written
    <2>7. CASE reader.error # "authRequired" /\ Expects(reader.seq)
      <3>1. Awaits
        BY <2>1, <2>7 DEF Awaits
      <3>2. responses' = Tail(responses)
        BY <1>9, <1>l, <2>3, <2>7 DEF Client!HandleAnswer, Client!authRequired, Client!Handler
      <3>3. Outward' /\ Reading' /\ Down
        BY <1>7, <2>1, <3>1, <3>2
      <3> QED BY <1>4, <2>4, <2>5, <2>6, <3>3
    <2>8. CASE ~ (reader.error # "authRequired" /\ Expects(reader.seq))
      <3>1. responses' = responses
        BY <1>9, <2>3, <2>8 DEF Client!HandleAnswer, Client!authRequired, Client!Handler
      <3>2. ~ BodyFirst(responses)
        BY <1>0, <2>1, <2>8 DEF Reading, Awaits
      <3>3. Reading'
        BY <1>3, <2>1, <3>1, <3>2
      <3>4. \A c \in Call : Opened(c)' <=> Opened(c)
        BY <2>1 DEF Opened
      <3>5. Outward'
        BY <1>o, <1>s, <3>1, <3>4, OutwardKept
      <3>6. Down
        BY <3>1 DEF Down
      <3> QED BY <1>4, <2>4, <2>5, <2>6, <3>3, <3>5, <3>6
    <2> QED BY <2>7, <2>8
  <1>10. CASE Client!HandleCheck
    <2>1. /\ reader.at = "check" /\ reader'.at = IF init[reader.seq] THEN "record" ELSE "init"
          /\ reader'.seq = reader.seq /\ reader'.error = reader.error
          /\ UNCHANGED <<responses, reply, dispatch, init, cleanup>>
      BY <1>0, <1>10 DEF Client!HandleCheck, Client!At, Client!Handler, ClientTypes
    <2>2. From
      BY <2>1 DEF From
    <2>3. \A c \in Call : Opened(c)' <=> Opened(c)
      BY <2>1 DEF Opened
    <2>4. Outward'
      BY <1>o, <1>s, <2>1, <2>3, OutwardKept
    <2>5. Reading'
      <3>1. Awaits' <=> Awaits
        BY <2>1 DEF Awaits
      <3> QED BY <1>0, <1>c, <2>1, <3>1 DEF Reading, Written, BodyFirst
    <2> QED BY <1>4, <1>5, <1>6, <2>1, <2>2, <2>4, <2>5
  <1>11. CASE Client!HandleInit
    <2>1. /\ reader.at = "init" /\ reader'.at = "read" /\ reader'.seq = reader.seq
          /\ init' = [init EXCEPT ![reader.seq] = TRUE]
          /\ reply' = [reply EXCEPT ![reader.seq] = <<Client!ToError(reader.error)>>]
          /\ UNCHANGED <<responses, dispatch, cleanup>>
      BY <1>0, <1>11 DEF Client!HandleInit, Client!At, Client!Handler, ClientTypes
    <2>2. reader.seq \in Call /\ Client!Streaming(reader.seq)
      BY <1>0, <2>1 DEF Occupied
    <2>3. /\ \A c \in Call : c # reader.seq => init'[c] = init[c] /\ reply'[c] = reply[c]
          /\ init'[reader.seq]
      BY <1>0, <2>1, <2>2 DEF ClientTypes
    <2>4. From /\ Down /\ Serves /\ Tells
      BY <1>a, <2>1, <2>2, <2>3 DEF From, Down, Serves, Tells
    <2>5. Handled'
      BY <1>0, <1>c, <2>1, <2>3 DEF Handled, Client!Streaming, Written
    <2>6. \A c \in Call : Opened(c)' <=> Opened(c)
      BY <2>1, <2>2, <2>3 DEF Opened
    <2>7. Outward'
      BY <1>o, <1>s, <2>1, <2>6, OutwardKept
    <2>8. Reading'
      BY <1>0, <1>3, <2>1 DEF Reading, Awaits
    <2> QED BY <1>4, <2>4, <2>5, <2>7, <2>8
  <1>12. CASE Client!HandleRecord
    <2>1. /\ reader.at = "record" /\ responses' = Tail(responses) /\ reader'.at = "read"
          /\ reader'.seq = reader.seq /\ UNCHANGED <<reply, dispatch, init, cleanup>>
      BY <1>0, <1>12 DEF Client!HandleRecord, Client!At, Client!Handler, ClientTypes
    <2>2. Awaits
      BY <2>1 DEF Awaits
    <2>3. Outward' /\ Reading' /\ Down
      BY <1>7, <2>1, <2>2
    <2>4. From /\ Serves /\ Tells
      BY <2>1 DEF From, Serves, Tells
    <2> QED BY <1>4, <1>6, <2>1, <2>3, <2>4
  <1>13. CASE Client!HandleEnd
    <2>1. /\ reader.at = "record" /\ responses' = Tail(responses) /\ reader'.at = "cleaning"
          /\ reader'.seq = reader.seq /\ reader'.error = reader.error /\ UNCHANGED <<reply, init>>
          /\ dispatch' = dispatch \ {reader.seq}
          /\ \A c \in Call : c # reader.seq => cleanup'[c] = cleanup[c]
      BY <1>0, <1>13, <1>l DEF Client!HandleEnd, Client!At, Client!Handler, Client!deregisterHandler, ClientTypes
    <2>2. Awaits
      BY <2>1 DEF Awaits
    <2>3. Outward' /\ Reading' /\ Down
      BY <1>7, <2>1, <2>2
    <2>4. From /\ Serves /\ Tells
      BY <2>1 DEF From, Serves, Tells
    <2>5. reader.seq \in Call /\ Client!Streaming(reader.seq) /\ Written(reader.seq) /\ init[reader.seq]
      BY <1>0, <2>1 DEF Occupied, Reading
    <2>6. Handled'
      <3>1. \A c \in Call : pc[c] = "registered" => c \in dispatch'
        BY <1>0, <2>1, <2>5 DEF Handled, Written
      <3>2. \A c \in Call : cleanup'[c] # "no" => Client!Streaming(c) /\ init[c]
        BY <1>0, <2>1, <2>5 DEF Handled
      <3>3. \A c \in Call : Client!Streaming(c) =>
               /\ pc[c] \notin {"leaving", "cleaning"}
               /\ reply[c] = <<"ok">> \/ result[c] = "ok" \/ (Written(c) /\ c \notin dispatch') => init[c]
        BY <1>0, <2>1, <2>5 DEF Handled
      <3> QED BY <1>c, <2>1, <3>1, <3>2, <3>3 DEF Handled, Client!Streaming, Written
    <2> QED BY <1>4, <2>3, <2>4, <2>6
  <1>14. CASE Client!HandleReturn
    <2>1. /\ reader.at = "cleaning" /\ reader'.at = "read"
          /\ reader'.seq = reader.seq /\ UNCHANGED <<responses, reply, dispatch, init, cleanup>>
      BY <1>0, <1>14 DEF Client!HandleReturn, Client!At, Client!Handler, ClientTypes
    <2>2. From
      BY <2>1 DEF From
    <2>3. \A c \in Call : Opened(c)' <=> Opened(c)
      BY <2>1 DEF Opened
    <2>4. Outward'
      BY <1>o, <1>s, <2>1, <2>3, OutwardKept
    <2>5. Reading'
      BY <1>0, <1>3, <2>1 DEF Reading, Awaits
    <2> QED BY <1>4, <1>5, <1>6, <2>1, <2>2, <2>4, <2>5
  <1>15. CASE Client!listenEnds
    BY <1>l, <1>15 DEF Client!listenEnds
  <1> QED BY <1>8, <1>9, <1>10, <1>11, <1>12, <1>13, <1>14, <1>15 DEF Client!ReaderStep

\* A request is of its call, and only its first frame is a header.
LEMMA RequestOf ==
  ASSUME Calls, NEW c \in Call, command[c] \in Names
  PROVE  \A i \in DOMAIN Client!Request(c) :
            /\ Client!Request(c)[i].seq = c /\ Client!Request(c)[i].command = command[c]
            /\ i = 1 \/ Client!Request(c)[i].frame = "body"
  <1> DEFINE x == [frame |-> "header", command |-> command[c], seq |-> c, arg |-> "none"]
             y == [frame |-> "body", command |-> command[c], seq |-> c, arg |-> Client!ArgOf(c)]
             g == Client!Request(c)
  <1>1. /\ x.seq = c /\ x.command = command[c]
        /\ y.seq = c /\ y.command = command[c] /\ y.frame = "body"
    OBVIOUS
  <1>2. g = <<x>> \o <<>> \/ g = <<x>> \o <<y>>
    BY DEF Client!Request
  <1> HIDE DEF x, y, g
  <1>3. \A i \in DOMAIN g : (i = 1 /\ g[i] = x) \/ g[i] = y
    <2>1. CASE g = <<x>> \o <<>>
      <3>1. Len(g) = 1 /\ g[1] = x /\ DOMAIN g = 1..1
        BY <2>1
      <3> QED BY <3>1
    <2>2. CASE g = <<x>> \o <<y>>
      <3>1. Len(g) = 2 /\ g[1] = x /\ g[2] = y /\ DOMAIN g = 1..2
        BY <2>2
      <3> QED BY <3>1
    <2> QED BY <1>2, <2>1, <2>2
  <1> QED BY <1>1, <1>3 DEF g

\* It is written once, by a call that had not written before.
LEMMA Sent ==
  ASSUME BodyInv, Live, NEW c \in Call, Client!send(c)
  PROVE  /\ Inward'
         /\ \A d \in Call \ {c} : Written(d)' = Written(d) /\ Asked(d)' = Asked(d)
         /\ ~ Written(c)
  <1> DEFINE q == requests
             g == Client!Request(c)
             r == requests'
  <1>0. Inward /\ ClientTypes /\ Calls /\ q \in Seq(Frame)
    BY DEF BodyInv, Lively, Live, RPCInv, Line
  <1>1. /\ pc[c] = "registered" /\ pc' = [pc EXCEPT ![c] = "waiting"] /\ command' = command
        /\ r = q \o g
    BY DEF Client!send, Live
  <1>2. ~ Written(c) /\ command[c] \in Names
    BY <1>0, <1>1 DEF Written, Calls
  <1>3. /\ g \in Seq(Frame)
        /\ \A i \in DOMAIN g : /\ g[i].seq = c /\ g[i].command = command[c]
                               /\ i = 1 \/ g[i].frame = "body"
    <2>1. \A i \in DOMAIN g : /\ g[i].seq = c /\ g[i].command = command[c]
                              /\ i = 1 \/ g[i].frame = "body"
      BY <1>0, <1>2, RequestOf
    <2> QED BY <1>0, <1>2, <2>1, RequestIs
  <1>4. PICK m \in Nat, k \in Nat : m = Len(q) /\ k = Len(g)
    BY <1>0, <1>3, LenProperties
  <1> HIDE DEF q, g, r
  <1>5. /\ r \in Seq(Frame) /\ DOMAIN r = 1..(m + k) /\ DOMAIN q = 1..m /\ DOMAIN g = 1..k
        /\ \A i \in 1..(m + k) : r[i] = IF i <= m THEN q[i] ELSE g[i - m]
    BY <1>0, <1>1, <1>3, <1>4, ConcatProperties, LenProperties
  <1>6. ASSUME NEW i \in DOMAIN r
        PROVE  \/ i \in DOMAIN q /\ r[i] = q[i]
               \/ i \notin DOMAIN q /\ r[i].seq = c /\ r[i].command = command[c] /\ (r[i].frame = "body" \/ i = m + 1)
    <2>1. CASE i <= m
      <3>1. i \in 1..m
        BY <1>5, <2>1
      <3> QED BY <1>5, <2>1, <3>1
    <2>2. CASE ~ i <= m
      <3>1. i - m \in 1..k /\ (i - m = 1 => i = m + 1) /\ i \notin 1..m
        BY <1>5, <2>2
      <3>2. PICK j \in DOMAIN g : j = i - m
        BY <1>5, <3>1
      <3>3. r[i] = g[j]
        BY <1>5, <2>2, <3>2
      <3>4. g[j].seq = c /\ g[j].command = command[c] /\ (j = 1 \/ g[j].frame = "body")
        BY <1>3, <3>2
      <3> QED BY <1>5, <3>1, <3>2, <3>3, <3>4
    <2> QED BY <2>1, <2>2
  <1>7. \A i \in DOMAIN q : i \in DOMAIN r /\ r[i] = q[i]
    BY <1>5
  <1>8. \A i \in DOMAIN q : Written(q[i].seq) /\ q[i].command = command[q[i].seq] /\ q[i].seq \in Call
    <2>1. \A i \in DOMAIN q : q[i] \in Frame
      BY <1>0, ElementOfSeq
    <2> QED BY <1>0, <2>1 DEF Inward, Frame, q
  <1>9. \A d \in Call : (Written(d) \/ d = c <=> pc'[d] \notin {"idle", "begun", "registered"})
    BY <1>0, <1>1 DEF Written, ClientTypes
  <1>10. ASSUME NEW i \in DOMAIN r
         PROVE  pc'[r[i].seq] \notin {"idle", "begun", "registered"} /\ r[i].command = command[r[i].seq]
    BY <1>6, <1>8, <1>9
  <1>11. ASSUME NEW i \in DOMAIN r, NEW j \in DOMAIN r, i < j, r[j].frame = "header"
         PROVE  r[j].seq # r[i].seq
    <2>1. CASE j \in DOMAIN q
      <3>1. i \in DOMAIN q
        BY <1>5, <1>11, <2>1
      <3> QED BY <1>0, <1>7, <1>11, <2>1, <3>1 DEF Inward, q
    <2>2. CASE j \notin DOMAIN q
      <3>1. j = m + 1 /\ r[j].seq = c
        <4>1. r[j].frame # "body"
          BY <1>11
        <4> QED BY <1>6, <2>2, <4>1
      <3>2. i \in DOMAIN q
        BY <1>5, <1>11, <3>1
      <3> QED BY <1>2, <1>7, <1>8, <3>1, <3>2
    <2> QED BY <2>1, <2>2
  <1>12. Inward'
    BY <1>1, <1>10, <1>11 DEF Inward, Written, r
  <1>13. ASSUME NEW d \in Call \ {c} PROVE Asked(d)' = Asked(d)
    <2>1. (\E i \in DOMAIN r : For(r, i, d)) <=> (\E i \in DOMAIN q : For(q, i, d))
      BY <1>6, <1>7 DEF For
    <2> QED BY <2>1 DEF Asked, q, r
  <1> QED BY <1>2, <1>9, <1>12, <1>13 DEF Written

\* What the calls do with it: their goroutines and those of the cleanups.
LEMMA CallsLively ==
  ASSUME BodyInv, Live, Live', UNCHANGED session,
         \/ \E i \in DOMAIN Setup : Client!ClientFromConfig(i)
         \/ \E c \in Call : \E name \in Commands[c] : Client!Begin(c, name)
         \/ \E c, g \in Call : Client!BeginStop(c, g)
         \/ \E c \in Call : Client!CallStep(c) \/ Client!CleanupStep(c)
  PROVE  Lively'
  <1> DEFINE Streams == {"monitor", "stream", "query"}
             Steady(c) == /\ Written(c) <=> pc'[c] \notin {"idle", "begun", "registered"}
                          /\ pc[c] # "idle" => command'[c] = command[c]
             Passed(c) == /\ reply'[c] = <<"ok">> => reply[c] = <<"ok">>
                          /\ result'[c] = "ok" => result[c] = "ok" \/ reply[c] = <<"ok">>
                          /\ ~ init[c] /\ reply[c] = <<>> => reply'[c] = <<>> /\ result'[c] = result[c]
             Elsewhere(c) == \A d \in Call \ {c} :
                                /\ pc'[d] = pc[d] /\ command'[d] = command[d] /\ cleanup'[d] = cleanup[d]
                                /\ reply'[d] = reply[d] /\ result'[d] = result[d]
                                /\ d \in dispatch' <=> d \in dispatch
             Here(c) == /\ pc'[c] = "registered" => c \in dispatch'
                        /\ cleanup'[c] # "no" => command'[c] \in Streams /\ init[c]
                        /\ command'[c] \in Streams =>
                              /\ pc'[c] \notin {"leaving", "cleaning"}
                              /\ \/ reply'[c] = <<"ok">> \/ result'[c] = "ok"
                                 \/ (pc'[c] \notin {"idle", "begun", "registered"} /\ c \notin dispatch')
                                 => init[c]
  <1>0. /\ Inward /\ Outward /\ Reading /\ Handled /\ Untouched /\ AuthFirst /\ Settings
        /\ ClientTypes /\ SessionTypes /\ Calls
        /\ requests \in Seq(Frame)
    BY DEF BodyInv, Lively, Live, RPCInv, Line
  <1>l. link = {} /\ ~ shutdown
    BY DEF Live
  <1>s. UNCHANGED <<version, didAuth, reqHeader, streams, pushed, leaving>>
    BY DEF session
  <1>a. AuthCall \in Call
    BY SetupCalls
  \* The parts of the invariant.
  <1>1. ASSUME UNCHANGED <<requests, responses, reader, init>>, \A c \in Call : Steady(c) /\ Passed(c),
               \A c \in dispatch' : c \in dispatch \/ ~ Written(c), Handled'
        PROVE  Lively'
    <2>1. Onward
      BY <1>1 DEF Onward
    <2>2. Inward'
      BY <1>0, <1>1, <2>1, InwardKept
    <2>3. \A c \in Call : Opened(c)' <=> Opened(c)
      BY <1>1 DEF Opened
    <2>4. Outward'
      BY <1>1, <1>s, <2>1, <2>3, OutwardKept
    <2>5. Reading'
      BY <1>1, <2>1, ReadingKept
    <2>6. ASSUME NEW c \in Call, ~ Written(c)' \/ Asked(c)'
          PROVE  /\ \A i \in DOMAIN responses : responses[i].seq # c
                 /\ reader.at # "read" => reader.seq # c
                 /\ ~ init[c] /\ streams[c] = "none" /\ reply'[c] = <<>> /\ result'[c] = "none"
      <3>1. ~ Written(c) \/ Asked(c)
        BY <1>1, <2>6 DEF Asked, Written
      <3> QED BY <1>0, <1>1, <3>1 DEF Untouched
    <2>7. Untouched'
      BY <1>1, <1>s, <2>6 DEF Untouched
    <2>8. AuthFirst'
      BY <1>0, <1>1, <1>a, <1>s DEF AuthFirst, For
    <2> QED BY <1>1, <2>2, <2>4, <2>5, <2>7, <2>8 DEF Lively
  <1>2. ASSUME NEW c \in Call, init' = init, Elsewhere(c), Here(c) PROVE Handled'
    <2>1. ASSUME NEW d \in Call PROVE Here(d)
      <3>1. CASE d = c
        BY <1>2, <3>1
      <3>2. CASE d # c
        BY <1>0, <1>2, <3>2 DEF Handled, Client!Streaming, Written
      <3> QED BY <3>1, <3>2
    <2> QED BY <1>2, <2>1 DEF Handled, Client!Streaming, Written
  <1> HIDE DEF Steady, Passed, Elsewhere, Here
  <1>3. ASSUME NEW c \in Call, UNCHANGED <<requests, responses, reader, init>>, Elsewhere(c), Here(c),
               Steady(c), Passed(c), c \in dispatch' => c \in dispatch \/ ~ Written(c), dispatch' \subseteq Call
        PROVE  Lively'
    <2>1. \A d \in Call : Steady(d) /\ Passed(d)
      <3>1. ASSUME NEW d \in Call, d # c PROVE Steady(d) /\ Passed(d)
        BY <1>3, <3>1 DEF Elsewhere, Steady, Passed, Written
      <3> QED BY <1>3, <3>1
    <2>2. \A d \in dispatch' : d \in dispatch \/ ~ Written(d)
      BY <1>3 DEF Elsewhere
    <2>3. Handled'
      BY <1>2, <1>3
    <2> QED BY <1>1, <1>3, <2>1, <2>2, <2>3
  <1>4. ASSUME NEW c \in Call, ~ Written(c)
        PROVE  ~ init[c] /\ reply[c] = <<>> /\ result[c] = "none" /\ cleanup[c] = "no"
    BY <1>0, <1>4 DEF Untouched, Handled
  <1>5. ASSUME NEW c \in Call, NEW name, pc[c] = "idle", command' = [command EXCEPT ![c] = name],
               pc' = [pc EXCEPT ![c] = "begun"],
               UNCHANGED <<requests, responses, reader, init, reply, result, cleanup, dispatch>>
        PROVE  Lively'
    <2>1. ~ Written(c) /\ ~ init[c] /\ reply[c] = <<>> /\ result[c] = "none" /\ cleanup[c] = "no"
      BY <1>4, <1>5 DEF Written
    <2>2. /\ pc'[c] = "begun" /\ \A d \in Call \ {c} : pc'[d] = pc[d] /\ command'[d] = command[d]
      BY <1>0, <1>5 DEF ClientTypes
    <2>3. Elsewhere(c)
      BY <1>5, <2>2 DEF Elsewhere
    <2>4. Here(c)
      BY <1>5, <2>1, <2>2 DEF Here
    <2>5. Steady(c) /\ Passed(c) /\ dispatch' \subseteq Call
      BY <1>0, <1>5, <2>1, <2>2 DEF Steady, Passed, Written, ClientTypes
    <2> QED BY <1>3, <1>5, <2>3, <2>4, <2>5
  <1>6. ASSUME NEW i \in DOMAIN Setup, Client!ClientFromConfig(i) PROVE Lively'
    <2>1. Setup[i] \in Call
      BY SetupCalls DEF HandshakeCall, AuthCall
    <2> QED BY <1>5, <1>6, <2>1 DEF Client!ClientFromConfig
  <1>7. ASSUME NEW c \in Call, NEW name \in Commands[c], Client!Begin(c, name) PROVE Lively'
    BY <1>5, <1>7 DEF Client!Begin
  <1>8. ASSUME NEW c \in Call, NEW g \in Call, Client!BeginStop(c, g) PROVE Lively'
    <2>1. /\ pc[c] = "idle" /\ pc[g] = "returned" /\ result[g] = "ok" /\ command[g] \in Streams
          /\ command' = [command EXCEPT ![c] = "stop"] /\ pc' = [pc EXCEPT ![c] = "begun"]
          /\ dispatch' = dispatch \ {g}
          /\ \A d \in Call : d # g => cleanup'[d] = cleanup[d]
          /\ UNCHANGED <<requests, responses, reader, init, reply, result>>
      BY <1>0, <1>8 DEF Client!BeginStop, Client!Returned, Client!deregisterHandler, ClientTypes
    <2>2. ~ Written(c) /\ ~ init[c] /\ reply[c] = <<>> /\ result[c] = "none" /\ cleanup[c] = "no" /\ c # g
      BY <1>4, <2>1 DEF Written
    <2>3. /\ pc'[c] = "begun" /\ command'[c] = "stop"
          /\ \A d \in Call \ {c} : pc'[d] = pc[d] /\ command'[d] = command[d]
      <3>1. pc' = [pc EXCEPT ![c] = "begun"] /\ command' = [command EXCEPT ![c] = "stop"]
        BY <2>1
      <3>2. DOMAIN pc = Call /\ DOMAIN command = Call
        BY <1>0 DEF ClientTypes, Calls
      <3> QED BY <3>1, <3>2
    <2>4. \A d \in Call : Steady(d) /\ Passed(d)
      BY <2>1, <2>2, <2>3 DEF Steady, Passed, Written
    <2>5. init[g]
      BY <1>0, <2>1 DEF Handled, Client!Streaming
    <2>6. ASSUME NEW d \in Call PROVE Here(d)
      <3>1. CASE d = c
        BY <2>1, <2>2, <2>3, <3>1 DEF Here
      <3>2. CASE d = g
        BY <1>0, <2>1, <2>2, <2>3, <2>5, <3>2 DEF Here
      <3>3. CASE d # c /\ d # g
        BY <1>0, <2>1, <2>3, <3>3 DEF Here, Handled, Client!Streaming, Written
      <3> QED BY <3>1, <3>2, <3>3
    <2>7. Handled'
      BY <2>1, <2>6 DEF Handled, Here, Client!Streaming, Written
    <2>8. \A d \in dispatch' : d \in dispatch
      BY <2>1
    <2> QED BY <1>1, <2>1, <2>4, <2>7, <2>8
  <1>9. ASSUME NEW c \in Call, Client!handleSeq(c) PROVE Lively'
    <2>1. /\ pc[c] = "begun" /\ pc' = [pc EXCEPT ![c] = "registered"] /\ dispatch' = dispatch \cup {c}
          /\ UNCHANGED <<requests, responses, reader, init, command, reply, result, cleanup>>
      BY <1>9 DEF Client!handleSeq
    <2>2. ~ Written(c) /\ ~ init[c] /\ reply[c] = <<>> /\ result[c] = "none" /\ cleanup[c] = "no"
      BY <1>4, <2>1 DEF Written
    <2>3. pc'[c] = "registered" /\ \A d \in Call \ {c} : pc'[d] = pc[d]
      BY <1>0, <2>1 DEF ClientTypes
    <2>4. Elsewhere(c)
      BY <2>1, <2>3 DEF Elsewhere
    <2>5. Here(c)
      BY <2>1, <2>2, <2>3 DEF Here
    <2>6. Steady(c) /\ Passed(c) /\ dispatch' \subseteq Call
      BY <1>0, <2>1, <2>2, <2>3 DEF Steady, Passed, Written, ClientTypes
    <2> QED BY <1>3, <2>1, <2>2, <2>4, <2>5, <2>6
  <1>10. ASSUME NEW c \in Call, Client!send(c) PROVE Lively'
    <2>1. /\ pc[c] = "registered" /\ pc' = [pc EXCEPT ![c] = "waiting"]
          /\ UNCHANGED <<responses, reader, init, command, reply, result, cleanup, dispatch>>
      BY <1>10 DEF Client!send
    <2>2. /\ Inward' /\ ~ Written(c)
          /\ \A d \in Call \ {c} : Written(d)' = Written(d) /\ Asked(d)' = Asked(d)
      BY <1>10, Sent
    <2>3. ~ init[c] /\ reply[c] = <<>> /\ result[c] = "none" /\ cleanup[c] = "no"
      BY <1>4, <2>2
    <2>4. pc'[c] = "waiting" /\ \A d \in Call \ {c} : pc'[d] = pc[d]
      BY <1>0, <2>1 DEF ClientTypes
    <2>5. Handled'
      <3>1. Elsewhere(c)
        BY <2>1, <2>4 DEF Elsewhere
      <3>2. Here(c)
        BY <1>0, <2>1, <2>3, <2>4 DEF Here, Handled
      <3> QED BY <1>2, <2>1, <3>1, <3>2
    <2>6. Onward
      BY <2>1, <2>2, <2>4 DEF Onward, Written
    <2>7. \A d \in Call : Opened(d)' <=> Opened(d)
      BY <2>1 DEF Opened
    <2>8. Outward'
      BY <1>s, <2>1, <2>6, <2>7, OutwardKept
    <2>9. Reading'
      BY <2>1, <2>6, ReadingKept
    <2>10. ASSUME NEW d \in Call, ~ Written(d)' \/ Asked(d)'
           PROVE  /\ \A i \in DOMAIN responses : responses[i].seq # d
                  /\ reader.at # "read" => reader.seq # d
                  /\ ~ init[d] /\ streams[d] = "none" /\ reply[d] = <<>> /\ result[d] = "none"
      <3>1. ~ Written(d) \/ Asked(d)
        BY <2>2, <2>10
      <3> QED BY <1>0, <3>1 DEF Untouched
    <2>11. Untouched'
      BY <1>s, <2>1, <2>10 DEF Untouched
    <2>12. AuthFirst'
      BY <1>0, <1>s, <2>1 DEF AuthFirst, For
    <2> QED BY <2>2, <2>5, <2>8, <2>9, <2>11, <2>12 DEF Lively
  <1>11. ASSUME NEW c \in Call, Client!Answered(c) PROVE Lively'
    <2>1. /\ pc[c] = "waiting" /\ pc' = [pc EXCEPT ![c] = IF Client!Streaming(c) THEN "returned" ELSE "leaving"]
          /\ reply[c] # <<>> /\ reply' = [reply EXCEPT ![c] = <<>>]
          /\ result' = [result EXCEPT ![c] = reply[c][1]]
          /\ UNCHANGED <<requests, responses, reader, init, command, cleanup, dispatch>>
      BY <1>11 DEF Client!Answered
    <2>2. /\ pc'[c] = IF Client!Streaming(c) THEN "returned" ELSE "leaving"
          /\ \A d \in Call \ {c} : pc'[d] = pc[d] /\ reply'[d] = reply[d] /\ result'[d] = result[d]
          /\ reply'[c] = <<>> /\ result'[c] = reply[c][1]
      BY <1>0, <2>1 DEF ClientTypes
    <2>3. result'[c] = "ok" => reply[c] = <<"ok">>
      <3>1. reply[c] \in {<<>>, <<"ok">>, <<"failed">>}
        BY <1>0 DEF ClientTypes
      <3>2. <<"failed">>[1] = "failed"
        OBVIOUS
      <3>3. reply[c] = <<"failed">> => result'[c] = "failed"
        BY <2>2, <3>2
      <3> QED BY <2>1, <3>1, <3>3
    <2>4. reply'[c] # <<"ok">>
      BY <2>2
    <2>5. Elsewhere(c)
      BY <2>1, <2>2 DEF Elsewhere
    <2>6. Here(c)
      BY <1>0, <2>1, <2>2, <2>3, <2>4 DEF Here, Handled, Client!Streaming, Written
    <2>7. Steady(c) /\ Passed(c) /\ dispatch' \subseteq Call
      BY <1>0, <2>1, <2>2, <2>3, <2>4 DEF Steady, Passed, Written, ClientTypes
    <2> QED BY <1>3, <2>1, <2>5, <2>6, <2>7
  <1>12. ASSUME NEW c \in Call, Client!Deregister(c) \/ Client!Return(c) PROVE Lively'
    <2>1. /\ pc[c] \in {"leaving", "cleaning"}
          /\ \E step \in {"cleaning", "returned"} : pc' = [pc EXCEPT ![c] = step]
          /\ UNCHANGED <<requests, responses, reader, init, command, reply, result>>
      BY <1>12 DEF Client!Deregister, Client!Return
    <2>2. ~ Client!Streaming(c) /\ cleanup[c] = "no"
      BY <1>0, <2>1 DEF Handled
    <2>3. cleanup' = cleanup /\ dispatch' \in {dispatch, dispatch \ {c}}
      BY <1>12, <2>2 DEF Client!Deregister, Client!Return, Client!deregisterHandler
    <2>4. /\ pc'[c] \in {"cleaning", "returned"}
          /\ \A d \in Call \ {c} : pc'[d] = pc[d]
      BY <1>0, <2>1 DEF ClientTypes
    <2>5. Elsewhere(c)
      BY <2>1, <2>3, <2>4 DEF Elsewhere
    <2>6. Here(c)
      BY <2>1, <2>2, <2>3, <2>4 DEF Here, Client!Streaming
    <2>7. Steady(c) /\ Passed(c) /\ dispatch' \subseteq Call
      BY <1>0, <2>1, <2>3, <2>4 DEF Steady, Passed, Written, ClientTypes
    <2> QED BY <1>3, <2>1, <2>3, <2>5, <2>6, <2>7
  <1>13. ASSUME NEW c \in Call, Client!CallStep(c) PROVE Lively'
    <2>1. ~ Client!sendFails(c) /\ ~ Client!Abandoned(c)
      BY <1>l DEF Client!sendFails, Client!Abandoned
    <2> QED BY <1>9, <1>10, <1>11, <1>12, <1>13, <2>1 DEF Client!CallStep
  <1>14. ASSUME NEW c \in Call, Client!CleanupStep(c) PROVE Lively'
    <2>1. /\ cleanup[c] # "no" /\ UNCHANGED <<requests, responses, reader, pc, command, result, dispatch>>
          /\ \E step : cleanup' = [cleanup EXCEPT ![c] = step]
          /\ init' = init \/ init' = [init EXCEPT ![c] = TRUE]
          /\ reply' = reply \/ reply' = [reply EXCEPT ![c] = <<"failed">>]
      BY <1>14 DEF Client!CleanupStep, Client!CleanupCheck, Client!CleanupNotify, Client!CleanupClose
    <2>2. Client!Streaming(c) /\ init[c]
      BY <1>0, <2>1 DEF Handled
    <2>3. init' = init
      <3>1. [init EXCEPT ![c] = TRUE] = init
        BY <1>0, <2>2 DEF ClientTypes
      <3> QED BY <2>1, <3>1
    <2>4. /\ \A d \in Call \ {c} : reply'[d] = reply[d] /\ cleanup'[d] = cleanup[d]
          /\ reply'[c] = reply[c] \/ reply'[c] = <<"failed">>
      BY <1>0, <2>1 DEF ClientTypes
    <2>5. Elsewhere(c)
      BY <2>1, <2>4 DEF Elsewhere
    <2>6. Here(c)
      BY <1>0, <2>1, <2>2 DEF Here, Handled, Client!Streaming
    <2>7. Steady(c) /\ Passed(c) /\ dispatch' \subseteq Call
      <3>1. reply'[c] = <<"ok">> => reply[c] = <<"ok">>
        BY <2>4
      <3> QED BY <1>0, <2>1, <2>2, <3>1 DEF Steady, Passed, Written, ClientTypes
    <2> QED BY <1>3, <2>1, <2>3, <2>5, <2>6, <2>7
  <1> QED BY <1>6, <1>7, <1>8, <1>13, <1>14

-----------------------------------------------------------------------------
(* RPC: the reader finds the body of the response it is at. *)

\* Nobody opens what was closed.
LEMMA AgentLink == ASSUME Agent!SessionNext PROVE link \subseteq link'
  <1> USE DEF Agent!same, Agent!Hangup
  <1>1. CASE Agent!handshakeRequired \/ Agent!refuse \/ Agent!decodeFailed \/ Agent!unsupportedCommand
             \/ Agent!filterFails \/ Agent!Shutdown
    BY <1>1 DEF Agent!handshakeRequired, Agent!refuse, Agent!decodeFailed, Agent!unsupportedCommand,
                Agent!filterFails, Agent!Shutdown
  <1>2. CASE Agent!handleHandshake \/ Agent!handleAuth
    BY <1>2 DEF Agent!handleHandshake, Agent!handleAuth
  <1>3. ASSUME NEW name, NEW errors,
               Agent!Acts(name, errors) \/ Agent!Exchanges(name, errors) \/ Agent!Tells(name, errors)
        PROVE  link \subseteq link'
    BY <1>3 DEF Agent!Acts, Agent!Exchanges, Agent!Tells
  <1>4. CASE Agent!handleLeave \/ Agent!handleStop
    BY <1>4 DEF Agent!handleLeave, Agent!handleStop
  <1>5. CASE Agent!handleStream \/ Agent!handleMonitor \/ Agent!handleQuery
    BY <1>5 DEF Agent!handleStream, Agent!handleMonitor, Agent!handleQuery, Agent!Subscribe
  <1>6. ASSUME NEW s \in Call, Agent!sendRecord(s) \/ Agent!sendDone(s) PROVE link \subseteq link'
    BY <1>6 DEF Agent!sendRecord, Agent!sendDone
  <1>7. CASE Agent!handleMembers
    BY <1>1, <1>3, <1>7 DEF Agent!handleMembers
  <1>8. CASE Agent!handleRequest
    BY <1>1, <1>2, <1>3, <1>4, <1>5, <1>7, <1>8
    DEF Agent!handleRequest, Agent!handleEvent, Agent!handleForceLeave, Agent!handleTags, Agent!handleRespond,
        Agent!handleUpdateRouters, Agent!handleJoin, Agent!handleInstallKey, Agent!handleUseKey,
        Agent!handleRemoveKey, Agent!handleGetCoordinate, Agent!handleListKeys, Agent!handleStats,
        Agent!handleListMicroApps, Agent!handleListRouters
  <1> QED BY <1>1, <1>6, <1>8 DEF Agent!SessionNext

\* It holds of a new connection.
LEMMA BodyInit == RPCInit => BodyInv
  <1> SUFFICES ASSUME RPCInit PROVE BodyInv
    OBVIOUS
  <1>1. RPCInv
    BY RPCStart
  <1>2. Settings /\ Occupied
    BY SetupCalls DEF RPCInit, Client!ClientInit, Client!IdleReader, Settings, Occupied
  <1>3. \A q : q = <<>> => DOMAIN q = {} /\ q \in Seq(Reply)
    BY EmptySeq, LenProperties
  <1>4. requests = <<>> /\ responses = <<>> /\ DOMAIN requests = {} /\ DOMAIN responses = {} /\ responses \in Seq(Reply)
    BY <1>3 DEF RPCInit
  <1>5. /\ pc = [c \in Call |-> "idle"] /\ command = [c \in Call |-> "none"] /\ init = [c \in Call |-> FALSE]
        /\ streams = [c \in Call |-> "none"] /\ reply = [c \in Call |-> <<>>] /\ result = [c \in Call |-> "none"]
        /\ cleanup = [c \in Call |-> "no"] /\ reader.at = "read"
    BY DEF RPCInit, Agent!SessionInit, Client!ClientInit, Client!IdleReader
  <1>6. Inward /\ Outward /\ Reading
    BY <1>4, <1>5 DEF Inward, Outward, Reading, Awaits, BodyFirst
  <1>7. Handled /\ Untouched
    BY <1>4, <1>5 DEF Handled, Untouched, Client!Streaming
  <1>8. AuthFirst
    <2>1. AuthCall \in Call
      BY SetupCalls
    <2>2. <<>> # <<"ok">>
      <3>1. <<>> \in Seq(STRING) /\ Len(<<>>) = 0 /\ Len(<<"ok">>) = 1
        BY EmptySeq
      <3> QED BY <3>1
    <2> QED BY <1>4, <1>5, <2>1, <2>2 DEF AuthFirst
  <1> QED BY <1>1, <1>2, <1>6, <1>7, <1>8 DEF BodyInv, Lively

\* And it is kept by both sides.
LEMMA BodyInvariant == RPCSpec => []BodyInv
  <1>2. BodyInv /\ RPCInv' /\ [RPCNext]_rpcVars => BodyInv'
    <2> SUFFICES ASSUME BodyInv, RPCInv', [RPCNext]_rpcVars PROVE BodyInv'
      OBVIOUS
    <2>1. CASE AgentStep(Agent!SessionNext)
      <3>1. Agent!SessionNext /\ UNCHANGED client
        BY <2>1 DEF AgentStep
      <3>2. link \subseteq link'
        BY <3>1, AgentLink
      <3>3. Settings'
        BY <3>1 DEF BodyInv, Settings, client, Client!Connected, Client!Succeeded, Client!Returned
      <3>4. Occupied'
        BY <3>1, <3>2 DEF BodyInv, Occupied, client, Client!Streaming, Client!SetupFailed, Client!Returned
      <3>5. ASSUME Live' PROVE Lively'
        <4>1. Live /\ link' = {}
          BY <3>1, <3>2, <3>5 DEF Live, Disowned, Client!Streaming, client
        <4> QED BY <3>1, <4>1, AgentSends, AgentLively
      <3> QED BY <3>3, <3>4, <3>5 DEF BodyInv
    <2>2. CASE ClientStep(Client!ClientNext)
      <3>1. Client!ClientNext /\ UNCHANGED session
        BY <2>2 DEF ClientStep
      <3>2. RPCInv /\ Settings /\ Occupied
        BY DEF BodyInv
      <3>3. /\ Settings' /\ key' = key
            /\ \A c \in Call : pc[c] # "idle" => pc'[c] # "idle" /\ command'[c] = command[c]
        BY <3>1, <3>2, SettingsStep
      <3>4. Occupied' /\ link \subseteq link' /\ (shutdown => shutdown')
        BY <3>1, <3>2, OccupiedStep
      <3>5. ASSUME Live' PROVE Lively'
        <4>1. \A c \in Call : Client!Streaming(c) => Client!Streaming(c)'
          BY <3>2, <3>3 DEF Settings, Client!Streaming
        <4>2. Disowned => Disowned'
          BY <3>3, <4>1 DEF Disowned
        <4>3. Live /\ ~ shutdown /\ closer = "no" /\ link = {} /\ ~ shutdown'
          BY <3>2, <3>4, <3>5, <4>2 DEF Live, Settings
        <4>4. ~ Client!Close /\ ~ Client!CloseStep
          BY <4>3 DEF Client!Close, Client!CloseStep, Client!deregisterAll, Client!CloseConn, Client!CleanupNext,
                      Client!beginClose
        <4>5. CASE Client!ReaderStep
          BY <3>1, <3>5, <4>3, <4>5, ReaderLively
        <4>6. CASE ~ Client!ReaderStep
          <5>1. \/ \E i \in DOMAIN Setup : Client!ClientFromConfig(i)
                \/ \E c \in Call : \E name \in Commands[c] : Client!Begin(c, name)
                \/ \E c, g \in Call : Client!BeginStop(c, g)
                \/ \E c \in Call : Client!CallStep(c) \/ Client!CleanupStep(c)
            BY <3>1, <4>4, <4>6 DEF Client!ClientNext
          <5> QED BY <3>1, <3>5, <4>3, <5>1, CallsLively
        <4> QED BY <4>5, <4>6
      <3> QED BY <3>3, <3>4, <3>5 DEF BodyInv
    <2>3. CASE UNCHANGED rpcVars
      <3>1. UNCHANGED <<requests, responses, link, didAuth, streams, key, command, pc, result, reply, dispatch,
                        init, cleanup, shutdown, closer, reader>>
        BY <2>3 DEF rpcVars, rpcWire, session, client
      <3>2. Settings' /\ Occupied'
        BY <3>1 DEF BodyInv, Settings, Occupied, Client!Connected, Client!Succeeded, Client!Returned,
           Client!Streaming, Client!SetupFailed
      <3>3. Live' => Live
        BY <3>1 DEF Live, Disowned, Client!Streaming
      <3>4. /\ \A c \in Call : Client!Streaming(c)' = Client!Streaming(c) /\ Written(c)' = Written(c)
            /\ \A c \in Call : Expects(c)' = Expects(c) /\ Opened(c)' = Opened(c) /\ Asked(c)' = Asked(c)
        BY <3>1 DEF Client!Streaming, Written, Expects, Opened, Asked
      <3>5. ASSUME Live, Lively PROVE Lively'
        <4>1. Onward
          BY <3>1 DEF Onward, Written
        <4>2. Inward'
          BY <3>1, <3>5, <4>1, InwardKept DEF Lively, Live, BodyInv, RPCInv, Line
        <4>3. Outward'
          BY <3>1, <3>4, <3>5, <4>1, OutwardKept
        <4>4. Reading'
          BY <3>1, <3>5, <4>1, ReadingKept
        <4>5. Handled' /\ Untouched' /\ AuthFirst'
          BY <3>1, <3>4, <3>5 DEF Lively, Handled, Untouched, AuthFirst, For
        <4> QED BY <4>2, <4>3, <4>4, <4>5 DEF Lively
      <3> QED BY <3>2, <3>3, <3>5 DEF BodyInv
    <2> QED BY <2>1, <2>2, <2>3 DEF RPCNext
  <1> QED BY <1>2, BodyInit, RPCInvariant, PTL DEF RPCSpec

\* The body that the reader is about to decode is that of the call it serves,
\* as long as no side has closed.
LEMMA OwnBody ==
  ASSUME BodyInv, ~ shutdown
  PROVE  BodiesMatch
  <1> SUFFICES ASSUME link = {}, ~ Disowned,
                      \/ reader.at = "record"
                      \/ reader.at = "answer" /\ reader.error # "authRequired" /\ Client!Method(reader.seq).expects
               PROVE  Head(responses).frame = "body" /\ Head(responses).seq = reader.seq
    BY DEF BodiesMatch
  <1>1. Reading /\ Occupied /\ Calls
    BY DEF BodyInv, Live, Lively, RPCInv
  <1>2. reader.at = "answer" => (Client!Method(reader.seq).expects <=> Expects(reader.seq))
    BY <1>1, ExpectsOf DEF Occupied, Calls
  <1>3. Awaits
    BY <1>2 DEF Awaits
  <1> QED BY <1>1, <1>3 DEF Reading, BodyFirst

\* As long as the client is open, whatever its calls and the streams of the
\* agent do, the reader (listen and the handlers in rpc_client.go) decodes the
\* bodies where and for whom the agent has sent them.
THEOREM BodiesUntilClose == RPCSpec => [](~ shutdown => BodiesMatch)
  <1>1. BodyInv => (~ shutdown => BodiesMatch)
    BY OwnBody
  <1> QED BY <1>1, BodyInvariant, PTL

\* And if only failures of ClientFromConfig close it, always.
THEOREM BodiesAgreed == ~ MayClose => (RPCSpec => []BodiesMatch)
  <1> SUFFICES ASSUME ~ MayClose PROVE RPCSpec => []BodiesMatch
    OBVIOUS
  <1>1. ASSUME BodyInv PROVE BodiesMatch
    <2>1. CASE ~ shutdown
      BY <1>1, <2>1, OwnBody
    <2>2. CASE shutdown
      <3> SUFFICES ASSUME link = {},
                          \/ reader.at = "record"
                          \/ reader.at = "answer" /\ Client!Method(reader.seq).expects
                   PROVE  FALSE
        BY DEF BodiesMatch
      <3>1. Settings /\ Occupied /\ Calls
        BY <1>1 DEF BodyInv, RPCInv
      <3>2. Client!SetupFailed
        BY <2>2, <3>1 DEF Occupied
      <3>3. ~ Client!Connected
        <4>1. PICK i \in DOMAIN Setup : pc[Setup[i]] = "returned" /\ result[Setup[i]] # "ok"
          BY <3>2 DEF Client!SetupFailed, Client!Returned
        <4>2. i = 2 => key # "none"
          BY <3>1, <4>1 DEF Settings, AuthCall
        <4> QED BY <4>1, <4>2, SetupCalls DEF Client!Connected, Client!Succeeded
      <3>4. reader.seq \in Call /\ pc[reader.seq] # "idle" /\ (reader.at = "record" => Client!Streaming(reader.seq))
        BY <3>1 DEF Occupied
      <3>5. command[reader.seq] \in {"none", "handshake", "auth"} /\ command[reader.seq] \in Names
        BY <3>1, <3>3, <3>4 DEF Settings, Calls
      <3>6. Client!Method(reader.seq).expects <=> Expects(reader.seq)
        BY <3>4, <3>5, ExpectsOf
      <3> QED BY <3>4, <3>5, <3>6 DEF Client!Streaming, Expects, Expecting
    <2> QED BY <2>1, <2>2
  <1> QED BY <1>1, BodyInvariant, PTL

=============================================================================
