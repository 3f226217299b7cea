--------------------------- MODULE LifecycleProofs ---------------------------
(***************************************************************************)
(* Proofs about the table of clients, for any connections and any          *)
(* addresses they come from, shared ones too, and about the life of the    *)
(* process it is part of, for any loggers and limit of retries.  For the   *)
(* latter, what happens to the connections and to the gate is taken apart  *)
(* first: every step of the process is a step of AgentIPC and one of       *)
(* GatedWriter, or leaves them alone, or is the process's end, after which *)
(* they are as at the start.                                               *)
(***************************************************************************)
EXTENDS Lifecycle, TLAPS

(* The table of clients. *)

\* A connection has one of the table's names.
LEMMA NameOfConn == \A c \in Conn : NameOf[c] \in Name
  BY DEF Name

\* Every step keeps the types.
LEMMA TypeStep == TypeOK /\ [Next]_vars => TypeOK'
  <1> SUFFICES ASSUME TypeOK, [Next]_vars PROVE TypeOK'
    OBVIOUS
  <1> USE DEF TypeOK
  <1>1. ASSUME NEW c \in Conn, Accept(c) PROVE TypeOK'
    BY <1>1 DEF Accept
  <1>2. CASE Register
    BY <1>2, NameOfConn DEF Register
  <1>3. ASSUME NEW c \in Conn, Reset(c) \/ RequestFails(c) \/ ReadFails(c) PROVE TypeOK'
    BY <1>3 DEF Reset, RequestFails, ReadFails
  <1>4. ASSUME NEW c \in Conn, deregisterClient(c) PROVE TypeOK'
    BY <1>4 DEF deregisterClient
  <1>5. CASE Shutdown
    BY <1>5 DEF Shutdown
  <1>6. CASE UNCHANGED vars
    BY <1>6 DEF vars
  <1> QED
    BY <1>1, <1>2, <1>3, <1>4, <1>5, <1>6 DEF Next

\* The server's state is well typed.
THEOREM TypeCorrect == Spec => []TypeOK
  <1>1. Init => TypeOK
    BY DEF Init, TypeOK
  <1> QED
    BY <1>1, TypeStep, PTL DEF Spec

-----------------------------------------------------------------------------
\* The inductive strengthening: a connection is entered under its own name
\* only, so that the one entry its goroutine deletes is the only one that it
\* can have; and the connection listen holds has no goroutine yet, so that
\* none ends that was not entered.
Entered ==
    /\ \A n \in Name : clients[n] # NoConn =>
          NameOf[clients[n]] = n /\ task[clients[n]] \in {"serve", "deregister"}
    /\ accepted # NoConn => task[accepted] = "none" /\ conn[accepted] # "none"
    /\ \A c \in Conn : conn[c] = "none" => task[c] = "none"

\* Every step keeps the strengthening.
LEMMA EnteredStep == TypeOK /\ Entered /\ [Next]_vars => Entered'
  <1> SUFFICES ASSUME TypeOK, Entered, [Next]_vars PROVE Entered'
    OBVIOUS
  <1> USE NoConnAssumption DEF TypeOK, Entered
  <1>1. ASSUME NEW c \in Conn, Accept(c) PROVE Entered'
    BY <1>1 DEF Accept
  <1>2. CASE Register
    <2>1. CASE stop
      BY <1>2, <2>1 DEF Register
    <2>2. CASE ~ stop
      BY <1>2, <2>2, NameOfConn DEF Register
    <2> QED BY <2>1, <2>2
  <1>3. ASSUME NEW c \in Conn, Reset(c) PROVE Entered'
    BY <1>3 DEF Reset
  <1>4. ASSUME NEW c \in Conn, RequestFails(c) \/ ReadFails(c) PROVE Entered'
    BY <1>4 DEF RequestFails, ReadFails
  <1>5. ASSUME NEW c \in Conn, deregisterClient(c) PROVE Entered'
    BY <1>5, NameOfConn DEF deregisterClient
  <1>6. CASE Shutdown
    BY <1>6 DEF Shutdown
  <1>7. CASE UNCHANGED vars
    BY <1>7 DEF vars
  <1> QED
    BY <1>1, <1>2, <1>3, <1>4, <1>5, <1>6, <1>7 DEF Next

\* No entry of a connection that is over stays in the table, also when
\* connections follow each other under one address.
THEOREM TableClean == Spec => []NoStaleClients
  <1>1. Init => Entered
    BY DEF Init, Entered
  <1>2. TypeOK /\ Entered => NoStaleClients
    BY DEF Entered, NoStaleClients
  <1> QED
    BY <1>1, <1>2, EnteredStep, TypeCorrect, PTL DEF Spec

-----------------------------------------------------------------------------
(* The process. *)

\* The end of the process, which brings everything back to the start.
Death == \E s \in {"0", "1", "none", "killed", "panic"} : Dies(s)

\* What all steps that end the process have in common.
LEMMA Deaths ==
  ASSUME LifeTypeOK,
         Exit \/ RestFatal \/ Killed \/ \E c \in Conn : EarlyRequest(c)
  PROVE  Death
  BY DEF Exit, RestFatal, Killed, EarlyRequest, Death, LifeTypeOK

\* A step of one of the goroutines, by what it does to the connections.
LEMMA Steps ==
  ASSUME LifeTypeOK, [LifeNext]_lifeVars
  PROVE  \/ Death
         \/ UNCHANGED lifeVars
         \/ \/ Configure \/ Start \/ Listen \/ StartDiscoverd \/ StartupJoin \/ Flush \/ FlushDone
            \/ WaitEnds \/ LeavingEnds \/ CloseIPC \/ StopAgent \/ CatchSignal \/ CatchSecond
            \/ LoopEnds \/ SerfQuits \/ RetryJoin \/ RestEnds \/ GracefulLeave
         \/ \E x \in Leaver : LeaveReturns(x)
         \/ \E c \in Conn : LeaveTold(c) \/ LeaveEnds(c) \/ handleLeave(c)
         \/ (Register \/ \E c \in Conn : RPCStep(c) \/ (Unoccupied(c) /\ ReadFails(c)) \/ deregisterClient(c))
              /\ UNCHANGED <<gateVars, processVars, agentVars>>
         \/ (\E g \in Logger : Write(g) \/ Appended(g)) /\ UNCHANGED <<vars, processVars, agentVars>>
  <1>1. CASE UNCHANGED lifeVars
    BY <1>1
  <1>2. CASE Exit \/ RestFatal \/ Killed \/ \E c \in Conn : EarlyRequest(c)
    BY <1>2, Deaths
  <1>3. CASE LifeNext /\ ~ (Exit \/ RestFatal \/ Killed \/ \E c \in Conn : EarlyRequest(c))
    BY <1>3 DEF LifeNext, Progress, Event, RunStep, Leaves, RPCGoes
  <1> QED
    BY <1>1, <1>2, <1>3

-----------------------------------------------------------------------------
\* A client in the middle of its leave has its goroutine, and a connection
\* that was there; once it is told, it has the answer or is gone.
Served ==
    \A c \in Conn :
        /\ leave[c] \in {"called", "inside", "back", "told"} => task[c] = "serve"
        /\ leave[c] # "none" => conn[c] # "none"
        /\ leave[c] \in {"told", "over"} => c \in answered \/ conn[c] # "open"

\* To the connections every step is one of AgentIPC, or the process's end.
LEMMA RPCMoves ==
  ASSUME LifeTypeOK, Served, [LifeNext]_lifeVars
  PROVE  [Next]_vars \/ Init'
  <1>1. CASE Death
    BY <1>1 DEF Death, Dies, Init, Name
  <1>2. CASE UNCHANGED vars
    BY <1>2
  <1>3. CASE CloseIPC
    BY <1>3 DEF CloseIPC, Next
  <1>4. ASSUME NEW c \in Conn, LeaveEnds(c)
        PROVE  [Next]_vars
    <2>1. CASE c \in answered
      BY <1>4, <2>1 DEF LeaveEnds
    <2>2. CASE c \notin answered
      <3>1. ReadFails(c)
        BY <1>4, <2>2 DEF LeaveEnds, Served, ReadFails
      <3> QED BY <3>1 DEF Next
    <2> QED BY <2>1, <2>2
  <1>5. CASE Register \/ \E c \in Conn : RPCStep(c) \/ (Unoccupied(c) /\ ReadFails(c)) \/ deregisterClient(c)
    BY <1>5 DEF RPCStep, Next
  <1>6. CASE \/ Configure \/ Start \/ Listen \/ StartDiscoverd \/ StartupJoin \/ Flush \/ FlushDone
             \/ WaitEnds \/ LeavingEnds \/ StopAgent \/ CatchSignal \/ CatchSecond
             \/ LoopEnds \/ SerfQuits \/ RetryJoin \/ RestEnds \/ GracefulLeave
    BY <1>6 DEF Configure, Start, Listen, StartDiscoverd, StartupJoin, Flush, FlushDone,
                WaitEnds, LeavingEnds, StopAgent, CatchSignal, CatchSecond,
                LoopEnds, SerfQuits, RetryJoin, RestEnds, GracefulLeave
  <1>7. CASE \/ \E x \in Leaver : LeaveReturns(x)
             \/ \E c \in Conn : LeaveTold(c) \/ handleLeave(c)
    BY <1>7 DEF LeaveReturns, LeaveTold, handleLeave
  <1> QED
    BY <1>1, <1>2, <1>3, <1>4, <1>5, <1>6, <1>7, Steps DEF lifeVars

\* To the gate every step is one of GatedWriter, or the process's end.
LEMMA GateMoves ==
  ASSUME LifeTypeOK, [LifeNext]_lifeVars
  PROVE  \/ UNCHANGED gateVars
         \/ \E g \in Logger : Write(g) \/ Appended(g)
         \/ OpenGate \/ DrainGate \/ AbandonGate
         \/ GateInit'
  <1>1. CASE Death
    BY <1>1 DEF Death, Dies, GateInit
  <1>2. CASE UNCHANGED gateVars
    BY <1>2
  <1>3. CASE \E g \in Logger : Write(g) \/ Appended(g)
    BY <1>3
  <1>4. CASE StartupJoin \/ Flush \/ FlushDone
    BY <1>4 DEF StartupJoin, Flush, FlushDone
  <1>5. CASE \/ Configure \/ Start \/ Listen \/ StartDiscoverd
             \/ WaitEnds \/ LeavingEnds \/ CloseIPC \/ StopAgent \/ CatchSignal \/ CatchSecond
             \/ LoopEnds \/ SerfQuits \/ RetryJoin \/ RestEnds \/ GracefulLeave
    BY <1>5 DEF Configure, Start, Listen, StartDiscoverd,
                WaitEnds, LeavingEnds, CloseIPC, StopAgent, CatchSignal, CatchSecond,
                LoopEnds, SerfQuits, RetryJoin, RestEnds, GracefulLeave
  <1>6. CASE \/ \E x \in Leaver : LeaveReturns(x)
             \/ \E c \in Conn : LeaveTold(c) \/ handleLeave(c) \/ LeaveEnds(c)
    BY <1>6 DEF LeaveReturns, LeaveTold, handleLeave, LeaveEnds
  <1> QED
    BY <1>1, <1>2, <1>3, <1>4, <1>5, <1>6, Steps DEF lifeVars

-----------------------------------------------------------------------------
\* What keeps lines from being lost at the gate, besides LinesKept: an append
\* that is alone starts from the buffer as it is, none is under way once the
\* gate is open, and a drained gate owes nothing.
GateInv ==
    /\ GateTypeOK
    /\ LinesKept
    /\ ~ overlapped => \A g \in Logger :
          ~ Idle(g) => writing[g] = buf /\ \A h \in Logger \ {g} : Idle(h)
    /\ gate # "closed" => \A g \in Logger : Idle(g)
    /\ gate = "drained" => due = {}

\* A buffer of lines is never taken for no append.
LEMMA BufferWrites == \A b \in Seq(Logger) : b # NotWriting
  <1> SUFFICES ASSUME NEW b \in Seq(Logger), b = <<"none">> PROVE FALSE
    BY DEF NotWriting
  <1>1. Len(b) = 1 /\ b[1] = "none"
    OBVIOUS
  <1>2. b[1] \in Logger
    BY <1>1
  <1> QED BY <1>1, <1>2, LoggerAssumption

\* The lines in a buffer after an append.
LEMMA RangeAppend ==
  ASSUME NEW b \in Seq(Logger), NEW g \in Logger
  PROVE  Append(b, g) \in Seq(Logger) /\ Range(b) \cup {g} \subseteq Range(Append(b, g))
  <1>1. Append(b, g) \in Seq(Logger) /\ Len(Append(b, g)) = Len(b) + 1
    OBVIOUS
  <1>2. \A i \in 1..Len(b) : Append(b, g)[i] = b[i]
    OBVIOUS
  <1>3. Append(b, g)[Len(b) + 1] = g
    OBVIOUS
  <1> QED BY <1>1, <1>2, <1>3 DEF Range

\* Each operation of the gate keeps what holds of it.
LEMMA GateStep ==
  ASSUME GateInv,
         \/ UNCHANGED gateVars
         \/ \E g \in Logger : Write(g) \/ Appended(g)
         \/ OpenGate \/ DrainGate \/ AbandonGate
         \/ GateInit'
  PROVE  GateInv'
  <1> USE DEF GateInv, GateTypeOK, LinesKept, Idle
  <1>0. <<>> \in Seq(Logger)
    OBVIOUS
  <1>1. CASE UNCHANGED gateVars
    BY <1>1 DEF gateVars
  <1>2. ASSUME NEW g \in Logger, Write(g)
        PROVE  GateInv'
    <2>1. writing' = [writing EXCEPT ![g] = buf] /\ buf' = buf /\ gate' = gate /\ gate = "closed"
          /\ due' = due \cup {g} /\ overlapped' \in BOOLEAN
      BY <1>2 DEF Write
    <2>2. writing'[g] # NotWriting
      BY <2>1, BufferWrites
    <2>3. ~ overlapped' => ~ overlapped /\ \A h \in Logger : writing[h] = NotWriting
      BY <1>2 DEF Write
    <2>4. GateTypeOK'
      BY <2>1
    <2>5. LinesKept'
      BY <2>1, <2>2, <2>3
    <2>6. ~ overlapped' => \A h \in Logger :
            writing'[h] # NotWriting => writing'[h] = buf' /\ \A k \in Logger \ {h} : writing'[k] = NotWriting
      BY <2>1, <2>3
    <2> QED BY <2>1, <2>4, <2>5, <2>6
  <1>3. ASSUME NEW g \in Logger, Appended(g)
        PROVE  GateInv'
    <2>1. /\ writing[g] # NotWriting /\ writing[g] \in Seq(Logger)
          /\ buf' = Append(writing[g], g)
          /\ writing' = [writing EXCEPT ![g] = NotWriting]
          /\ gate' = gate /\ due' = due /\ overlapped' = overlapped
      BY <1>3 DEF Appended
    <2>2. gate = "closed"
      BY <2>1
    <2>3. buf' \in Seq(Logger) /\ Range(writing[g]) \cup {g} \subseteq Range(buf')
      BY <2>1, RangeAppend
    <2>4. GateTypeOK'
      BY <2>1, <2>3
    <2>5. ~ overlapped => writing[g] = buf /\ \A h \in Logger \ {g} : writing[h] = NotWriting
      BY <2>1
    <2>6. ~ overlapped => \A h \in Logger : writing'[h] = NotWriting
      BY <2>1, <2>5
    <2>7. LinesKept'
      BY <2>1, <2>2, <2>3, <2>5, <2>6
    <2> QED BY <2>1, <2>2, <2>4, <2>6, <2>7
  <1>4. CASE OpenGate
    BY <1>4 DEF OpenGate
  <1>5. CASE DrainGate
    <2>1. gate = "open" /\ gate' = "drained" /\ buf' = <<>> /\ overlapped' = FALSE /\ writing' = writing
      BY <1>5 DEF DrainGate
    <2>2. due' = {}
      BY <1>5, <2>1 DEF DrainGate
    <2> QED BY <1>0, <2>1, <2>2
  <1>6. CASE AbandonGate
    BY <1>0, <1>6 DEF AbandonGate
  <1>7. CASE GateInit'
    BY <1>0, <1>7 DEF GateInit
  <1> QED
    BY <1>1, <1>2, <1>3, <1>4, <1>5, <1>6, <1>7

-----------------------------------------------------------------------------
\* The types of what is neither the connections' nor the gate's.
ProcessTypes ==
    /\ run \in Stage
    /\ code \in {"none", "0", "1"}
    /\ status \in {"none", "0", "1", "killed", "panic"}
    /\ serf \in {"none", "alive", "leaving", "left", "shutdown"}
    /\ quit \in BOOLEAN /\ shutdown \in BOOLEAN
    /\ loop \in {"none", "running", "ended"}
    /\ rest \in {"none", "serving", "closing", "closed"}
    /\ retry \in {"over", "trying", "gaveup"}
    /\ attempt \in 0..RetryMaxAttempts + 1
    /\ attempt > RetryMaxAttempts <=> retry = "gaveup"
    /\ leave \in [Leaver -> {"none", "called", "inside", "back", "told", "over"}]
    /\ result \in [Leaver -> {"none", "ok", "failed"}]
    /\ answered \subseteq Conn

\* Every step keeps the types of the process.
LEMMA ProcessTypesStep ==
  ASSUME LifeTypeOK, [LifeNext]_lifeVars
  PROVE  ProcessTypes'
  <1>0. ProcessTypes
    BY DEF LifeTypeOK, ProcessTypes
  <1> USE <1>0 DEF ProcessTypes
  <1>1. CASE Death
    <2> PICK s \in {"0", "1", "none", "killed", "panic"} : Dies(s)
      BY <1>1 DEF Death
    <2>1. leave' \in [Leaver -> {"none", "called", "inside", "back", "told", "over"}]
          /\ result' \in [Leaver -> {"none", "ok", "failed"}] /\ answered' \subseteq Conn
      BY DEF Dies
    <2>2. quit' \in BOOLEAN /\ shutdown' \in BOOLEAN
      BY DEF Dies
    <2>3. run' \in Stage /\ attempt' \in 0..RetryMaxAttempts + 1 /\ ~ attempt' > RetryMaxAttempts
      BY LifecycleAssumption DEF Dies, Stage
    <2> QED BY <2>1, <2>2, <2>3 DEF Dies
  <1>2. CASE UNCHANGED <<processVars, agentVars>>
    BY <1>2 DEF processVars, agentVars, serfVars, leaveVars, otherVars
  <1>3. CASE Configure \/ Start \/ Listen \/ StartDiscoverd \/ StartupJoin \/ Flush
    BY <1>3 DEF Configure, Start, Listen, StartDiscoverd, StartupJoin, Flush, Goes, Returns,
                Stage, agentVars, serfVars, leaveVars, otherVars
  <1>15. CASE FlushDone
    BY <1>15, LifecycleAssumption DEF FlushDone, Goes, Stage, serfVars, leaveVars
  <1>4. CASE WaitEnds \/ LeavingEnds \/ CatchSecond
    BY <1>4, LifecycleAssumption
       DEF WaitEnds, LeavingEnds, CatchSecond, Returns, Chosen,
           Stage, agentVars, serfVars, leaveVars, otherVars
  <1>11. CASE CloseIPC
    BY <1>11 DEF CloseIPC, Goes, Stage, serfVars, leaveVars
  <1>12. CASE StopAgent
    BY <1>12 DEF StopAgent, Goes, AgentShutdown, Stage, leaveVars, otherVars
  <1>5. CASE CatchSignal
    BY <1>5, LifecycleAssumption
       DEF CatchSignal, Goes, Returns, Chosen, Stage, serfVars
  <1>6. CASE SerfQuits \/ RestEnds
    BY <1>6 DEF SerfQuits, RestEnds, processVars, serfVars, leaveVars, otherVars
  <1>14. CASE RetryJoin
    <2>1. attempt' \in 0..RetryMaxAttempts + 1 /\ (attempt' > RetryMaxAttempts <=> retry' = "gaveup")
      BY <1>14, LifecycleAssumption DEF RetryJoin
    <2>2. retry' \in {"over", "trying", "gaveup"}
      BY <1>14 DEF RetryJoin
    <2>3. UNCHANGED <<processVars, serfVars, leaveVars, rest>>
      BY <1>14 DEF RetryJoin
    <2> QED BY <2>1, <2>2, <2>3 DEF processVars, serfVars, leaveVars
  <1>13. CASE LoopEnds
    BY <1>13 DEF LoopEnds, AgentShutdown, processVars, leaveVars, otherVars
  <1>7. ASSUME NEW x \in Leaver, LeaveCalled(x) \/ LeaveReturns(x),
               UNCHANGED <<processVars, quit, shutdown, loop, answered, otherVars>>
        PROVE  ProcessTypes'
    <2>1. CASE LeaveCalled(x)
      <3>1. CASE serf = "alive"
        BY <1>7, <2>1, <3>1 DEF LeaveCalled, processVars, otherVars
      <3>2. CASE serf # "alive"
        BY <1>7, <2>1, <3>2 DEF LeaveCalled, processVars, otherVars
      <3> QED BY <3>1, <3>2
    <2>2. CASE LeaveReturns(x)
      BY <1>7, <2>2 DEF LeaveReturns, processVars, otherVars
    <2> QED BY <1>7, <2>1, <2>2
  <1>8. ASSUME NEW c \in Conn, LeaveTold(c) \/ LeaveEnds(c)
        PROVE  ProcessTypes'
    <2>1. UNCHANGED <<retry, attempt, rest>>
      BY <1>8 DEF LeaveTold, LeaveEnds, otherVars
    <2>2. attempt' \in 0..RetryMaxAttempts + 1 /\ (attempt' > RetryMaxAttempts <=> retry' = "gaveup")
          /\ retry' \in {"over", "trying", "gaveup"}
      BY <2>1
    <2>3. CASE LeaveTold(c)
      BY <2>2, <2>3 DEF LeaveTold, processVars, serfVars, otherVars
    <2>4. CASE LeaveEnds(c)
      BY <2>2, <2>4 DEF LeaveEnds, AgentShutdown, processVars, otherVars
    <2> QED BY <1>8, <2>3, <2>4
  <1>9. Conn \subseteq Leaver /\ Main \in Leaver
    BY DEF Leaver
  <1>10. CASE GracefulLeave \/ (\E c \in Conn : handleLeave(c)) \/ \E x \in Leaver : LeaveReturns(x)
    BY <1>7, <1>9, <1>10 DEF GracefulLeave, handleLeave, LeaveReturns
  <1> QED
    BY <1>1, <1>2, <1>3, <1>4, <1>5, <1>6, <1>8, <1>10, <1>11, <1>12, <1>13, <1>14, <1>15,
       Steps
    DEF lifeVars

-----------------------------------------------------------------------------
\* A connection that was there does not come back.
LEMMA NoReturn ==
  ASSUME TypeOK, [Next]_vars
  PROVE  \A c \in Conn : conn[c] # "none" =>
            conn'[c] # "none" /\ (conn[c] # "open" => conn'[c] # "open")
  <1> USE DEF TypeOK
  <1>1. ASSUME NEW d \in Conn, Accept(d) \/ Reset(d) \/ RequestFails(d) \/ ReadFails(d) \/ deregisterClient(d)
        PROVE  \A c \in Conn : conn[c] # "none" =>
                  conn'[c] # "none" /\ (conn[c] # "open" => conn'[c] # "open")
    BY <1>1 DEF Accept, Reset, RequestFails, ReadFails, deregisterClient
  <1>2. CASE Register
    BY <1>2, NoConnAssumption DEF Register
  <1>3. CASE Shutdown
    BY <1>3 DEF Shutdown
  <1>4. CASE UNCHANGED vars
    BY <1>4 DEF vars
  <1> QED BY <1>1, <1>2, <1>3, <1>4 DEF Next

\* While no leave goes on, only the goroutine of a client that is not in its
\* leave may stop to serve.
LEMMA ServedRest ==
  ASSUME TypeOK, Served, [Next]_vars, UNCHANGED <<leave, answered>>,
         \A c \in Conn : task[c] = "serve" /\ task'[c] # "serve" => Unoccupied(c)
  PROVE  Served'
  BY NoReturn DEF Served, Unoccupied

\* Every step keeps Served.
LEMMA ServedStep ==
  ASSUME LifeTypeOK, Served, [LifeNext]_lifeVars
  PROVE  Served'
  <1>0. TypeOK /\ leave \in [Leaver -> {"none", "called", "inside", "back", "told", "over"}]
        /\ Conn \subseteq Leaver /\ Main \in Leaver \ Conn
    BY LifecycleAssumption DEF LifeTypeOK, Leaver
  <1>1. CASE Death
    BY <1>0, <1>1 DEF Death, Dies, Served
  <1>2. CASE UNCHANGED vars /\ UNCHANGED <<leave, answered>>
    BY <1>2 DEF vars, Served
  <1>3. CASE CloseIPC
    <2>1. Shutdown /\ UNCHANGED <<leave, answered>> /\ task' = task
      BY <1>3 DEF CloseIPC, leaveVars, Shutdown
    <2> QED BY <1>0, <2>1, ServedRest DEF Next
  <1>4. CASE (Register \/ \E c \in Conn : RPCStep(c) \/ (Unoccupied(c) /\ ReadFails(c)) \/ deregisterClient(c))
               /\ UNCHANGED agentVars
    <2>1. [Next]_vars
      BY <1>4 DEF RPCStep, Next
    <2>2. UNCHANGED <<leave, answered>>
      BY <1>4 DEF agentVars, leaveVars
    <2>3. \A c \in Conn : task[c] = "serve" /\ task'[c] # "serve" => Unoccupied(c)
      <3>1. CASE Register
        BY <1>0, <3>1, NoConnAssumption DEF Register, TypeOK
      <3>2. ASSUME NEW d \in Conn, RPCStep(d) \/ (Unoccupied(d) /\ ReadFails(d)) \/ deregisterClient(d)
            PROVE  \A c \in Conn : task[c] = "serve" /\ task'[c] # "serve" => Unoccupied(c)
        BY <1>0, <3>2 DEF RPCStep, Accept, Reset, RequestFails, ReadFails, deregisterClient, TypeOK
      <3> QED BY <1>4, <3>1, <3>2
    <2> QED BY <1>0, <2>1, <2>2, <2>3, ServedRest
  <1>5. CASE \/ Configure \/ Start \/ Listen \/ StartDiscoverd \/ StartupJoin \/ Flush \/ FlushDone
             \/ WaitEnds \/ LeavingEnds \/ StopAgent \/ CatchSecond
             \/ LoopEnds \/ SerfQuits \/ RetryJoin \/ RestEnds
    <2>1. UNCHANGED vars /\ UNCHANGED <<leave, answered>>
      BY <1>5 DEF Configure, Start, Listen, StartDiscoverd, StartupJoin, Flush, FlushDone,
                  WaitEnds, LeavingEnds, StopAgent, CatchSecond, LoopEnds, SerfQuits, RetryJoin,
                  RestEnds, agentVars, leaveVars
    <2> QED BY <1>2, <2>1
  <1>6. CASE CatchSignal
    BY <1>0, <1>6 DEF CatchSignal, Served, vars
  <1>7. CASE GracefulLeave
    BY <1>0, <1>7 DEF GracefulLeave, LeaveCalled, Served, vars
  <1>8. ASSUME NEW c \in Conn, handleLeave(c)
        PROVE  Served'
    BY <1>0, <1>8 DEF handleLeave, LeaveCalled, Served, vars
  <1>9. ASSUME NEW x \in Leaver, LeaveReturns(x)
        PROVE  Served'
    BY <1>0, <1>9 DEF LeaveReturns, Served, vars
  <1>10. ASSUME NEW c \in Conn, LeaveTold(c)
         PROVE  Served'
    BY <1>0, <1>10 DEF LeaveTold, Served, vars
  <1>11. ASSUME NEW c \in Conn, LeaveEnds(c)
         PROVE  Served'
    BY <1>0, <1>11 DEF LeaveEnds, Served, vars, TypeOK
  <1> QED
    BY <1>1, <1>2, <1>3, <1>4, <1>5, <1>6, <1>7, <1>8, <1>9, <1>10, <1>11, Steps
    DEF lifeVars, agentVars, leaveVars

-----------------------------------------------------------------------------
\* The reasons for which the agent is shut down, and how far the leaves are.
\* Serf ends by itself or with the agent; the agent is shut down by Run, by
\* the event loop after serf, or by a client whose leave is over.
Accounted ==
    /\ serf = "shutdown" /\ ~ quit => shutdown
    /\ shutdown /\ ~ quit /\ code = "none" => \E c \in Conn : leave[c] = "over"
    /\ code = "none" <=> run \notin {"closing", "stopping", "returned"}
    /\ run \notin {"leaving", "closing", "stopping", "returned"} => leave[Main] = "none"
    /\ \A x \in Leaver : result[x] = "none" <=> leave[x] \in {"none", "called", "inside"}
    /\ ZeroMeansLeft

\* Leaves in their last stage stay there, and what they returned stays.
Kept ==
    /\ \A x \in Leaver : leave[x] = "over" => leave'[x] = "over"
    /\ \A x \in Leaver : result[x] # "none" => result'[x] = result[x]

\* A step that changes neither what Run is at nor that the agent is up keeps
\* Accounted, if the leaves go on as they should.
LEMMA AccountedRest ==
  ASSUME ProcessTypes, Accounted, Kept, UNCHANGED <<run, code, quit, shutdown>>,
         serf' = "shutdown" => serf = "shutdown",
         leave[Main] = "none" => leave'[Main] = "none",
         \A x \in Leaver : result'[x] = "none" <=> leave'[x] \in {"none", "called", "inside"}
  PROVE  Accounted'
  <1>1. Conn \subseteq Leaver
    BY DEF Leaver
  <1>2. (\E c \in Conn : leave[c] = "over") => \E c \in Conn : leave'[c] = "over"
    BY <1>1 DEF Kept
  <1>3. ZeroMeansLeft'
    BY <1>1 DEF Accounted, Kept, ZeroMeansLeft
  <1> QED BY <1>2, <1>3 DEF Accounted

\* Every step keeps Accounted.
LEMMA AccountedStep ==
  ASSUME LifeTypeOK, Accounted, [LifeNext]_lifeVars
  PROVE  Accounted'
  <1>0. ProcessTypes
    BY DEF LifeTypeOK, ProcessTypes
  <1>a. Conn \subseteq Leaver /\ Main \in Leaver \ Conn
    BY LifecycleAssumption DEF Leaver
  <1>1. CASE Death
    BY <1>1, <1>a DEF Death, Dies, Accounted, ZeroMeansLeft
  <1>2. CASE UNCHANGED <<run, code, serf, quit, shutdown, leave, result>>
    BY <1>2 DEF Accounted, ZeroMeansLeft
  <1>3. CASE Configure \/ Start \/ Listen \/ StartDiscoverd \/ StartupJoin \/ Flush \/ FlushDone
    <2>1. UNCHANGED <<quit, shutdown, leave, result>> /\ (serf' = "shutdown" => serf = "shutdown")
      BY <1>3 DEF Configure, Start, Listen, StartDiscoverd, StartupJoin, Flush, FlushDone,
                  agentVars, serfVars, leaveVars
    <2>2. /\ run \in {"configure", "start", "listen", "discoverd", "join", "flush", "flushing"}
          /\ \/ code' = code /\ run' \in {"start", "listen", "discoverd", "join", "flush", "flushing", "wait"}
             \/ code' = "1" /\ run' \in {"closing", "stopping", "returned"}
      BY <1>3 DEF Configure, Start, Listen, StartDiscoverd, StartupJoin, Flush, FlushDone, Goes, Returns
    <2>3. ZeroMeansLeft'
      BY <2>1, <2>2 DEF Accounted, ZeroMeansLeft
    <2> QED BY <2>1, <2>2, <2>3 DEF Accounted
  <1>4. CASE WaitEnds
    <2>1. UNCHANGED <<serf, quit, shutdown, leave, result>> /\ run = "wait" /\ run' = "closing"
          /\ (code' = "1" \/ (code' = "0" /\ shutdown))
      BY <1>4 DEF WaitEnds, Returns, serfVars, leaveVars
    <2>2. ZeroMeansLeft'
      <3> SUFFICES ASSUME shutdown, ~ quit
                   PROVE  \E c \in Conn : result[c] = "ok" \/ (leave[c] = "over" /\ result[c] = "failed")
        BY <2>1, <1>a DEF ZeroMeansLeft
      <3>1. PICK c \in Conn : leave[c] = "over"
        BY <2>1 DEF Accounted
      <3>2. result[c] \in {"ok", "failed"}
        BY <1>0, <1>a, <3>1 DEF Accounted, ProcessTypes
      <3> QED BY <3>1, <3>2
    <2> QED BY <2>1, <2>2 DEF Accounted
  <1>5. CASE LeavingEnds \/ CatchSecond
    <2>1. UNCHANGED <<serf, quit, shutdown, leave, result>> /\ run = "leaving" /\ run' = "closing"
          /\ (code' = "1" \/ (code' = "0" /\ result[Main] = "ok"))
      BY <1>5 DEF LeavingEnds, CatchSecond, GracefulDone, Returns, agentVars, serfVars, leaveVars
    <2>2. ZeroMeansLeft'
      BY <1>a, <2>1 DEF ZeroMeansLeft
    <2> QED BY <2>1, <2>2 DEF Accounted
  <1>6. CASE CatchSignal
    <2>1. UNCHANGED <<serf, quit, shutdown, result>> /\ run = "wait"
          /\ \/ run' = "leaving" /\ code' = code /\ leave' = [leave EXCEPT ![Main] = "called"]
             \/ run' = "closing" /\ code' = "1" /\ leave' = leave
      BY <1>6 DEF CatchSignal, Goes, Returns, serfVars
    <2>2. leave[Main] = "none" /\ result[Main] = "none" /\ code = "none"
      BY <2>1, <1>a DEF Accounted
    <2>3. \A c \in Conn : leave'[c] = leave[c]
      BY <1>0, <1>a, <2>1 DEF ProcessTypes
    <2>4. \A x \in Leaver : result'[x] = "none" <=> leave'[x] \in {"none", "called", "inside"}
      BY <1>0, <1>a, <2>1, <2>2 DEF Accounted, ProcessTypes
    <2>5. ZeroMeansLeft'
      BY <2>1, <2>2 DEF ZeroMeansLeft
    <2> QED BY <2>1, <2>2, <2>3, <2>4, <2>5 DEF Accounted
  <1>7. CASE CloseIPC
    BY <1>7 DEF CloseIPC, Goes, serfVars, leaveVars, Accounted, ZeroMeansLeft
  <1>8. CASE StopAgent
    BY <1>8 DEF StopAgent, Goes, AgentShutdown, leaveVars, Accounted, ZeroMeansLeft
  <1>9. CASE SerfQuits
    BY <1>9 DEF SerfQuits, processVars, leaveVars, Accounted, ZeroMeansLeft
  <1>10. CASE LoopEnds
    BY <1>10 DEF LoopEnds, AgentShutdown, processVars, leaveVars, Accounted, ZeroMeansLeft
  <1>11. CASE RetryJoin \/ RestEnds
    BY <1>2, <1>11 DEF RetryJoin, RestEnds, processVars, serfVars, leaveVars
  <1>12. ASSUME NEW x \in Leaver, LeaveCalled(x), leave[x] \in {"none", "called"},
                x = Main => leave[x] = "called", UNCHANGED <<run, code, quit, shutdown>>
         PROVE  Accounted'
    <2>1. \/ leave' = [leave EXCEPT ![x] = "inside"] /\ result' = result /\ serf' = "leaving"
          \/ \E r \in {"ok", "failed"} :
                /\ leave' = [leave EXCEPT ![x] = "back"] /\ result' = [result EXCEPT ![x] = r]
                /\ serf' = serf
      BY <1>12 DEF LeaveCalled
    <2>2. result[x] = "none"
      BY <1>12 DEF Accounted
    <2>3. Kept
      BY <1>0, <1>12, <2>1, <2>2 DEF Kept, ProcessTypes
    <2>4. \A y \in Leaver : result'[y] = "none" <=> leave'[y] \in {"none", "called", "inside"}
      BY <1>0, <2>1, <2>2 DEF Accounted, ProcessTypes
    <2>5. leave[Main] = "none" => leave'[Main] = "none"
      BY <1>0, <1>a, <1>12, <2>1 DEF ProcessTypes
    <2> QED BY <1>0, <1>12, <2>1, <2>3, <2>4, <2>5, AccountedRest
  <1>13. CASE GracefulLeave
    BY <1>12, <1>13, <1>a DEF GracefulLeave, processVars
  <1>14. ASSUME NEW c \in Conn, handleLeave(c)
         PROVE  Accounted'
    BY <1>12, <1>14, <1>a DEF handleLeave, processVars
  <1>15. ASSUME NEW x \in Leaver, LeaveReturns(x)
         PROVE  Accounted'
    <2>1. /\ leave[x] = "inside" /\ leave' = [leave EXCEPT ![x] = "back"]
          /\ \E r \in {"ok", "failed"} : result' = [result EXCEPT ![x] = r]
          /\ serf' = "shutdown" => serf = "shutdown"
          /\ UNCHANGED <<run, code, quit, shutdown>>
      BY <1>15 DEF LeaveReturns, processVars
    <2>2. result[x] = "none"
      BY <2>1 DEF Accounted
    <2>3. Kept
      BY <1>0, <2>1, <2>2 DEF Kept, ProcessTypes
    <2>4. \A y \in Leaver : result'[y] = "none" <=> leave'[y] \in {"none", "called", "inside"}
      BY <1>0, <2>1, <2>2 DEF Accounted, ProcessTypes
    <2>5. leave[Main] = "none" => leave'[Main] = "none"
      BY <1>0, <1>a, <2>1 DEF ProcessTypes
    <2> QED BY <1>0, <2>1, <2>3, <2>4, <2>5, AccountedRest
  <1>16. ASSUME NEW c \in Conn, LeaveTold(c)
         PROVE  Accounted'
    <2>1. /\ leave[c] = "back" /\ leave' = [leave EXCEPT ![c] = "told"] /\ result' = result
          /\ UNCHANGED <<run, code, quit, shutdown, serf>>
      BY <1>16 DEF LeaveTold, processVars, serfVars
    <2>2. Kept /\ leave'[Main] = leave[Main]
      BY <1>0, <1>a, <2>1 DEF Kept, ProcessTypes
    <2>3. \A y \in Leaver : result'[y] = "none" <=> leave'[y] \in {"none", "called", "inside"}
      BY <1>0, <1>a, <2>1 DEF Accounted, ProcessTypes
    <2> QED BY <1>0, <2>1, <2>2, <2>3, AccountedRest
  <1>17. ASSUME NEW c \in Conn, LeaveEnds(c)
         PROVE  Accounted'
    <2>1. /\ leave[c] = "told" /\ leave' = [leave EXCEPT ![c] = "over"] /\ result' = result
          /\ UNCHANGED <<run, code, quit>> /\ shutdown'
      BY <1>17 DEF LeaveEnds, AgentShutdown, processVars
    <2>2. leave'[c] = "over" /\ leave'[Main] = leave[Main]
      BY <1>0, <1>a, <2>1 DEF ProcessTypes
    <2>3. \A y \in Leaver : result'[y] = "none" <=> leave'[y] \in {"none", "called", "inside"}
      BY <1>0, <1>a, <2>1 DEF Accounted, ProcessTypes
    <2>4. ZeroMeansLeft'
      BY <1>0, <1>a, <2>1 DEF Accounted, ZeroMeansLeft, ProcessTypes
    <2> QED BY <2>1, <2>2, <2>3, <2>4 DEF Accounted
  <1>18. CASE UNCHANGED <<processVars, agentVars>>
    BY <1>2, <1>18 DEF processVars, agentVars, serfVars, leaveVars
  <1> QED
    BY <1>1, <1>3, <1>4, <1>5, <1>6, <1>7, <1>8, <1>9, <1>10, <1>11, <1>13, <1>14, <1>15,
       <1>16, <1>17, <1>18, Steps
    DEF lifeVars

-----------------------------------------------------------------------------
\* The inductive invariant of the process.
LifeInv == LifeTypeOK /\ Entered /\ Served /\ GateInv /\ Accounted

\* It holds at the start ...
LEMMA LifeInvInit == LifeInit => LifeInv
  <1> SUFFICES ASSUME LifeInit PROVE LifeInv
    OBVIOUS
  <1>0. Conn \subseteq Leaver /\ Main \in Leaver
    BY DEF Leaver
  <1>1. TypeOK /\ Entered
    BY DEF LifeInit, Init, TypeOK, Entered
  <1>2. <<>> \in Seq(Logger)
    OBVIOUS
  <1>3. GateInv
    BY <1>2 DEF LifeInit, GateInit, GateInv, GateTypeOK, LinesKept, Idle
  <1>4. ProcessTypes
    <2>1. run \in Stage /\ attempt \in 0..RetryMaxAttempts + 1 /\ ~ attempt > RetryMaxAttempts
      BY LifecycleAssumption DEF LifeInit, Stage
    <2>2. quit \in BOOLEAN /\ shutdown \in BOOLEAN
      BY DEF LifeInit
    <2> QED BY <2>1, <2>2 DEF LifeInit, ProcessTypes
  <1>5. Served
    BY <1>0 DEF LifeInit, Served
  <1>6. Accounted
    BY <1>0 DEF LifeInit, Accounted, ZeroMeansLeft
  <1> QED BY <1>1, <1>3, <1>4, <1>5, <1>6 DEF LifeInv, LifeTypeOK, ProcessTypes, GateInv

\* ... and every step keeps it.
LEMMA LifeInvStep == LifeInv /\ [LifeNext]_lifeVars => LifeInv'
  <1> SUFFICES ASSUME LifeInv, [LifeNext]_lifeVars PROVE LifeInv'
    OBVIOUS
  <1> USE DEF LifeInv
  <1>1. [Next]_vars \/ Init'
    BY RPCMoves
  <1>2. TypeOK' /\ Entered'
    <2>1. CASE [Next]_vars
      BY <2>1, TypeStep, EnteredStep DEF LifeTypeOK
    <2>2. CASE Init'
      BY <2>2 DEF Init, TypeOK, Entered
    <2> QED BY <1>1, <2>1, <2>2
  <1>3. GateInv'
    BY GateMoves, GateStep
  <1>4. ProcessTypes'
    BY ProcessTypesStep
  <1>5. Served' /\ Accounted'
    BY ServedStep, AccountedStep
  <1> QED BY <1>2, <1>3, <1>4, <1>5 DEF LifeTypeOK, ProcessTypes, GateInv

\* Every part of the process is in one of its states; with any limit that is
\* set, joins are given up exactly at the failure beyond it, the one that the
\* limit was to exclude included (command.go:489-494, config.go:187).
THEOREM LifeTypeCorrect == LifeSpec => []LifeTypeOK
  BY LifeInvInit, LifeInvStep, PTL DEF LifeSpec, LifeInv

\* Run returns 0 only for an agent that has left or that serf has stopped, or
\* after a client's leave that failed and was told so (command.go:640-657).
THEOREM ZeroOnlyAfterLeave == LifeSpec => []ZeroMeansLeft
  <1>1. LifeInv => ZeroMeansLeft
    BY DEF LifeInv, Accounted
  <1> QED BY <1>1, LifeInvInit, LifeInvStep, PTL DEF LifeSpec

\* The agent is only shut down for a client that has its answer, or is gone
\* (ipc.go:955-960).
THEOREM AnswerFirst == LifeSpec => []AnsweredBeforeDown
  <1>1. LifeInv => AnsweredBeforeDown
    BY DEF LifeInv, Accounted, Served, AnsweredBeforeDown
  <1> QED BY <1>1, LifeInvInit, LifeInvStep, PTL DEF LifeSpec

\* The gate loses no line unless two appends overlap (gated_writer.go:21-41).
THEOREM GateKeepsLines == LifeSpec => []LinesKept
  <1>1. LifeInv => LinesKept
    BY DEF LifeInv, GateInv
  <1> QED BY <1>1, LifeInvInit, LifeInvStep, PTL DEF LifeSpec

\* The table of clients has no entry of a connection that is over, also when
\* leaves, the shutdown and the end of the process interfere (ipc.go:422-443).
THEOREM TableCleanInProcess == LifeSpec => []NoStaleClients
  <1>1. LifeInv => NoStaleClients
    BY DEF LifeInv, Entered, NoStaleClients
  <1> QED BY <1>1, LifeInvInit, LifeInvStep, PTL DEF LifeSpec

=============================================================================
