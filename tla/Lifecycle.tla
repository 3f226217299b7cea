----------------------------- MODULE Lifecycle -----------------------------
(***************************************************************************)
(* The life of an agent process (command/agent/command.go and agent.go),   *)
(* composed with the connections of its RPC server (module AgentIPC) and   *)
(* the gate of its log (GatedWriter): Run starts the parts one after the   *)
(* other, handleSignals waits for a reason to end, and the deferred calls  *)
(* shut the RPC server and the agent down.                                 *)
(*                                                                         *)
(* Goroutines beside Run: the event loop, retryJoin, the graceful leave,   *)
(* the REST server, one per connection, and those that log.  Each of them  *)
(* may end the agent or the process while Run is anywhere.                 *)
(*                                                                         *)
(* Serf, the kernel's signals and the HTTP server are modelled from how    *)
(* the code uses them.  serf.Shutdown succeeds, and serf may quit by       *)
(* itself (it lost a name conflict).  Whether an interrupt or a            *)
(* termination is graceful depends on settings that a reload may change:   *)
(* both are possible for both.  What else a reload does is in Reload.      *)
(***************************************************************************)
EXTENDS AgentIPC, GatedWriter

CONSTANTS
    Main,              \* the goroutine of the graceful leave
    RetryMaxAttempts   \* 0 for no limit

ASSUME LifecycleAssumption ==
    Main \notin Conn /\ RetryMaxAttempts \in Nat

VARIABLES
    run,       \* what Run is about to do
    code,      \* what Run is to return
    status,    \* exit status of the process
    serf,      \* state of serf
    quit,      \* serf shut down by itself (history)
    shutdown,  \* agent.shutdown, and shutdownCh is closed
    loop,      \* the event loop
    rest,      \* the goroutine of the REST server
    retry,     \* the goroutine of retryJoin
    attempt,   \* its failed attempts
    leave,     \* leave[x]: how far the agent.Leave called by x is
    result,    \* result[x]: what it returned
    answered   \* connections that got the answer to their leave

processVars == <<run, code, status>>
serfVars == <<serf, quit, shutdown, loop>>
leaveVars == <<leave, result, answered>>
otherVars == <<rest, retry, attempt>>
agentVars == <<serfVars, leaveVars, otherVars>>
lifeVars == <<vars, gateVars, processVars, agentVars>>

\* Those that may call agent.Leave.
Leaver == Conn \cup {Main}

Stage == {"configure", "start", "listen", "discoverd", "join", "flush", "flushing",
          "wait", "leaving", "closing", "stopping", "returned"}

\* Every part is in one of its states; the joins have been given up at the
\* first failure beyond the limit (command.go:489-494).
LifeTypeOK ==
    /\ TypeOK /\ GateTypeOK
    /\ run \in Stage
    /\ code \in {"none", "0", "1"}
    /\ status \in {"none", "0", "1", "killed", "panic"}
    /\ serf \in {"none", "alive", "leaving", "left", "shutdown"}
    /\ quit \in BOOLEAN /\ shutdown \in BOOLEAN
    /\ loop \in {"none", "running", "ended"}
    /\ rest \in {"none", "serving", "closing", "closed"}
    /\ retry \in {"over", "trying", "gaveup"}
    /\ attempt \in 0..RetryMaxAttempts + 1
    /\ attempt > RetryMaxAttempts <=> retry = "gaveup"
    /\ leave \in [Leaver -> {"none", "called", "inside", "back", "told", "over"}]
    /\ result \in [Leaver -> {"none", "ok", "failed"}]
    /\ answered \subseteq Conn

LifeInit ==
    /\ Init /\ GateInit
    /\ run = "configure" /\ code = "none" /\ status = "none"
    /\ serf = "none" /\ quit = FALSE /\ shutdown = FALSE /\ loop = "none"
    /\ rest = "none" /\ retry = "over" /\ attempt = 0
    /\ leave = [x \in Leaver |-> "none"]
    /\ result = [x \in Leaver |-> "none"]
    /\ answered = {}

Alive == status = "none"

\* Run goes on, or is to return what it says by way of the deferred calls.
Goes(stage) == run' = stage /\ UNCHANGED <<code, status>>
Returns(stage, c) == run' = stage /\ code' = c /\ UNCHANGED status

\* handleSignals has made its choice: nobody looks at the retries any more.
Chosen == retry' = "over" /\ attempt' = 0 /\ UNCHANGED rest

-----------------------------------------------------------------------------
\* Run, up to the start: readConfig, setupLoggers, a metrics sink or
\* setupAgent fails, and nothing was deferred yet.
Configure ==
    /\ run = "configure"
    /\ Goes("start") \/ Returns("returned", "1")
    /\ UNCHANGED <<vars, gateVars, agentVars>>

\* startAgent: agent.Start makes serf and starts the event loop ...
Start ==
    /\ run = "start"
    /\ \/ /\ Goes("listen")
          /\ serf' = "alive" /\ loop' = "running"
       \/ /\ Returns("stopping", "1")
          /\ UNCHANGED <<serf, loop>>
    /\ UNCHANGED <<vars, gateVars, quit, shutdown, leaveVars, otherVars>>

\* ... then come the mDNS agent and the RPC server, which accepts from then on;
\* without them only agent.Shutdown is deferred ...
Listen ==
    /\ run = "listen"
    /\ Goes("discoverd") \/ Returns("stopping", "1")
    /\ UNCHANGED <<vars, gateVars, agentVars>>

\* ... and discoverd.Create starts the REST server; SetDiscoverd.
StartDiscoverd ==
    /\ run = "discoverd"
    /\ Goes("join")
    /\ rest' = "serving"
    /\ UNCHANGED <<vars, gateVars, serfVars, leaveVars, retry, attempt>>

\* startupJoin
StartupJoin ==
    /\ run = "join"
    /\ \/ Goes("flush") /\ UNCHANGED gateVars
       \/ Returns("closing", "1") /\ AbandonGate
    /\ UNCHANGED <<vars, agentVars>>

\* logGate.Flush, in two steps; then go retryJoin, if it has nodes to join.
Flush ==
    /\ run = "flush"
    /\ OpenGate
    /\ Goes("flushing")
    /\ UNCHANGED <<vars, agentVars>>

FlushDone ==
    /\ run = "flushing"
    /\ DrainGate
    /\ Goes("wait")
    /\ retry' \in {"over", "trying"} /\ attempt' = 0
    /\ UNCHANGED <<vars, serfVars, leaveVars, rest>>

-----------------------------------------------------------------------------
\* What agent.Shutdown does, under its lock; a second call does nothing.
AgentShutdown ==
    /\ shutdown' = TRUE
    /\ serf' = IF serf = "none" THEN "none" ELSE "shutdown"
    /\ UNCHANGED quit

\* The first select of handleSignals takes any case that is ready: an interrupt
\* or a termination, from the kernel or on ShutdownCh, starts a graceful leave
\* in a goroutine and waits for it, or returns at once.  (SIGHUP reloads and
\* waits again, see Reload.) ...
CatchSignal ==
    /\ run = "wait"
    /\ Chosen
    /\ \/ Goes("leaving") /\ leave' = [leave EXCEPT ![Main] = "called"]
       \/ Returns("closing", "1") /\ UNCHANGED leave
    /\ UNCHANGED <<vars, gateVars, serfVars, result, answered>>

\* ... the end of the REST server or of the retries, or of the agent.
WaitEnds ==
    /\ run = "wait"
    /\ \/ (rest = "closed" \/ retry = "gaveup") /\ Returns("closing", "1")
       \/ shutdown /\ Returns("closing", "0")
    /\ Chosen
    /\ UNCHANGED <<vars, gateVars, serfVars, leaveVars>>

\* Mutant of GracefulDone: the channel is closed on an error too.
GracefulDoneAlways == leave[Main] = "back"

\* gracefulCh is closed when Leave has returned without an error.
GracefulDone == leave[Main] = "back" /\ result[Main] = "ok"

\* The second select: another signal ...
CatchSecond ==
    /\ run = "leaving"
    /\ Returns("closing", "1")
    /\ UNCHANGED <<vars, gateVars, agentVars>>

\* Mutant of LeavingEnds: no time limit.
LeavingEndsUntimed ==
    /\ run = "leaving"
    /\ GracefulDone /\ Returns("closing", "0")
    /\ UNCHANGED <<vars, gateVars, agentVars>>

\* ... the time limit, or the end of the leave.  It looks neither at ShutdownCh
\* nor at the end of the agent.
LeavingEnds ==
    /\ run = "leaving"
    /\ \/ Returns("closing", "1")
       \/ GracefulDone /\ Returns("closing", "0")
    /\ UNCHANGED <<vars, gateVars, agentVars>>

\* Deferred: ipc.Shutdown, which ends by closing the REST server ...
CloseIPC ==
    /\ run = "closing"
    /\ Shutdown
    /\ rest' = IF rest = "serving" THEN "closing" ELSE rest
    /\ Goes("stopping")
    /\ UNCHANGED <<gateVars, serfVars, leaveVars, retry, attempt>>

\* ... and agent.Shutdown.
StopAgent ==
    /\ run = "stopping"
    /\ AgentShutdown
    /\ Goes("returned")
    /\ UNCHANGED <<vars, gateVars, loop, leaveVars, otherVars>>

RunStep == \/ Configure \/ Start \/ Listen \/ StartDiscoverd \/ StartupJoin
           \/ Flush \/ FlushDone \/ WaitEnds \/ LeavingEnds
           \/ CloseIPC \/ StopAgent

-----------------------------------------------------------------------------
\* serf shuts down by itself.
SerfQuits ==
    /\ serf \in {"alive", "leaving", "left"}
    /\ serf' = "shutdown" /\ quit' = TRUE
    /\ UNCHANGED <<vars, gateVars, processVars, shutdown, loop, leaveVars, otherVars>>

\* The event loop sees the end of serf, and shuts the agent down, or that of
\* the agent.
LoopEnds ==
    /\ loop = "running"
    /\ loop' = "ended"
    /\ \/ serf = "shutdown" /\ AgentShutdown
       \/ shutdown /\ UNCHANGED <<serf, quit, shutdown>>
    /\ UNCHANGED <<vars, gateVars, processVars, leaveVars, otherVars>>

\* Mutant of RetryJoin: the limit is tested before the failure is counted.
RetryJoinUnlimited ==
    /\ retry = "trying"
    /\ \/ retry' = "over" /\ attempt' = 0
       \/ /\ RetryMaxAttempts > 0
          /\ attempt' = attempt + 1
          /\ retry' = IF attempt > RetryMaxAttempts THEN "gaveup" ELSE "trying"
    /\ UNCHANGED <<vars, gateVars, processVars, serfVars, leaveVars, rest>>

\* retryJoin: one attempt; when it fails it is counted, and then compared with
\* the limit, if there is one.
RetryJoin ==
    /\ retry = "trying"
    /\ \/ retry' = "over" /\ attempt' = 0
       \/ /\ RetryMaxAttempts > 0
          /\ attempt' = attempt + 1
          /\ retry' = IF attempt' > RetryMaxAttempts THEN "gaveup" ELSE "trying"
    /\ UNCHANGED <<vars, gateVars, processVars, serfVars, leaveVars, rest>>

\* ListenAndServe of the REST server returns, by itself (the address is in
\* use) or because it was closed; shutdownCh is closed.
RestEnds ==
    /\ rest \in {"serving", "closing"}
    /\ rest' = "closed"
    /\ UNCHANGED <<vars, gateVars, processVars, serfVars, leaveVars, retry, attempt>>

\* agent.Leave calls serf.Leave, which refuses if serf is leaving or shut down.
LeaveCalled(x) ==
    CASE serf = "alive" -> /\ leave' = [leave EXCEPT ![x] = "inside"]
                           /\ serf' = "leaving"
                           /\ UNCHANGED result
      [] serf # "alive" -> /\ leave' = [leave EXCEPT ![x] = "back"]
                           /\ result' = [result EXCEPT ![x] = IF serf = "left" THEN "ok" ELSE "failed"]
                           /\ UNCHANGED serf

\* The goroutine of the graceful leave.
GracefulLeave ==
    /\ leave[Main] = "called"
    /\ LeaveCalled(Main)
    /\ UNCHANGED <<vars, gateVars, processVars, quit, shutdown, loop, answered, otherVars>>

\* handleLeave of a client.
handleLeave(c) ==
    /\ task[c] = "serve" /\ conn[c] = "open" /\ leave[c] = "none"
    /\ LeaveCalled(c)
    /\ UNCHANGED <<vars, gateVars, processVars, quit, shutdown, loop, answered, otherVars>>

\* serf.Leave returns: the others know, or the broadcast failed.
LeaveReturns(x) ==
    /\ leave[x] = "inside"
    /\ leave' = [leave EXCEPT ![x] = "back"]
    /\ \/ /\ result' = [result EXCEPT ![x] = "ok"]
          /\ serf' = IF serf = "shutdown" THEN serf ELSE "left"
       \/ /\ result' = [result EXCEPT ![x] = "failed"]
          /\ UNCHANGED serf
    /\ UNCHANGED <<vars, gateVars, processVars, quit, shutdown, loop, answered, otherVars>>

\* Mutant of LeaveTold: the agent is shut down before the answer is sent.
LeaveToldLate(c) ==
    /\ leave[c] = "back"
    /\ leave' = [leave EXCEPT ![c] = "told"]
    /\ AgentShutdown
    /\ UNCHANGED <<vars, gateVars, processVars, loop, result, answered, otherVars>>

\* handleLeave sends the answer, for which the connection must still be there ...
LeaveTold(c) ==
    /\ leave[c] = "back"
    /\ leave' = [leave EXCEPT ![c] = "told"]
    /\ answered' = IF conn[c] = "open" THEN answered \cup {c} ELSE answered
    /\ UNCHANGED <<vars, gateVars, processVars, serfVars, result, otherVars>>

\* ... shuts the agent down in any case, and fails if it could not answer.
LeaveEnds(c) ==
    /\ leave[c] = "told"
    /\ leave' = [leave EXCEPT ![c] = "over"]
    /\ AgentShutdown
    /\ IF c \in answered
       THEN UNCHANGED vars
       ELSE /\ conn' = [conn EXCEPT ![c] = "closed"]
            /\ task' = [task EXCEPT ![c] = "deregister"]
            /\ UNCHANGED <<stop, accepted, clients>>
    /\ UNCHANGED <<gateVars, processVars, loop, result, answered, otherVars>>

-----------------------------------------------------------------------------
\* The RPC server accepts from NewAgentIPC on.
Listening == run \in {"discoverd", "join", "flush", "flushing", "wait", "leaving", "closing"}

\* A connection and its goroutine, when it is not in handleLeave.
Unoccupied(c) == leave[c] \in {"none", "over"}

RPCStep(c) == \/ Listening /\ Accept(c)
              \/ Reset(c)
              \/ Unoccupied(c) /\ RequestFails(c)

\* What the server's goroutines do of themselves.
RPCGoes == Register \/ \E c \in Conn : \/ Unoccupied(c) /\ ReadFails(c)
                                       \/ deregisterClient(c)

\* The process ends with a status: its memory is gone and its sockets are
\* closed, for which all goes back to what it was before the start.
Dies(s) ==
    /\ status' = s
    /\ stop' = FALSE /\ accepted' = NoConn
    /\ conn' = [c \in Conn |-> "none"] /\ task' = [c \in Conn |-> "none"]
    /\ clients' = [n \in Name |-> NoConn]
    /\ gate' = "closed" /\ buf' = <<>> /\ due' = {} /\ overlapped' = FALSE
    /\ writing' = [g \in Logger |-> NotWriting]
    /\ run' = "configure" /\ code' = "none"
    /\ serf' = "none" /\ quit' = FALSE /\ shutdown' = FALSE /\ loop' = "none"
    /\ rest' = "none" /\ retry' = "over" /\ attempt' = 0
    /\ leave' = [x \in Leaver |-> "none"] /\ result' = [x \in Leaver |-> "none"]
    /\ answered' = {}

\* main passes on what Run returned.
Exit == run = "returned" /\ Dies(code)

\* The REST server's goroutine calls Fatalf as soon as its server has ended,
\* whatever Run is at.
RestFatal == rest = "closed" /\ Dies("1")

\* A request for the routers meets no repository yet (ipc.go:1068, 1077, 1087).
EarlyRequest(c) ==
    /\ run = "discoverd" /\ task[c] = "serve" /\ conn[c] = "open" /\ Unoccupied(c)
    /\ Dies("panic")

\* A signal before signal.Notify.
Killed ==
    /\ run \in {"configure", "start", "listen", "discoverd", "join", "flush", "flushing"}
    /\ Dies("killed")

-----------------------------------------------------------------------------
Leaves == \/ GracefulLeave
          \/ \E x \in Leaver : LeaveReturns(x)
          \/ \E c \in Conn : LeaveTold(c) \/ LeaveEnds(c)

\* A goroutine goes on with what it has begun.
Progress ==
    \/ RunStep \/ LoopEnds \/ Leaves
    \/ RPCGoes /\ UNCHANGED <<gateVars, processVars, agentVars>>
    \/ (\E g \in Logger : Appended(g)) /\ UNCHANGED <<vars, processVars, agentVars>>

\* Something comes from outside, or a goroutine starts something.
Event ==
    \/ CatchSignal \/ CatchSecond \/ Killed
    \/ SerfQuits \/ RetryJoin
    \/ RestEnds \/ RestFatal
    \/ \E c \in Conn : handleLeave(c) \/ EarlyRequest(c)
    \/ (\E c \in Conn : RPCStep(c)) /\ UNCHANGED <<gateVars, processVars, agentVars>>
    \/ (\E g \in Logger : Write(g)) /\ UNCHANGED <<vars, processVars, agentVars>>
    \/ Exit

LifeNext == Alive /\ (Progress \/ Event)

\* Some goroutine goes on as long as one can: serf.Leave and Join have time
\* limits, and so has the wait for a graceful leave.  Nothing says when main
\* exits: after Run has returned others may still take steps.
LifeFairness == WF_lifeVars(Alive /\ Progress)

LifeSpec == LifeInit /\ [][LifeNext]_lifeVars /\ LifeFairness

-----------------------------------------------------------------------------
\* Run returns 0 only for an agent that has left, by itself or for a client,
\* that serf has stopped, or whose client was to be told that its leave
\* failed: a graceful leave that fails, or is cut short by a signal or the
\* time limit, is never reported as a success (command.go:640-657).
ZeroMeansLeft ==
    code = "0" /\ ~ quit =>
        \/ \E x \in Leaver : result[x] = "ok"
        \/ \E c \in Conn : leave[c] = "over" /\ result[c] = "failed"

\* While Run has no reason of its own to end, the agent is only shut down
\* after a client that asked it to leave has its answer, or is gone: the
\* answer is never lost to the shutdown it brings about (ipc.go:955-960).
AnsweredBeforeDown ==
    shutdown /\ ~ quit /\ code = "none" =>
        \E c \in Conn : leave[c] # "none" /\ (c \in answered \/ conn[c] # "open")

\* Once there is a reason, Run returns or the process ends: serf or the agent
\* has stopped, the retries or the REST server have failed, or a graceful
\* leave has begun that may hang or fail (command.go:604-657).
Ends == (code # "none" \/ shutdown \/ serf = "shutdown" \/ retry = "gaveup"
           \/ rest = "closed" \/ run = "leaving")
        ~> (run = "returned" \/ ~ Alive)

=============================================================================
