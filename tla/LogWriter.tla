----------------------------- MODULE LogWriter -----------------------------
(***************************************************************************)
(* The log sink of the agent (command/agent/log_writer.go) and the log     *)
(* monitors of RPC clients it feeds (ipc_log_stream.go).  The sink keeps   *)
(* the last lines in a circular buffer and hands every line, and to a new  *)
(* handler the old ones, to the handlers while it has its lock.  A monitor *)
(* queues a line in its channel or drops it; a drop is itself logged, by a *)
(* goroutine of its own, as the sink's lock is taken.                      *)
(*                                                                         *)
(* Lines are numbered as they are written.  All of them pass the filters,  *)
(* and none is empty: every logger of the program puts a date in front.    *)
(***************************************************************************)
EXTENDS Naturals, Sequences, SequencesExt

CONSTANTS
    Monitor,   \* log monitors, each started and stopped once
    Buffer,    \* capacity of the circular buffer
    Capacity,  \* of the channel of a monitor
    MaxLines   \* bound on the lines

ASSUME LogAssumption == Buffer \in Nat \ {0} /\ Capacity \in Nat \ {0} /\ MaxLines \in Nat

VARIABLES
    logs, index,  \* the circular buffer; 0 where nothing was written
    written,      \* number of the latest line
    handlers,
    handing,      \* what the holder of the lock has yet to hand over
    logCh,        \* logCh[m]: lines in the channel of m
    state,        \* state[m]: "new", "open", "deregistered" or "stopped"
    received,     \* received[m]: lines the client of m has got
    dropped,      \* dropped[m]: lines that found the channel full
    warnings,     \* goroutines about to log a drop or a failed send
    serving,      \* monitors whose goroutine has not given up
    since         \* since[m]: number of lines when m was registered

vars == <<logs, index, written, handlers, handing, logCh, state, received, dropped, warnings, serving, since>>

TypeOK ==
    /\ logs \in [0..Buffer - 1 -> 0..MaxLines] /\ index \in 0..Buffer - 1
    /\ written \in 0..MaxLines
    /\ handlers \subseteq Monitor
    /\ handing \in Seq([to : Monitor, line : 1..MaxLines])
    /\ logCh \in [Monitor -> Seq(1..MaxLines)]
    /\ \A m \in Monitor : Len(logCh[m]) <= Capacity
    /\ state \in [Monitor -> {"new", "open", "deregistered", "stopped"}]
    /\ received \in [Monitor -> Seq(1..MaxLines)]
    /\ dropped \in [Monitor -> SUBSET (1..MaxLines)]
    /\ warnings \in Nat
    /\ serving \subseteq Monitor
    /\ since \in [Monitor -> 0..MaxLines]

Init ==
    /\ logs = [i \in 0..Buffer - 1 |-> 0] /\ index = 0
    /\ written = 0
    /\ handlers = {}
    /\ handing = <<>>
    /\ logCh = [m \in Monitor |-> <<>>]
    /\ state = [m \in Monitor |-> "new"]
    /\ received = [m \in Monitor |-> <<>>]
    /\ dropped = [m \in Monitor |-> {}]
    /\ warnings = 0
    /\ serving = Monitor
    /\ since = [m \in Monitor |-> 0]

Unlocked == handing = <<>>

-----------------------------------------------------------------------------
\* The line goes into the buffer and, in any order, to all handlers.
write ==
    /\ Unlocked
    /\ written < MaxLines
    /\ written' = written + 1
    /\ logs' = [logs EXCEPT ![index] = written + 1]
    /\ index' = (index + 1) % Buffer
    /\ \E order \in SetToSeqs(handlers) :
          handing' = [i \in DOMAIN order |-> [to |-> order[i], line |-> written + 1]]
    /\ UNCHANGED <<handlers, logCh, state, received, dropped, serving, since>>

Write == write /\ UNCHANGED warnings

\* The goroutine that logs a drop, or a failed send.
WriteWarning == warnings > 0 /\ write /\ warnings' = warnings - 1

\* Mutant of OldLogs: the buffer is read from its start.
OldLogsUnrotated ==
    LET used == {i \in 0..Buffer - 1 : logs[i] # 0}
    IN  [i \in 1..Cardinality(used) |-> logs[i - 1]]

\* The old lines: if the buffer has wrapped, first what follows the index.
OldLogs == (IF logs[index] # 0 THEN [i \in 1..Buffer - index |-> logs[index + i - 1]] ELSE <<>>)
           \o [i \in 1..index |-> logs[i - 1]]

RegisterHandler(m) ==
    /\ Unlocked
    /\ state[m] = "new"
    /\ state' = [state EXCEPT ![m] = "open"]
    /\ handlers' = handlers \cup {m}
    /\ handing' = [i \in DOMAIN OldLogs |-> [to |-> m, line |-> OldLogs[i]]]
    /\ since' = [since EXCEPT ![m] = written]
    /\ UNCHANGED <<logs, index, written, logCh, received, dropped, warnings, serving>>

\* Mutant of DeregisterHandler: the lock is not taken.
DeregisterHandlerUnlocked(m) ==
    /\ state[m] = "open"
    /\ state' = [state EXCEPT ![m] = "deregistered"]
    /\ handlers' = handlers \ {m}
    /\ UNCHANGED <<logs, index, written, handing, logCh, received, dropped, warnings, serving, since>>

DeregisterHandler(m) ==
    /\ Unlocked
    /\ state[m] = "open"
    /\ state' = [state EXCEPT ![m] = "deregistered"]
    /\ handlers' = handlers \ {m}
    /\ UNCHANGED <<logs, index, written, handing, logCh, received, dropped, warnings, serving, since>>

\* The channel is closed, without the lock of the sink.
Stop(m) ==
    /\ state[m] = "deregistered"
    /\ state' = [state EXCEPT ![m] = "stopped"]
    /\ UNCHANGED <<logs, index, written, handlers, handing, logCh, received, dropped, warnings, serving, since>>

\* Mutant of HandleLog: the channel is not bounded.
HandleLogUnbounded ==
    /\ ~ Unlocked
    /\ logCh' = [logCh EXCEPT ![Head(handing).to] = Append(@, Head(handing).line)]
    /\ handing' = Tail(handing)
    /\ UNCHANGED <<logs, index, written, handlers, state, received, dropped, warnings, serving, since>>

\* The holder of the lock hands over one line, with a send that does not wait.
HandleLog ==
    /\ ~ Unlocked
    /\ LET m == Head(handing).to
           l == Head(handing).line
       IN  IF Len(logCh[m]) < Capacity
           THEN /\ logCh' = [logCh EXCEPT ![m] = Append(@, l)]
                /\ UNCHANGED <<dropped, warnings>>
           ELSE /\ dropped' = [dropped EXCEPT ![m] = @ \cup {l}]
                /\ warnings' = warnings + 1
                /\ UNCHANGED logCh
    /\ handing' = Tail(handing)
    /\ UNCHANGED <<logs, index, written, handlers, state, received, serving, since>>

\* The goroutine of the monitor sends a line, also after Stop.
stream(m) ==
    /\ m \in serving
    /\ logCh[m] # <<>>
    /\ received' = [received EXCEPT ![m] = Append(@, Head(logCh[m]))]
    /\ logCh' = [logCh EXCEPT ![m] = Tail(@)]
    /\ UNCHANGED <<logs, index, written, handlers, handing, state, dropped, warnings, serving, since>>

\* The connection fails: the goroutine logs that and ends, and the channel
\* fills up until the monitor is stopped.
streamFails(m) ==
    /\ m \in serving
    /\ logCh[m] # <<>>
    /\ logCh' = [logCh EXCEPT ![m] = Tail(@)]
    /\ serving' = serving \ {m}
    /\ warnings' = warnings + 1
    /\ UNCHANGED <<logs, index, written, handlers, handing, state, received, dropped, since>>

Next == \/ Write \/ WriteWarning \/ HandleLog
        \/ \E m \in Monitor : RegisterHandler(m) \/ DeregisterHandler(m) \/ Stop(m)
                               \/ stream(m) \/ streamFails(m)

Spec == Init /\ [][Next]_vars

-----------------------------------------------------------------------------
Handed(m) == received[m] \o logCh[m]

HandedLines(m) == {Handed(m)[i] : i \in DOMAIN Handed(m)}

\* The lines the holder of the lock has yet to hand to m.
Waiting(m) == {handing[i].line : i \in {j \in DOMAIN handing : handing[j].to = m}}

Oldest(m) == IF since[m] < Buffer THEN 1 ELSE since[m] - Buffer + 1

\* A monitor is handed, in order, the last lines from before it started and
\* every line since, none twice and none missing but those that found its
\* channel full: at every fill of the circular buffer, and however the
\* lines written meanwhile and the start of other monitors fall.  After a
\* failed send the order still holds.
NoLineMissing ==
    \A m \in Monitor :
        /\ \A i, j \in DOMAIN Handed(m) : i < j => Handed(m)[i] < Handed(m)[j]
        /\ HandedLines(m) \cap dropped[m] = {}
        /\ state[m] = "open" /\ m \in serving =>
              HandedLines(m) \cup dropped[m] \cup Waiting(m) = Oldest(m)..written

\* "DeregisterHandler removes a LogHandler and prevents more invocations":
\* no line is on its way to a monitor whose channel is, or may by now be,
\* closed, on which a send would panic.
StoppedNotInvoked == \A i \in DOMAIN handing : state[handing[i].to] = "open"

=============================================================================
