----------------------------- MODULE GatedWriter -----------------------------
(***************************************************************************)
(* The gate that holds log lines back while the agent starts               *)
(* (command/agent/gated_writer.go).  Write appends to the buffer with only *)
(* the read lock, so that two appends may overlap: both start from the     *)
(* buffer they read, and what the second stores replaces what the first    *)
(* did.  (In Go the race may garble more than that; after an overlap no    *)
(* property looks at the lines.)                                           *)
(*                                                                         *)
(* A line is known by its logger, of which the gate holds at most one line *)
(* back (the bound of the model).  A write through the open gate changes   *)
(* nothing here.                                                           *)
(***************************************************************************)
EXTENDS Naturals, Sequences, SequencesExt

CONSTANT
    Logger   \* loggers, each with a lock of its own, that share the gate

ASSUME LoggerAssumption == "none" \notin Logger

VARIABLES
    gate,       \* "closed", "open" (flush is set), "drained" (Flush returned)
    buf,        \* lines held back
    writing,    \* writing[g]: NotWriting, or the buffer an append started from
    due,        \* lines that were logged and did not go through yet
    overlapped  \* two appends have overlapped since (history)

gateVars == <<gate, buf, writing, due, overlapped>>

\* Nothing that is a buffer of lines.
NotWriting == <<"none">>

GateTypeOK == /\ gate \in {"closed", "open", "drained"}
              /\ buf \in Seq(Logger)
              /\ writing \in [Logger -> {NotWriting} \cup Seq(Logger)]
              /\ due \subseteq Logger
              /\ overlapped \in BOOLEAN

GateInit == /\ gate = "closed"
            /\ buf = <<>>
            /\ writing = [g \in Logger |-> NotWriting]
            /\ due = {}
            /\ overlapped = FALSE

Idle(g) == writing[g] = NotWriting

\* Write takes the read lock, finds the gate closed and reads the buffer ...
Write(g) ==
    /\ gate = "closed" /\ g \notin due
    /\ due' = due \cup {g}
    /\ writing' = [writing EXCEPT ![g] = buf]
    /\ overlapped' = (overlapped \/ \E h \in Logger : ~ Idle(h))
    /\ UNCHANGED <<gate, buf>>

\* ... and stores the line after those it has read.
Appended(g) ==
    /\ ~ Idle(g)
    /\ buf' = Append(writing[g], g)
    /\ writing' = [writing EXCEPT ![g] = NotWriting]
    /\ UNCHANGED <<gate, due, overlapped>>

\* Mutant of OpenGate: the flag is set without the lock.
OpenGateUnlocked ==
    /\ gate = "closed"
    /\ gate' = "open"
    /\ UNCHANGED <<buf, writing, due, overlapped>>

\* Flush takes the lock to set the flag, and so waits for those that append.
OpenGate ==
    /\ gate = "closed"
    /\ \A g \in Logger : Idle(g)
    /\ gate' = "open"
    /\ UNCHANGED <<buf, writing, due, overlapped>>

\* Then, without the lock, it passes on the buffer it sees and drops it.  What
\* an overlap has lost is not looked for any more.
DrainGate ==
    /\ gate = "open"
    /\ gate' = "drained"
    /\ due' = IF overlapped THEN {} ELSE due \ Range(buf)
    /\ buf' = <<>>
    /\ overlapped' = FALSE
    /\ UNCHANGED writing

\* Run ends without Flush: nobody will ever look at the gate.
AbandonGate ==
    /\ gate' = "drained"
    /\ buf' = <<>> /\ due' = {}
    /\ writing' = [g \in Logger |-> NotWriting]
    /\ overlapped' = FALSE

-----------------------------------------------------------------------------
\* No line is lost: one that did not go through is held back by a gate that
\* is still to be drained, or is being stored.  Flush reads and drops the
\* buffer without the lock, but has waited for the appends that saw the gate
\* closed (gated_writer.go:21-28).  Only two appends that overlap, which the
\* read lock allows (gated_writer.go:41), lose a line.
LinesKept ==
    ~ overlapped => \A g \in due : Idle(g) => g \in Range(buf) /\ gate # "drained"

=============================================================================
