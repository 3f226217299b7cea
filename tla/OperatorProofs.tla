--------------------------- MODULE OperatorProofs ---------------------------
(***************************************************************************)
(* Proofs about what operators do with a running agent: follow its log     *)
(* (LogWriter), for any monitors, any size of the circular buffer and of   *)
(* the channels, and any number of lines; and change its log level, its    *)
(* tags and event scripts (Reload), for any clients, requests and files:   *)
(* what any number of merged configurations say, and which scripts that    *)
(* makes an event run.                                                     *)
(***************************************************************************)
EXTENDS LogWriter, Reload, CommonLemmas, FiniteSetTheorems

(* The log and its monitors: the inductive invariant. *)

\* The buffer holds the last lines, the oldest of them at the index once it
\* has wrapped.
Circular ==
    IF written < Buffer
    THEN /\ index = written
         /\ \A i \in 0..Buffer - 1 : logs[i] = IF i < index THEN i + 1 ELSE 0
    ELSE \A i \in 0..Buffer - 1 :
            logs[i] = IF i < index THEN (written - index) + (i + 1)
                                   ELSE (written - Buffer) + ((i + 1) - index)

\* Only open monitors are called, and to a new one nothing has happened.
Registered ==
    /\ IsFiniteSet(handlers)
    /\ \A m \in Monitor : /\ m \in handlers <=> state[m] = "open"
                          /\ state[m] = "new" => received[m] = <<>> /\ logCh[m] = <<>> /\ dropped[m] = {}
                          /\ since[m] <= written
    /\ \A i \in DOMAIN handing : state[handing[i].to] = "open" /\ handing[i].line <= written

\* What a monitor was handed, with what is on its way to it, is in order and
\* complete.
Account(m) ==
    /\ Ascending(Handed(m))
    /\ HandedLines(m) \cup dropped[m] \subseteq 1..written
    /\ HandedLines(m) \cap dropped[m] = {}
    /\ \A i \in DOMAIN handing : handing[i].to = m =>
          /\ \A x \in HandedLines(m) \cup dropped[m] : x < handing[i].line
          /\ \A j \in DOMAIN handing : i < j /\ handing[j].to = m => handing[i].line < handing[j].line
    /\ state[m] = "open" /\ m \in serving =>
          HandedLines(m) \cup dropped[m] \cup Waiting(m) = Oldest(m)..written

LogInv == TypeOK /\ Circular /\ Registered /\ \A m \in Monitor : Account(m)

-----------------------------------------------------------------------------
(* The circular buffer. *)

\* The next index.
LEMMA NextIndex ==
  ASSUME NEW b \in Nat \ {0}, NEW k \in 0..b - 1
  PROVE  /\ (k + 1) % b = IF k + 1 = b THEN 0 ELSE k + 1
         /\ (k + 1) % b \in 0..b - 1
  <1>1. b % b = 0
    OBVIOUS
  <1>2. \A j \in 0..b - 1 : j % b = j
    OBVIOUS
  <1> QED BY <1>1, <1>2

\* How many old lines there are.
Kept == IF written < Buffer THEN written ELSE Buffer

\* A new monitor is handed the last lines in the order they were written,
\* wherever in the buffer the oldest is.
LEMMA OldLines ==
  ASSUME TypeOK, Circular
  PROVE  /\ Kept \in 0..written
         /\ DOMAIN OldLogs = 1..Kept
         /\ \A i \in 1..Kept : OldLogs[i] = (written - Kept) + i
  <1> USE LogAssumption
  <1>1. index \in 0..Buffer - 1 /\ written \in Nat /\ Buffer \in Nat \ {0}
    BY DEF TypeOK
  <1> DEFINE tail == [i \in 1..index |-> logs[i - 1]]
             head == [i \in 1..Buffer - index |-> logs[index + i - 1]]
  <1>2. CASE written < Buffer
    <2>1. index = written /\ logs[index] = 0 /\ \A i \in 1..index : logs[i - 1] = i
      BY <1>1, <1>2 DEF Circular
    <2>2. tail \in Seq(Nat) /\ Len(tail) = index
      BY <1>1, <2>1
    <2>3. <<>> \o tail = tail
      BY <2>2, ConcatEmptySeq
    <2>4. OldLogs = tail
      BY <2>1, <2>3 DEF OldLogs
    <2>5. Kept = index
      BY <1>2, <2>1 DEF Kept
    <2> QED BY <1>1, <2>1, <2>4, <2>5
  <1>3. CASE ~ (written < Buffer)
    <2>1. \A i \in 0..Buffer - 1 :
             logs[i] = IF i < index THEN (written - index) + (i + 1)
                                    ELSE (written - Buffer) + ((i + 1) - index)
      BY <1>3 DEF Circular
    <2>2. Kept = Buffer /\ Buffer <= written
      BY <1>1, <1>3 DEF Kept
    <2>3. logs[index] # 0
      BY <1>1, <2>1, <2>2
    <2>4. /\ \A i \in 1..Buffer - index : logs[index + i - 1] = (written - Buffer) + i
          /\ \A i \in 1..index : logs[i - 1] = (written - index) + i
      BY <1>1, <2>1, <2>2
    <2>5. head \in Seq(Nat) /\ Len(head) = Buffer - index
      <3>1. \A i \in 1..Buffer - index : logs[index + i - 1] \in Nat
        BY <1>1, <2>2, <2>4
      <3>2. Buffer - index \in Nat
        BY <1>1
      <3> QED BY <3>1, <3>2
    <2>6. tail \in Seq(Nat) /\ Len(tail) = index
      <3>1. \A i \in 1..index : logs[i - 1] \in Nat
        BY <1>1, <2>2, <2>4
      <3>2. index \in Nat
        BY <1>1
      <3> QED BY <3>1, <3>2
    <2>7. OldLogs = head \o tail
      BY <2>3 DEF OldLogs
    <2>8. /\ head \o tail \in Seq(Nat) /\ Len(head \o tail) = Buffer
          /\ \A i \in 1..Buffer : (head \o tail)[i] = IF i <= Buffer - index THEN head[i] ELSE tail[i - (Buffer - index)]
      BY <1>1, <2>5, <2>6, ConcatProperties
    <2>l. /\ \A i \in 1..Buffer - index : head[i] = (written - Buffer) + i
          /\ \A i \in 1..index : tail[i] = (written - index) + i
      BY <2>4
    <2> HIDE DEF head, tail
    <2>9. DOMAIN (head \o tail) = 1..Buffer
      BY <2>8
    <2>10. ASSUME NEW i \in 1..Buffer PROVE (head \o tail)[i] = (written - Buffer) + i
      <3>1. CASE i <= Buffer - index
        <4>1. i \in 1..Buffer - index
          BY <1>1, <3>1
        <4> QED BY <2>l, <2>8, <3>1, <4>1
      <3>2. CASE ~ (i <= Buffer - index)
        <4>1. i - (Buffer - index) \in 1..index
          BY <1>1, <3>2
        <4>2. (head \o tail)[i] = (written - index) + (i - (Buffer - index))
          BY <2>l, <2>8, <3>2, <4>1
        <4> QED BY <1>1, <4>2
      <3> QED BY <3>1, <3>2
    <2> QED BY <1>1, <2>2, <2>7, <2>9, <2>10
  <1> QED BY <1>2, <1>3

\* Writing a line keeps the buffer right, also as the index wraps around.
LEMMA CircularStep ==
  ASSUME LogInv, written < MaxLines, written' = written + 1,
         logs' = [logs EXCEPT ![index] = written + 1], index' = (index + 1) % Buffer
  PROVE  Circular' /\ logs' \in [0..Buffer - 1 -> 0..MaxLines] /\ index' \in 0..Buffer - 1
  <1> USE LogAssumption
  <1>1. /\ index \in 0..Buffer - 1 /\ written \in Nat /\ Buffer \in Nat \ {0} /\ Circular
        /\ logs \in [0..Buffer - 1 -> 0..MaxLines] /\ MaxLines \in Nat
    BY DEF LogInv, TypeOK
  <1>2. index' = (IF index + 1 = Buffer THEN 0 ELSE index + 1) /\ index' \in 0..Buffer - 1
    BY <1>1, NextIndex
  <1>3. \A i \in 0..Buffer - 1 : logs'[i] = IF i = index THEN written + 1 ELSE logs[i]
    BY <1>1
  <1>4. CASE written + 1 < Buffer
    BY <1>1, <1>2, <1>3, <1>4 DEF Circular
  <1>5. CASE written + 1 = Buffer
    BY <1>1, <1>2, <1>3, <1>5 DEF Circular
  <1>6. CASE written >= Buffer
    <2>0. ~ (written < Buffer) /\ ~ (written' < Buffer)
      BY <1>1, <1>6
    <2>1. \A i \in 0..Buffer - 1 :
             logs[i] = IF i < index THEN (written - index) + (i + 1)
                                    ELSE (written - Buffer) + ((i + 1) - index)
      BY <1>1, <2>0 DEF Circular
    <2>2. ASSUME NEW i \in 0..Buffer - 1
          PROVE  logs'[i] = IF i < index' THEN (written' - index') + (i + 1)
                                          ELSE (written' - Buffer) + ((i + 1) - index')
      <3>1. CASE i = index
        <4>1. logs'[i] = written + 1
          BY <1>3, <3>1
        <4> QED BY <1>1, <1>2, <3>1, <4>1
      <3>2. CASE i < index
        <4>1. logs'[i] = (written - index) + (i + 1)
          BY <1>1, <1>3, <2>1, <3>2
        <4> QED BY <1>1, <1>2, <3>2, <4>1
      <3>3. CASE i > index
        <4>1. logs'[i] = (written - Buffer) + ((i + 1) - index)
          BY <1>1, <1>3, <2>1, <3>3
        <4>2. index' = index + 1
          BY <1>1, <1>2, <3>3
        <4> QED BY <1>1, <3>3, <4>1, <4>2
      <3> QED BY <1>1, <3>1, <3>2, <3>3
    <2>3. Circular'
      BY <2>0, <2>2 DEF Circular
    <2> QED BY <1>1, <1>2, <1>3, <2>3
  <1>7. logs' \in [0..Buffer - 1 -> 0..MaxLines]
    BY <1>1
  <1> QED BY <1>1, <1>2, <1>4, <1>5, <1>6, <1>7

-----------------------------------------------------------------------------
(* What the holder of the lock hands over. *)

Hand == [to : Monitor, line : 1..MaxLines]

\* Every handler is called with the new line, each once, in some order.
LEMMA Broadcast ==
  ASSUME IsFiniteSet(handlers), handlers \subseteq Monitor, NEW order \in SetToSeqs(handlers),
         NEW l \in 1..MaxLines, handing' = [i \in DOMAIN order |-> [to |-> order[i], line |-> l]]
  PROVE  /\ handing' \in Seq(Hand)
         /\ \A i \in DOMAIN handing' : handing'[i].to \in handlers /\ handing'[i].line = l
         /\ \A m \in handlers : \E i \in DOMAIN handing' : handing'[i].to = m
         /\ \A i, j \in DOMAIN handing' : i # j => handing'[i].to # handing'[j].to
  <1> DEFINE D == 1..Cardinality(handlers)
  <1>1. Cardinality(handlers) \in Nat
    BY FS_CardinalityType
  <1>2. order \in [D -> handlers] /\ \A i, j \in D : i # j => order[i] # order[j]
    BY DEF SetToSeqs
  <1>3. order \in Injection(D, handlers)
    BY <1>2 DEF Injection, IsInjective
  <1>4. IsFiniteSet(D) /\ Cardinality(D) = Cardinality(handlers)
    BY <1>1, FS_Interval
  <1>5. order \in Surjection(D, handlers)
    BY <1>3, <1>4, FS_Injection
  <1>6. \A m \in handlers : \E i \in D : order[i] = m
    BY <1>5 DEF Surjection
  <1>7. DOMAIN handing' = D /\ \A i \in D : handing'[i] = [to |-> order[i], line |-> l]
    BY <1>2
  <1>8. handing' \in Seq(Hand)
    <2>1. \A i \in D : [to |-> order[i], line |-> l] \in Hand
      BY <1>2 DEF Hand
    <2>2. handing' = [i \in D |-> [to |-> order[i], line |-> l]]
      BY <1>2
    <2> HIDE DEF Hand
    <2> QED BY <1>1, <2>1, <2>2
  <1> QED BY <1>2, <1>6, <1>7, <1>8

\* Handing over the first leaves the others, in their order.
LEMMA HandOver ==
  ASSUME TypeOK, handing # <<>>, handing' = Tail(handing)
  PROVE  /\ handing' \in Seq(Hand)
         /\ 1 \in DOMAIN handing /\ Head(handing) = handing[1] /\ handing[1] \in Hand
         /\ DOMAIN handing = {1} \cup {i + 1 : i \in DOMAIN handing'}
         /\ \A i \in DOMAIN handing' : i \in Nat \ {0} /\ i + 1 \in DOMAIN handing /\ handing'[i] = handing[i + 1]
  <1>1. handing \in Seq(Hand)
    BY DEF TypeOK, Hand
  <1> HIDE DEF Hand
  <1>2. /\ Head(handing) \in Hand /\ Tail(handing) \in Seq(Hand) /\ Len(Tail(handing)) = Len(handing) - 1
        /\ \A i \in 1..Len(Tail(handing)) : Tail(handing)[i] = handing[i + 1]
    BY <1>1, HeadTailProperties
  <1>3. /\ Len(handing) \in Nat \ {0} /\ DOMAIN handing = 1..Len(handing) /\ Head(handing) = handing[1]
        /\ DOMAIN handing' = 1..Len(handing')
    BY <1>1, <1>2
  <1>4. DOMAIN handing = {1} \cup {i + 1 : i \in DOMAIN handing'}
    <2>1. ASSUME NEW j \in DOMAIN handing, j # 1 PROVE \E i \in DOMAIN handing' : j = i + 1
      <3>1. j - 1 \in DOMAIN handing' /\ j = (j - 1) + 1
        BY <1>2, <1>3, <2>1
      <3> QED BY <3>1
    <2>2. \A i \in DOMAIN handing' : i + 1 \in DOMAIN handing
      BY <1>2, <1>3
    <2>3. 1 \in DOMAIN handing
      BY <1>3
    <2> QED BY <2>1, <2>2, <2>3
  <1>5. ASSUME NEW i \in DOMAIN handing'
        PROVE  i \in Nat \ {0} /\ i + 1 \in DOMAIN handing /\ handing'[i] = handing[i + 1]
    <2>1. i \in 1..Len(Tail(handing))
      BY <1>3
    <2> QED BY <1>2, <1>3, <2>1
  <1>6. handing[1] \in Hand /\ handing' \in Seq(Hand) /\ 1 \in DOMAIN handing
    BY <1>2, <1>3
  <1> QED BY <1>3, <1>4, <1>5, <1>6

\* What waits for a monitor, before and after the first is handed over.
LEMMA WaitingOver ==
  ASSUME TypeOK, handing # <<>>, handing' = Tail(handing), NEW m \in Monitor
  PROVE  Waiting(m) = Waiting(m)' \cup IF Head(handing).to = m THEN {Head(handing).line} ELSE {}
  <1>1. /\ 1 \in DOMAIN handing /\ Head(handing) = handing[1]
        /\ DOMAIN handing = {1} \cup {i + 1 : i \in DOMAIN handing'}
        /\ \A i \in DOMAIN handing' : i + 1 \in DOMAIN handing /\ handing'[i] = handing[i + 1]
    BY HandOver
  <1>2. ASSUME NEW i \in DOMAIN handing, handing[i].to = m
        PROVE  \/ i = 1 /\ Head(handing).to = m /\ handing[i].line = Head(handing).line
               \/ \E j \in DOMAIN handing' : handing'[j].to = m /\ handing'[j].line = handing[i].line
    BY <1>1, <1>2
  <1>3. ASSUME NEW j \in DOMAIN handing', handing'[j].to = m
        PROVE  \E i \in DOMAIN handing : handing[i].to = m /\ handing[i].line = handing'[j].line
    BY <1>1, <1>3
  <1> QED BY <1>1, <1>2, <1>3 DEF Waiting

\* A new monitor is handed the old lines in order, and no one else anything.
LEMMA Replay ==
  ASSUME TypeOK, Circular, NEW m \in Monitor,
         handing' = [i \in DOMAIN OldLogs |-> [to |-> m, line |-> OldLogs[i]]]
  PROVE  /\ handing' \in Seq(Hand)
         /\ \A i \in DOMAIN handing' : handing'[i].to = m /\ handing'[i].line \in 1..written
         /\ \A i, j \in DOMAIN handing' : i < j => handing'[i].line < handing'[j].line
         /\ \A l \in (written - Kept) + 1..written : \E i \in DOMAIN handing' : handing'[i].line = l
         /\ \A i \in DOMAIN handing' : handing'[i].line \in (written - Kept) + 1..written
  <1>1. /\ Kept \in 0..written /\ DOMAIN OldLogs = 1..Kept
        /\ \A i \in 1..Kept : OldLogs[i] = (written - Kept) + i
    BY OldLines
  <1>2. written \in 0..MaxLines /\ MaxLines \in Nat
    BY LogAssumption DEF TypeOK
  <1>3. DOMAIN handing' = 1..Kept /\ \A i \in 1..Kept : handing'[i].to = m /\ handing'[i].line = (written - Kept) + i
    BY <1>1
  <1>4. \A i \in 1..Kept : (written - Kept) + i \in 1..MaxLines
    BY <1>1, <1>2
  <1>5. handing' \in Seq(Hand)
    <2>1. \A i \in 1..Kept : [to |-> m, line |-> OldLogs[i]] \in Hand
      BY <1>1, <1>4 DEF Hand
    <2>2. handing' = [i \in 1..Kept |-> [to |-> m, line |-> OldLogs[i]]] /\ Kept \in Nat
      BY <1>1, <1>2
    <2> HIDE DEF Hand
    <2> QED BY <2>1, <2>2
  <1>6. ASSUME NEW l \in (written - Kept) + 1..written PROVE \E i \in DOMAIN handing' : handing'[i].line = l
    <2>1. l - (written - Kept) \in 1..Kept /\ (written - Kept) + (l - (written - Kept)) = l
      BY <1>1, <1>2
    <2> QED BY <1>3, <2>1
  <1>7. \A i \in 1..Kept : (written - Kept) + i \in (written - Kept) + 1..written
    BY <1>1, <1>2
  <1>8. \A i \in 1..Kept : (written - Kept) + i \in 1..written
    BY <1>1, <1>2
  <1>9. \A i, j \in 1..Kept : i < j => (written - Kept) + i < (written - Kept) + j
    BY <1>1, <1>2
  <1> QED BY <1>3, <1>5, <1>6, <1>7, <1>8, <1>9

-----------------------------------------------------------------------------
(* The steps. *)

\* The invariant holds before the first line.
LEMMA LogInit == Init => LogInv
  <1> SUFFICES ASSUME Init PROVE LogInv
    OBVIOUS
  <1> USE LogAssumption
  <1>1. TypeOK
    <2>1. Len(<<>>) <= Capacity /\ 0 \in 0..MaxLines /\ <<>> \in Seq(1..MaxLines) /\ 0 \in 0..Buffer - 1
      OBVIOUS
    <2>2. <<>> \in Seq(Hand)
      OBVIOUS
    <2> QED BY <2>1, <2>2 DEF Init, TypeOK, Hand
  <1>2. Circular
    BY DEF Init, Circular
  <1>3. Registered
    BY FS_EmptySet DEF Init, Registered
  <1>4. ASSUME NEW m \in Monitor PROVE Account(m)
    <2>1. Handed(m) = <<>>
      BY DEF Init, Handed
    <2>2. HandedLines(m) = {} /\ dropped[m] = {} /\ handing = <<>> /\ state[m] = "new"
      BY <2>1 DEF Init, HandedLines
    <2> QED BY <2>1, <2>2 DEF Account, Ascending
  <1> QED BY <1>1, <1>2, <1>3, <1>4 DEF LogInv

\* A line is written and given to the handlers.
LEMMA WriteStep == ASSUME LogInv, write, warnings' \in Nat PROVE LogInv'
  <1> USE LogAssumption
  <1>0. TypeOK /\ Registered /\ handing = <<>> /\ written' = written + 1 /\ written' \in 1..MaxLines
    BY DEF LogInv, TypeOK, write, Unlocked
  <1>1. PICK order \in SetToSeqs(handlers) :
           handing' = [i \in DOMAIN order |-> [to |-> order[i], line |-> written']]
    BY DEF write
  <1>2. /\ handing' \in Seq(Hand)
        /\ \A i \in DOMAIN handing' : handing'[i].to \in handlers /\ handing'[i].line = written'
        /\ \A m \in handlers : \E i \in DOMAIN handing' : handing'[i].to = m
        /\ \A i, j \in DOMAIN handing' : i # j => handing'[i].to # handing'[j].to
    <2>1. IsFiniteSet(handlers) /\ handlers \subseteq Monitor
      BY <1>0 DEF Registered, TypeOK
    <2> QED BY <1>0, <1>1, <2>1, Broadcast
  <1>3. Circular' /\ logs' \in [0..Buffer - 1 -> 0..MaxLines] /\ index' \in 0..Buffer - 1
    BY CircularStep DEF write
  <1>4. TypeOK'
    BY <1>0, <1>2, <1>3 DEF write, TypeOK, Hand
  <1>5. Registered'
    BY <1>0, <1>2 DEF Registered, write, TypeOK
  <1>6. ASSUME NEW m \in Monitor PROVE Account(m)'
    <2>1. Account(m) /\ written \in Nat /\ since[m] <= written /\ since[m] \in Nat
      BY <1>0 DEF LogInv, TypeOK, Registered
    <2>2. Handed(m)' = Handed(m) /\ HandedLines(m)' = HandedLines(m)
      BY DEF write, Handed, HandedLines
    <2>3. dropped'[m] = dropped[m] /\ state' = state /\ serving' = serving /\ Oldest(m)' = Oldest(m)
      BY DEF write, Oldest
    <2>4. Waiting(m) = {} /\ Waiting(m)' = IF m \in handlers THEN {written'} ELSE {}
      BY <1>0, <1>2 DEF Waiting
    <2>5. Oldest(m) \in 1..written + 1
      BY <2>1 DEF Oldest
    <2>6. Oldest(m)..written + 1 = (Oldest(m)..written) \cup {written + 1}
      BY <2>1, <2>5
    <2>7. state[m] = "open" /\ m \in serving =>
             HandedLines(m)' \cup dropped'[m] \cup Waiting(m)' = Oldest(m)'..written'
      BY <1>0, <2>1, <2>2, <2>3, <2>4, <2>6 DEF Account, Registered
    <2>8. HandedLines(m) \cup dropped[m] \subseteq 1..written'
      BY <1>0, <2>1 DEF Account
    <2>9. \A i \in DOMAIN handing' : handing'[i].to = m =>
             /\ \A x \in HandedLines(m) \cup dropped[m] : x < handing'[i].line
             /\ \A j \in DOMAIN handing' : i < j /\ handing'[j].to = m => handing'[i].line < handing'[j].line
      <3>1. \A x \in HandedLines(m) \cup dropped[m] : x < written'
        BY <1>0, <2>1 DEF Account
      <3>2. \A i \in DOMAIN handing' : i \in Nat
        BY <1>2
      <3> QED BY <1>2, <3>1, <3>2
    <2> QED BY <2>1, <2>2, <2>3, <2>7, <2>8, <2>9 DEF Account
  <1> QED BY <1>3, <1>4, <1>5, <1>6 DEF LogInv

\* A monitor is registered and given the old lines.
LEMMA RegisterStep == ASSUME LogInv, NEW n \in Monitor, RegisterHandler(n) PROVE LogInv'
  <1> USE LogAssumption
  <1>0. /\ TypeOK /\ Circular /\ Registered /\ handing = <<>> /\ state[n] = "new"
        /\ written' = written /\ written \in 0..MaxLines
        /\ state' = [state EXCEPT ![n] = "open"] /\ since' = [since EXCEPT ![n] = written]
        /\ handlers' = handlers \cup {n}
        /\ UNCHANGED <<logs, index, logCh, received, dropped, warnings, serving>>
    BY DEF LogInv, TypeOK, RegisterHandler, Unlocked
  <1>1. /\ handing' \in Seq(Hand)
        /\ \A i \in DOMAIN handing' : handing'[i].to = n /\ handing'[i].line \in 1..written
        /\ \A i, j \in DOMAIN handing' : i < j => handing'[i].line < handing'[j].line
        /\ \A l \in (written - Kept) + 1..written : \E i \in DOMAIN handing' : handing'[i].line = l
        /\ \A i \in DOMAIN handing' : handing'[i].line \in (written - Kept) + 1..written
    BY <1>0, Replay DEF RegisterHandler
  <1>2. TypeOK'
    BY <1>0, <1>1 DEF TypeOK, Hand
  <1>3. Circular'
    BY <1>0 DEF Circular
  <1>4. Registered'
    <2>1. IsFiniteSet(handlers')
      BY <1>0, FS_AddElement DEF Registered
    <2>2. \A i \in DOMAIN handing' : state'[handing'[i].to] = "open" /\ handing'[i].line <= written'
      BY <1>0, <1>1 DEF TypeOK
    <2> QED BY <1>0, <2>1, <2>2 DEF Registered, TypeOK
  <1>5. ASSUME NEW m \in Monitor PROVE Account(m)'
    <2>1. Account(m) /\ Handed(m)' = Handed(m) /\ HandedLines(m)' = HandedLines(m) /\ dropped'[m] = dropped[m]
      BY <1>0 DEF LogInv, Handed, HandedLines
    <2>2. CASE m # n
      <3>1. Waiting(m)' = {} /\ Waiting(m) = {}
        BY <1>0, <1>1, <2>2 DEF Waiting
      <3>2. Oldest(m)' = Oldest(m) /\ state'[m] = state[m]
        BY <1>0, <2>2 DEF Oldest, TypeOK
      <3> QED BY <1>0, <1>1, <2>1, <2>2, <3>1, <3>2 DEF Account
    <2>3. CASE m = n
      <3>1. HandedLines(m) = {} /\ dropped[m] = {}
        <4>1. received[m] = <<>> /\ logCh[m] = <<>> /\ dropped[m] = {} /\ <<>> \o <<>> = <<>>
          BY <1>0, <2>3 DEF Registered
        <4>2. Handed(m) = <<>>
          BY <4>1 DEF Handed
        <4> QED BY <4>1, <4>2 DEF HandedLines
      <3>2. Waiting(m)' = (written - Kept) + 1..written
        BY <1>1, <2>3 DEF Waiting
      <3>3. Oldest(m)' = (written - Kept) + 1
        BY <1>0, <2>3 DEF Oldest, TypeOK, Kept
      <3> QED BY <1>0, <1>1, <2>1, <2>3, <3>1, <3>2, <3>3 DEF Account
    <2> QED BY <2>2, <2>3
  <1> QED BY <1>2, <1>3, <1>4, <1>5 DEF LogInv

\* The sequences of a monitor.
LEMMA Queues ==
  ASSUME TypeOK, NEW m \in Monitor
  PROVE  /\ received[m] \in Seq(Nat) /\ logCh[m] \in Seq(Nat) /\ Handed(m) \in Seq(Nat)
         /\ HandedLines(m) = Elements(Handed(m))
  <1>1. received[m] \in Seq(1..MaxLines) /\ logCh[m] \in Seq(1..MaxLines)
    BY DEF TypeOK
  <1>2. received[m] \in Seq(Nat) /\ logCh[m] \in Seq(Nat)
    BY <1>1, Numbers, LogAssumption
  <1> QED BY <1>2 DEF Handed, HandedLines, Elements

\* A line is handed over, into the channel or dropped.
LEMMA HandleStep == ASSUME LogInv, HandleLog PROVE LogInv'
  <1> USE LogAssumption
  <1> DEFINE n == Head(handing).to
             l == Head(handing).line
  <1>0. /\ TypeOK /\ Circular /\ Registered /\ handing # <<>> /\ handing' = Tail(handing)
        /\ UNCHANGED <<logs, index, written, handlers, state, received, serving, since>>
        /\ written \in 0..MaxLines
    BY DEF LogInv, TypeOK, HandleLog, Unlocked
  <1>1. /\ handing' \in Seq(Hand)
        /\ 1 \in DOMAIN handing /\ handing[1].to = n /\ handing[1].line = l /\ handing[1] \in Hand
        /\ \A i \in DOMAIN handing' : i \in Nat \ {0} /\ i + 1 \in DOMAIN handing /\ handing'[i] = handing[i + 1]
    BY <1>0, HandOver
  <1>2. n \in Monitor /\ l \in 1..MaxLines /\ state[n] = "open" /\ l <= written
    BY <1>0, <1>1 DEF Registered, Hand
  <1>3. \/ /\ Len(logCh[n]) < Capacity
           /\ logCh' = [logCh EXCEPT ![n] = Append(@, l)] /\ UNCHANGED <<dropped, warnings>>
        \/ /\ dropped' = [dropped EXCEPT ![n] = @ \cup {l}]
           /\ warnings' = warnings + 1 /\ UNCHANGED logCh
    BY DEF HandleLog
  <1> HIDE DEF n, l
  <1>4. TypeOK'
    <2>1. CASE Len(logCh[n]) < Capacity /\ logCh' = [logCh EXCEPT ![n] = Append(@, l)] /\ UNCHANGED <<dropped, warnings>>
      <3>1. logCh[n] \in Seq(1..MaxLines) /\ Len(logCh[n]) \in Nat
        BY <1>0, <1>2 DEF TypeOK
      <3>2. Append(logCh[n], l) \in Seq(1..MaxLines) /\ Len(Append(logCh[n], l)) <= Capacity
        BY <1>2, <2>1, <3>1
      <3>3. logCh' \in [Monitor -> Seq(1..MaxLines)] /\ \A m \in Monitor : Len(logCh'[m]) <= Capacity
        BY <1>0, <2>1, <3>2 DEF TypeOK
      <3> QED BY <1>0, <1>1, <2>1, <3>3 DEF TypeOK, Hand
    <2>2. CASE dropped' = [dropped EXCEPT ![n] = @ \cup {l}] /\ warnings' = warnings + 1 /\ UNCHANGED logCh
      <3>1. dropped[n] \cup {l} \in SUBSET (1..MaxLines)
        BY <1>0, <1>2 DEF TypeOK
      <3>2. dropped' \in [Monitor -> SUBSET (1..MaxLines)]
        BY <1>0, <2>2, <3>1 DEF TypeOK
      <3>3. warnings' \in Nat /\ logCh' \in [Monitor -> Seq(1..MaxLines)] /\ \A m \in Monitor : Len(logCh'[m]) <= Capacity
        BY <1>0, <2>2 DEF TypeOK
      <3>4. handing' \in Seq([to : Monitor, line : 1..MaxLines])
        BY <1>1 DEF Hand
      <3> QED BY <1>0, <3>2, <3>3, <3>4 DEF TypeOK
    <2> QED BY <1>3, <2>1, <2>2
  <1>5. Circular'
    BY <1>0 DEF Circular
  <1>6. Registered'
    <2>1. \A m \in Monitor : state[m] = "new" => logCh'[m] = logCh[m] /\ dropped'[m] = dropped[m]
      BY <1>0, <1>2, <1>3 DEF TypeOK
    <2>2. \A i \in DOMAIN handing' : state[handing'[i].to] = "open" /\ handing'[i].line <= written
      BY <1>0, <1>1 DEF Registered
    <2> QED BY <1>0, <2>1, <2>2 DEF Registered
  <1>7. ASSUME NEW m \in Monitor PROVE Account(m)'
    <2>1. Account(m)
      BY DEF LogInv
    <2>2. Waiting(m) = Waiting(m)' \cup IF n = m THEN {l} ELSE {}
      BY <1>0, WaitingOver DEF n, l
    <2>3. \A i \in DOMAIN handing' : handing'[i].to = m =>
             /\ \A x \in HandedLines(m) \cup dropped[m] : x < handing'[i].line
             /\ n = m => l < handing'[i].line
             /\ \A j \in DOMAIN handing' : i < j /\ handing'[j].to = m => handing'[i].line < handing'[j].line
      <3> SUFFICES ASSUME NEW i \in DOMAIN handing', handing'[i].to = m
                   PROVE  /\ \A x \in HandedLines(m) \cup dropped[m] : x < handing'[i].line
                          /\ n = m => l < handing'[i].line
                          /\ \A j \in DOMAIN handing' : i < j /\ handing'[j].to = m =>
                                handing'[i].line < handing'[j].line
        OBVIOUS
      <3>1. i \in Nat \ {0} /\ i + 1 \in DOMAIN handing /\ handing'[i] = handing[i + 1] /\ 1 < i + 1
        BY <1>1
      <3>2. n = m => l < handing'[i].line
        BY <1>1, <2>1, <3>1 DEF Account
      <3>3. ASSUME NEW j \in DOMAIN handing', i < j, handing'[j].to = m PROVE handing'[i].line < handing'[j].line
        <4>1. j + 1 \in DOMAIN handing /\ handing'[j] = handing[j + 1] /\ i + 1 < j + 1
          BY <1>1, <3>1, <3>3
        <4> QED BY <2>1, <3>1, <3>3, <4>1 DEF Account
      <3> QED BY <2>1, <3>1, <3>2, <3>3 DEF Account
    <2>4. CASE m # n
      <3>1. logCh'[m] = logCh[m] /\ dropped'[m] = dropped[m]
        BY <1>0, <1>2, <1>3, <2>4 DEF TypeOK
      <3>2. Handed(m)' = Handed(m) /\ HandedLines(m)' = HandedLines(m)
        BY <1>0, <3>1 DEF Handed, HandedLines
      <3>3. Waiting(m)' = Waiting(m) /\ Oldest(m)' = Oldest(m)
        BY <1>0, <2>2, <2>4 DEF Oldest
      <3> QED BY <1>0, <2>1, <2>3, <3>1, <3>2, <3>3 DEF Account
    <2>5. CASE m = n
      <3>1. \A x \in HandedLines(m) \cup dropped[m] : x < l
        BY <1>1, <2>1, <2>5 DEF Account
      <3>2. l \in 1..written /\ l \notin HandedLines(m) \cup dropped[m]
        BY <1>0, <1>2, <3>1
      <3>3. Oldest(m)' = Oldest(m)
        BY <1>0 DEF Oldest
      <3>4. CASE logCh' = [logCh EXCEPT ![n] = Append(@, l)] /\ dropped' = dropped
        <4>1. logCh'[m] = Append(logCh[m], l)
          BY <1>0, <2>5, <3>4 DEF TypeOK
        <4>2. Handed(m)' = received[m] \o Append(logCh[m], l)
          BY <1>0, <4>1 DEF Handed
        <4>3. Handed(m)' = Append(Handed(m), l)
          <5>1. received[m] \in Seq(Nat) /\ logCh[m] \in Seq(Nat) /\ l \in Nat
            BY <1>0, <1>2, Queues
          <5>2. received[m] \o Append(logCh[m], l) = Append(received[m] \o logCh[m], l)
            BY <5>1, ConcatAppend
          <5> QED BY <4>2, <5>2 DEF Handed
        <4>4. /\ Ascending(Append(Handed(m), l))
              /\ Elements(Append(Handed(m), l)) = Elements(Handed(m)) \cup {l}
          <5>1. Handed(m) \in Seq(Nat) /\ Ascending(Handed(m)) /\ \A x \in Elements(Handed(m)) : x < l
            BY <1>0, <2>1, <3>1, Queues DEF Account
          <5> QED BY <1>2, <5>1, AppendLast
        <4>5. HandedLines(m)' = HandedLines(m) \cup {l}
          BY <1>0, <4>3, <4>4, Queues DEF HandedLines, Elements
        <4> QED BY <1>0, <2>1, <2>2, <2>3, <2>5, <3>2, <3>3, <3>4, <4>3, <4>4, <4>5 DEF Account
      <3>5. CASE dropped' = [dropped EXCEPT ![n] = @ \cup {l}] /\ logCh' = logCh
        <4>1. dropped'[m] = dropped[m] \cup {l}
          BY <1>0, <2>5, <3>5 DEF TypeOK
        <4>2. Handed(m)' = Handed(m) /\ HandedLines(m)' = HandedLines(m)
          BY <1>0, <3>5 DEF Handed, HandedLines
        <4> QED BY <1>0, <2>1, <2>2, <2>3, <2>5, <3>2, <3>3, <4>1, <4>2 DEF Account
      <3> QED BY <1>3, <3>4, <3>5
    <2> QED BY <2>4, <2>5
  <1> QED BY <1>4, <1>5, <1>6, <1>7 DEF LogInv

\* A monitor is deregistered or stopped.
LEMMA StopStep == ASSUME LogInv, NEW n \in Monitor, DeregisterHandler(n) \/ Stop(n) PROVE LogInv'
  <1>0. /\ TypeOK /\ Circular /\ Registered
        /\ UNCHANGED <<logs, index, written, handing, logCh, received, dropped, warnings, serving, since>>
    BY DEF LogInv, DeregisterHandler, Stop
  <1>1. /\ handlers' \subseteq handlers /\ IsFiniteSet(handlers')
        /\ state' \in [Monitor -> {"new", "open", "deregistered", "stopped"}]
        /\ \A m \in Monitor : state'[m] \in {"new", "open"} => state'[m] = state[m]
    <2>1. handlers' \subseteq handlers
      BY DEF DeregisterHandler, Stop
    <2>2. IsFiniteSet(handlers')
      BY <1>0, <2>1, FS_Subset DEF Registered
    <2> QED BY <1>0, <2>1, <2>2 DEF DeregisterHandler, Stop, TypeOK
  <1>2. TypeOK'
    BY <1>0, <1>1 DEF TypeOK
  <1>3. Circular'
    BY <1>0 DEF Circular
  <1>4. Registered'
    <2>1. \A i \in DOMAIN handing : handing[i].to \in Monitor
      <3>1. handing \in Seq(Hand)
        BY <1>0 DEF TypeOK, Hand
      <3>2. \A i \in DOMAIN handing : handing[i] \in Hand
        BY <3>1
      <3> QED BY <3>2 DEF Hand
    <2>2. CASE DeregisterHandler(n)
      BY <1>0, <1>1, <2>2 DEF Registered, DeregisterHandler, Unlocked, TypeOK
    <2>3. CASE Stop(n)
      <3>1. handlers' = handlers /\ state[n] = "deregistered" /\ state' = [state EXCEPT ![n] = "stopped"]
        BY <2>3 DEF Stop
      <3>2. \A m \in Monitor : state'[m] = IF m = n THEN "stopped" ELSE state[m]
        BY <1>0, <3>1 DEF TypeOK
      <3>3. \A i \in DOMAIN handing : state'[handing[i].to] = "open" /\ handing[i].line <= written
        BY <1>0, <2>1, <3>1, <3>2 DEF Registered
      <3> QED BY <1>0, <3>1, <3>2, <3>3 DEF Registered
    <2> QED BY <2>2, <2>3
  <1>5. ASSUME NEW m \in Monitor PROVE Account(m)'
    <2>1. Account(m) /\ Handed(m)' = Handed(m) /\ HandedLines(m)' = HandedLines(m)
      BY <1>0 DEF LogInv, Handed, HandedLines
    <2>2. Waiting(m)' = Waiting(m) /\ Oldest(m)' = Oldest(m)
      BY <1>0 DEF Waiting, Oldest
    <2> QED BY <1>0, <1>1, <2>1, <2>2 DEF Account
  <1> QED BY <1>2, <1>3, <1>4, <1>5 DEF LogInv

\* The goroutine of a monitor takes a line out of the channel and sends it or
\* fails to.
LEMMA StreamStep == ASSUME LogInv, NEW n \in Monitor, stream(n) \/ streamFails(n) PROVE LogInv'
  <1> USE LogAssumption
  <1>0. /\ TypeOK /\ Circular /\ Registered
        /\ UNCHANGED <<logs, index, written, handlers, handing, state, dropped, since>>
        /\ n \in serving /\ logCh[n] # <<>> /\ logCh' = [logCh EXCEPT ![n] = Tail(@)]
        /\ serving' \subseteq serving /\ warnings' \in Nat
    <2>1. TypeOK /\ warnings \in Nat
      BY DEF LogInv, TypeOK
    <2>2. CASE stream(n)
      BY <2>1, <2>2 DEF LogInv, stream
    <2>3. CASE streamFails(n)
      BY <2>1, <2>3 DEF LogInv, streamFails
    <2> QED BY <2>2, <2>3
  <1>1. /\ logCh[n] \in Seq(1..MaxLines) /\ Len(logCh[n]) <= Capacity /\ received[n] \in Seq(1..MaxLines)
        /\ Head(logCh[n]) \in 1..MaxLines /\ Tail(logCh[n]) \in Seq(1..MaxLines)
        /\ Len(Tail(logCh[n])) <= Capacity
    <2>1. /\ logCh[n] \in Seq(1..MaxLines) /\ Len(logCh[n]) <= Capacity /\ received[n] \in Seq(1..MaxLines)
      BY <1>0 DEF TypeOK
    <2>2. /\ Head(logCh[n]) \in 1..MaxLines /\ Tail(logCh[n]) \in Seq(1..MaxLines)
          /\ Len(Tail(logCh[n])) = Len(logCh[n]) - 1
      BY <1>0, <2>1, HeadTailProperties
    <2>3. Len(logCh[n]) \in Nat
      BY <2>1
    <2> QED BY <2>1, <2>2, <2>3
  <1>2. /\ received' = received \/ received' = [received EXCEPT ![n] = Append(@, Head(logCh[n]))]
        /\ received' # received => serving' = serving
        /\ received' = received => n \notin serving'
    <2>1. CASE stream(n)
      <3>1. received' = [received EXCEPT ![n] = Append(@, Head(logCh[n]))] /\ serving' = serving
        BY <2>1 DEF stream
      <3>2. received'[n] # received[n]
        <4>1. Len(Append(received[n], Head(logCh[n]))) = Len(received[n]) + 1 /\ Len(received[n]) \in Nat
          BY <1>1
        <4> QED BY <1>0, <3>1, <4>1 DEF TypeOK
      <3> QED BY <3>1, <3>2
    <2>2. CASE streamFails(n)
      BY <2>2 DEF streamFails
    <2> QED BY <2>1, <2>2
  <1>3. TypeOK'
    <2>1. logCh' \in [Monitor -> Seq(1..MaxLines)] /\ \A m \in Monitor : Len(logCh'[m]) <= Capacity
      BY <1>0, <1>1 DEF TypeOK
    <2>2. received' \in [Monitor -> Seq(1..MaxLines)]
      <3>1. Append(received[n], Head(logCh[n])) \in Seq(1..MaxLines)
        BY <1>1
      <3> QED BY <1>0, <1>2, <3>1 DEF TypeOK
    <2> QED BY <1>0, <2>1, <2>2 DEF TypeOK
  <1>4. Circular'
    BY <1>0 DEF Circular
  <1>5. Registered'
    <2>1. \A m \in Monitor : m # n => received'[m] = received[m] /\ logCh'[m] = logCh[m]
      BY <1>0, <1>2 DEF TypeOK
    <2>2. state[n] # "new"
      BY <1>0 DEF Registered
    <2> QED BY <1>0, <2>1, <2>2 DEF Registered
  <1>6. ASSUME NEW m \in Monitor PROVE Account(m)'
    <2>0. Account(m) /\ Waiting(m)' = Waiting(m) /\ Oldest(m)' = Oldest(m)
      BY <1>0 DEF LogInv, Waiting, Oldest
    <2>1. /\ received[m] \in Seq(Nat) /\ logCh[m] \in Seq(Nat) /\ Handed(m) \in Seq(Nat)
          /\ HandedLines(m) = Elements(Handed(m))
      BY <1>0, Queues
    <2>2. ASSUME Handed(m)' = Handed(m) PROVE Account(m)'
      <3>1. HandedLines(m)' = HandedLines(m)
        BY <2>2 DEF HandedLines
      <3> QED BY <1>0, <2>0, <2>2, <3>1 DEF Account
    <2>3. CASE m # n
      <3>1. Handed(m)' = Handed(m)
        BY <1>0, <1>2, <2>3 DEF Handed, TypeOK
      <3> QED BY <2>2, <3>1
    <2>4. CASE m = n /\ received' = [received EXCEPT ![n] = Append(@, Head(logCh[n]))]
      <3>1. Handed(m)' = Append(received[m], Head(logCh[m])) \o Tail(logCh[m])
        BY <1>0, <2>4 DEF Handed, TypeOK
      <3>2. Append(received[m], Head(logCh[m])) \o Tail(logCh[m]) = received[m] \o logCh[m]
        BY <1>0, <2>1, <2>4, MoveHead
      <3>3. Handed(m)' = Handed(m)
        BY <3>1, <3>2 DEF Handed
      <3> QED BY <2>2, <3>3
    <2>5. CASE m = n /\ received' = received
      <3>1. Handed(m)' = received[m] \o Tail(logCh[m])
        BY <1>0, <2>5 DEF Handed, TypeOK
      <3>2. Ascending(received[m] \o logCh[m])
        BY <2>0 DEF Account, Handed
      <3>3. /\ Ascending(received[m] \o Tail(logCh[m]))
            /\ Elements(received[m] \o Tail(logCh[m])) \subseteq Elements(received[m] \o logCh[m])
        BY <1>0, <2>1, <2>5, <3>2, DropHead
      <3>4. Ascending(Handed(m)') /\ HandedLines(m)' \subseteq HandedLines(m)
        BY <2>1, <3>1, <3>3 DEF HandedLines, Elements, Handed
      <3> QED BY <1>0, <1>2, <2>0, <2>5, <3>4 DEF Account
    <2> QED BY <1>2, <2>3, <2>4, <2>5
  <1> QED BY <1>3, <1>4, <1>5, <1>6 DEF LogInv

\* The invariant holds in every state.
LEMMA LogInvariant == Spec => []LogInv
  <1>1. ASSUME LogInv, [Next]_vars PROVE LogInv'
    <2>1. CASE Write
      <3>1. write /\ warnings' \in Nat
        BY <1>1, <2>1 DEF Write, LogInv, TypeOK
      <3> QED BY <1>1, <3>1, WriteStep
    <2>2. CASE WriteWarning
      <3>1. write /\ warnings' \in Nat
        BY <1>1, <2>2 DEF WriteWarning, LogInv, TypeOK
      <3> QED BY <1>1, <3>1, WriteStep
    <2>3. CASE UNCHANGED vars
      <3>1. \A m \in Monitor : /\ Handed(m)' = Handed(m) /\ HandedLines(m)' = HandedLines(m)
                               /\ Waiting(m)' = Waiting(m) /\ Oldest(m)' = Oldest(m)
        BY <2>3 DEF vars, Handed, HandedLines, Waiting, Oldest
      <3>2. TypeOK' /\ Circular'
        BY <1>1, <2>3 DEF vars, LogInv, TypeOK, Circular
      <3>3. Registered'
        BY <1>1, <2>3 DEF vars, LogInv, Registered
      <3>4. \A m \in Monitor : Account(m)'
        BY <1>1, <2>3, <3>1 DEF vars, LogInv, Account
      <3> QED BY <3>2, <3>3, <3>4 DEF LogInv
    <2> QED BY <1>1, <2>1, <2>2, <2>3, HandleStep, RegisterStep, StopStep, StreamStep DEF Next
  <1> QED BY <1>1, LogInit, PTL DEF Spec

-----------------------------------------------------------------------------
\* The variables keep their types; above all, the channel of a monitor never
\* holds more than its capacity (ipc_log_stream.go).
THEOREM LogTypeCorrect == Spec => []TypeOK
  <1>1. LogInv => TypeOK
    BY DEF LogInv
  <1> QED BY <1>1, LogInvariant, PTL

\* No line is on its way to a monitor that was deregistered: the sink hands
\* lines over, and DeregisterHandler waits, under the same lock.
THEOREM NoCallAfterDeregister == Spec => []StoppedNotInvoked
  <1>1. LogInv => StoppedNotInvoked
    BY DEF LogInv, Registered, StoppedNotInvoked
  <1> QED BY <1>1, LogInvariant, PTL

\* A monitor is handed the last lines before its start and all since, in
\* order, each once, but for those that found its channel full.
THEOREM MonitorsMissNothing == Spec => []NoLineMissing
  <1>1. LogInv => NoLineMissing
    BY DEF LogInv, Account, Ascending, NoLineMissing
  <1> QED BY <1>1, LogInvariant, PTL

-----------------------------------------------------------------------------
(* The log level in force. *)

\* What readConfig gives, unless it fails, is a record with these settings.
LEMMA ConfigRecord ==
  ASSUME NEW files, readConfig(files, CmdConfig) # Failed
  PROVE  \E l, t, o, r, g, h :
            readConfig(files, CmdConfig) =
               [level |-> l, ttl |-> t, leaveOnTerm |-> o, role |-> r, tags |-> g, handlers |-> h]
  <1> DEFINE all == MergeConfig(MergeConfig(DefaultConfig, ReadConfigPaths(files)), CmdConfig)
  <1>1. PICK l, t, o, r, g, h :
           all = [level |-> l, ttl |-> t, leaveOnTerm |-> o, role |-> r, tags |-> g, handlers |-> h]
    <2>1. ASSUME NEW a, NEW b
          PROVE  \E l, t, o, r, g, h :
                    MergeConfig(a, b) =
                       [level |-> l, ttl |-> t, leaveOnTerm |-> o, role |-> r, tags |-> g, handlers |-> h]
      BY DEF MergeConfig
    <2> QED BY <2>1
  <1>2. PICK tags1 : readConfig(files, CmdConfig) = [all EXCEPT !.tags = tags1]
    BY DEF readConfig
  <1> HIDE DEF all
  <1>3. readConfig(files, CmdConfig) =
           [level |-> l, ttl |-> t, leaveOnTerm |-> o, role |-> r, tags |-> tags1, handlers |-> h]
    BY <1>1, <1>2
  <1> QED BY <1>3

\* The filter of the log has the level the configuration says, and a level
\* that there is, whatever levels are asked for by reloads.
THEOREM LevelAsConfigured == ReloadSpec => []LevelInForce
  <1>1. ReloadInit => LevelInForce
    BY DEF ReloadInit, LevelInForce
  <1>2. ASSUME LevelInForce, [ReloadNext]_reloadVars PROVE LevelInForce'
    <2> USE DEF LevelInForce
    <2>1. ASSUME NEW files \in FileLists, Start(files) PROVE LevelInForce'
      <3> DEFINE conf == readConfig(files, CmdConfig)
      <3>1. /\ conf # Failed /\ ValidLevel(ToUpper(conf.level)) /\ filter' = ToUpper(conf.level)
            /\ config' = [conf EXCEPT !.tags = StartTags(conf)]
        BY <2>1 DEF Start
      <3>2. config'.level = conf.level
        BY <3>1, ConfigRecord
      <3> HIDE DEF conf
      <3> QED BY <3>1, <3>2 DEF ValidLevel
    <2>2. ASSUME NEW files \in FileLists, handleReload(files) PROVE LevelInForce'
      <3> DEFINE conf == readConfig(files, CmdConfig)
      <3>1. /\ up /\ up' = up /\ conf # Failed
            /\ config' = [conf EXCEPT !.level = newLevel(conf)]
            /\ filter' = IF ValidLevel(ToUpper(conf.level)) THEN ToUpper(conf.level) ELSE filter
        BY <2>2 DEF handleReload
      <3>2. config'.level = newLevel(conf)
        BY <3>1, ConfigRecord
      <3> HIDE DEF conf
      <3> QED BY <1>2, <3>1, <3>2 DEF newLevel
    <2>3. CASE UNCHANGED <<up, config, filter>>
      BY <1>2, <2>3
    <2>4. CASE Crash
      BY <2>4 DEF Crash
    <2>5. CASE RemoveTagsFile
      BY <1>2, <2>5 DEF RemoveTagsFile, confVars
    <2>6. ASSUME NEW c \in Client, NEW req \in Request, handleTags(c, req) PROVE LevelInForce'
      BY <1>2, <2>6 DEF handleTags, confVars
    <2>7. ASSUME NEW s \in Setter, OpenTagsFile(s) \/ WriteTagsFile(s) \/ Gossip(s) PROVE LevelInForce'
      BY <1>2, <2>7 DEF OpenTagsFile, WriteTagsFile, Gossip, confVars
    <2>8. ASSUME NEW e \in Event, HandleEvent(e) PROVE LevelInForce'
      BY <1>2, <2>8 DEF HandleEvent
    <2>9. CASE UNCHANGED reloadVars
      BY <2>3, <2>9 DEF reloadVars, confVars
    <2> QED BY <1>2, <2>1, <2>2, <2>4, <2>5, <2>6, <2>7, <2>8, <2>9 DEF ReloadNext
  <1> QED BY <1>1, <1>2, PTL DEF ReloadSpec

-----------------------------------------------------------------------------
(* Files that are merged. *)

\* What has been merged of files, for every set of their numbers.
MergesOf(files, n, g) ==
  g = [s \in SUBSET (1..n) |-> IF s = {} THEN Unset ELSE MergeConfig(g[s \ {Max(s)}], files[Max(s)])]

\* The recursion of the fold has a solution.
LEMMA MergesExist ==
  ASSUME NEW files, NEW n \in Nat
  PROVE  \E g : MergesOf(files, n, g)
  <1> DEFINE S == 1..n
             Small(k) == {s \in SUBSET S : Cardinality(s) <= k}
             Step(g, s) == IF s = {} THEN Unset ELSE MergeConfig(g[s \ {Max(s)}], files[Max(s)])
             Merges(g, D) == g = [s \in D |-> Step(g, s)]
             G == {k \in Nat : \E g : Merges(g, Small(k))}
  <1>1. ASSUME NEW s \in SUBSET S
        PROVE  /\ Cardinality(s) \in Nat /\ (Cardinality(s) = 0 <=> s = {})
               /\ s # {} => /\ s \ {Max(s)} \in SUBSET S
                            /\ Cardinality(s \ {Max(s)}) = Cardinality(s) - 1
    <2>1. IsFiniteSet(s)
      <3>1. IsFiniteSet(S)
        BY FS_Interval
      <3> HIDE DEF S
      <3> QED BY <3>1, FS_Subset
    <2>2. s # {} => Max(s) \in s
      BY LastOfSome
    <2> HIDE DEF S
    <2> QED BY <2>1, <2>2, FS_CardinalityType, FS_EmptySet, FS_RemoveElement
  <1>2. \A s \in SUBSET S : Cardinality(s) \in Nat /\ (Cardinality(s) = 0 <=> s = {})
    BY <1>1
  <1>3. 0 \in G
    <2>1. \A s \in Small(0) : s = {}
      <3> SUFFICES ASSUME NEW s \in SUBSET S, Cardinality(s) <= 0 PROVE s = {}
        OBVIOUS
      <3>1. Cardinality(s) \in Nat
        BY <1>2
      <3>2. Cardinality(s) = 0
        BY <3>1
      <3> QED BY <1>2, <3>2
    <2>2. Merges([s \in Small(0) |-> Unset], Small(0))
      BY <2>1
    <2> QED BY <2>2
  <1>4. ASSUME NEW k \in Nat, k \in G PROVE k + 1 \in G
    <2>1. PICK g : Merges(g, Small(k))
      BY <1>4
    <2> DEFINE h == [s \in Small(k + 1) |-> Step(g, s)]
    <2>2. \A s \in Small(k) : s \in Small(k + 1)
      <3> SUFFICES ASSUME NEW s \in SUBSET S, Cardinality(s) <= k PROVE Cardinality(s) <= k + 1
        OBVIOUS
      <3>1. Cardinality(s) \in Nat
        BY <1>2
      <3> QED BY <3>1
    <2>3. ASSUME NEW s \in Small(k + 1), s # {} PROVE s \ {Max(s)} \in Small(k)
      <3>1. Cardinality(s) \in Nat /\ s \ {Max(s)} \in SUBSET S /\ Cardinality(s \ {Max(s)}) = Cardinality(s) - 1
        BY <1>1, <2>3
      <3> QED BY <3>1
    <2>4. \A s \in Small(k) : h[s] = g[s]
      <3> SUFFICES ASSUME NEW s \in Small(k) PROVE h[s] = g[s]
        OBVIOUS
      <3>1. g[s] = Step(g, s)
        <4> HIDE DEF Step
        <4> QED BY <2>1
      <3>2. h[s] = Step(g, s)
        <4> HIDE DEF Step, Small
        <4> QED BY <2>2
      <3> QED BY <3>1, <3>2
    <2>5. \A s \in Small(k + 1) : Step(g, s) = Step(h, s)
      <3> HIDE DEF h, Small
      <3> QED BY <2>3, <2>4
    <2>6. Merges(h, Small(k + 1))
      <3>1. h = [s \in Small(k + 1) |-> Step(g, s)]
        OBVIOUS
      <3> HIDE DEF h, Small, Step
      <3> QED BY <2>5, <3>1
    <2> HIDE DEF h, Small, Merges
    <2> QED BY <2>6
  <1>5. Nat \subseteq G
    <2> HIDE DEF G
    <2> QED BY <1>3, <1>4, NumberInduction
  <1>6. n \in G /\ Small(n) = SUBSET S
    <2>1. \A s \in SUBSET S : Cardinality(s) <= n
      <3>1. IsFiniteSet(S) /\ Cardinality(S) = n
        BY FS_Interval
      <3> HIDE DEF S
      <3> QED BY <3>1, FS_Subset
    <2> QED BY <1>5, <2>1
  <1>7. PICK g : Merges(g, SUBSET S)
    <2> HIDE DEF Small, Merges
    <2> QED BY <1>6
  <1> QED BY <1>7 DEF MergesOf

\* ReadConfigPaths merges one file after the other.
LEMMA Merged ==
  ASSUME NEW files, NEW n \in Nat, DOMAIN files = 1..n, ReadConfigPaths(files) # Failed
  PROVE  \E m : /\ m[0] = Unset
                /\ \A k \in 1..n : m[k] = MergeConfig(m[k - 1], files[k])
                /\ ReadConfigPaths(files) = m[n]
  <1> DEFINE g == CHOOSE g : MergesOf(files, n, g)
             m == [k \in 0..n |-> g[1..k]]
  <1>1. MergesOf(files, n, g)
    <2>1. \E h : MergesOf(files, n, h)
      BY MergesExist
    <2> QED BY <2>1, Zenon
  <1>2. FoldLeft(MergeConfig, Unset, files) = g[1..n]
    BY Zenon DEF FoldLeft, MapThenFoldSet, MergesOf
  <1>3. ReadConfigPaths(files) = g[1..n]
    BY <1>2 DEF ReadConfigPaths
  <1> HIDE DEF g
  <1>4. \A s \in SUBSET (1..n) :
           g[s] = IF s = {} THEN Unset ELSE MergeConfig(g[s \ {Max(s)}], files[Max(s)])
    BY <1>1 DEF MergesOf
  <1>5. m[0] = Unset
    <2>1. 1..0 = {} /\ m[0] = g[1..0] /\ {} \in SUBSET (1..n)
      OBVIOUS
    <2> QED BY <1>4, <2>1
  <1>6. ASSUME NEW k \in 1..n PROVE m[k] = MergeConfig(m[k - 1], files[k])
    <2>1. Max(1..k) = k
      <3>1. ASSUME NEW j \in Nat PROVE Max(1..j + 1) = j + 1
        <4>1. j + 1 \in 1..j + 1
          OBVIOUS
        <4> QED BY <4>1, LastAdded
      <3>2. k - 1 \in Nat /\ (k - 1) + 1 = k
        OBVIOUS
      <3> QED BY <3>1, <3>2
    <2>2. (1..k) \ {k} = 1..k - 1 /\ 1..k \in SUBSET (1..n) /\ 1..k # {} /\ k \in 0..n /\ k - 1 \in 0..n
      OBVIOUS
    <2>3. g[1..k] = MergeConfig(g[1..k - 1], files[k])
      BY <1>4, <2>1, <2>2
    <2> QED BY <2>2, <2>3
  <1>7. m[n] = g[1..n]
    OBVIOUS
  <1> HIDE DEF m
  <1> QED BY <1>3, <1>5, <1>6, <1>7

-----------------------------------------------------------------------------
(* Sequences put one after the other. *)

\* Sequences put one after the other, for every number of them.
FlatOf(ss, n, f) == f = [i \in 1..n |-> IF i = 1 THEN ss[i] ELSE f[i - 1] \o ss[i]]

\* The recursion of FlattenSeq has a solution.
LEMMA FlatExists ==
  ASSUME NEW ss, NEW n \in Nat
  PROVE  \E f : FlatOf(ss, n, f)
  <1> DEFINE G == {k \in Nat : \E f : FlatOf(ss, k, f)}
             Step(f, i) == IF i = 1 THEN ss[i] ELSE f[i - 1] \o ss[i]
  <1>1. 0 \in G
    <2>1. FlatOf(ss, 0, [i \in 1..0 |-> ss])
      BY DEF FlatOf
    <2> QED BY <2>1
  <1>2. ASSUME NEW k \in Nat, k \in G PROVE k + 1 \in G
    <2>1. PICK f : FlatOf(ss, k, f)
      BY <1>2
    <2> DEFINE h == [i \in 1..k + 1 |-> Step(f, i)]
    <2>2. f = [i \in 1..k |-> Step(f, i)]
      BY <2>1 DEF FlatOf
    <2>3. \A i \in 1..k : f[i] = Step(f, i) /\ h[i] = Step(f, i)
      <3> HIDE DEF Step
      <3> QED BY <2>2
    <2>4. \A i \in 1..k : h[i] = f[i]
      <3> HIDE DEF Step, h
      <3> QED BY <2>3
    <2>5. \A i \in 1..k + 1 : Step(f, i) = Step(h, i)
      <3>1. \A i \in 1..k + 1 : i # 1 => i - 1 \in 1..k
        OBVIOUS
      <3> HIDE DEF h
      <3> QED BY <2>4, <3>1
    <2>6. h = [i \in 1..k + 1 |-> Step(f, i)]
      OBVIOUS
    <2>7. h = [i \in 1..k + 1 |-> Step(h, i)]
      <3> HIDE DEF h, Step
      <3> QED BY <2>5, <2>6
    <2> HIDE DEF h
    <2>8. FlatOf(ss, k + 1, h)
      BY <2>7 DEF FlatOf
    <2> QED BY <2>8
  <1>3. Nat \subseteq G
    <2> HIDE DEF G
    <2> QED BY <1>1, <1>2, NumberInduction
  <1> QED BY <1>3

\* FlattenSeq is the last of what that recursion gives.
LEMMA FlatIs ==
  ASSUME NEW ss, Len(ss) \in Nat
  PROVE  \E f : /\ FlatOf(ss, Len(ss), f)
                /\ FlattenSeq(ss) = IF Len(ss) = 0 THEN ss ELSE f[Len(ss)]
  <1> DEFINE f == CHOOSE f : FlatOf(ss, Len(ss), f)
  <1>1. FlatOf(ss, Len(ss), f)
    <2>1. \E h : FlatOf(ss, Len(ss), h)
      BY FlatExists
    <2> QED BY <2>1, Zenon
  <1>2. FlattenSeq(ss) = IF Len(ss) = 0 THEN ss ELSE f[Len(ss)]
    BY Zenon DEF FlattenSeq, FlatOf
  <1> HIDE DEF f
  <1> QED BY <1>1, <1>2

\* Flattening sequences over V is a sequence over V, with their elements.
LEMMA FlatElements ==
  ASSUME NEW V, NEW ss \in Seq(Seq(V))
  PROVE  /\ FlattenSeq(ss) \in Seq(V)
         /\ Range(FlattenSeq(ss)) = UNION {Range(ss[i]) : i \in DOMAIN ss}
  <1> DEFINE n == Len(ss)
  <1>1. n \in Nat /\ DOMAIN ss = 1..n /\ \A i \in 1..n : ss[i] \in Seq(V)
    OBVIOUS
  <1>2. PICK f : FlatOf(ss, n, f) /\ FlattenSeq(ss) = IF n = 0 THEN ss ELSE f[n]
    BY <1>1, FlatIs
  <1> DEFINE P(k) == /\ f[k] \in Seq(V)
                     /\ Range(f[k]) = UNION {Range(ss[i]) : i \in 1..k}
             G == {k \in Nat : k \in 1..n => P(k)}
  <1>3. \A k \in 1..n : f[k] = IF k = 1 THEN ss[k] ELSE f[k - 1] \o ss[k]
    BY <1>2 DEF FlatOf
  <1>4. ASSUME NEW k \in Nat, k \in G PROVE k + 1 \in G
    <2> SUFFICES ASSUME k + 1 \in 1..n PROVE P(k + 1)
      OBVIOUS
    <2>1. CASE k = 0
      <3>1. f[k + 1] = ss[1] /\ 1..k + 1 = {1} /\ 1 \in 1..n
        BY <1>3, <2>1
      <3> QED BY <1>1, <3>1
    <2>2. CASE k # 0
      <3>1. k \in 1..n /\ k + 1 # 1 /\ (k + 1) - 1 = k
        BY <1>1, <2>2
      <3>2. f[k + 1] = f[k] \o ss[k + 1]
        BY <1>3, <3>1
      <3>3. P(k) /\ ss[k + 1] \in Seq(V)
        BY <1>1, <1>4, <3>1
      <3>4. f[k + 1] \in Seq(V) /\ Range(f[k + 1]) = Range(f[k]) \cup Range(ss[k + 1])
        <4>1. ASSUME NEW a \in Seq(V), NEW b \in Seq(V)
              PROVE  a \o b \in Seq(V) /\ Range(a \o b) = Range(a) \cup Range(b)
          <5>1. a \o b \in Seq(V) /\ Len(a \o b) = Len(a) + Len(b) /\ Len(a) \in Nat /\ Len(b) \in Nat
            OBVIOUS
          <5>2. /\ \A i \in 1..Len(a) : (a \o b)[i] = a[i]
                /\ \A i \in 1..Len(b) : (a \o b)[Len(a) + i] = b[i]
            OBVIOUS
          <5>3. DOMAIN (a \o b) = 1..Len(a) + Len(b) /\ DOMAIN a = 1..Len(a) /\ DOMAIN b = 1..Len(b)
            BY <5>1
          <5>4. \A i \in 1..Len(a) + Len(b) : i \in 1..Len(a) \/ \E j \in 1..Len(b) : i = Len(a) + j
            <6> SUFFICES ASSUME NEW i \in 1..Len(a) + Len(b), i \notin 1..Len(a)
                         PROVE  \E j \in 1..Len(b) : i = Len(a) + j
              OBVIOUS
            <6>1. i - Len(a) \in 1..Len(b) /\ i = Len(a) + (i - Len(a))
              BY <5>1
            <6> QED BY <6>1
          <5>5. \A j \in 1..Len(b) : Len(a) + j \in 1..Len(a) + Len(b)
            BY <5>1
          <5>6. \A i \in 1..Len(a) : i \in 1..Len(a) + Len(b)
            BY <5>1
          <5>7. Range(a \o b) \subseteq Range(a) \cup Range(b)
            <6> SUFFICES ASSUME NEW i \in 1..Len(a) + Len(b) PROVE (a \o b)[i] \in Range(a) \cup Range(b)
              BY <5>3 DEF Range
            <6>1. CASE i \in 1..Len(a)
              BY <5>2, <5>3, <6>1 DEF Range
            <6>2. CASE \E j \in 1..Len(b) : i = Len(a) + j
              <7>1. PICK j \in 1..Len(b) : i = Len(a) + j
                BY <6>2
              <7>2. (a \o b)[i] = b[j]
                BY <5>2, <7>1
              <7> QED BY <5>3, <7>2 DEF Range
            <6> QED BY <5>4, <6>1, <6>2
          <5>8. Range(a) \cup Range(b) \subseteq Range(a \o b)
            BY <5>2, <5>3, <5>5, <5>6 DEF Range
          <5> QED BY <5>1, <5>7, <5>8
        <4> QED BY <3>2, <3>3, <4>1
      <3>5. 1..k + 1 = (1..k) \cup {k + 1}
        OBVIOUS
      <3> QED BY <3>3, <3>4, <3>5
    <2> QED BY <2>1, <2>2
  <1>5. 0 \in G
    OBVIOUS
  <1>6. Nat \subseteq G
    <2> HIDE DEF G
    <2> QED BY <1>4, <1>5, NumberInduction
  <1>7. CASE n = 0
    <2>1. ss = <<>> /\ FlattenSeq(ss) = <<>>
      BY <1>2, <1>7
    <2>2. DOMAIN ss = {} /\ Range(<<>>) = {} /\ <<>> \in Seq(V)
      BY <2>1 DEF Range
    <2> QED BY <2>1, <2>2
  <1>8. CASE n # 0
    <2>1. n \in 1..n
      BY <1>1, <1>8
    <2>2. P(n)
      BY <1>1, <1>6, <2>1
    <2> QED BY <1>1, <1>2, <1>8, <2>2
  <1> QED BY <1>7, <1>8

\* One sequence more is put at the end.
LEMMA FlatAppend ==
  ASSUME NEW V, NEW ss \in Seq(Seq(V)), NEW s \in Seq(V)
  PROVE  FlattenSeq(Append(ss, s)) = FlattenSeq(ss) \o s
  <1> DEFINE n == Len(ss)
             tt == Append(ss, s)
  <1>1. /\ n \in Nat /\ tt \in Seq(Seq(V)) /\ Len(tt) = n + 1 /\ tt[n + 1] = s
        /\ \A i \in 1..n : tt[i] = ss[i]
    OBVIOUS
  <1>2. PICK f : FlatOf(ss, n, f) /\ FlattenSeq(ss) = IF n = 0 THEN ss ELSE f[n]
    BY <1>1, FlatIs
  <1> HIDE DEF tt
  <1>3. PICK g : FlatOf(tt, n + 1, g) /\ FlattenSeq(tt) = IF n + 1 = 0 THEN tt ELSE g[n + 1]
    <2>1. Len(tt) \in Nat
      BY <1>1
    <2> QED BY <1>1, <2>1, FlatIs
  <1>4. \A k \in 1..n : f[k] = IF k = 1 THEN ss[k] ELSE f[k - 1] \o ss[k]
    BY <1>2 DEF FlatOf
  <1>5. \A k \in 1..n + 1 : g[k] = IF k = 1 THEN tt[k] ELSE g[k - 1] \o tt[k]
    BY <1>3 DEF FlatOf
  <1> DEFINE G == {k \in Nat : k \in 1..n => f[k] = g[k]}
  <1>6. ASSUME NEW k \in Nat, k \in G PROVE k + 1 \in G
    <2> SUFFICES ASSUME k + 1 \in 1..n PROVE f[k + 1] = g[k + 1]
      OBVIOUS
    <2>1. k + 1 \in 1..n + 1 /\ tt[k + 1] = ss[k + 1] /\ (k + 1) - 1 = k /\ (k + 1 # 1 => k \in 1..n)
      BY <1>1
    <2> QED BY <1>4, <1>5, <1>6, <2>1
  <1>7. Nat \subseteq G
    <2>1. 0 \in G
      OBVIOUS
    <2> HIDE DEF G
    <2> QED BY <1>6, <2>1, NumberInduction
  <1>8. FlattenSeq(tt) = g[n + 1] /\ n + 1 \in 1..n + 1 /\ (n + 1) - 1 = n
    BY <1>1, <1>3
  <1>9. CASE n = 0
    <2>1. ss = <<>> /\ g[n + 1] = s
      BY <1>1, <1>5, <1>8, <1>9
    <2> QED BY <1>2, <1>8, <1>9, <2>1 DEF tt
  <1>10. CASE n # 0
    <2>1. n \in 1..n /\ n + 1 # 1
      BY <1>1, <1>10
    <2>2. f[n] = g[n]
      BY <1>1, <1>7, <2>1
    <2>3. g[n + 1] = g[n] \o s
      BY <1>1, <1>5, <1>8, <2>1
    <2> QED BY <1>2, <1>8, <1>10, <2>2, <2>3 DEF tt
  <1> QED BY <1>9, <1>10

-----------------------------------------------------------------------------
(* What several merged configurations say. *)

\* Those of a sequence of configurations that set something.
WithTtl(all) == {i \in DOMAIN all : all[i].ttl > 0}
WithRole(all) == {i \in DOMAIN all : all[i].role # ""}
WithTag(all, k) == {i \in DOMAIN all : k \in DOMAIN all[i].tags}

\* ByPrecedence, before the role becomes a tag.
Says(conf, all) ==
    /\ WithTtl(all) # {} /\ conf.ttl = all[Max(WithTtl(all))].ttl
    /\ conf.leaveOnTerm = \E i \in DOMAIN all : all[i].leaveOnTerm
    /\ conf.handlers = FlattenSeq([i \in DOMAIN all |-> all[i].handlers])
    /\ conf.role = IF WithRole(all) = {} THEN "" ELSE all[Max(WithRole(all))].role
    /\ DOMAIN conf.tags = UNION {DOMAIN all[i].tags : i \in DOMAIN all}
    /\ \A k \in DOMAIN conf.tags : conf.tags[k] = all[Max(WithTag(all, k))].tags[k]

\* One configuration more, of which every setting counts that it sets.
LEMMA SaysMore ==
  ASSUME NEW S, NEW all \in Seq(S), NEW c \in S, NEW conf, Says(conf, all),
         \A x \in S : x.handlers \in Seq(HandlerSetting)
  PROVE  Says(MergeConfig(conf, c), Append(all, c))
  <1> DEFINE n == Len(all)
             more == Append(all, c)
             m == MergeConfig(conf, c)
  <1>1. /\ n \in Nat /\ DOMAIN all = 1..n /\ DOMAIN more = 1..n + 1 /\ more[n + 1] = c
        /\ \A i \in 1..n : more[i] = all[i]
        /\ more \in Seq(S)
    OBVIOUS
  <1>0. DOMAIN more = (1..n) \cup {n + 1} /\ n + 1 \notin 1..n
    BY <1>1
  <1> HIDE DEF more
  <1>2. /\ m.ttl = (IF c.ttl > 0 THEN c.ttl ELSE conf.ttl)
        /\ m.leaveOnTerm = (conf.leaveOnTerm \/ c.leaveOnTerm)
        /\ m.role = (IF c.role # "" THEN c.role ELSE conf.role)
        /\ m.tags = Over(conf.tags, c.tags)
        /\ m.handlers = conf.handlers \o c.handlers
    BY DEF MergeConfig
  <1> HIDE DEF m
  <1>3. ASSUME NEW I \in SUBSET DOMAIN all, NEW J \in SUBSET DOMAIN more, J \ {n + 1} = I
        PROVE  /\ n + 1 \in J => more[Max(J)] = c
               /\ n + 1 \notin J => J = I /\ (I # {} => more[Max(J)] = all[Max(I)])
    <2>1. J \in SUBSET (1..n + 1)
      BY <1>1
    <2>2. n + 1 \in J => Max(J) = n + 1
      BY <1>1, <2>1, LastAdded
    <2>3. n + 1 \notin J => J = I /\ I \in SUBSET (1..n)
      BY <1>1, <1>3
    <2>4. n + 1 \notin J /\ J # {} => Max(J) \in 1..n
      BY <1>1, <2>3, LastOfSome
    <2> QED BY <1>1, <2>2, <2>3, <2>4
  <1>4. WithTtl(more) # {} /\ m.ttl = more[Max(WithTtl(more))].ttl
    <2>1. WithTtl(all) \in SUBSET DOMAIN all /\ WithTtl(more) \in SUBSET DOMAIN more
          /\ WithTtl(more) \ {n + 1} = WithTtl(all) /\ (n + 1 \in WithTtl(more) <=> c.ttl > 0)
      BY <1>0, <1>1 DEF WithTtl
    <2>2. WithTtl(all) # {} /\ conf.ttl = all[Max(WithTtl(all))].ttl
      BY DEF Says
    <2> HIDE DEF n
    <2> QED BY <1>2, <1>3, <2>1, <2>2
  <1>5. m.role = IF WithRole(more) = {} THEN "" ELSE more[Max(WithRole(more))].role
    <2>1. WithRole(all) \in SUBSET DOMAIN all /\ WithRole(more) \in SUBSET DOMAIN more
          /\ WithRole(more) \ {n + 1} = WithRole(all) /\ (n + 1 \in WithRole(more) <=> c.role # "")
      BY <1>0, <1>1 DEF WithRole
    <2>2. conf.role = IF WithRole(all) = {} THEN "" ELSE all[Max(WithRole(all))].role
      BY DEF Says
    <2> HIDE DEF n
    <2> QED BY <1>2, <1>3, <2>1, <2>2
  <1>6. DOMAIN m.tags = DOMAIN conf.tags \cup DOMAIN c.tags
        /\ \A k \in DOMAIN m.tags : m.tags[k] = IF k \in DOMAIN c.tags THEN c.tags[k] ELSE conf.tags[k]
    BY <1>2 DEF Over
  <1>7. DOMAIN m.tags = UNION {DOMAIN more[i].tags : i \in DOMAIN more}
    <2>1. DOMAIN conf.tags = UNION {DOMAIN all[i].tags : i \in 1..n}
      BY <1>1 DEF Says
    <2> HIDE DEF n
    <2> QED BY <1>0, <1>1, <1>6, <2>1
  <1>8. ASSUME NEW k \in DOMAIN m.tags PROVE m.tags[k] = more[Max(WithTag(more, k))].tags[k]
    <2>1. WithTag(all, k) \in SUBSET DOMAIN all /\ WithTag(more, k) \in SUBSET DOMAIN more
          /\ WithTag(more, k) \ {n + 1} = WithTag(all, k) /\ (n + 1 \in WithTag(more, k) <=> k \in DOMAIN c.tags)
      BY <1>0, <1>1 DEF WithTag
    <2>2. CASE k \in DOMAIN c.tags
      BY <1>3, <1>6, <2>1, <2>2
    <2>3. CASE k \notin DOMAIN c.tags
      <3>1. k \in DOMAIN conf.tags /\ m.tags[k] = conf.tags[k]
        BY <1>6, <2>3
      <3>2. conf.tags[k] = all[Max(WithTag(all, k))].tags[k] /\ DOMAIN conf.tags = UNION {DOMAIN all[i].tags : i \in DOMAIN all}
        BY <3>1 DEF Says
      <3>3. PICK i \in DOMAIN all : k \in DOMAIN all[i].tags
        BY <3>1, <3>2
      <3>4. WithTag(all, k) # {}
        BY <3>3 DEF WithTag
      <3> HIDE DEF n
      <3> QED BY <1>3, <2>1, <2>3, <3>1, <3>2, <3>4
    <2> QED BY <2>2, <2>3
  <1>9. m.leaveOnTerm = \E i \in DOMAIN more : more[i].leaveOnTerm
    <2>1. conf.leaveOnTerm = \E i \in 1..n : all[i].leaveOnTerm
      BY <1>1 DEF Says
    <2> HIDE DEF n
    <2> QED BY <1>0, <1>1, <1>2, <2>1
  <1>10. m.handlers = FlattenSeq([i \in DOMAIN more |-> more[i].handlers])
    <2> DEFINE hs == [i \in DOMAIN all |-> all[i].handlers]
    <2>1. hs \in Seq(Seq(HandlerSetting)) /\ Len(hs) = n /\ c.handlers \in Seq(HandlerSetting)
      BY <1>1
    <2>2. [i \in DOMAIN more |-> more[i].handlers] = Append(hs, c.handlers)
      <3>1. Append(hs, c.handlers) = [i \in 1..n + 1 |-> IF i = n + 1 THEN c.handlers ELSE all[i].handlers]
        BY <1>1, <2>1
      <3> QED BY <1>0, <1>1, <3>1
    <2>3. conf.handlers = FlattenSeq(hs)
      BY DEF Says
    <2> HIDE DEF hs
    <2>4. FlattenSeq(Append(hs, c.handlers)) = FlattenSeq(hs) \o c.handlers
      BY <2>1, FlatAppend
    <2> QED BY <1>2, <2>2, <2>3, <2>4
  <1> QED BY <1>4, <1>5, <1>7, <1>8, <1>9, <1>10 DEF Says, more, m

\* The defaults alone.
LEMMA SaysDefaults == Says(DefaultConfig, <<DefaultConfig>>)
  <1> DEFINE all == <<DefaultConfig>>
  <1>1. DOMAIN all = {1} /\ all[1] = DefaultConfig /\ Len(all) = 1
    OBVIOUS
  <1>2. /\ DefaultConfig.ttl = 60 /\ DefaultConfig.leaveOnTerm = FALSE /\ DefaultConfig.role = ""
        /\ DefaultConfig.handlers = <<>> /\ DefaultConfig.tags = NoTags
    BY DEF DefaultConfig, Unset
  <1> HIDE DEF all
  <1>3. WithTtl(all) = {1} /\ WithRole(all) = {} /\ Max({1}) = 1
    <2>1. Max({1}) = 1
      BY DEF Max
    <2>2. WithTtl(all) = {1}
      <3>1. all[1].ttl = 60
        BY <1>1, <1>2
      <3>2. 60 > 0
        OBVIOUS
      <3> QED BY <1>1, <3>1, <3>2 DEF WithTtl
    <2>3. WithRole(all) = {}
      BY <1>1, <1>2 DEF WithRole
    <2> QED BY <2>1, <2>2, <2>3
  <1>4. DOMAIN NoTags = {} /\ UNION {DOMAIN all[i].tags : i \in DOMAIN all} = {}
    BY <1>1, <1>2 DEF NoTags
  <1>5. FlattenSeq([i \in DOMAIN all |-> all[i].handlers]) = <<>>
    <2>1. [i \in DOMAIN all |-> all[i].handlers] = Append(<<>>, <<>>)
      <3>1. [i \in DOMAIN all |-> all[i].handlers] = [i \in {1} |-> <<>>]
        BY <1>1, <1>2
      <3>2. <<<<>>>> = [i \in {1} |-> <<>>]
        OBVIOUS
      <3>3. Append(<<>>, <<>>) = <<<<>>>>
        OBVIOUS
      <3> QED BY <3>1, <3>2, <3>3
    <2>2. <<>> \in Seq(Seq(HandlerSetting)) /\ <<>> \in Seq(HandlerSetting)
      OBVIOUS
    <2>3. FlattenSeq(<<>>) = <<>>
      BY DEF FlattenSeq
    <2>4. FlattenSeq(Append(<<>>, <<>>)) = <<>> \o <<>>
      BY <2>2, <2>3, FlatAppend
    <2> QED BY <2>1, <2>4
  <1> QED BY <1>1, <1>2, <1>3, <1>4, <1>5 DEF Says, all

\* The order in which neighbours are merged does not matter.
LEMMA MergeAssociative ==
  ASSUME NEW V, NEW a, NEW b, NEW c, a.handlers \in Seq(V), b.handlers \in Seq(V), c.handlers \in Seq(V)
  PROVE  MergeConfig(a, MergeConfig(b, c)) = MergeConfig(MergeConfig(a, b), c)
  <1> DEFINE ab == MergeConfig(a, b)
             bc == MergeConfig(b, c)
  <1>1. /\ bc.level = (IF c.level # "" THEN c.level ELSE b.level)
        /\ bc.role = (IF c.role # "" THEN c.role ELSE b.role)
        /\ ab.level = (IF b.level # "" THEN b.level ELSE a.level)
        /\ ab.role = (IF b.role # "" THEN b.role ELSE a.role)
    BY DEF MergeConfig
  <1>2. /\ bc.ttl = (IF c.ttl > 0 THEN c.ttl ELSE b.ttl)
        /\ ab.ttl = (IF b.ttl > 0 THEN b.ttl ELSE a.ttl)
    BY DEF MergeConfig
  <1>f. /\ bc.leaveOnTerm = (b.leaveOnTerm \/ c.leaveOnTerm)
        /\ ab.leaveOnTerm = (a.leaveOnTerm \/ b.leaveOnTerm)
    BY DEF MergeConfig
  <1>t. bc.tags = Over(b.tags, c.tags) /\ ab.tags = Over(a.tags, b.tags)
    BY DEF MergeConfig
  <1>h. bc.handlers = b.handlers \o c.handlers /\ ab.handlers = a.handlers \o b.handlers
    BY DEF MergeConfig
  <1> HIDE DEF ab, bc
  <1>3. /\ (IF bc.level # "" THEN bc.level ELSE a.level) = (IF c.level # "" THEN c.level ELSE ab.level)
        /\ (IF bc.role # "" THEN bc.role ELSE a.role) = (IF c.role # "" THEN c.role ELSE ab.role)
    BY <1>1
  <1>4. (IF bc.ttl > 0 THEN bc.ttl ELSE a.ttl) = (IF c.ttl > 0 THEN c.ttl ELSE ab.ttl)
    BY <1>2
  <1>5. (a.leaveOnTerm \/ bc.leaveOnTerm) = (ab.leaveOnTerm \/ c.leaveOnTerm)
    BY <1>f
  <1>6. Over(a.tags, bc.tags) = Over(ab.tags, c.tags)
    <2>1. ASSUME NEW f, NEW g, NEW h PROVE Over(f, Over(g, h)) = Over(Over(f, g), h)
      <3> DEFINE fg == Over(f, g)
                 gh == Over(g, h)
                 D == DOMAIN f \cup DOMAIN g \cup DOMAIN h
      <3>1. /\ DOMAIN gh = DOMAIN g \cup DOMAIN h
            /\ \A k \in DOMAIN gh : gh[k] = IF k \in DOMAIN h THEN h[k] ELSE g[k]
        BY DEF Over
      <3>2. /\ DOMAIN fg = DOMAIN f \cup DOMAIN g
            /\ \A k \in DOMAIN fg : fg[k] = IF k \in DOMAIN g THEN g[k] ELSE f[k]
        BY DEF Over
      <3> HIDE DEF fg, gh
      <3>3. /\ DOMAIN f \cup DOMAIN gh = D /\ DOMAIN fg \cup DOMAIN h = D
            /\ \A k \in D : (IF k \in DOMAIN gh THEN gh[k] ELSE f[k]) = (IF k \in DOMAIN h THEN h[k] ELSE fg[k])
        BY <3>1, <3>2
      <3> HIDE DEF D
      <3>4. Over(f, gh) = Over(fg, h)
        BY <3>3 DEF Over
      <3> QED BY <3>4 DEF fg, gh
    <2> QED BY <1>t, <2>1
  <1>7. a.handlers \o bc.handlers = ab.handlers \o c.handlers
    <2>1. ASSUME NEW f \in Seq(V), NEW g \in Seq(V), NEW h \in Seq(V) PROVE (f \o g) \o h = f \o (g \o h)
      BY ConcatAssociative
    <2>2. (a.handlers \o b.handlers) \o c.handlers = a.handlers \o (b.handlers \o c.handlers)
      BY <2>1, Zenon
    <2> QED BY <1>h, <2>2, Zenon
  <1>8. MergeConfig(a, bc) = MergeConfig(ab, c)
    BY <1>3, <1>4, <1>5, <1>6, <1>7 DEF MergeConfig
  <1> QED BY <1>8 DEF ab, bc

\* The handlers add up; there are none at first.
LEMMA HandlersAddUp ==
  /\ \A a, b : MergeConfig(a, b).handlers = a.handlers \o b.handlers
  /\ Unset.handlers = <<>> /\ DefaultConfig.handlers = <<>>
  BY DEF MergeConfig, Unset, DefaultConfig

\* So that the defaults may as well be merged first.
LEMMA DefaultsFirst ==
  ASSUME NEW b, NEW c, b.handlers \in Seq(HandlerSetting), c.handlers \in Seq(HandlerSetting)
  PROVE  MergeConfig(DefaultConfig, MergeConfig(b, c)) = MergeConfig(MergeConfig(DefaultConfig, b), c)
  <1> DEFINE a == DefaultConfig
             V == HandlerSetting
  <1>1. a.handlers \in Seq(V) /\ b.handlers \in Seq(V) /\ c.handlers \in Seq(V)
    <2>1. <<>> \in Seq(V)
      OBVIOUS
    <2> QED BY <2>1, HandlersAddUp
  <1> HIDE DEF a, V
  <1>2. MergeConfig(a, MergeConfig(b, c)) = MergeConfig(MergeConfig(a, b), c)
    BY <1>1, MergeAssociative
  <1> QED BY <1>2 DEF a

\* What is read before the role becomes a tag.
LEMMA FilesSay ==
  ASSUME NEW files \in FileLists, ReadConfigPaths(files) # Failed
  PROVE  LET conf == MergeConfig(MergeConfig(DefaultConfig, ReadConfigPaths(files)), CmdConfig)
         IN  /\ Says(conf, <<DefaultConfig>> \o files \o <<CmdConfig>>)
             /\ conf.handlers \in Seq(HandlerSetting)
  <1> DEFINE n == Len(files)
             S == {files[i] : i \in 1..n} \cup {DefaultConfig, CmdConfig}
             all(k) == [i \in 1..k + 1 |-> IF i = 1 THEN DefaultConfig ELSE files[i - 1]]
  <1>1. /\ n \in Nat /\ DOMAIN files = 1..n
        /\ files \in Seq({files[i] : i \in DOMAIN files})
    BY FilesAssumption
  <1>2. \A x \in S : x.handlers \in Seq(HandlerSetting)
    <2>1. \A i \in 1..n : files[i] # Bad
      BY <1>1 DEF ReadConfigPaths
    <2>2. DefaultConfig.handlers = <<>>
      BY DEF DefaultConfig, Unset
    <2>3. <<>> \in Seq(HandlerSetting)
      OBVIOUS
    <2> QED BY <1>1, <2>1, <2>2, <2>3, FilesAssumption
  <1>3. PICK m : /\ m[0] = Unset
                 /\ \A k \in 1..n : m[k] = MergeConfig(m[k - 1], files[k])
                 /\ ReadConfigPaths(files) = m[n]
    BY <1>1, Merged
  <1> DEFINE with(k) == MergeConfig(DefaultConfig, m[k])
             P(k) == /\ m[k].handlers \in Seq(HandlerSetting)
                     /\ Says(with(k), all(k))
             G == {k \in Nat : k \in 0..n => P(k)}
  <1>4. \A k \in 0..n : all(k) \in Seq(S)
    BY <1>1
  <1>5. \A k \in 0..n : k + 1 \in 1..n => all(k + 1) = Append(all(k), files[k + 1])
    <2> SUFFICES ASSUME NEW k \in 0..n, k + 1 \in 1..n PROVE all(k + 1) = Append(all(k), files[k + 1])
      OBVIOUS
    <2>1. all(k) \in Seq(S) /\ Len(all(k)) = k + 1
      BY <1>1
    <2>2. Append(all(k), files[k + 1]) = [i \in 1..(k + 1) + 1 |-> IF i = (k + 1) + 1 THEN files[k + 1] ELSE all(k)[i]]
      <3> HIDE DEF S, all
      <3> QED BY <2>1
    <2>3. \A i \in 1..(k + 1) + 1 : all(k + 1)[i] = IF i = (k + 1) + 1 THEN files[k + 1] ELSE all(k)[i]
      OBVIOUS
    <2> QED BY <2>2, <2>3
  <1>6. 0 \in G
    <2>1. all(0) = <<DefaultConfig>>
      OBVIOUS
    <2>2. m[0] = Unset
      BY <1>3
    <2>3. with(0) = DefaultConfig
      <3>1. Over(NoTags, NoTags) = NoTags
        BY DEF Over, NoTags
      <3>2. <<>> \o <<>> = <<>>
        OBVIOUS
      <3>3. DefaultConfig = [level |-> "INFO", ttl |-> 60, leaveOnTerm |-> FALSE, role |-> "", tags |-> NoTags,
                             handlers |-> <<>>]
        BY Zenon DEF DefaultConfig
      <3>4. /\ Unset.level = "" /\ Unset.ttl = 0 /\ Unset.leaveOnTerm = FALSE /\ Unset.role = ""
            /\ Unset.tags = NoTags /\ Unset.handlers = <<>> /\ ~ (0 > 0)
        BY DEF Unset
      <3>5. /\ DefaultConfig.level = "INFO" /\ DefaultConfig.ttl = 60 /\ DefaultConfig.leaveOnTerm = FALSE
            /\ DefaultConfig.role = "" /\ DefaultConfig.tags = NoTags /\ DefaultConfig.handlers = <<>>
        BY <3>3
      <3>6. MergeConfig(DefaultConfig, Unset) = DefaultConfig
        BY <3>1, <3>2, <3>3, <3>4, <3>5 DEF MergeConfig
      <3> QED BY <2>2, <3>6
    <2>4. m[0].handlers \in Seq(HandlerSetting)
      <3>1. <<>> \in Seq(HandlerSetting)
        OBVIOUS
      <3> QED BY <2>2, <3>1, HandlersAddUp
    <2> HIDE DEF all, with
    <2> QED BY <2>1, <2>3, <2>4, SaysDefaults
  <1>7. ASSUME NEW k \in Nat, k \in G PROVE k + 1 \in G
    <2> SUFFICES ASSUME k + 1 \in 1..n PROVE P(k + 1)
      OBVIOUS
    <2>1. k \in 0..n /\ (k + 1) - 1 = k /\ P(k) /\ files[k + 1] \in S
      BY <1>1, <1>7
    <2> HIDE DEF S
    <2>2. m[k + 1] = MergeConfig(m[k], files[k + 1])
      BY <1>3, <2>1
    <2>3. /\ m[k].handlers \in Seq(HandlerSetting) /\ files[k + 1].handlers \in Seq(HandlerSetting)
          /\ DefaultConfig.handlers \in Seq(HandlerSetting)
      <3>1. DefaultConfig \in S
        BY DEF S
      <3> QED BY <1>2, <2>1, <3>1
    <2>4. m[k + 1].handlers \in Seq(HandlerSetting)
      <3>1. m[k + 1].handlers = m[k].handlers \o files[k + 1].handlers
        BY <2>2, HandlersAddUp
      <3> QED BY <2>3, <3>1
    <2>5. with(k + 1) = MergeConfig(with(k), files[k + 1])
      <3>1. MergeConfig(DefaultConfig, MergeConfig(m[k], files[k + 1]))
              = MergeConfig(MergeConfig(DefaultConfig, m[k]), files[k + 1])
        BY <2>3, DefaultsFirst
      <3> QED BY <2>2, <3>1
    <2>6. all(k) \in Seq(S) /\ all(k + 1) = Append(all(k), files[k + 1])
      BY <1>4, <1>5, <2>1
    <2> HIDE DEF all, with
    <2>7. Says(with(k + 1), all(k + 1))
      BY <1>2, <2>1, <2>5, <2>6, SaysMore
    <2> QED BY <2>4, <2>7
  <1>8. Nat \subseteq G
    <2> HIDE DEF G
    <2> QED BY <1>6, <1>7, NumberInduction
  <1>9. P(n) /\ all(n) \in Seq(S)
    BY <1>1, <1>4, <1>8
  <1>10. <<DefaultConfig>> \o files \o <<CmdConfig>> = Append(all(n), CmdConfig)
    <2>1. <<DefaultConfig>> \in Seq(S) /\ files \in Seq(S) /\ CmdConfig \in S
      BY <1>1
    <2>2. <<DefaultConfig>> \o files = all(n)
      <3>1. Len(<<DefaultConfig>>) = 1 /\ <<DefaultConfig>>[1] = DefaultConfig
        OBVIOUS
      <3>2. <<DefaultConfig>> \o files = [i \in 1..1 + n |-> IF i <= 1 THEN <<DefaultConfig>>[i] ELSE files[i - 1]]
        <4> HIDE DEF S
        <4> QED BY <2>1, <3>1
      <3> QED BY <1>1, <3>1, <3>2
    <2> HIDE DEF S, all
    <2>3. all(n) \o <<CmdConfig>> = Append(all(n), CmdConfig)
      BY <1>9, <2>1
    <2> QED BY <2>2, <2>3
  <1>11. Says(MergeConfig(with(n), CmdConfig), Append(all(n), CmdConfig))
    <2>1. CmdConfig \in S
      OBVIOUS
    <2> HIDE DEF S, all, with
    <2> QED BY <1>2, <1>9, <2>1, SaysMore
  <1>12. MergeConfig(with(n), CmdConfig).handlers \in Seq(HandlerSetting)
    <2>1. /\ m[n].handlers \in Seq(HandlerSetting) /\ CmdConfig.handlers \in Seq(HandlerSetting)
          /\ DefaultConfig.handlers \in Seq(HandlerSetting)
      BY <1>2, <1>9
    <2>2. MergeConfig(with(n), CmdConfig).handlers = (DefaultConfig.handlers \o m[n].handlers) \o CmdConfig.handlers
      <3>1. with(n).handlers = DefaultConfig.handlers \o m[n].handlers
        BY HandlersAddUp
      <3> HIDE DEF with
      <3>2. MergeConfig(with(n), CmdConfig).handlers = with(n).handlers \o CmdConfig.handlers
        BY HandlersAddUp
      <3> QED BY <3>1, <3>2
    <2> QED BY <2>1, <2>2
  <1> QED BY <1>3, <1>10, <1>11, <1>12

\* What is merged is a sequence.
LEMMA Sources ==
  ASSUME NEW files \in FileLists
  PROVE  LET all == <<DefaultConfig>> \o files \o <<CmdConfig>>
         IN  Len(all) \in Nat /\ DOMAIN all = 1..Len(all)
  <1> DEFINE S == {files[i] : i \in DOMAIN files} \cup {DefaultConfig, CmdConfig}
  <1>1. files \in Seq({files[i] : i \in DOMAIN files})
    BY FilesAssumption
  <1>2. files \in Seq(S) /\ <<DefaultConfig>> \in Seq(S) /\ <<CmdConfig>> \in Seq(S)
    BY <1>1
  <1> HIDE DEF S
  <1>3. <<DefaultConfig>> \o files \o <<CmdConfig>> \in Seq(S)
    BY <1>2
  <1> QED BY <1>3

LEMMA NothingTagged == DOMAIN NoTags = {}
  BY DEF NoTags

\* And with the role as a tag: readConfig.
LEMMA ReadConfigSays ==
  ASSUME NEW files \in FileLists, readConfig(files, CmdConfig) # Failed
  PROVE  /\ ByPrecedence(readConfig(files, CmdConfig), files, NoTags)
         /\ readConfig(files, CmdConfig).handlers \in Seq(HandlerSetting)
  <1> DEFINE conf == readConfig(files, CmdConfig)
             read == MergeConfig(MergeConfig(DefaultConfig, ReadConfigPaths(files)), CmdConfig)
             all == <<DefaultConfig>> \o files \o <<CmdConfig>>
             named == IF read.role = "" THEN read.tags ELSE Over(read.tags, [k \in {"role"} |-> read.role])
  <1>1. ReadConfigPaths(files) # Failed /\ conf = [read EXCEPT !.tags = named]
    BY DEF readConfig
  <1>2. Says(read, all) /\ read.handlers \in Seq(HandlerSetting)
    BY <1>1, FilesSay
  <1>3. PICK l, t, o, r, g, h :
           read = [level |-> l, ttl |-> t, leaveOnTerm |-> o, role |-> r, tags |-> g, handlers |-> h]
    <2>1. ASSUME NEW a, NEW b
          PROVE  \E l, t, o, r, g, h :
                    MergeConfig(a, b) =
                       [level |-> l, ttl |-> t, leaveOnTerm |-> o, role |-> r, tags |-> g, handlers |-> h]
      BY DEF MergeConfig
    <2> QED BY <2>1
  <1> HIDE DEF conf, read, all
  <1>4. /\ conf.ttl = read.ttl /\ conf.leaveOnTerm = read.leaveOnTerm /\ conf.handlers = read.handlers
        /\ conf.tags = named
    <2> HIDE DEF named
    <2> QED BY <1>1, <1>3
  <1>5. read.role = "" <=> WithRole(all) = {}
    <2>1. ASSUME WithRole(all) # {} PROVE read.role # "" /\ read.role = all[Max(WithRole(all))].role
      <3>1. read.role = all[Max(WithRole(all))].role
        BY <1>2, <2>1 DEF Says
      <3>2. Max(WithRole(all)) \in WithRole(all)
        <4>1. Len(all) \in Nat /\ DOMAIN all = 1..Len(all)
          BY Sources DEF all
        <4>2. WithRole(all) \in SUBSET (1..Len(all))
          BY <4>1 DEF WithRole
        <4> QED BY <2>1, <4>1, <4>2, LastOfSome
      <3> QED BY <3>1, <3>2 DEF WithRole
    <2> QED BY <1>2, <2>1 DEF Says
  <1>6. /\ read.role # "" => read.role = all[Max(WithRole(all))].role
        /\ DOMAIN read.tags = UNION {DOMAIN all[i].tags : i \in DOMAIN all}
        /\ \A k \in DOMAIN read.tags : read.tags[k] = all[Max(WithTag(all, k))].tags[k]
    BY <1>2, <1>5 DEF Says
  <1>7. /\ DOMAIN conf.tags = DOMAIN read.tags \cup IF WithRole(all) = {} THEN {} ELSE {"role"}
        /\ \A k \in DOMAIN conf.tags :
              conf.tags[k] = IF k = "role" /\ WithRole(all) # {} THEN all[Max(WithRole(all))].role
                             ELSE all[Max(WithTag(all, k))].tags[k]
    <2>1. CASE read.role = ""
      BY <1>4, <1>5, <1>6, <2>1
    <2>2. CASE read.role # ""
      <3>1. conf.tags = Over(read.tags, [k \in {"role"} |-> read.role])
        BY <1>4, <2>2
      <3>2. /\ DOMAIN conf.tags = DOMAIN read.tags \cup {"role"}
            /\ \A k \in DOMAIN conf.tags : conf.tags[k] = IF k = "role" THEN read.role ELSE read.tags[k]
        BY <3>1 DEF Over
      <3> QED BY <1>5, <1>6, <2>2, <3>2
    <2> QED BY <2>1, <2>2
  <1>8. ByPrecedence(conf, files, NoTags)
    <2>1. /\ conf.ttl = all[Max(WithTtl(all))].ttl
          /\ conf.leaveOnTerm = \E i \in DOMAIN all : all[i].leaveOnTerm
          /\ conf.handlers = FlattenSeq([i \in DOMAIN all |-> all[i].handlers])
          /\ DOMAIN conf.tags = (UNION {DOMAIN all[i].tags : i \in DOMAIN all})
                                   \cup (IF WithRole(all) = {} THEN {} ELSE {"role"})
                                   \cup DOMAIN NoTags
      <3>1. /\ read.ttl = all[Max(WithTtl(all))].ttl
            /\ read.leaveOnTerm = \E i \in DOMAIN all : all[i].leaveOnTerm
            /\ read.handlers = FlattenSeq([i \in DOMAIN all |-> all[i].handlers])
        BY <1>2, Zenon DEF Says
      <3>2. DOMAIN conf.tags = (UNION {DOMAIN all[i].tags : i \in DOMAIN all})
                                  \cup (IF WithRole(all) = {} THEN {} ELSE {"role"})
                                  \cup DOMAIN NoTags
        BY <1>6, <1>7, NothingTagged
      <3>3. conf.ttl = all[Max(WithTtl(all))].ttl
        BY <1>4, <3>1
      <3>4. conf.leaveOnTerm = \E i \in DOMAIN all : all[i].leaveOnTerm
        BY <1>4, <3>1, Zenon
      <3>5. conf.handlers = FlattenSeq([i \in DOMAIN all |-> all[i].handlers])
        BY <1>4, <3>1
      <3> QED BY <3>2, <3>3, <3>4, <3>5, Zenon
    <2>2. \A k \in DOMAIN conf.tags :
             conf.tags[k] = IF k \in DOMAIN NoTags THEN NoTags[k]
                            ELSE IF k = "role" /\ WithRole(all) # {} THEN all[Max(WithRole(all))].role
                            ELSE all[Max(WithTag(all, k))].tags[k]
      BY <1>7, NothingTagged
    <2> HIDE <1>1, <1>2, <1>3, <1>4, <1>5, <1>6, <1>7
    <2>3. all = <<DefaultConfig>> \o files \o <<CmdConfig>>
      BY DEF all
    <2> QED BY <2>1, <2>2, Zenon DEF ByPrecedence, WithTtl, WithRole, WithTag, all
  <1> QED BY <1>2, <1>4, <1>8 DEF conf

\* The configuration in force, when the agent is up.
InForce == up => /\ ByPrecedence(config, sources.files, sources.restored)
                 /\ config.handlers \in Seq(HandlerSetting)

\* Every start and every reload puts what it reads in force, and nothing else
\* changes it.
LEMMA ConfigInForce == ReloadSpec => []InForce
  <1>1. ReloadInit => InForce
    BY DEF ReloadInit, InForce
  <1>2. ASSUME InForce, [ReloadNext]_reloadVars PROVE InForce'
    <2> USE DEF InForce
    <2>1. ASSUME NEW files \in FileLists, Start(files) PROVE InForce'
      <3> DEFINE conf == readConfig(files, CmdConfig)
      <3>1. /\ conf # Failed /\ config' = [conf EXCEPT !.tags = StartTags(conf)]
            /\ sources' = [files |-> files, restored |-> Restored]
            /\ persist => conf.tags = NoTags
        BY <2>1 DEF Start
      <3>2. ByPrecedence(conf, files, NoTags) /\ conf.handlers \in Seq(HandlerSetting)
        BY <3>1, ReadConfigSays
      <3>3. /\ config'.ttl = conf.ttl /\ config'.leaveOnTerm = conf.leaveOnTerm
            /\ config'.handlers = conf.handlers /\ config'.tags = StartTags(conf)
        BY <3>1, ConfigRecord
      <3> HIDE DEF conf
      <3>4. Restored = NoTags \/ conf.tags = NoTags
        BY <3>1 DEF Restored
      <3>5. ByPrecedence(config', files, Restored)
        <4>1. CASE Restored = NoTags
          <5>1. config'.tags = conf.tags
            BY <3>3, <4>1 DEF StartTags
          <5> QED BY <3>2, <3>3, <4>1, <5>1, Zenon DEF ByPrecedence
        <4>2. CASE Restored # NoTags
          <5>1. config'.tags = Restored /\ conf.tags = NoTags
            BY <3>3, <3>4, <4>2 DEF StartTags
          <5> QED BY <3>2, <3>3, <5>1, NothingTagged DEF ByPrecedence
        <4> QED BY <4>1, <4>2
      <3>6. sources'.files = files /\ sources'.restored = Restored
        BY <3>1
      <3>7. config'.handlers \in Seq(HandlerSetting)
        BY <3>2, <3>3
      <3>8. ByPrecedence(config', sources'.files, sources'.restored)
        BY <3>5, <3>6
      <3> QED BY <3>7, <3>8, Zenon DEF ByPrecedence
    <2>2. ASSUME NEW files \in FileLists, handleReload(files) PROVE InForce'
      <3> DEFINE conf == readConfig(files, CmdConfig)
      <3>1. conf # Failed /\ config' = [conf EXCEPT !.level = newLevel(conf)]
            /\ sources' = [files |-> files, restored |-> NoTags]
        BY <2>2 DEF handleReload
      <3>2. ByPrecedence(conf, files, NoTags) /\ conf.handlers \in Seq(HandlerSetting)
        BY <3>1, ReadConfigSays
      <3>3. /\ config'.ttl = conf.ttl /\ config'.leaveOnTerm = conf.leaveOnTerm
            /\ config'.handlers = conf.handlers /\ config'.tags = conf.tags
        BY <3>1, ConfigRecord
      <3> HIDE DEF conf
      <3>4. ByPrecedence(config', files, NoTags)
        BY <3>2, <3>3, Zenon DEF ByPrecedence
      <3>5. config'.handlers \in Seq(HandlerSetting)
        BY <3>2, <3>3
      <3>6. ByPrecedence(config', sources'.files, sources'.restored)
        BY <3>1, <3>4
      <3> QED BY <3>5, <3>6, Zenon DEF ByPrecedence
    <2>3. ASSUME UNCHANGED <<up, config, sources>> PROVE InForce'
      <3> SUFFICES ASSUME up' PROVE /\ ByPrecedence(config, sources.files, sources.restored)'
                                    /\ config'.handlers \in Seq(HandlerSetting)
        BY DEF ByPrecedence
      <3>1. up /\ config' = config /\ sources' = sources
        BY <2>3
      <3>2. ByPrecedence(config', sources'.files, sources'.restored)
        BY <1>2, <3>1
      <3> QED BY <1>2, <3>1, <3>2, Zenon DEF ByPrecedence
    <2>4. CASE Crash
      BY <2>4 DEF Crash
    <2>5. CASE RemoveTagsFile
      BY <2>3, <2>5 DEF RemoveTagsFile, confVars
    <2>6. ASSUME NEW c \in Client, NEW req \in Request, handleTags(c, req) PROVE InForce'
      BY <2>3, <2>6 DEF handleTags, confVars
    <2>7. ASSUME NEW s \in Setter, OpenTagsFile(s) \/ WriteTagsFile(s) \/ Gossip(s) PROVE InForce'
      BY <2>3, <2>7 DEF OpenTagsFile, WriteTagsFile, Gossip, confVars
    <2>8. ASSUME NEW e \in Event, HandleEvent(e) PROVE InForce'
      BY <2>3, <2>8 DEF HandleEvent, confVars
    <2>9. CASE UNCHANGED reloadVars
      BY <2>3, <2>9 DEF reloadVars, confVars
    <2> QED BY <1>2, <2>1, <2>2, <2>4, <2>5, <2>6, <2>7, <2>8, <2>9 DEF ReloadNext
  <1> QED BY <1>1, <1>2, PTL DEF ReloadSpec

\* Any number of files, of any settings, are merged in their order, over the
\* defaults and under the command line, at a start, with the tags file's tags,
\* and by every reload, without them.
THEOREM ConfigMerged == ReloadSpec => []ConfigByPrecedence
  <1>1. InForce => ConfigByPrecedence
    BY DEF InForce, ConfigByPrecedence
  <1> QED BY <1>1, ConfigInForce, PTL

-----------------------------------------------------------------------------
(* The event scripts. *)

\* The scripts of a list that are run for an event.
RunOf(list, e) == {x.script : x \in {y \in Range(list) : Invoke(y, e)}}

\* The list that the next event finds is that of the configuration in force.
Fresh ==
    /\ up => IF newScripts = {} THEN scripts = EventScripts(config)
                                ELSE newScripts = {EventScripts(config)}
    /\ ran # NoRun => up /\ newScripts = {} /\ ran.scripts = RunOf(scripts, ran.event)

\* The scripts depend on the handlers only.
LEMMA SameScripts ==
  ASSUME NEW c, NEW d, d.handlers = c.handlers
  PROVE  EventScripts(d) = EventScripts(c)
  BY DEF EventScripts

\* UpdateScripts leaves a list for the event loop, and HandleEvent of the
\* scripts' handler takes it before it runs any script.
LEMMA ListIsFresh == ReloadSpec => []Fresh
  <1>1. ReloadInit => Fresh
    BY DEF ReloadInit, Fresh
  <1>2. ASSUME Fresh, [ReloadNext]_reloadVars PROVE Fresh'
    <2> USE DEF Fresh
    <2>1. ASSUME NEW files \in FileLists, Start(files) PROVE Fresh'
      <3> DEFINE conf == readConfig(files, CmdConfig)
      <3>1. /\ conf # Failed /\ config' = [conf EXCEPT !.tags = StartTags(conf)]
            /\ scripts' = EventScripts(conf) /\ newScripts' = {} /\ ran' = NoRun
        BY <2>1 DEF Start
      <3>2. config'.handlers = conf.handlers
        BY <3>1, ConfigRecord
      <3> HIDE DEF conf
      <3>3. EventScripts(config') = EventScripts(conf)
        BY <3>2, SameScripts
      <3> QED BY <3>1, <3>3 DEF EventScripts
    <2>2. ASSUME NEW files \in FileLists, handleReload(files) PROVE Fresh'
      <3> DEFINE conf == readConfig(files, CmdConfig)
      <3>1. /\ conf # Failed /\ config' = [conf EXCEPT !.level = newLevel(conf)]
            /\ newScripts' = {EventScripts(conf)} /\ ran' = NoRun
        BY <2>2 DEF handleReload, UpdateScripts
      <3>2. config'.handlers = conf.handlers
        BY <3>1, ConfigRecord
      <3> HIDE DEF conf
      <3>3. EventScripts(config') = EventScripts(conf)
        BY <3>2, SameScripts
      <3> QED BY <3>1, <3>3 DEF EventScripts
    <2>3. CASE UNCHANGED <<up, confVars>>
      BY <1>2, <2>3 DEF confVars, EventScripts
    <2>4. CASE Crash
      BY <2>4 DEF Crash
    <2>5. CASE RemoveTagsFile
      BY <2>3, <2>5 DEF RemoveTagsFile
    <2>6. ASSUME NEW c \in Client, NEW req \in Request, handleTags(c, req) PROVE Fresh'
      BY <2>3, <2>6 DEF handleTags
    <2>7. ASSUME NEW s \in Setter, OpenTagsFile(s) \/ WriteTagsFile(s) \/ Gossip(s) PROVE Fresh'
      BY <2>3, <2>7 DEF OpenTagsFile, WriteTagsFile, Gossip
    <2>8. ASSUME NEW e \in Event, HandleEvent(e) PROVE Fresh'
      <3>1. /\ up /\ up' /\ newScripts' = {} /\ config' = config
            /\ scripts' = IF newScripts = {} THEN scripts ELSE CHOOSE new \in newScripts : TRUE
            /\ ran' = [event |-> e, scripts |-> RunOf(scripts', e)]
        BY <2>8 DEF HandleEvent, RunOf
      <3>2. scripts' = EventScripts(config)
        BY <1>2, <3>1
      <3> QED BY <3>1, <3>2 DEF EventScripts
    <2>9. CASE UNCHANGED reloadVars
      BY <2>3, <2>9 DEF reloadVars
    <2> QED BY <1>2, <2>1, <2>2, <2>4, <2>5, <2>6, <2>7, <2>8, <2>9 DEF ReloadNext
  <1> QED BY <1>1, <1>2, PTL DEF ReloadSpec

\* What is run for an event is what the list of the configuration in force has
\* for it: UpdateScripts leaves a list for the event loop, and HandleEvent of
\* the scripts' handler takes the last one left, also an empty one, before it
\* runs any script, however many reloads came before, and after a restart.
THEOREM ScriptsOfConfiguration ==
  ReloadSpec => [](ran # NoRun => ran.scripts = RunOf(EventScripts(config), ran.event))
  <1>1. Fresh => (ran # NoRun => ran.scripts = RunOf(EventScripts(config), ran.event))
    BY DEF Fresh
  <1> QED BY <1>1, ListIsFresh, PTL

-----------------------------------------------------------------------------
(* Which scripts a configuration asks for. *)

EventScript == [event : STRING \cup {"*"}, name : {""}, script : STRING]
                 \cup [event : {"user", "query"}, name : STRING, script : STRING]

\* The scripts that one handler is.
LEMMA ScriptsOfHandler ==
  ASSUME NEW h \in HandlerSetting
  PROVE  /\ ParseEventScript(h) \in Seq(EventScript)
         /\ Range(ParseEventFilter(h.filters)) \subseteq EventFilter
         /\ Range(ParseEventScript(h)) = {[event |-> f.event, name |-> f.name, script |-> h.script] :
                                             f \in Range(ParseEventFilter(h.filters))}
  <1> DEFINE filters == ParseEventFilter(h.filters)
  <1>1. filters \in Seq(EventFilter) /\ h.script \in STRING
    <2> DEFINE all == [event |-> "*", name |-> ""]
    <2>1. all \in EventFilter
      BY DEF EventFilter
    <2>2. h.filters \in Seq(EventFilter) /\ h.script \in STRING
      BY DEF HandlerSetting
    <2>3. filters = IF h.filters = <<>> THEN <<all>> ELSE h.filters
      BY DEF ParseEventFilter
    <2> HIDE DEF all, filters
    <2>4. <<all>> \in Seq(EventFilter)
      BY <2>1
    <2> QED BY <2>2, <2>3, <2>4
  <1> HIDE DEF filters
  <1>2. /\ Len(filters) \in Nat /\ DOMAIN filters = 1..Len(filters)
        /\ \A i \in 1..Len(filters) : filters[i] \in EventFilter
    BY <1>1
  <1>3. ParseEventScript(h) = [i \in 1..Len(filters) |-> [event |-> filters[i].event, name |-> filters[i].name,
                                                          script |-> h.script]]
    BY <1>2 DEF ParseEventScript, filters
  <1>5. ParseEventScript(h) \in Seq(EventScript)
    <2> DEFINE script(i) == [event |-> filters[i].event, name |-> filters[i].name, script |-> h.script]
    <2>1. \A i \in 1..Len(filters) : script(i) \in EventScript
      <3>1. \A f \in EventFilter : \A s \in STRING :
               [event |-> f.event, name |-> f.name, script |-> s] \in EventScript
        BY DEF EventScript, EventFilter
      <3> QED BY <1>1, <1>2, <3>1
    <2>2. ParseEventScript(h) = [i \in 1..Len(filters) |-> script(i)]
      BY <1>3
    <2> HIDE DEF script
    <2> QED BY <1>2, <2>1, <2>2
  <1>6. Range(filters) \subseteq EventFilter
    BY <1>2 DEF Range
  <1>7. Range(ParseEventScript(h)) = {[event |-> f.event, name |-> f.name, script |-> h.script] :
                                         f \in Range(filters)}
    BY <1>2, <1>3 DEF Range
  <1> QED BY <1>5, <1>6, <1>7 DEF filters

\* Whether a script is for an event, by the filter it is of.
LEMMA InvokedIs ==
  ASSUME NEW f \in EventFilter, NEW s, NEW e
  PROVE  Invoke([event |-> f.event, name |-> f.name, script |-> s], e)
            <=> f.event = "*" \/ (f.event = e.event /\ f.name \in {"", e.name})
  BY DEF EventFilter, Invoke

\* The scripts run for an event, of the list of a configuration, are those of
\* the handlers with a filter that lets the event pass.
LEMMA ScriptsRun ==
  ASSUME NEW conf, conf.handlers \in Seq(HandlerSetting), NEW e
  PROVE  RunOf(EventScripts(conf), e) = ScriptsFor(conf, e)
  <1> DEFINE H == conf.handlers
             scriptsOf == [i \in DOMAIN H |-> ParseEventScript(H[i])]
             Passes(f) == f.event = "*" \/ (f.event = e.event /\ f.name \in {"", e.name})
             Filters(h) == Range(ParseEventFilter(h.filters))
  <1>1. Len(H) \in Nat /\ DOMAIN H = 1..Len(H) /\ \A i \in 1..Len(H) : H[i] \in HandlerSetting
    OBVIOUS
  <1>2. scriptsOf \in Seq(Seq(EventScript)) /\ DOMAIN scriptsOf = 1..Len(H)
    <2>1. \A i \in 1..Len(H) : ParseEventScript(H[i]) \in Seq(EventScript)
      BY <1>1, ScriptsOfHandler
    <2> HIDE DEF H
    <2> QED BY <1>1, <2>1
  <1>3. Range(EventScripts(conf)) = UNION {Range(scriptsOf[i]) : i \in 1..Len(H)}
    <2> HIDE DEF scriptsOf
    <2>1. Range(FlattenSeq(scriptsOf)) = UNION {Range(scriptsOf[i]) : i \in 1..Len(H)}
      BY <1>2, FlatElements
    <2> QED BY <2>1 DEF EventScripts, scriptsOf
  <1>4. \A i \in 1..Len(H) : scriptsOf[i] = ParseEventScript(H[i])
    BY <1>1
  <1> HIDE DEF scriptsOf
  <1>5. \A i \in 1..Len(H) : Range(scriptsOf[i]) =
           {[event |-> f.event, name |-> f.name, script |-> H[i].script] : f \in Filters(H[i])}
    BY <1>1, <1>4, ScriptsOfHandler
  <1>6. \A i \in 1..Len(H) : \A f \in Filters(H[i]) :
           Invoke([event |-> f.event, name |-> f.name, script |-> H[i].script], e) <=> Passes(f)
    <2> HIDE DEF H
    <2>1. \A i \in 1..Len(H) : Filters(H[i]) \subseteq EventFilter
      BY <1>1, ScriptsOfHandler
    <2> QED BY <2>1, InvokedIs
  <1>7. RunOf(EventScripts(conf), e) =
           {H[i].script : i \in {i \in 1..Len(H) : \E f \in Filters(H[i]) : Passes(f)}}
    <2> HIDE DEF H, Passes, Filters
    <2>1. ASSUME NEW s \in RunOf(EventScripts(conf), e)
          PROVE  \E i \in 1..Len(H) : s = H[i].script /\ \E f \in Filters(H[i]) : Passes(f)
      <3>1. PICK y \in Range(EventScripts(conf)) : Invoke(y, e) /\ s = y.script
        BY DEF RunOf
      <3>2. PICK i \in 1..Len(H) : y \in Range(scriptsOf[i])
        BY <1>3, <3>1
      <3>3. PICK f \in Filters(H[i]) : y = [event |-> f.event, name |-> f.name, script |-> H[i].script]
        BY <1>5, <3>2
      <3>4. s = H[i].script /\ Passes(f)
        BY <1>6, <3>1, <3>3
      <3> QED BY <3>4
    <2>2. ASSUME NEW i \in 1..Len(H), NEW f \in Filters(H[i]), Passes(f)
          PROVE  H[i].script \in RunOf(EventScripts(conf), e)
      <3> DEFINE y == [event |-> f.event, name |-> f.name, script |-> H[i].script]
      <3>1. y \in Range(EventScripts(conf))
        BY <1>3, <1>5
      <3>2. Invoke(y, e) /\ y.script = H[i].script
        BY <1>6, <2>2
      <3> HIDE DEF y
      <3> QED BY <3>1, <3>2 DEF RunOf
    <2> QED BY <2>1, <2>2
  <1>8. \A i \in 1..Len(H) :
           (\E f \in Filters(H[i]) : Passes(f)) <=> (H[i].filters = <<>> \/ \E f \in Range(H[i].filters) : Passes(f))
    <2> SUFFICES ASSUME NEW i \in 1..Len(H)
                 PROVE  (\E f \in Filters(H[i]) : Passes(f))
                          <=> (H[i].filters = <<>> \/ \E f \in Range(H[i].filters) : Passes(f))
      OBVIOUS
    <2> HIDE DEF H
    <2>1. CASE H[i].filters = <<>>
      <3>1. ParseEventFilter(H[i].filters) = <<[event |-> "*", name |-> ""]>>
        BY <2>1 DEF ParseEventFilter
      <3>2. [event |-> "*", name |-> ""] \in Filters(H[i])
        <4>1. \A x : x \in Range(<<x>>)
          BY DEF Range
        <4> QED BY <3>1, <4>1
      <3>3. Passes([event |-> "*", name |-> ""])
        OBVIOUS
      <3> HIDE DEF Filters, Passes
      <3> QED BY <2>1, <3>2, <3>3
    <2>2. CASE H[i].filters # <<>>
      <3>1. Filters(H[i]) = Range(H[i].filters)
        BY <2>2 DEF ParseEventFilter
      <3> HIDE DEF Filters, Passes
      <3> QED BY <2>2, <3>1
    <2> QED BY <2>1, <2>2
  <1>9. ScriptsFor(conf, e) =
           {H[i].script : i \in {i \in 1..Len(H) : H[i].filters = <<>> \/ \E f \in Range(H[i].filters) : Passes(f)}}
    BY <1>1 DEF ScriptsFor, Range
  <1> HIDE DEF H, Passes, Filters
  <1> QED BY <1>7, <1>8, <1>9

\* The scripts run for an event are those that the configuration in force asks
\* for: none is left from an earlier one, and none is missing, for any filters.
THEOREM ScriptsAsConfigured == ReloadSpec => []ScriptsFresh
  <1>1. ASSUME InForce, Fresh, ran # NoRun PROVE ran.scripts = ScriptsFor(config, ran.event)
    <2>1. up /\ ran.scripts = RunOf(EventScripts(config), ran.event)
      BY <1>1 DEF Fresh
    <2>2. config.handlers \in Seq(HandlerSetting)
      BY <1>1, <2>1 DEF InForce
    <2> QED BY <2>1, <2>2, ScriptsRun
  <1>2. InForce /\ Fresh => ScriptsFresh
    BY <1>1 DEF ScriptsFresh
  <1> QED BY <1>2, ConfigInForce, ListIsFresh, PTL

-----------------------------------------------------------------------------
(* The tags: the inductive invariant. *)

Steps == {"idle", "open", "write", "gossip"}

AllIdle == \A s \in Setter : ~ Busy(s)

Call(step, t, asked, alone) == [step |-> step, tags |-> t, asked |-> asked, alone |-> alone]

IsCall(x) == \E step \in Steps, alone \in BOOLEAN : \E t, asked : x = Call(step, t, asked, alone)

IsFile(x) == \E kind, t : x = [state |-> kind, tags |-> t]

\* What kinds of values there are, as far as the tags are concerned.
Shape ==
    /\ persist \in BOOLEAN /\ up \in BOOLEAN /\ dirty \in BOOLEAN
    /\ IsFile(tagsFile)
    /\ job = [s \in Setter |-> job[s]]
    /\ \A s \in Setter : IsCall(job[s])

\* Calls are made while the process runs, and one that is alone is: the file
\* is as far as it is.
Calls ==
    /\ ~ up => AllIdle
    /\ \A s \in Setter : Busy(s) /\ job[s].alone => \A r \in Setter \ {s} : ~ Busy(r)
    /\ \A s \in Setter : job[s].step \in {"open", "write"} => persist
    /\ \A s \in Setter : job[s].alone => /\ job[s].step = "write" => tagsFile = File("empty")
                                         /\ job[s].step = "gossip" /\ persist => tagsFile = Whole(job[s].tags)

\* The file has the tags, or there is no file as nobody has changed them.
FileHas(t) == IF tagsFile.state = "absent" THEN t = NoTags ELSE tagsFile = Whole(t)

\* Unless calls overlapped or failed half-way: all calls took effect, and the
\* one under way, which is alone, will set what it was asked for.
InStep ==
    up /\ ~ dirty =>
       /\ tags = want
       /\ \A s \in Setter : Busy(s) => job[s].alone /\ job[s].tags = job[s].asked
       /\ persist /\ (\A s \in Setter : job[s].step \in {"idle", "open"}) => FileHas(tags)

\* And after a crash, the file has the tags or those of the call it cut off.
CutOff ==
    ~ up /\ ~ dirty /\ persist =>
       /\ tagsFile.state = "absent" => NoTags \in {tags} \cup inflight
       /\ tagsFile.state = "whole" => tagsFile.tags \in {tags} \cup inflight

TagsInv == Shape /\ Calls /\ InStep /\ CutOff

-----------------------------------------------------------------------------
(* What the parts of a call do to the calls. *)

\* The files there are.
LEMMA Files == /\ \A kind : IsFile(File(kind))
               /\ \A t : IsFile(Whole(t)) /\ Whole(t).state = "whole" /\ Whole(t).tags = t
  BY DEF IsFile, File, Whole

\* A call has the fields it is made of.
LEMMA Fields ==
  ASSUME NEW step \in Steps, NEW t, NEW asked, NEW alone \in BOOLEAN
  PROVE  LET c == Call(step, t, asked, alone)
         IN  c.step = step /\ c.tags = t /\ c.asked = asked /\ c.alone = alone /\ IsCall(c)
  <1>1. IsCall(Call(step, t, asked, alone))
    BY DEF IsCall
  <1>2. LET c == Call(step, t, asked, alone)
        IN  c.step = step /\ c.tags = t /\ c.asked = asked /\ c.alone = alone
    BY DEF Call
  <1> QED BY <1>1, <1>2

\* Every call is made of its fields.
LEMMA FieldsOf ==
  ASSUME Shape, NEW s \in Setter
  PROVE  /\ job[s] = Call(job[s].step, job[s].tags, job[s].asked, job[s].alone)
         /\ job[s].step \in Steps /\ job[s].alone \in BOOLEAN
  <1>1. PICK step \in Steps, alone \in BOOLEAN : \E t, asked : job[s] = Call(step, t, asked, alone)
    BY DEF Shape, IsCall
  <1>2. PICK t, asked : job[s] = Call(step, t, asked, alone)
    BY <1>1
  <1>3. job[s].step = step /\ job[s].tags = t /\ job[s].asked = asked /\ job[s].alone = alone
    BY <1>2, Fields
  <1> QED BY <1>2, <1>3

\* A call that is over is one, too.
LEMMA Resting == IsCall(Rest) /\ Rest.step = "idle" /\ Rest.tags = NoTags /\ Rest.alone = TRUE
  <1>1. "idle" \in Steps /\ TRUE \in BOOLEAN
    BY DEF Steps
  <1>2. Rest = Call("idle", NoTags, NoTags, TRUE)
    BY DEF Rest, Call
  <1>3. IsCall(Rest)
    BY <1>1, <1>2, Zenon DEF IsCall
  <1> QED BY <1>3 DEF Rest

\* A call that goes on keeps all but its step, and leaves the others alone.
LEMMA CallGoes ==
  ASSUME Shape, NEW s \in Setter, NEW step \in Steps, Goes(s, step)
  PROVE  /\ job' = [r \in Setter |-> job'[r]] /\ \A r \in Setter : IsCall(job'[r])
         /\ job'[s].step = step /\ job'[s].tags = job[s].tags /\ job'[s].asked = job[s].asked
         /\ job'[s].alone = job[s].alone /\ job[s].alone \in BOOLEAN
         /\ \A r \in Setter \ {s} : job'[r] = job[r]
  <1>1. /\ job[s] = Call(job[s].step, job[s].tags, job[s].asked, job[s].alone)
        /\ job[s].alone \in BOOLEAN
    BY FieldsOf
  <1>2. job'[s] = Call(step, job[s].tags, job[s].asked, job[s].alone)
    <2>1. job'[s] = [job[s] EXCEPT !.step = step]
      BY DEF Shape, Goes
    <2> QED BY <1>1, <2>1 DEF Call
  <1>3. job' = [r \in Setter |-> job'[r]] /\ \A r \in Setter \ {s} : job'[r] = job[r]
    BY DEF Shape, Goes
  <1>4. \A r \in Setter : IsCall(job'[r])
    BY <1>1, <1>2, <1>3, Fields DEF Shape
  <1> QED BY <1>1, <1>2, <1>3, <1>4, Fields

\* A call that ends leaves the others alone.
LEMMA CallEnds ==
  ASSUME Shape, NEW s \in Setter, Ends(s)
  PROVE  /\ job' = [r \in Setter |-> job'[r]] /\ \A r \in Setter : IsCall(job'[r])
         /\ job'[s].step = "idle" /\ job'[s].tags = NoTags /\ job'[s].alone = TRUE
         /\ \A r \in Setter \ {s} : job'[r] = job[r]
  <1>1. job'[s] = Rest /\ job' = [r \in Setter |-> job'[r]] /\ \A r \in Setter \ {s} : job'[r] = job[r]
    BY DEF Shape, Ends
  <1> QED BY <1>1, Resting DEF Shape

\* A call that begins is not alone if there are others, and those are not
\* from then on.
LEMMA CallBegins ==
  ASSUME Shape, NEW s \in Setter, ~ Busy(s), NEW t, NEW asked, SetTags(s, t, asked)
  PROVE  /\ job' = [r \in Setter |-> job'[r]] /\ \A r \in Setter : IsCall(job'[r])
         /\ job'[s].step = (IF persist THEN "open" ELSE "gossip")
         /\ job'[s].tags = t /\ job'[s].asked = asked /\ (job'[s].alone <=> AllIdle)
         /\ \A r \in Setter \ {s} : job'[r].step = job[r].step /\ (job'[r].alone <=> job[r].alone /\ ~ Busy(r))
         /\ dirty' = (dirty \/ ~ AllIdle)
         /\ UNCHANGED <<tagsFile, tags, want, inflight>>
  <1> DEFINE first == IF persist THEN "open" ELSE "gossip"
  <1>0. first \in Steps
    BY DEF Steps
  <1>1. /\ job' = [r \in Setter |-> job'[r]]
        /\ job'[s] = Call(first, t, asked, AllIdle)
        /\ \A r \in Setter \ {s} : job'[r] = [job[r] EXCEPT !.alone = @ /\ ~ Busy(r)]
    BY DEF SetTags, AllIdle, Call
  <1>2. AllIdle \in BOOLEAN
    BY DEF AllIdle
  <1>3. /\ job'[s].step = first /\ job'[s].tags = t /\ job'[s].asked = asked /\ job'[s].alone = AllIdle
        /\ IsCall(job'[s])
    BY <1>0, <1>1, <1>2, Fields
  <1>4. ASSUME NEW r \in Setter \ {s}
        PROVE  IsCall(job'[r]) /\ job'[r].step = job[r].step /\ (job'[r].alone <=> job[r].alone /\ ~ Busy(r))
    <2> DEFINE alone == job[r].alone /\ ~ Busy(r)
    <2>1. /\ job[r] = Call(job[r].step, job[r].tags, job[r].asked, job[r].alone)
          /\ job[r].step \in Steps
      BY FieldsOf
    <2>2. alone \in BOOLEAN
      OBVIOUS
    <2>3. job'[r] = [job[r] EXCEPT !.alone = alone]
      BY <1>1
    <2> HIDE DEF alone
    <2>4. job'[r] = Call(job[r].step, job[r].tags, job[r].asked, alone)
      BY <2>1, <2>3 DEF Call
    <2>5. job'[r].alone = alone /\ job'[r].step = job[r].step /\ IsCall(job'[r])
      BY <2>1, <2>2, <2>4, Fields
    <2> QED BY <2>5 DEF alone
  <1>5. dirty' = (dirty \/ ~ AllIdle) /\ UNCHANGED <<tagsFile, tags, want, inflight>>
    BY DEF SetTags, AllIdle
  <1> HIDE DEF first
  <1>6. \A r \in Setter : IsCall(job'[r])
    BY <1>3, <1>4
  <1> QED BY <1>1, <1>3, <1>4, <1>5, <1>6 DEF first

-----------------------------------------------------------------------------
(* The steps. *)

\* The beginning of a call: if all others are over and took effect, what it
\* sets is what it was asked for.
LEMMA BeginStep ==
  ASSUME TagsInv, up, UNCHANGED <<persist, up>>, NEW s \in Setter, ~ Busy(s), NEW t, NEW asked,
         SetTags(s, t, asked), tags = want => t = asked
  PROVE  TagsInv'
  <1>0. Shape /\ Calls /\ InStep /\ persist \in BOOLEAN /\ dirty \in BOOLEAN
    BY DEF TagsInv, Shape
  <1>1. /\ job' = [r \in Setter |-> job'[r]] /\ \A r \in Setter : IsCall(job'[r])
        /\ dirty' = (dirty \/ ~ AllIdle)
        /\ UNCHANGED <<tagsFile, tags, want, inflight>>
    BY <1>0, CallBegins
  <1>2. \A r \in Setter \ {s} : job'[r].step = job[r].step /\ (job'[r].alone => job[r].alone /\ ~ Busy(r))
    BY <1>0, CallBegins
  <1>3. /\ job'[s].step = (IF persist THEN "open" ELSE "gossip") /\ job'[s].tags = t
        /\ job'[s].asked = asked /\ (job'[s].alone <=> AllIdle)
    BY <1>0, CallBegins
  <1>5. Shape'
    BY <1>0, <1>1 DEF Shape
  <1>6. Calls'
    <2>1. up'
      OBVIOUS
    <2>2. ASSUME NEW q \in Setter, Busy(q)', job'[q].alone, NEW r \in Setter \ {q} PROVE ~ Busy(r)'
      <3>1. q = s
        BY <1>2, <2>2 DEF Busy
      <3>2. AllIdle /\ job'[r].step = job[r].step
        BY <1>2, <1>3, <2>2, <3>1
      <3> QED BY <3>2 DEF AllIdle, Busy
    <2>3. \A q \in Setter : job'[q].step \in {"open", "write"} => persist'
      BY <1>0, <1>2, <1>3 DEF Calls
    <2>4. ASSUME NEW q \in Setter, job'[q].alone
          PROVE  /\ job'[q].step = "write" => tagsFile' = File("empty")
                 /\ job'[q].step = "gossip" /\ persist' => tagsFile' = Whole(job'[q].tags)
      BY <1>2, <1>3, <2>4 DEF Busy
    <2> QED BY <2>1, <2>2, <2>3, <2>4 DEF Calls
  <1>7. InStep'
    <2> SUFFICES ASSUME ~ dirty' PROVE InStep'
      BY DEF InStep
    <2>1. ~ dirty /\ AllIdle
      BY <1>1
    <2>2. tags = want /\ (persist => FileHas(tags))
      BY <1>0, <2>1 DEF InStep, AllIdle, Busy
    <2>3. \A r \in Setter : Busy(r)' => r = s
      BY <1>2, <2>1 DEF AllIdle, Busy
    <2>4. FileHas(tags)' <=> FileHas(tags)
      BY <1>1 DEF FileHas
    <2> QED BY <1>1, <1>3, <2>1, <2>2, <2>3, <2>4 DEF InStep
  <1>8. CutOff'
    BY DEF CutOff
  <1> QED BY <1>5, <1>6, <1>7, <1>8 DEF TagsInv

\* The file is opened, and emptied, or cannot be.
LEMMA OpenStep == ASSUME TagsInv, NEW s \in Setter, OpenTagsFile(s) PROVE TagsInv'
  <1>0. /\ Shape /\ Calls /\ InStep /\ job[s].step = "open" /\ Busy(s) /\ up /\ persist
        /\ UNCHANGED <<persist, up, tags, want, dirty, inflight>>
    BY DEF TagsInv, OpenTagsFile, Calls, AllIdle, Busy
  <1>1. CASE Goes(s, "write") /\ tagsFile' = File("empty")
    <2>1. /\ job' = [r \in Setter |-> job'[r]] /\ \A r \in Setter : IsCall(job'[r])
          /\ job'[s].step = "write" /\ job'[s].tags = job[s].tags /\ job'[s].asked = job[s].asked
          /\ job'[s].alone = job[s].alone /\ job[s].alone \in BOOLEAN
          /\ \A r \in Setter \ {s} : job'[r] = job[r]
      BY <1>0, <1>1, CallGoes DEF Steps
    <2>2. Shape'
      BY <1>0, <1>1, <2>1, Files DEF Shape
    <2>3. \A r \in Setter : Busy(r)' <=> Busy(r)
      BY <1>0, <2>1 DEF Busy
    <2>4. Calls'
      <3>1. \A q \in Setter : Busy(q)' /\ job'[q].alone => \A r \in Setter \ {q} : ~ Busy(r)'
        BY <1>0, <2>1, <2>3 DEF Calls
      <3>2. \A q \in Setter : job'[q].alone /\ Busy(q) => q = s
        BY <1>0, <2>1 DEF Calls
      <3> QED BY <1>0, <1>1, <2>1, <2>3, <3>1, <3>2 DEF Calls, AllIdle, Busy
    <2>5. InStep'
      BY <1>0, <2>1, <2>3 DEF InStep
    <2> QED BY <1>0, <2>2, <2>4, <2>5 DEF TagsInv, CutOff
  <1>2. CASE Ends(s) /\ tagsFile' = tagsFile
    <2>1. /\ job' = [r \in Setter |-> job'[r]] /\ \A r \in Setter : IsCall(job'[r])
          /\ job'[s].step = "idle" /\ job'[s].tags = NoTags /\ job'[s].alone = TRUE
          /\ \A r \in Setter \ {s} : job'[r] = job[r]
      BY <1>0, <1>2, CallEnds
    <2>2. Shape'
      BY <1>0, <1>2, <2>1 DEF Shape
    <2>3. ~ Busy(s)' /\ \A r \in Setter \ {s} : Busy(r)' <=> Busy(r)
      BY <2>1 DEF Busy
    <2>4. Calls'
      BY <1>0, <1>2, <2>1, <2>3 DEF Calls, Busy
    <2>5. InStep'
      <3> SUFFICES ASSUME ~ dirty PROVE InStep'
        BY <1>0 DEF InStep
      <3>1. \A r \in Setter \ {s} : job[r].step = "idle"
        BY <1>0 DEF InStep, Calls, Busy
      <3>2. FileHas(tags)
        BY <1>0, <3>1 DEF InStep
      <3>3. FileHas(tags)'
        BY <1>0, <1>2, <3>2 DEF FileHas
      <3> QED BY <1>0, <2>1, <2>3, <3>3 DEF InStep
    <2> QED BY <1>0, <2>2, <2>4, <2>5 DEF TagsInv, CutOff
  <1> QED BY <1>1, <1>2 DEF OpenTagsFile

\* The file is written, by one call alone as a whole.
LEMMA WriteFileStep == ASSUME TagsInv, NEW s \in Setter, WriteTagsFile(s) PROVE TagsInv'
  <1>0. /\ Shape /\ Calls /\ InStep /\ job[s].step = "write" /\ Busy(s) /\ up /\ persist
        /\ UNCHANGED <<persist, up, tags, want, inflight>>
    BY DEF TagsInv, WriteTagsFile, Calls, AllIdle, Busy
  <1>1. CASE /\ Goes(s, "gossip") /\ dirty' = dirty
             /\ \/ tagsFile' = Whole(job[s].tags)
                \/ tagsFile.state # "empty" /\ tagsFile' = File("garbled")
    <2>1. /\ job' = [r \in Setter |-> job'[r]] /\ \A r \in Setter : IsCall(job'[r])
          /\ job'[s].step = "gossip" /\ job'[s].tags = job[s].tags /\ job'[s].asked = job[s].asked
          /\ job'[s].alone = job[s].alone /\ job[s].alone \in BOOLEAN
          /\ \A r \in Setter \ {s} : job'[r] = job[r]
      BY <1>0, <1>1, CallGoes DEF Steps
    <2>2. Shape'
      BY <1>0, <1>1, <2>1, Files DEF Shape
    <2>3. \A r \in Setter : Busy(r)' <=> Busy(r)
      BY <1>0, <2>1 DEF Busy
    <2>4. Calls'
      <3>1. \A q \in Setter : Busy(q)' /\ job'[q].alone => \A r \in Setter \ {q} : ~ Busy(r)'
        BY <1>0, <2>1, <2>3 DEF Calls
      <3>2. \A q \in Setter : job'[q].alone /\ Busy(q) => q = s
        BY <1>0, <2>1 DEF Calls
      <3>3. job[s].alone => tagsFile' = Whole(job[s].tags)
        BY <1>0, <1>1 DEF Calls, File
      <3> QED BY <1>0, <2>1, <2>3, <3>1, <3>2, <3>3 DEF Calls, AllIdle, Busy
    <2>5. InStep'
      BY <1>0, <1>1, <2>1, <2>3 DEF InStep
    <2> QED BY <1>0, <2>2, <2>4, <2>5 DEF TagsInv, CutOff
  <1>2. CASE Ends(s) /\ tagsFile' = File("garbled") /\ dirty' = TRUE
    <2>1. /\ job' = [r \in Setter |-> job'[r]] /\ \A r \in Setter : IsCall(job'[r])
          /\ job'[s].step = "idle" /\ job'[s].tags = NoTags /\ job'[s].alone = TRUE
          /\ \A r \in Setter \ {s} : job'[r] = job[r]
      BY <1>0, <1>2, CallEnds
    <2>2. Shape'
      BY <1>0, <1>2, <2>1, Files DEF Shape
    <2>3. ~ Busy(s)' /\ \A r \in Setter \ {s} : Busy(r)' <=> Busy(r)
      BY <2>1 DEF Busy
    <2>4. \A r \in Setter \ {s} : Busy(r) => ~ job[r].alone
      BY <1>0 DEF Calls
    <2>5. Calls'
      BY <1>0, <1>2, <2>1, <2>3, <2>4 DEF Calls, Busy
    <2> QED BY <1>0, <1>2, <2>2, <2>5 DEF TagsInv, InStep, CutOff
  <1> QED BY <1>1, <1>2 DEF WriteTagsFile

\* The tags are gossiped, or refused; a call that was alone, and not refused,
\* leaves tags and file in step.
LEMMA GossipStep == ASSUME TagsInv, NEW s \in Setter, Gossip(s) PROVE TagsInv'
  <1>0. /\ Shape /\ Calls /\ InStep /\ job[s].step = "gossip" /\ Busy(s) /\ up /\ Ends(s)
        /\ UNCHANGED <<persist, up, tagsFile, inflight>> /\ dirty \in BOOLEAN /\ persist \in BOOLEAN
        /\ job[s].alone \in BOOLEAN
    <2>1. Shape /\ Calls /\ InStep /\ job[s].step = "gossip"
      BY DEF TagsInv, Gossip
    <2>2. dirty \in BOOLEAN /\ persist \in BOOLEAN /\ job[s].alone \in BOOLEAN
      BY <2>1, FieldsOf DEF Shape
    <2> QED BY <2>1, <2>2 DEF Gossip, Calls, AllIdle, Busy, confVars
  <1>1. /\ job' = [r \in Setter |-> job'[r]] /\ \A r \in Setter : IsCall(job'[r])
        /\ job'[s].step = "idle" /\ job'[s].tags = NoTags /\ job'[s].alone = TRUE
        /\ \A r \in Setter \ {s} : job'[r] = job[r]
    BY <1>0, CallEnds
  <1>2. dirty' \in BOOLEAN
    BY <1>0 DEF Gossip
  <1>3. Shape'
    BY <1>0, <1>1, <1>2 DEF Shape
  <1>4. ~ Busy(s)' /\ \A r \in Setter \ {s} : Busy(r)' <=> Busy(r)
    BY <1>1 DEF Busy
  <1>5. Calls'
    BY <1>0, <1>1, <1>4 DEF Calls, Busy
  <1>6. InStep'
    <2> SUFFICES ASSUME ~ dirty' PROVE InStep'
      BY DEF InStep
    <2>1. CASE Fits(job[s].tags)
      <3>1. /\ tags' = job[s].tags /\ want' = (IF dirty THEN job[s].tags ELSE job[s].asked)
            /\ job[s].alone
        BY <1>0, <2>1 DEF Gossip, InStep
      <3>2. tags' = want'
        BY <1>0, <3>1 DEF InStep
      <3>3. \A r \in Setter : ~ Busy(r)'
        BY <1>0, <1>4, <3>1 DEF Calls
      <3>4. persist => tagsFile = Whole(tags')
        BY <1>0, <3>1 DEF Calls
      <3>5. persist' => FileHas(tags)'
        BY <1>0, <3>4 DEF FileHas, Whole
      <3> QED BY <3>2, <3>3, <3>5 DEF InStep
    <2>2. CASE ~ Fits(job[s].tags)
      <3>1. ~ dirty /\ ~ persist /\ tags' = tags /\ want' = want
        BY <1>0, <2>2 DEF Gossip
      <3> QED BY <1>0, <1>1, <1>4, <3>1 DEF InStep
    <2> QED BY <2>1, <2>2
  <1>7. CutOff'
    BY <1>0 DEF CutOff
  <1> QED BY <1>3, <1>5, <1>6, <1>7 DEF TagsInv

\* The process starts: its tags are those of the file, or, without one, of
\* the configuration, which then must have none if they are to be kept.
LEMMA StartStep == ASSUME TagsInv, NEW files \in FileLists, Start(files) PROVE TagsInv'
  <1> DEFINE conf == readConfig(files, CmdConfig)
  <1>0. /\ Shape /\ Calls /\ ~ up /\ up' = TRUE /\ tags' = StartTags(conf) /\ want' = StartTags(conf)
        /\ persist => conf.tags = NoTags /\ tagsFile.state \in {"absent", "whole"}
        /\ dirty' = FALSE /\ UNCHANGED <<persist, tagsFile, job>>
    BY DEF TagsInv, Start
  <1> HIDE DEF conf
  <1>1. AllIdle /\ AllIdle'
    BY <1>0 DEF Calls, AllIdle, Busy
  <1>2. Shape'
    BY <1>0 DEF Shape
  <1>3. Calls'
    BY <1>0, <1>1 DEF Calls, AllIdle, Busy
  <1>4. persist => FileHas(tags)'
    <2>1. CASE persist /\ tagsFile.state = "absent"
      BY <1>0, <2>1 DEF StartTags, Restored, FileHas
    <2>2. CASE persist /\ tagsFile.state = "whole"
      <3>1. tagsFile = Whole(tagsFile.tags)
        BY <1>0, <2>2 DEF Shape, IsFile, Whole
      <3> QED BY <1>0, <2>2, <3>1 DEF StartTags, Restored, FileHas
    <2> QED BY <1>0, <2>1, <2>2
  <1>5. InStep'
    BY <1>0, <1>1, <1>4 DEF InStep, AllIdle, Busy
  <1>6. CutOff'
    BY <1>0 DEF CutOff
  <1> QED BY <1>2, <1>3, <1>5, <1>6 DEF TagsInv

\* The process is killed, between calls or in the middle of one.
LEMMA CrashStep == ASSUME TagsInv, Crash PROVE TagsInv'
  <1>0. /\ Shape /\ Calls /\ InStep /\ up /\ up' = FALSE /\ job' = [s \in Setter |-> Rest]
        /\ inflight' = {job[s].tags : s \in {s \in Setter : Busy(s)}}
        /\ UNCHANGED <<persist, tagsFile, tags, want, dirty>>
    BY DEF TagsInv, Crash
  <1>1. IsCall(Rest) /\ Rest.step = "idle"
    BY Resting
  <1>2. Shape'
    BY <1>0, <1>1 DEF Shape
  <1>3. \A s \in Setter : job'[s] = Rest
    BY <1>0
  <1>4. Calls'
    BY <1>0, <1>1, <1>3 DEF Calls, AllIdle, Busy
  <1>5. CutOff'
    <2> SUFFICES ASSUME ~ dirty, persist
                 PROVE  /\ tagsFile.state = "absent" => NoTags \in {tags} \cup inflight'
                        /\ tagsFile.state = "whole" => tagsFile.tags \in {tags} \cup inflight'
      BY <1>0 DEF CutOff
    <2>1. CASE \A s \in Setter : job[s].step \in {"idle", "open"}
      <3>1. FileHas(tags)
        BY <1>0, <2>1 DEF InStep
      <3> QED BY <3>1, Files DEF FileHas
    <2>2. CASE \E s \in Setter : job[s].step \notin {"idle", "open"}
      <3>1. PICK s \in Setter : job[s].step \in {"write", "gossip"}
        BY <1>0, <2>2, FieldsOf DEF Steps
      <3>2. Busy(s) /\ job[s].alone /\ job[s].tags \in inflight'
        BY <1>0, <3>1 DEF InStep, Busy
      <3>3. tagsFile = File("empty") \/ tagsFile = Whole(job[s].tags)
        BY <1>0, <3>1, <3>2 DEF Calls
      <3>4. File("empty").state = "empty"
        BY DEF File
      <3> QED BY <3>2, <3>3, <3>4, Files
    <2> QED BY <2>1, <2>2
  <1>6. InStep'
    BY <1>0 DEF InStep
  <1> QED BY <1>2, <1>4, <1>5, <1>6 DEF TagsInv

\* The invariant holds in every state.
LEMMA TagsInvariant == ReloadSpec => []TagsInv
  <1>1. ReloadInit => TagsInv
    <2> SUFFICES ASSUME ReloadInit PROVE TagsInv
      OBVIOUS
    <2>1. IsCall(Rest) /\ Rest.step = "idle"
      BY Resting
    <2>2. Shape
      BY <2>1, Files DEF ReloadInit, Shape
    <2>3. File("absent").state = "absent"
      BY DEF File
    <2> QED BY <2>1, <2>2, <2>3 DEF ReloadInit, TagsInv, Calls, AllIdle, Busy, InStep, CutOff
  <1>2. ASSUME TagsInv, [ReloadNext]_reloadVars PROVE TagsInv'
    <2>1. ASSUME NEW files \in FileLists, handleReload(files) PROVE TagsInv'
      <3>1. /\ up /\ ~ Busy(Main) /\ Main \in Setter /\ UNCHANGED <<persist, up>>
            /\ SetTags(Main, readConfig(files, CmdConfig).tags, readConfig(files, CmdConfig).tags)
        BY <2>1 DEF handleReload, Setter
      <3> QED BY <1>2, <3>1, BeginStep
    <2>2. ASSUME NEW c \in Client, NEW req \in Request, handleTags(c, req) PROVE TagsInv'
      <3>1. /\ up /\ ~ Busy(c) /\ c \in Setter /\ UNCHANGED <<persist, up>>
            /\ SetTags(c, Applied(tags, req), Applied(want, req))
        BY <2>2 DEF handleTags, Setter
      <3>2. tags = want => Applied(tags, req) = Applied(want, req)
        OBVIOUS
      <3> QED BY <1>2, <3>1, <3>2, BeginStep
    <2>3. CASE RemoveTagsFile
      <3>1. Shape'
        BY <1>2, <2>3, Files DEF RemoveTagsFile, TagsInv, Shape
      <3>2. /\ Calls /\ ~ up /\ UNCHANGED <<persist, up, job>> /\ dirty' = TRUE
        BY <1>2, <2>3 DEF RemoveTagsFile, TagsInv
      <3>3. Calls'
        BY <3>2 DEF Calls, AllIdle, Busy
      <3> QED BY <3>1, <3>2, <3>3 DEF TagsInv, InStep, CutOff
    <2>4. CASE UNCHANGED <<persist, up, tagVars>>
      BY <1>2, <2>4 DEF tagVars, TagsInv, Shape, Calls, AllIdle, Busy, InStep, FileHas, CutOff
    <2>5. ASSUME NEW e \in Event, HandleEvent(e) PROVE TagsInv'
      BY <2>4, <2>5 DEF HandleEvent
    <2>6. CASE UNCHANGED reloadVars
      BY <2>4, <2>6 DEF reloadVars
    <2> QED BY <1>2, <2>1, <2>2, <2>3, <2>5, <2>6, StartStep, CrashStep, OpenStep, WriteFileStep, GossipStep
            DEF ReloadNext
  <1> QED BY <1>1, <1>2, PTL DEF ReloadSpec

-----------------------------------------------------------------------------
\* After calls one after the other, of whichever clients, the tags are those the
\* clients asked for since the last reload or start, over the ones it brought,
\* and file and tags agree when no call is under way.
THEOREM TagsAddUp == ReloadSpec => []TagsAsAsked
  <1>1. TagsInv => TagsAsAsked
    BY DEF TagsInv, InStep, FileHas, TagsAsAsked, Busy
  <1> QED BY <1>1, TagsInvariant, PTL

\* A start finds the tags gossiped last, or those of the call the crash cut
\* off: writeTagsFile is done before serf.SetTags (agent.go).
THEOREM TagsSurvive == ReloadSpec => Durable
  <1>1. TagsInv /\ [ReloadNext]_reloadVars =>
           [~ up /\ up' /\ persist /\ ~ dirty => tags' \in {tags} \cup inflight]_reloadVars
    <2> SUFFICES ASSUME TagsInv, ReloadNext, ~ up, up', persist, ~ dirty
                 PROVE  tags' \in {tags} \cup inflight
      OBVIOUS
    <2>1. PICK files \in FileLists : Start(files)
      BY DEF ReloadNext, Crash, RemoveTagsFile, handleReload, handleTags, HandleEvent,
             OpenTagsFile, WriteTagsFile, Gossip
    <2> DEFINE conf == readConfig(files, CmdConfig)
    <2>2. /\ tags' = StartTags(conf) /\ conf.tags = NoTags /\ tagsFile.state \in {"absent", "whole"}
      BY <2>1 DEF Start
    <2> HIDE DEF conf
    <2>3. tags' = IF tagsFile.state = "whole" THEN tagsFile.tags ELSE NoTags
      BY <2>2 DEF StartTags, Restored
    <2> QED BY <2>2, <2>3 DEF TagsInv, CutOff
  <1> QED BY <1>1, TagsInvariant, PTL DEF ReloadSpec, Durable

=============================================================================
