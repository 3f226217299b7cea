------------------------------- MODULE Cache -------------------------------
(***************************************************************************)
(* The expiring cache of discoverd/util/cache/cache.go in which an agent   *)
(* keeps the applications registered with it, and its janitor goroutine.   *)
(* Every operation runs under the cache's lock, so each is one step.       *)
(*                                                                         *)
(* Expiration times are kept relative to the present: an item has time     *)
(* "left", which is negative once its Expiration is Before(time.Now()).    *)
(* Tick lets a unit of time pass.  The ticker of the janitor has a channel *)
(* with one slot ("due"): a tick that finds it full is dropped.  A due     *)
(* tick waits for the janitor to be scheduled, at most MaxLag units.       *)
(* Save, Load and the finalizer are not modelled: the program uses none of *)
(* the first two, and the repository that owns the cache is never freed.   *)
(***************************************************************************)
EXTENDS Integers

CONSTANTS
    Key, Object,
    Duration,           \* durations the callers pass
    GivenExpiration,    \* the two arguments of NewCache
    CleanupInterval,
    MaxLag              \* bound on the scheduling delay of the janitor

ASSUME DurationAssumption == Duration \subseteq Int /\ GivenExpiration \in Int
ASSUME JanitorAssumption == CleanupInterval \in Nat \ {0} /\ MaxLag \in Nat

VARIABLES
    items,    \* the map of the cache
    handler,  \* whether RegExpiredHandler was called
    phase,    \* time to the next tick of the janitor's ticker
    due,      \* a tick is in the ticker's channel
    lag,      \* for how long
    dm        \* the batch the latest step passed to the handler

vars == <<items, handler, phase, due, lag, dm>>

NoExpiration == -1
DefaultExpiration == 0

defaultExpiration == IF GivenExpiration = 0 THEN NoExpiration ELSE GivenExpiration

\* The expiration time set and Refresh compute; without one, left is 0.
Lifetime(d) ==
    LET e == IF d = DefaultExpiration THEN defaultExpiration ELSE d
    IN  [expires |-> e > 0, left |-> IF e > 0 THEN e ELSE 0]

Item == [object : Object, time : [expires : BOOLEAN, left : Int]]

Nothing == [k \in {} |-> k]

Expired(item) == item.time.expires /\ item.time.left < 0

\* The same item, seen one unit of time later.
Aged(item) ==
    [object |-> item.object,
     time   |-> [expires |-> item.time.expires,
                 left    |-> IF item.time.expires THEN item.time.left - 1 ELSE item.time.left]]

\* get: what Get, Add and Refresh take for present.
Found(k) == k \in DOMAIN items /\ ~ Expired(items[k])

set(k, x, d) ==
    items' = [j \in DOMAIN items \cup {k} |->
                IF j = k THEN [object |-> x, time |-> Lifetime(d)] ELSE items[j]]

TypeOK == /\ DOMAIN items \subseteq Key /\ items \in [DOMAIN items -> Item]
          /\ handler \in BOOLEAN
          /\ phase \in 1..CleanupInterval
          /\ due \in BOOLEAN
          /\ lag \in 0..MaxLag
          /\ DOMAIN dm \subseteq Key /\ dm \in [DOMAIN dm -> Object]

Init == /\ items = Nothing
        /\ handler = FALSE
        /\ phase = CleanupInterval
        /\ due = FALSE
        /\ lag = 0
        /\ dm = Nothing

RegExpiredHandler ==
    /\ handler' = TRUE
    /\ dm' = Nothing
    /\ UNCHANGED <<items, phase, due, lag>>

Set(k, x, d) ==
    /\ set(k, x, d)
    /\ dm' = Nothing
    /\ UNCHANGED <<handler, phase, due, lag>>

\* Returns an error, and changes nothing, when the key is found.
Add(k, x, d) ==
    /\ ~ Found(k)
    /\ Set(k, x, d)

\* Returns false, and changes nothing, when the key is not found.
Refresh(k, d) ==
    /\ Found(k)
    /\ items' = [items EXCEPT ![k] = [object |-> items[k].object, time |-> Lifetime(d)]]
    /\ dm' = Nothing
    /\ UNCHANGED <<handler, phase, due, lag>>

Delete(k) ==
    /\ items' = [j \in DOMAIN items \ {k} |-> items[j]]
    /\ dm' = Nothing
    /\ UNCHANGED <<handler, phase, due, lag>>

Flush ==
    /\ items' = Nothing
    /\ dm' = Nothing
    /\ UNCHANGED <<handler, phase, due, lag>>

\* Mutants of DeleteExpired: an item goes in the last unit of its time, and
\* nothing is removed while there is no handler.
DeleteExpiredEarly ==
    LET gone == {k \in DOMAIN items : items[k].time.expires /\ items[k].time.left <= 0}
    IN  /\ due
        /\ items' = [k \in DOMAIN items \ gone |-> items[k]]
        /\ dm' = IF handler THEN [k \in gone |-> items[k].object] ELSE Nothing
        /\ due' = FALSE
        /\ lag' = 0
        /\ UNCHANGED <<handler, phase>>

DeleteExpiredIfHandled ==
    LET gone == IF handler THEN {k \in DOMAIN items : Expired(items[k])} ELSE {}
    IN  /\ due
        /\ items' = [k \in DOMAIN items \ gone |-> items[k]]
        /\ dm' = [k \in gone |-> items[k].object]
        /\ due' = FALSE
        /\ lag' = 0
        /\ UNCHANGED <<handler, phase>>

\* The janitor takes the tick and removes what has expired; the handler, if
\* there is one, gets the removed objects in a goroutine of its own.
DeleteExpired ==
    LET gone == {k \in DOMAIN items : Expired(items[k])}
    IN  /\ due
        /\ items' = [k \in DOMAIN items \ gone |-> items[k]]
        /\ dm' = IF handler THEN [k \in gone |-> items[k].object] ELSE Nothing
        /\ due' = FALSE
        /\ lag' = 0
        /\ UNCHANGED <<handler, phase>>

\* Mutant of Tick: the ticker fires once and is not armed again.
TickOnce ==
    /\ due => lag < MaxLag
    /\ items' = [k \in DOMAIN items |-> Aged(items[k])]
    /\ phase' = phase - 1
    /\ due' = (due \/ phase = 1)
    /\ lag' = IF due THEN lag + 1 ELSE 0
    /\ dm' = Nothing
    /\ UNCHANGED handler

Tick ==
    /\ due => lag < MaxLag
    /\ items' = [k \in DOMAIN items |-> Aged(items[k])]
    /\ phase' = IF phase = 1 THEN CleanupInterval ELSE phase - 1
    /\ due' = (due \/ phase = 1)
    /\ lag' = IF due THEN lag + 1 ELSE 0
    /\ dm' = Nothing
    /\ UNCHANGED handler

Next == \/ RegExpiredHandler
        \/ \E k \in Key, x \in Object, d \in Duration : Set(k, x, d) \/ Add(k, x, d)
        \/ \E k \in Key, d \in Duration : Refresh(k, d)
        \/ \E k \in Key : Delete(k)
        \/ Flush
        \/ DeleteExpired
        \/ Tick

Spec == Init /\ [][Next]_vars

-----------------------------------------------------------------------------
\* What the residence bound rests on: how long an expired item has stayed
\* depends on where the ticker is.
ResidenceByPhase ==
    \A k \in DOMAIN items :
        items[k].time.expires =>
            IF due THEN - items[k].time.left <= CleanupInterval + lag
            ELSE phase - items[k].time.left <= CleanupInterval

\* An expired item stays in the map for at most the cleanup interval and the
\* delay of the janitor, whatever is stored, refreshed and dropped meanwhile
\* and also when ticks are dropped.  (With NewCache(ttl, ttl), as the
\* repository has it, an application is gone 2 * ttl after its last refresh,
\* not ttl after it, as README.md:57 has it.)
Residence ==
    \A k \in DOMAIN items :
        items[k].time.expires => - items[k].time.left <= CleanupInterval + MaxLag

-----------------------------------------------------------------------------
LivePart == [k \in {j \in DOMAIN items : ~ Expired(items[j])} |-> items[k]]

OwedPart == [k \in {j \in DOMAIN items : Expired(items[j])} |-> items[k].object]

Promise == INSTANCE Lease WITH live <- LivePart, owed <- OwedPart

\* The lazily cleaned map with its periodic janitor is indistinguishable
\* from items that vanish at the very end of their time: nothing that is
\* alive is removed by the janitor or handed to the handler, and a batch has
\* all that expired and was not replaced.
ImplementsLease == Promise!Spec

=============================================================================
