------------------------------- MODULE Lease -------------------------------
(***************************************************************************)
(* What the expiring cache promises its users.  An item is there until its *)
(* time is up, to the instant; from then on no reader finds it, and it is  *)
(* owed to the expiry handler until a batch with everything that is owed   *)
(* is reported.  Storing the key again, deleting it or flushing cancels    *)
(* the debt: the handler never hears of that item.  There is no janitor    *)
(* and no left-over item in sight.                                         *)
(***************************************************************************)
EXTENDS Integers

CONSTANTS Key, Object, Lifetime(_), Duration

VARIABLES
    live,     \* the items that are found, with the time they have left
    owed,     \* objects that expired and were not reported yet, by key
    handler,  \* whether an expiry handler is installed
    dm        \* the batch the latest step reported

vars == <<live, owed, handler, dm>>

Nothing == [k \in {} |-> k]

Without(f, K) == [k \in DOMAIN f \ K |-> f[k]]

With(f, k, v) == [j \in DOMAIN f \cup {k} |-> IF j = k THEN v ELSE f[j]]

\* The same item, seen one unit of time later.
Aged(item) ==
    [object |-> item.object,
     time   |-> [expires |-> item.time.expires,
                 left    |-> IF item.time.expires THEN item.time.left - 1 ELSE item.time.left]]

Init == /\ live = Nothing
        /\ owed = Nothing
        /\ handler = FALSE
        /\ dm = Nothing

Hook == /\ handler' = TRUE
        /\ dm' = Nothing
        /\ UNCHANGED <<live, owed>>

Put(k, x, d) ==
    /\ live' = With(live, k, [object |-> x, time |-> Lifetime(d)])
    /\ owed' = Without(owed, {k})
    /\ dm' = Nothing
    /\ UNCHANGED handler

PutNew(k, x, d) == k \notin DOMAIN live /\ Put(k, x, d)

Renew(k, d) ==
    /\ k \in DOMAIN live
    /\ live' = With(live, k, [object |-> live[k].object, time |-> Lifetime(d)])
    /\ dm' = Nothing
    /\ UNCHANGED <<owed, handler>>

Drop(K) ==
    /\ live' = Without(live, K)
    /\ owed' = Without(owed, K)
    /\ dm' = Nothing
    /\ UNCHANGED handler

\* One unit of time; the items that had none left expire together.
Elapse ==
    LET over == {k \in DOMAIN live : live[k].time.expires /\ live[k].time.left = 0}
    IN  /\ live' = [k \in DOMAIN live \ over |-> Aged(live[k])]
        /\ owed' = [k \in DOMAIN owed \cup over |->
                      IF k \in over THEN live[k].object ELSE owed[k]]
        /\ dm' = Nothing
        /\ UNCHANGED handler

Report == /\ dm' = IF handler THEN owed ELSE Nothing
          /\ owed' = Nothing
          /\ UNCHANGED <<live, handler>>

Next == \/ Hook
        \/ \E k \in Key, x \in Object, d \in Duration : Put(k, x, d) \/ PutNew(k, x, d)
        \/ \E k \in Key, d \in Duration : Renew(k, d)
        \/ \E K \in SUBSET Key : Drop(K)
        \/ Elapse
        \/ Report

Spec == Init /\ [][Next]_vars

=============================================================================
