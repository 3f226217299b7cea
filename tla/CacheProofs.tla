---------------------------- MODULE CacheProofs ----------------------------
(***************************************************************************)
(* Proofs about the expiring cache, for any keys, objects and durations,   *)
(* any cleanup interval and any bound on the janitor's delay.              *)
(***************************************************************************)
EXTENDS Cache, TLAPS

\* The lifetime of an item is a number of units, none of them negative.
LEMMA LifetimeType ==
  ASSUME NEW d \in Duration
  PROVE  /\ Lifetime(d) \in [expires : BOOLEAN, left : Int]
         /\ Lifetime(d).left >= 0
  BY DurationAssumption DEF Lifetime, defaultExpiration, NoExpiration, DefaultExpiration

\* What one unit of time does to an item.
LEMMA AgedItem ==
  ASSUME NEW item \in Item
  PROVE  /\ Aged(item) \in Item
         /\ Aged(item).object = item.object
         /\ Aged(item).time.expires = item.time.expires
         /\ item.time.expires => Aged(item).time.left = item.time.left - 1
  BY DEF Item, Aged

\* The empty map is of every map type.
LEMMA NothingType ==
  DOMAIN Nothing = {} /\ \A S : Nothing \in [DOMAIN Nothing -> S]
  BY DEF Nothing

\* The cache is well typed: in particular the ticker is always between two
\* ticks, and a due tick never waits longer than the bound.
THEOREM TypeCorrect == Spec => []TypeOK
  <1> USE JanitorAssumption
  <1>1. Init => TypeOK
    <2> SUFFICES ASSUME Init
                 PROVE  TypeOK
      OBVIOUS
    <2>1. phase \in 1..CleanupInterval /\ lag \in 0..MaxLag
      BY DEF Init
    <2>2. handler \in BOOLEAN /\ due \in BOOLEAN
      BY Zenon DEF Init
    <2>3. /\ DOMAIN items \subseteq Key /\ items \in [DOMAIN items -> Item]
          /\ DOMAIN dm \subseteq Key /\ dm \in [DOMAIN dm -> Object]
      BY NothingType DEF Init
    <2> QED BY <2>1, <2>2, <2>3, Zenon DEF TypeOK
  <1>2. TypeOK /\ [Next]_vars => TypeOK'
    <2> SUFFICES ASSUME TypeOK, [Next]_vars
                 PROVE  TypeOK'
      OBVIOUS
    <2> USE DEF TypeOK
    <2>1. CASE RegExpiredHandler
      BY <2>1, NothingType DEF RegExpiredHandler
    <2>2. ASSUME NEW k \in Key, NEW x \in Object, NEW d \in Duration, Set(k, x, d)
          PROVE  TypeOK'
      <3>1. [object |-> x, time |-> Lifetime(d)] \in Item
        BY LifetimeType DEF Item
      <3>2. /\ DOMAIN items' = DOMAIN items \cup {k}
            /\ items' \in [DOMAIN items' -> Item]
        BY <2>2, <3>1 DEF Set, set
      <3> QED BY <2>2, <3>2, NothingType DEF Set
    <2>3. ASSUME NEW k \in Key, NEW d \in Duration, Refresh(k, d)
          PROVE  TypeOK'
      <3>1. [object |-> items[k].object, time |-> Lifetime(d)] \in Item
        BY <2>3, LifetimeType DEF Item, Refresh, Found
      <3>2. DOMAIN items' = DOMAIN items /\ items' \in [DOMAIN items' -> Item]
        BY <2>3, <3>1 DEF Refresh
      <3> QED BY <2>3, <3>2, NothingType DEF Refresh
    <2>4. ASSUME NEW k \in Key, Delete(k)
          PROVE  TypeOK'
      BY <2>4, NothingType DEF Delete
    <2>5. CASE Flush
      BY <2>5, NothingType DEF Flush
    <2>6. CASE DeleteExpired
      <3>1. DOMAIN items' \subseteq DOMAIN items /\ items' \in [DOMAIN items' -> Item]
        BY <2>6 DEF DeleteExpired
      <3>2. DOMAIN dm' \subseteq Key /\ dm' \in [DOMAIN dm' -> Object]
        BY <2>6 DEF DeleteExpired, Nothing, Item
      <3>3. lag' \in 0..MaxLag /\ phase' \in 1..CleanupInterval
        BY <2>6 DEF DeleteExpired
      <3>4. due' \in BOOLEAN /\ handler' \in BOOLEAN
        BY <2>6, Zenon DEF DeleteExpired
      <3> QED BY <3>1, <3>2, <3>3, <3>4
    <2>7. CASE Tick
      <3>1. \A k \in DOMAIN items : items[k] \in Item
        OBVIOUS
      <3>2. DOMAIN items' = DOMAIN items /\ items' \in [DOMAIN items' -> Item]
        BY <2>7, <3>1, AgedItem DEF Tick
      <3> QED BY <2>7, <3>2, NothingType DEF Tick
    <2>8. CASE UNCHANGED vars
      BY <2>8 DEF vars
    <2> QED
      BY <2>1, <2>2, <2>3, <2>4, <2>5, <2>6, <2>7, <2>8 DEF Next, Add
  <1> QED
    BY <1>1, <1>2, PTL DEF Spec

-----------------------------------------------------------------------------
\* The residence bound by the phase of the ticker is inductive.
LEMMA ResidenceStep == TypeOK /\ ResidenceByPhase /\ [Next]_vars => ResidenceByPhase'
  <1> USE JanitorAssumption
  <1> SUFFICES ASSUME TypeOK, ResidenceByPhase, [Next]_vars
               PROVE  ResidenceByPhase'
    OBVIOUS
  <1>0. /\ \A k \in DOMAIN items : items[k] \in Item
        /\ \A k \in DOMAIN items : items[k].time.left \in Int
        /\ phase \in 1..CleanupInterval
        /\ lag \in 0..MaxLag
    BY DEF TypeOK, Item
  <1>1. ASSUME UNCHANGED <<phase, due, lag>>,
               \A k \in DOMAIN items' : items'[k].time.left \in Int
                  /\ (items'[k].time.left >= 0 \/ (k \in DOMAIN items /\ items'[k] = items[k]))
        PROVE  ResidenceByPhase'
    BY <1>0, <1>1 DEF ResidenceByPhase
  <1>2. CASE RegExpiredHandler
    BY <1>0, <1>1, <1>2 DEF RegExpiredHandler
  <1>3. ASSUME NEW k \in Key, NEW x \in Object, NEW d \in Duration, Set(k, x, d)
        PROVE  ResidenceByPhase'
    BY <1>0, <1>1, <1>3, LifetimeType DEF Set, set
  <1>4. ASSUME NEW k \in Key, NEW d \in Duration, Refresh(k, d)
        PROVE  ResidenceByPhase'
    BY <1>0, <1>1, <1>4, LifetimeType DEF Refresh, TypeOK
  <1>5. ASSUME NEW k \in Key, Delete(k)
        PROVE  ResidenceByPhase'
    BY <1>0, <1>1, <1>5 DEF Delete
  <1>6. CASE Flush
    BY <1>0, <1>1, <1>6 DEF Flush, Nothing
  <1>7. CASE DeleteExpired
    <2>1. due' = FALSE /\ phase' = phase
      BY <1>7 DEF DeleteExpired
    <2>2. \A k \in DOMAIN items' : /\ k \in DOMAIN items
                                   /\ items'[k] = items[k]
                                   /\ items[k].time.expires => items[k].time.left >= 0
      BY <1>0, <1>7 DEF DeleteExpired, Expired
    <2> QED BY <1>0, <2>1, <2>2 DEF ResidenceByPhase
  <1>8. CASE Tick
    <2>1. /\ DOMAIN items' = DOMAIN items
          /\ \A k \in DOMAIN items : items'[k] = Aged(items[k])
      BY <1>8 DEF Tick
    <2>2. \A k \in DOMAIN items' :
             /\ items'[k].time.expires = items[k].time.expires
             /\ items[k].time.expires => items'[k].time.left = items[k].time.left - 1
      BY <1>0, <2>1, AgedItem
    <2>3. CASE due
      <3>1. due' /\ lag' = lag + 1
        BY <1>8, <2>3 DEF Tick
      <3> QED BY <1>0, <2>1, <2>2, <2>3, <3>1 DEF ResidenceByPhase
    <2>4. CASE ~ due /\ phase = 1
      <3>1. due' /\ lag' = 0
        BY <1>8, <2>4 DEF Tick
      <3> QED BY <1>0, <2>1, <2>2, <2>4, <3>1 DEF ResidenceByPhase
    <2>5. CASE ~ due /\ phase # 1
      <3>1. ~ due' /\ phase' = phase - 1
        BY <1>8, <2>5 DEF Tick
      <3> QED BY <1>0, <2>1, <2>2, <2>5, <3>1 DEF ResidenceByPhase
    <2> QED BY <2>3, <2>4, <2>5
  <1>9. CASE UNCHANGED vars
    BY <1>0, <1>1, <1>9 DEF vars
  <1> QED
    BY <1>2, <1>3, <1>4, <1>5, <1>6, <1>7, <1>8, <1>9 DEF Next, Add

\* However long the cache runs and whatever its users do, an expired item is
\* removed at most CleanupInterval + MaxLag after its time was up.
THEOREM ResidenceBounded == Spec => []Residence
  <1>1. Init => ResidenceByPhase
    BY NothingType DEF Init, ResidenceByPhase
  <1>2. TypeOK /\ ResidenceByPhase => Residence
    <2> SUFFICES ASSUME TypeOK, ResidenceByPhase, NEW k \in DOMAIN items, items[k].time.expires
                 PROVE  - items[k].time.left <= CleanupInterval + MaxLag
      BY DEF Residence
    <2>1. items[k].time.left \in Int /\ phase \in 1..CleanupInterval /\ lag \in 0..MaxLag
      BY DEF TypeOK, Item
    <2> QED BY <2>1, JanitorAssumption DEF ResidenceByPhase
  <1> QED
    BY <1>1, <1>2, ResidenceStep, TypeCorrect, PTL DEF Spec

-----------------------------------------------------------------------------
\* A new item has not expired.
LEMMA NewIsLive ==
  ASSUME NEW x, NEW d \in Duration
  PROVE  ~ Expired([object |-> x, time |-> Lifetime(d)])
  BY LifetimeType DEF Expired

\* Storing a live item under a key.
LEMMA StoreIsWith ==
  ASSUME NEW k \in Key, NEW v, ~ Expired(v),
         DOMAIN items' = DOMAIN items \cup {k}, items' = [j \in DOMAIN items' |-> items'[j]],
         \A j \in DOMAIN items' : items'[j] = IF j = k THEN v ELSE items[j]
  PROVE  /\ LivePart' = Promise!With(LivePart, k, v)
         /\ OwedPart' = Promise!Without(OwedPart, {k})
  <1>1. {j \in DOMAIN items' : ~ Expired(items'[j])} =
          {j \in DOMAIN items : ~ Expired(items[j])} \cup {k}
    OBVIOUS
  <1>2. {j \in DOMAIN items' : Expired(items'[j])} =
          {j \in DOMAIN items : Expired(items[j])} \ {k}
    OBVIOUS
  <1>3. LivePart' = Promise!With(LivePart, k, v)
    BY <1>1 DEF LivePart, Promise!With
  <1>4. OwedPart' = Promise!Without(OwedPart, {k})
    BY <1>2 DEF OwedPart, Promise!Without
  <1> QED BY <1>3, <1>4

\* Dropping some keys of the map.
LEMMA DropIsWithout ==
  ASSUME NEW K, items' = [j \in DOMAIN items \ K |-> items[j]]
  PROVE  /\ LivePart' = Promise!Without(LivePart, K)
         /\ OwedPart' = Promise!Without(OwedPart, K)
  <1>1. {j \in DOMAIN items' : ~ Expired(items'[j])} = {j \in DOMAIN items : ~ Expired(items[j])} \ K
    OBVIOUS
  <1>2. {j \in DOMAIN items' : Expired(items'[j])} = {j \in DOMAIN items : Expired(items[j])} \ K
    OBVIOUS
  <1>3. LivePart' = Promise!Without(LivePart, K)
    BY <1>1 DEF LivePart, Promise!Without
  <1>4. OwedPart' = Promise!Without(OwedPart, K)
    BY <1>2 DEF OwedPart, Promise!Without
  <1> QED BY <1>3, <1>4

\* The cache with its janitor implements items that vanish when their time
\* is up and are reported once.
THEOREM CacheImplementsLease == Spec => ImplementsLease
  <1> USE DEF Nothing, Promise!Nothing
  <1>1. Init => Promise!Init
    <2> SUFFICES ASSUME Init
                 PROVE  Promise!Init
      OBVIOUS
    <2>1. LivePart = Promise!Nothing /\ OwedPart = Promise!Nothing
      BY DEF Init, LivePart, OwedPart
    <2>2. handler = FALSE /\ dm = Promise!Nothing
      BY DEF Init
    <2> QED BY <2>1, <2>2, Zenon DEF Promise!Init
  <1>2. TypeOK /\ [Next]_vars => [Promise!Next]_(Promise!vars)
    <2> SUFFICES ASSUME TypeOK, [Next]_vars
                 PROVE  [Promise!Next]_(Promise!vars)
      OBVIOUS
    <2>0. /\ items = [k \in DOMAIN items |-> items[k]]
          /\ \A k \in DOMAIN items : items[k] \in Item
          /\ DOMAIN items \subseteq Key
      BY DEF TypeOK
    <2>1. CASE RegExpiredHandler
      <3>1. LivePart' = LivePart /\ OwedPart' = OwedPart
        BY <2>1 DEF RegExpiredHandler, LivePart, OwedPart
      <3>2. Promise!Hook
        BY <2>1, <3>1 DEF RegExpiredHandler, Promise!Hook
      <3> QED BY <3>2 DEF Promise!Next
    <2>2. ASSUME NEW k \in Key, NEW x \in Object, NEW d \in Duration, Set(k, x, d)
          PROVE  Promise!Put(k, x, d)
      <3> DEFINE v == [object |-> x, time |-> Lifetime(d)]
      <3>1. /\ DOMAIN items' = DOMAIN items \cup {k}
            /\ items' = [j \in DOMAIN items' |-> items'[j]]
            /\ \A j \in DOMAIN items' : items'[j] = IF j = k THEN v ELSE items[j]
        BY <2>2 DEF Set, set
      <3>2. ~ Expired(v)
        BY NewIsLive
      <3>3. LivePart' = Promise!With(LivePart, k, v) /\ OwedPart' = Promise!Without(OwedPart, {k})
        <4> HIDE DEF v
        <4> QED BY <3>1, <3>2, StoreIsWith
      <3> QED BY <2>2, <3>3 DEF Set, Promise!Put
    <2>3. ASSUME NEW k \in Key, NEW d \in Duration, Refresh(k, d)
          PROVE  Promise!Renew(k, d)
      <3> DEFINE v == [object |-> items[k].object, time |-> Lifetime(d)]
      <3>1. k \in DOMAIN items /\ ~ Expired(items[k])
        BY <2>3 DEF Refresh, Found
      <3>2. /\ DOMAIN items' = DOMAIN items \cup {k}
            /\ items' = [j \in DOMAIN items' |-> items'[j]]
            /\ \A j \in DOMAIN items' : items'[j] = IF j = k THEN v ELSE items[j]
        BY <2>0, <2>3, <3>1 DEF Refresh
      <3>3. ~ Expired(v)
        BY NewIsLive
      <3>4. LivePart' = Promise!With(LivePart, k, v) /\ OwedPart' = Promise!Without(OwedPart, {k})
        <4> HIDE DEF v
        <4> QED BY <3>2, <3>3, StoreIsWith
      <3>5. Promise!Without(OwedPart, {k}) = OwedPart
        BY <3>1 DEF OwedPart, Promise!Without
      <3>6. k \in DOMAIN LivePart /\ LivePart[k] = items[k]
        BY <3>1 DEF LivePart
      <3> QED BY <2>3, <3>4, <3>5, <3>6 DEF Refresh, Promise!Renew
    <2>4. ASSUME NEW k \in Key, Delete(k)
          PROVE  Promise!Drop({k})
      <3>1. LivePart' = Promise!Without(LivePart, {k}) /\ OwedPart' = Promise!Without(OwedPart, {k})
        BY <2>4, DropIsWithout DEF Delete
      <3> QED BY <2>4, <3>1 DEF Delete, Promise!Drop
    <2>5. CASE Flush
      <3>1. items' = [j \in DOMAIN items \ Key |-> items[j]]
        BY <2>0, <2>5 DEF Flush
      <3>2. LivePart' = Promise!Without(LivePart, Key) /\ OwedPart' = Promise!Without(OwedPart, Key)
        BY <3>1, DropIsWithout
      <3>3. Promise!Drop(Key)
        BY <2>5, <3>2 DEF Flush, Promise!Drop
      <3> QED BY <3>3 DEF Promise!Next
    <2>6. CASE DeleteExpired
      <3> DEFINE gone == {k \in DOMAIN items : Expired(items[k])}
      <3>1. items' = [k \in DOMAIN items \ gone |-> items[k]]
        BY <2>6 DEF DeleteExpired
      <3>2. LivePart' = Promise!Without(LivePart, gone) /\ OwedPart' = Promise!Without(OwedPart, gone)
        <4> HIDE DEF gone
        <4> QED BY <3>1, DropIsWithout
      <3>3. LivePart' = LivePart
        BY <3>2 DEF LivePart, Promise!Without
      <3>4. OwedPart' = Promise!Nothing
        BY <3>2 DEF OwedPart, Promise!Without
      <3>5. dm' = (IF handler THEN OwedPart ELSE Promise!Nothing) /\ handler' = handler
        BY <2>6 DEF DeleteExpired, OwedPart
      <3>6. Promise!Report
        BY <3>3, <3>4, <3>5, Zenon DEF Promise!Report
      <3> QED BY <3>6 DEF Promise!Next
    <2>7. CASE Tick
      <3> DEFINE over == {k \in DOMAIN LivePart : LivePart[k].time.expires /\ LivePart[k].time.left = 0}
      <3>1. /\ DOMAIN items' = DOMAIN items
            /\ \A k \in DOMAIN items : items'[k] = Aged(items[k])
        BY <2>7 DEF Tick
      <3>2. \A k \in DOMAIN items :
               Expired(items'[k]) <=> Expired(items[k]) \/ (items[k].time.expires /\ items[k].time.left = 0)
        BY <2>0, <3>1 DEF Expired, Aged, Item
      <3>3. over = {k \in DOMAIN items : items[k].time.expires /\ items[k].time.left = 0}
        BY <2>0 DEF LivePart, Expired, Item
      <3>4. LivePart' = [k \in DOMAIN LivePart \ over |-> Promise!Aged(LivePart[k])]
        <4>1. {k \in DOMAIN items' : ~ Expired(items'[k])} = DOMAIN LivePart \ over
          BY <3>1, <3>2, <3>3 DEF LivePart
        <4>2. \A k \in DOMAIN LivePart : items'[k] = Promise!Aged(LivePart[k])
          BY <3>1 DEF LivePart, Aged, Promise!Aged
        <4> HIDE DEF over
        <4> QED BY <4>1, <4>2 DEF LivePart
      <3>5. OwedPart' = [k \in DOMAIN OwedPart \cup over |->
                           IF k \in over THEN LivePart[k].object ELSE OwedPart[k]]
        <4>1. {k \in DOMAIN items' : Expired(items'[k])} = DOMAIN OwedPart \cup over
          BY <3>1, <3>2, <3>3 DEF OwedPart
        <4>2. \A k \in over : k \in DOMAIN items /\ items'[k].object = LivePart[k].object
          BY <3>1 DEF LivePart, Aged
        <4>3. \A k \in DOMAIN OwedPart : k \in DOMAIN items /\ items'[k].object = OwedPart[k]
          BY <3>1 DEF OwedPart, Aged
        <4>4. OwedPart' = [k \in {j \in DOMAIN items' : Expired(items'[j])} |-> items'[k].object]
          BY DEF OwedPart
        <4> HIDE DEF over
        <4> QED BY <4>1, <4>2, <4>3, <4>4
      <3>6. dm' = Promise!Nothing /\ handler' = handler
        BY <2>7 DEF Tick
      <3>7. Promise!Elapse
        BY <3>4, <3>5, <3>6 DEF Promise!Elapse
      <3> QED BY <3>7 DEF Promise!Next
    <2>8. CASE UNCHANGED vars
      BY <2>8 DEF vars, Promise!vars, LivePart, OwedPart
    <2>9. ASSUME NEW k \in Key, Delete(k)
          PROVE  Promise!Next
      <3>1. {k} \in SUBSET Key
        OBVIOUS
      <3> QED BY <2>4, <2>9, <3>1 DEF Promise!Next
    <2> QED
      BY <2>1, <2>2, <2>3, <2>5, <2>6, <2>7, <2>8, <2>9 DEF Next, Add, Promise!Next
  <1> QED
    BY <1>1, <1>2, TypeCorrect, PTL DEF Spec, ImplementsLease, Promise!Spec

=============================================================================
