---------------------------- MODULE CommonLemmas ----------------------------
(***************************************************************************)
(* Facts that the proofs about several modules rest on.                    *)
(*                                                                         *)
(* The first are about the operations on one routing table (RouterOps):    *)
(* what they do to its entries, for any sets of agents, addresses and      *)
(* services and any digest.  RouterTable and Discovery use them.           *)
(*                                                                         *)
(* The others are about a queue q of numbers and the sequence w of what    *)
(* was taken out of it: what the channel of a stream or of a monitor holds *)
(* and what its client has been sent.  EventStreams and LogWriter use them.*)
(*                                                                         *)
(* The last ones are induction over the subsets of a finite set and over   *)
(* the natural numbers, stated of sets, and what follows for the sum of a  *)
(* function.  RouterTable's checksums and Reload's merged files need them. *)
(***************************************************************************)
EXTENDS RouterOps, Sequences, SequenceTheorems, FiniteSetTheorems, TLAPS

(* Routing tables. *)

\* Every table starts without an entry.
LEMMA EmptyTableType == EmptyTable \in Table /\ DOMAIN EmptyTable = {}
  BY DEF EmptyTable, Table

\* A rebuilt router has the addresses it was built from.
LEMMA NewRouterAddrs == \A A : NewRouter(A).addrs = A
  BY DEF NewRouter

\* What a router of a table is.
LEMMA TableEntry ==
  ASSUME NEW T \in Table
  PROVE  /\ DOMAIN T \subseteq Service
         /\ \A s \in DOMAIN T : /\ T[s].addrs \in SUBSET NodeAddr
                                /\ T[s].addrs # {}
                                /\ T[s] = NewRouter(T[s].addrs)
  <1>1. PICK S \in SUBSET Service : T \in [S -> Router]
    BY DEF Table
  <1>2. ASSUME NEW s \in S
        PROVE  /\ T[s].addrs \in SUBSET NodeAddr
               /\ T[s].addrs # {}
               /\ T[s] = NewRouter(T[s].addrs)
    <2>1. PICK A \in (SUBSET NodeAddr) \ {{}} : T[s] = NewRouter(A)
      BY <1>1, <1>2 DEF Router
    <2> QED
      BY <2>1 DEF NewRouter
  <1> QED
    BY <1>1, <1>2

\* A map from services to routers with an address is a table.
LEMMA TableIntro ==
  ASSUME NEW S \in SUBSET Service, NEW f,
         f = [s \in S |-> f[s]],
         \A s \in S : \E A \in (SUBSET NodeAddr) \ {{}} : f[s] = NewRouter(A)
  PROVE  f \in Table
  <1>1. \A s \in S : f[s] \in Router
    BY DEF Router
  <1>2. f \in [S -> Router]
    BY <1>1
  <1> QED
    BY <1>2 DEF Table

\* Prune leaves a table with exactly the entries that are not dead.
LEMMA PruneEntries ==
  ASSUME NEW T \in Table, NEW dead
  PROVE  /\ Prune(T, dead) \in Table
         /\ DOMAIN Prune(T, dead) = {s \in DOMAIN T : T[s].addrs \ dead # {}}
         /\ \A s \in DOMAIN Prune(T, dead) : Prune(T, dead)[s].addrs = T[s].addrs \ dead
  <1> DEFINE left == {s \in DOMAIN T : ~ (T[s].addrs \subseteq dead)}
             P == Prune(T, dead)
  <1>1. P = [s \in left |-> NewRouter(T[s].addrs \ dead)]
    BY DEF Prune
  <1>2. left = {s \in DOMAIN T : T[s].addrs \ dead # {}}
    OBVIOUS
  <1>3. DOMAIN P = left /\ \A s \in left : P[s] = NewRouter(T[s].addrs \ dead)
    BY <1>1
  <1>4. \A s \in left : P[s].addrs = T[s].addrs \ dead
    BY <1>3, NewRouterAddrs
  <1>5. left \in SUBSET Service
    BY TableEntry
  <1>6. \A s \in left : T[s].addrs \ dead \in (SUBSET NodeAddr) \ {{}}
    BY TableEntry
  <1>7. \A s \in left : \E A \in (SUBSET NodeAddr) \ {{}} : P[s] = NewRouter(A)
    BY <1>3, <1>6
  <1>8. P = [s \in left |-> P[s]]
    BY <1>1, <1>3
  <1>9. P \in Table
    <2> HIDE DEF left, P
    <2> QED BY <1>5, <1>7, <1>8, TableIntro
  <1> QED
    BY <1>2, <1>3, <1>4, <1>9

\* addRouter leaves a table in which the address has exactly the new entry,
\* under the given services, and every other address has what it had.
LEMMA AddEntries ==
  ASSUME NEW T \in Table, NEW n \in Node, NEW a \in Addr, NEW mss \in SUBSET Service
  PROVE  /\ addRouter(T, n, a, mss) \in Table
         /\ \A s \in Service, na \in NodeAddr :
              (s \in DOMAIN addRouter(T, n, a, mss) /\ na \in addRouter(T, n, a, mss)[s].addrs)
              <=> IF na.addr = a THEN na.node = n /\ s \in mss
                  ELSE s \in DOMAIN T /\ na \in T[s].addrs
  <1> DEFINE dead == {na \in NodeAddr : na.addr = a}
             C  == Prune(T, dead)
             new == [node |-> n, addr |-> a]
             D  == DOMAIN C \cup mss
             Addrs(s) == IF s \notin mss THEN C[s].addrs
                         ELSE IF s \in DOMAIN C THEN C[s].addrs \cup {new} ELSE {new}
             R  == addRouter(T, n, a, mss)
  <1>1. /\ C \in Table
        /\ DOMAIN C = {s \in DOMAIN T : T[s].addrs \ dead # {}}
        /\ \A s \in DOMAIN C : C[s].addrs = T[s].addrs \ dead
    BY PruneEntries
  <1>2. /\ DOMAIN C \subseteq Service
        /\ \A s \in DOMAIN C : /\ C[s].addrs \in SUBSET NodeAddr
                               /\ C[s].addrs # {}
                               /\ C[s] = NewRouter(C[s].addrs)
    <2> HIDE DEF C
    <2> QED BY <1>1, TableEntry
  <1>3. new \in NodeAddr
    BY DEF NodeAddr
  <1>4. R = [s \in D |-> IF s \notin mss THEN C[s]
                         ELSE IF s \in DOMAIN C THEN NewRouter(C[s].addrs \cup {new})
                         ELSE NewRouter({new})]
    BY DEF addRouter, removeRouter
  <1>5. \A s \in D : R[s] = NewRouter(Addrs(s))
    <2> HIDE DEF C, new, R
    <2> QED BY <1>2, <1>4
  <1>6. \A s \in D : Addrs(s) \in (SUBSET NodeAddr) \ {{}}
    <2> HIDE DEF C, new
    <2> QED BY <1>2, <1>3
  <1>7. D \in SUBSET Service
    BY <1>2
  <1>8. DOMAIN R = D /\ R = [s \in D |-> R[s]]
    <2> HIDE DEF C, new
    <2> QED BY <1>4
  <1>9. R \in Table
    <2>1. \A s \in D : \E A \in (SUBSET NodeAddr) \ {{}} : R[s] = NewRouter(A)
      <3> HIDE DEF D, R, Addrs
      <3> QED BY <1>5, <1>6
    <2> HIDE DEF D, R
    <2> QED BY <1>7, <1>8, <2>1, TableIntro
  <1>10. \A s \in D : R[s].addrs = Addrs(s)
    <2> HIDE DEF R, D, Addrs
    <2> QED BY <1>5, NewRouterAddrs
  <1>11. ASSUME NEW s \in Service, NEW na \in NodeAddr
         PROVE  (s \in D /\ na \in Addrs(s))
                <=> IF na.addr = a THEN na.node = n /\ s \in mss
                    ELSE s \in DOMAIN T /\ na \in T[s].addrs
    <2>1. CASE na.addr = a
      <3>1. na = new <=> na.node = n
        BY <2>1 DEF NodeAddr
      <3>2. s \in DOMAIN C => na \notin C[s].addrs
        BY <1>1, <2>1
      <3> HIDE DEF C, new
      <3> QED BY <2>1, <3>1, <3>2
    <2>2. CASE na.addr # a
      <3>1. na # new
        BY <2>2
      <3>2. (s \in DOMAIN C /\ na \in C[s].addrs) <=> (s \in DOMAIN T /\ na \in T[s].addrs)
        BY <1>1, <2>2
      <3> HIDE DEF C, new
      <3> QED BY <2>2, <3>1, <3>2
    <2> QED BY <2>1, <2>2
  <1> HIDE DEF D, R, Addrs
  <1> QED
    BY <1>8, <1>9, <1>10, <1>11 DEF R

-----------------------------------------------------------------------------
\* What is routed after a removal was routed before.
LEMMA PruneRouted ==
  ASSUME NEW T \in Table, NEW dead, NEW na
  PROVE  Routed(Prune(T, dead), na) <=> Routed(T, na) /\ na \notin dead
  <1> DEFINE P == Prune(T, dead)
  <1>1. /\ DOMAIN P = {s \in DOMAIN T : T[s].addrs \ dead # {}}
        /\ \A s \in DOMAIN P : P[s].addrs = T[s].addrs \ dead
    BY PruneEntries
  <1> HIDE DEF P
  <1> QED
    BY <1>1 DEF Routed, P

\* Removing entries keeps the owners unique.
LEMMA PruneOneOwner ==
  ASSUME NEW T \in Table, NEW dead, OneOwnerIn(T)
  PROVE  OneOwnerIn(Prune(T, dead))
  BY PruneRouted DEF OneOwnerIn

\* What is routed after AddRouter: the new entry under the given services,
\* and the entries of the other addresses.
LEMMA AddRouted ==
  ASSUME NEW T \in Table, NEW n \in Node, NEW a \in Addr, NEW mss \in SUBSET Service,
         NEW na \in NodeAddr
  PROVE  Routed(addRouter(T, n, a, mss), na)
         <=> IF na.addr = a THEN na.node = n /\ mss # {} ELSE Routed(T, na)
  <1> DEFINE R == addRouter(T, n, a, mss)
  <1>1. DOMAIN R \subseteq Service /\ DOMAIN T \subseteq Service
    BY AddEntries, TableEntry
  <1>2. \A s \in Service : (s \in DOMAIN R /\ na \in R[s].addrs)
              <=> IF na.addr = a THEN na.node = n /\ s \in mss
                  ELSE s \in DOMAIN T /\ na \in T[s].addrs
    BY AddEntries
  <1> HIDE DEF R
  <1> QED
    BY <1>1, <1>2 DEF Routed, R

\* AddRouter gives the address to the registering agent alone.
LEMMA AddOneOwner ==
  ASSUME NEW T \in Table, NEW n \in Node, NEW a \in Addr, NEW mss \in SUBSET Service,
         OneOwnerIn(T)
  PROVE  OneOwnerIn(addRouter(T, n, a, mss))
  BY AddRouted DEF OneOwnerIn

\* An empty table has no owners to differ.
LEMMA EmptyOneOwner == OneOwnerIn(EmptyTable)
  BY EmptyTableType DEF OneOwnerIn, Routed

\* ServicesOf in terms of NodeAddr.
LEMMA ServicesAre ==
  ASSUME NEW T \in Table, NEW a \in Addr
  PROVE  ServicesOf(T, a) =
           {s \in Service : s \in DOMAIN T /\ \E na \in NodeAddr : na.addr = a /\ na \in T[s].addrs}
  BY TableEntry DEF ServicesOf

\* Removing all entries of some addresses takes their services, and no
\* service of another address.
LEMMA PruneServices ==
  ASSUME NEW T \in Table, NEW dead \in SUBSET NodeAddr, NEW A \in SUBSET Addr,
         \A na \in NodeAddr : Routed(T, na) => (na \in dead <=> na.addr \in A)
  PROVE  \A a \in Addr : ServicesOf(Prune(T, dead), a) = IF a \in A THEN {} ELSE ServicesOf(T, a)
  <1> DEFINE P == Prune(T, dead)
  <1>1. \A s \in DOMAIN T : \A na \in T[s].addrs : na \in NodeAddr /\ (na \in dead <=> na.addr \in A)
    BY TableEntry DEF Routed
  <1>2. /\ DOMAIN P = {s \in DOMAIN T : T[s].addrs \ dead # {}}
        /\ \A s \in DOMAIN P : P[s].addrs = T[s].addrs \ dead
    BY PruneEntries
  <1> SUFFICES ASSUME NEW a \in Addr
               PROVE  ServicesOf(P, a) = IF a \in A THEN {} ELSE ServicesOf(T, a)
    OBVIOUS
  <1> HIDE DEF P
  <1>3. CASE a \in A
    BY <1>1, <1>2, <1>3 DEF ServicesOf
  <1>4. CASE a \notin A
    <2>1. ASSUME NEW s \in ServicesOf(T, a)
          PROVE  s \in ServicesOf(P, a)
      BY <1>1, <1>2, <1>4 DEF ServicesOf
    <2>2. ASSUME NEW s \in ServicesOf(P, a)
          PROVE  s \in ServicesOf(T, a)
      BY <1>2 DEF ServicesOf
    <2> QED BY <1>4, <2>1, <2>2
  <1> QED BY <1>3, <1>4

\* AddRouter gives the address exactly the services it is told, and changes
\* those of no other.
LEMMA AddServices ==
  ASSUME NEW T \in Table, NEW n \in Node, NEW a \in Addr, NEW mss \in SUBSET Service
  PROVE  \A b \in Addr :
            ServicesOf(addRouter(T, n, a, mss), b) = IF b = a THEN mss ELSE ServicesOf(T, b)
  <1> DEFINE R == addRouter(T, n, a, mss)
             Has(s, b) == s \in DOMAIN R /\ \E na \in NodeAddr : na.addr = b /\ na \in R[s].addrs
             Had(s, b) == s \in DOMAIN T /\ \E na \in NodeAddr : na.addr = b /\ na \in T[s].addrs
  <1>1. R \in Table
    BY AddEntries
  <1>2. \A s \in Service, na \in NodeAddr :
              (s \in DOMAIN R /\ na \in R[s].addrs)
              <=> IF na.addr = a THEN na.node = n /\ s \in mss
                  ELSE s \in DOMAIN T /\ na \in T[s].addrs
    BY AddEntries
  <1>3. [node |-> n, addr |-> a] \in NodeAddr
    BY DEF NodeAddr
  <1> HIDE DEF R
  <1>4. \A b \in Addr : ServicesOf(R, b) = {s \in Service : Has(s, b)}
    BY <1>1, ServicesAre
  <1>5. \A b \in Addr : ServicesOf(T, b) = {s \in Service : Had(s, b)}
    BY ServicesAre
  <1>6. \A s \in Service : Has(s, a) <=> s \in mss
    BY <1>2, <1>3
  <1>7. \A s \in Service, b \in Addr : b # a => (Has(s, b) <=> Had(s, b))
    BY <1>2
  <1>8. ServicesOf(R, a) = mss
    <2> HIDE DEF Has
    <2> QED BY <1>4, <1>6
  <1>9. \A b \in Addr : b # a => ServicesOf(R, b) = ServicesOf(T, b)
    <2> HIDE DEF Has, Had
    <2> QED BY <1>4, <1>5, <1>7
  <1> QED BY <1>8, <1>9 DEF R

-----------------------------------------------------------------------------
(* Queues. *)

\* Strictly increasing.
Ascending(g) == \A i, j \in DOMAIN g : i < j => g[i] < g[j]

Elements(g) == {g[i] : i \in DOMAIN g}

\* A number above all others keeps a sequence increasing at its end.
LEMMA AppendLast ==
  ASSUME NEW g \in Seq(Nat), NEW e \in Nat, Ascending(g), \A x \in Elements(g) : x < e
  PROVE  Append(g, e) \in Seq(Nat) /\ Ascending(Append(g, e)) /\ Elements(Append(g, e)) = Elements(g) \cup {e}
  <1>1. /\ Append(g, e) \in Seq(Nat) /\ DOMAIN Append(g, e) = 1..Len(g) + 1 /\ DOMAIN g = 1..Len(g)
        /\ \A i \in 1..Len(g) : Append(g, e)[i] = g[i]
        /\ Append(g, e)[Len(g) + 1] = e
    OBVIOUS
  <1>2. Ascending(Append(g, e))
    BY <1>1 DEF Ascending, Elements
  <1>3. Elements(Append(g, e)) = Elements(g) \cup {e}
    BY <1>1 DEF Elements
  <1> QED BY <1>1, <1>2, <1>3

\* Moving the head of the second sequence to the end of the first.
LEMMA MoveHead ==
  ASSUME NEW w \in Seq(Nat), NEW q \in Seq(Nat), q # <<>>
  PROVE  Append(w, Head(q)) \o Tail(q) = w \o q
  <1>1. /\ Append(w, Head(q)) \in Seq(Nat) /\ Tail(q) \in Seq(Nat)
        /\ Len(Append(w, Head(q))) = Len(w) + 1 /\ Len(Tail(q)) = Len(q) - 1
    OBVIOUS
  <1>2. Len(Append(w, Head(q)) \o Tail(q)) = Len(w \o q)
    BY <1>1
  <1>3. \A i \in 1..Len(w \o q) : (Append(w, Head(q)) \o Tail(q))[i] = (w \o q)[i]
    BY <1>1
  <1>4. Append(w, Head(q)) \o Tail(q) \in Seq(Nat) /\ w \o q \in Seq(Nat)
    BY <1>1
  <1> QED BY <1>2, <1>3, <1>4, SeqEqual

\* Adding to the end of the second sequence.
LEMMA ConcatAppend ==
  ASSUME NEW w \in Seq(Nat), NEW q \in Seq(Nat), NEW e \in Nat
  PROVE  w \o Append(q, e) = Append(w \o q, e)
  <1>1. /\ Append(q, e) \in Seq(Nat) /\ w \o q \in Seq(Nat)
        /\ Len(Append(q, e)) = Len(q) + 1 /\ Len(w \o q) = Len(w) + Len(q)
        /\ Len(w) \in Nat /\ Len(q) \in Nat
    OBVIOUS
  <1>2. /\ w \o Append(q, e) \in Seq(Nat) /\ Len(w \o Append(q, e)) = Len(w) + Len(q) + 1
        /\ Append(w \o q, e) \in Seq(Nat) /\ Len(Append(w \o q, e)) = Len(w) + Len(q) + 1
    BY <1>1
  <1>3. \A i \in 1..Len(w) + Len(q) + 1 : (w \o Append(q, e))[i] = Append(w \o q, e)[i]
    BY <1>1
  <1> QED BY <1>2, <1>3, SeqEqual

\* Leaving out the head of the second sequence.
LEMMA DropHead ==
  ASSUME NEW w \in Seq(Nat), NEW q \in Seq(Nat), q # <<>>, Ascending(w \o q)
  PROVE  Ascending(w \o Tail(q)) /\ Elements(w \o Tail(q)) \subseteq Elements(w \o q)
  <1>1. /\ w \o q \in Seq(Nat) /\ DOMAIN (w \o q) = 1..Len(w) + Len(q)
        /\ w \o Tail(q) \in Seq(Nat) /\ DOMAIN (w \o Tail(q)) = 1..Len(w) + Len(q) - 1
    OBVIOUS
  <1>2. /\ \A i \in 1..Len(w) : (w \o Tail(q))[i] = (w \o q)[i]
        /\ \A i \in Len(w) + 1..Len(w) + Len(q) - 1 : (w \o Tail(q))[i] = (w \o q)[i + 1]
    <2>1. Tail(q) \in Seq(Nat) /\ Len(Tail(q)) = Len(q) - 1 /\ Len(q) \in Nat /\ Len(w) \in Nat
      OBVIOUS
    <2>2. \A j \in 1..Len(q) - 1 : Tail(q)[j] = q[j + 1]
      OBVIOUS
    <2>3. \A i \in 1..Len(w) + Len(q) : (w \o q)[i] = IF i <= Len(w) THEN w[i] ELSE q[i - Len(w)]
      BY ConcatProperties
    <2>4. \A i \in 1..Len(w) + Len(q) - 1 :
             (w \o Tail(q))[i] = IF i <= Len(w) THEN w[i] ELSE Tail(q)[i - Len(w)]
      BY <2>1, ConcatProperties
    <2>5. \A i \in 1..Len(w) : (w \o Tail(q))[i] = (w \o q)[i]
      BY <2>1, <2>3, <2>4
    <2>6. ASSUME NEW i \in Len(w) + 1..Len(w) + Len(q) - 1
          PROVE  (w \o Tail(q))[i] = (w \o q)[i + 1]
      <3>1. i - Len(w) \in 1..Len(q) - 1 /\ (i + 1) - Len(w) = (i - Len(w)) + 1
        BY <2>1
      <3>2. (w \o Tail(q))[i] = Tail(q)[i - Len(w)]
        BY <2>1, <2>4
      <3>3. (w \o q)[i + 1] = q[(i + 1) - Len(w)]
        BY <2>1, <2>3
      <3> QED BY <2>2, <3>1, <3>2, <3>3
    <2> QED BY <2>5, <2>6
  <1> DEFINE at(i) == IF i <= Len(w) THEN i ELSE i + 1
  <1>3. ASSUME NEW i \in DOMAIN (w \o Tail(q))
        PROVE  at(i) \in DOMAIN (w \o q) /\ (w \o Tail(q))[i] = (w \o q)[at(i)]
    <2>1. Len(w) \in Nat /\ Len(q) \in Nat /\ i \in 1..Len(w) + Len(q) - 1
      BY <1>1
    <2>2. CASE i <= Len(w)
      <3>1. i \in 1..Len(w) /\ i \in 1..Len(w) + Len(q)
        BY <2>1, <2>2
      <3> QED BY <1>1, <1>2, <2>2, <3>1
    <2>3. CASE ~ (i <= Len(w))
      <3>1. i \in Len(w) + 1..Len(w) + Len(q) - 1 /\ i + 1 \in 1..Len(w) + Len(q)
        BY <2>1, <2>3
      <3> QED BY <1>1, <1>2, <2>3, <3>1
    <2> QED BY <2>2, <2>3
  <1>4. \A i, j \in DOMAIN (w \o Tail(q)) : i < j => at(i) < at(j)
    BY <1>1
  <1> HIDE DEF at
  <1> QED BY <1>3, <1>4 DEF Ascending, Elements

\* Sequences of bounded numbers are sequences of numbers.
LEMMA Numbers ==
  ASSUME NEW n \in Nat, NEW g, g \in Seq(0..n) \/ g \in Seq(1..n)
  PROVE  g \in Seq(Nat)
  OBVIOUS

\* What comes after the first element, when one is added at the end.
LEMMA TailAppend ==
  ASSUME NEW w \in Seq(Nat), w # <<>>, NEW x \in Nat
  PROVE  Append(w, x) # <<>> /\ Tail(Append(w, x)) = Append(Tail(w), x)
  <1>1. /\ Append(w, x) \in Seq(Nat) /\ Append(w, x) # <<>> /\ Len(Append(w, x)) = Len(w) + 1
        /\ Len(w) \in Nat \ {0}
    OBVIOUS
  <1>2. Tail(w) \in Seq(Nat) /\ Len(Tail(w)) = Len(w) - 1
    BY HeadTailProperties
  <1>3. Tail(Append(w, x)) \in Seq(Nat) /\ Len(Tail(Append(w, x))) = Len(w)
    BY <1>1
  <1>4. Append(Tail(w), x) \in Seq(Nat) /\ Len(Append(Tail(w), x)) = Len(w)
    BY <1>1, <1>2
  <1>5. ASSUME NEW i \in 1..Len(w) PROVE Tail(Append(w, x))[i] = Append(Tail(w), x)[i]
    <2>1. Tail(Append(w, x))[i] = Append(w, x)[i + 1]
      BY <1>1, <1>3, HeadTailProperties
    <2>2. CASE i = Len(w)
      BY <1>1, <1>2, <2>1, <2>2
    <2>3. CASE i # Len(w)
      <3>1. i \in 1..Len(w) - 1 /\ i + 1 \in 1..Len(w)
        BY <1>1, <2>3
      <3>2. Append(w, x)[i + 1] = w[i + 1] /\ Append(Tail(w), x)[i] = Tail(w)[i]
        BY <1>1, <1>2, <3>1
      <3>3. Tail(w)[i] = w[i + 1]
        BY <1>2, <3>1, HeadTailProperties
      <3> QED BY <2>1, <3>2, <3>3
    <2> QED BY <2>2, <2>3
  <1> QED BY <1>1, <1>3, <1>4, <1>5, SeqEqual

-----------------------------------------------------------------------------
(* Induction. *)

\* Induction over the subsets of a finite set, as a fact about a set of them.
LEMMA SubsetInduction ==
  ASSUME NEW S, IsFiniteSet(S), NEW G,
         \A T \in SUBSET S : (\A x \in T : T \ {x} \in G) => T \in G
  PROVE  SUBSET S \subseteq G
  <1> SUFFICES ASSUME ~ SUBSET S \subseteq G PROVE FALSE
    OBVIOUS
  <1> DEFINE Others == (SUBSET S) \ G
  <1>1. IsWellFoundedOn(StrictSubsetOrdering(S), SUBSET S)
    <2>1. IsWellFoundedOn(StrictSubsetOrdering(S), FiniteSubsetsOf(S))
      BY FS_StrictSubsetOrderingWellFounded
    <2>2. FiniteSubsetsOf(S) = SUBSET S
      BY FS_FiniteSubsetsOfFinite
    <2> QED BY <2>1, <2>2
  <1>2. PICK T \in Others : \A U \in Others : ~ (<<U, T>> \in StrictSubsetOrdering(S))
    <2>1. Others # {} /\ Others \subseteq SUBSET S
      OBVIOUS
    <2> HIDE DEF Others
    <2> QED BY <1>1, <2>1, WFMin
  <1>3. T \in SUBSET S /\ T \notin G
    BY <1>2
  <1>4. ASSUME NEW x \in T PROVE T \ {x} \in G
    <2>1. <<T \ {x}, T>> \in StrictSubsetOrdering(S)
      BY <1>3, <1>4 DEF StrictSubsetOrdering
    <2> QED BY <1>2, <1>3, <2>1
  <1> QED BY <1>3, <1>4

\* Induction over the natural numbers, as a fact about a set of them.
LEMMA NumberInduction ==
  ASSUME NEW G, 0 \in G, \A n \in Nat : n \in G => n + 1 \in G
  PROVE  Nat \subseteq G
  <1> SUFFICES ASSUME NEW m \in Nat, m \notin G PROVE FALSE
    OBVIOUS
  <1> DEFINE Others == Nat \ G
             Less == OpToRel(<, Nat)
  <1>1. Less = {ss \in Nat \X Nat : ss[1] < ss[2]}
    BY DEF OpToRel
  <1>2. PICK n \in Others : \A k \in Others : <<k, n>> \notin Less
    <2>1. Others # {} /\ Others \subseteq Nat
      OBVIOUS
    <2>2. IsWellFoundedOn(Less, Nat)
      BY NatLessThanWellFounded
    <2> HIDE DEF Others, Less
    <2> QED BY <2>1, <2>2, WFMin, Zenon
  <1> HIDE DEF Less
  <1>3. n \in Nat /\ n # 0 /\ n \notin G
    BY <1>2
  <1>4. n - 1 \in Nat /\ n - 1 < n /\ (n - 1) + 1 = n
    BY <1>3
  <1>5. <<n - 1, n>> \in Less
    BY <1>1, <1>3, <1>4
  <1>6. n - 1 \in G
    BY <1>2, <1>4, <1>5
  <1> QED BY <1>3, <1>4, <1>6

\* Numbers up to some n have a largest among them.
LEMMA LastOfSome ==
  ASSUME NEW n \in Nat, NEW I \in SUBSET (1..n), I # {}
  PROVE  Max(I) \in I /\ \A i \in I : i <= Max(I)
  <1> DEFINE G == {k \in Nat : \A J \in SUBSET (1..k) : J # {} => \E x \in J : \A y \in J : x >= y}
  <1>1. 0 \in G
    <2>1. 1..0 = {}
      OBVIOUS
    <2> QED BY <2>1
  <1>2. ASSUME NEW k \in Nat, k \in G PROVE k + 1 \in G
    <2> SUFFICES ASSUME NEW J \in SUBSET (1..k + 1), J # {} PROVE \E x \in J : \A y \in J : x >= y
      OBVIOUS
    <2>1. CASE k + 1 \in J
      BY <2>1
    <2>2. CASE k + 1 \notin J
      <3>1. J \in SUBSET (1..k)
        BY <2>2
      <3> QED BY <1>2, <3>1
    <2> QED BY <2>1, <2>2
  <1>3. Nat \subseteq G
    <2> HIDE DEF G
    <2> QED BY <1>1, <1>2, NumberInduction
  <1>4. \E x \in I : \A y \in I : x >= y
    BY <1>3
  <1>5. Max(I) \in I /\ \A y \in I : Max(I) >= y
    BY <1>4, Zenon DEF Max
  <1> QED BY <1>5

\* A number above the others is the largest.
LEMMA LastAdded ==
  ASSUME NEW n \in Nat, NEW I \in SUBSET (1..n + 1), n + 1 \in I
  PROVE  Max(I) = n + 1
  <1>1. n + 1 \in Nat /\ I # {}
    OBVIOUS
  <1>2. Max(I) \in I /\ n + 1 <= Max(I)
    BY <1>1, LastOfSome
  <1>3. Max(I) \in 1..n + 1
    BY <1>2
  <1> QED BY <1>2, <1>3

-----------------------------------------------------------------------------
(* Sums. *)

\* What has been summed of f, set by set.
SumsOf(f, S, g) ==
  g = [s \in SUBSET S |-> IF s = {} THEN 0
          ELSE f[CHOOSE x \in s : TRUE] + g[s \ {CHOOSE x \in s : TRUE}]]

\* A recursion over the subsets of a finite set has a solution.
LEMMA SumExists ==
  ASSUME NEW f, NEW S, IsFiniteSet(S)
  PROVE  \E g : SumsOf(f, S, g)
  <1> DEFINE First(s) == CHOOSE x \in s : TRUE
             Small(n) == {s \in SUBSET S : Cardinality(s) <= n}
             Sums(g, D) == g = [s \in D |-> IF s = {} THEN 0 ELSE f[First(s)] + g[s \ {First(s)}]]
             G == {n \in Nat : \E g : Sums(g, Small(n))}
  <1>1. \A s \in SUBSET S : /\ Cardinality(s) \in Nat /\ (Cardinality(s) = 0 <=> s = {})
                            /\ s # {} => /\ s \ {First(s)} \in SUBSET S
                                         /\ Cardinality(s \ {First(s)}) = Cardinality(s) - 1
    <2> SUFFICES ASSUME NEW s \in SUBSET S
                 PROVE  /\ Cardinality(s) \in Nat /\ (Cardinality(s) = 0 <=> s = {})
                        /\ s # {} => /\ s \ {First(s)} \in SUBSET S
                                     /\ Cardinality(s \ {First(s)}) = Cardinality(s) - 1
      OBVIOUS
    <2>1. IsFiniteSet(s)
      BY FS_Subset
    <2>2. s # {} => First(s) \in s
      OBVIOUS
    <2> QED BY <2>1, <2>2, FS_CardinalityType, FS_EmptySet, FS_RemoveElement
  <1> HIDE DEF First
  <1>7. \A s : s \in SUBSET S => Cardinality(s) \in Nat /\ (Cardinality(s) = 0 <=> s = {})
    BY <1>1
  <1>2. 0 \in G
    <2>1. \A s \in Small(0) : s = {}
      <3> SUFFICES ASSUME NEW s \in SUBSET S, Cardinality(s) <= 0 PROVE s = {}
        OBVIOUS
      <3>1. Cardinality(s) \in Nat
        BY <1>7
      <3>2. Cardinality(s) = 0
        BY <3>1
      <3> QED BY <1>7, <3>2
    <2>2. Sums([s \in Small(0) |-> 0], Small(0))
      BY <2>1
    <2> QED BY <2>2
  <1>3. ASSUME NEW n \in Nat, n \in G PROVE n + 1 \in G
    <2>1. PICK g : Sums(g, Small(n))
      BY <1>3
    <2> DEFINE h == [s \in Small(n + 1) |-> IF s = {} THEN 0 ELSE f[First(s)] + g[s \ {First(s)}]]
    <2>2. \A s \in Small(n) : s \in Small(n + 1)
      <3> SUFFICES ASSUME NEW s \in SUBSET S, Cardinality(s) <= n PROVE Cardinality(s) <= n + 1
        OBVIOUS
      <3>1. Cardinality(s) \in Nat
        BY <1>7
      <3> QED BY <3>1
    <2>3. \A s \in Small(n + 1) : s # {} => s \ {First(s)} \in Small(n)
      BY <1>1
    <2>4. \A s \in Small(n) : h[s] = g[s]
      <3> SUFFICES ASSUME NEW s \in Small(n) PROVE h[s] = g[s]
        OBVIOUS
      <3>1. g[s] = IF s = {} THEN 0 ELSE f[First(s)] + g[s \ {First(s)}]
        BY <2>1
      <3>2. h[s] = IF s = {} THEN 0 ELSE f[First(s)] + g[s \ {First(s)}]
        BY <2>2
      <3> QED BY <3>1, <3>2
    <2>5. \A s \in Small(n + 1) : h[s] = IF s = {} THEN 0 ELSE f[First(s)] + h[s \ {First(s)}]
      <3> HIDE DEF Small
      <3>1. \A s \in Small(n + 1) : h[s] = IF s = {} THEN 0 ELSE f[First(s)] + g[s \ {First(s)}]
        OBVIOUS
      <3> HIDE DEF h
      <3> QED BY <2>3, <2>4, <3>1
    <2>6. Sums(h, Small(n + 1))
      <3>1. h = [s \in Small(n + 1) |-> h[s]]
        OBVIOUS
      <3> HIDE DEF h, Small
      <3> QED BY <2>5, <3>1
    <2> HIDE DEF h, Small, Sums
    <2> QED BY <2>6
  <1>4. Nat \subseteq G
    <2> HIDE DEF G
    <2> QED BY <1>2, <1>3, NumberInduction
  <1>5. Cardinality(S) \in G /\ Small(Cardinality(S)) = SUBSET S
    BY <1>1, <1>4, FS_Subset, FS_CardinalityType
  <1>6. PICK g : Sums(g, SUBSET S)
    BY <1>5
  <1> QED BY <1>6 DEF First, SumsOf

\* SumFunction is what that recursion comes to.
LEMMA SumIs ==
  ASSUME NEW f, NEW S, IsFiniteSet(S), DOMAIN f = S
  PROVE  \E g : SumsOf(f, S, g) /\ SumFunction(f) = g[S]
  <1> DEFINE g == CHOOSE g : SumsOf(f, S, g)
  <1>1. SumsOf(f, S, g)
    <2>1. \E h : SumsOf(f, S, h)
      BY SumExists
    <2> QED BY <2>1, Zenon
  <1>2. SumFunction(f) = g[S]
    BY DEF SumFunction, SumFunctionOnSet, FoldFunctionOnSet, MapThenFoldSet, SumsOf
  <1> HIDE DEF g
  <1> QED BY <1>1, <1>2

\* What the sums of f over parts of S are.
SumsAre(f, S, g) ==
  \A T \in SUBSET S :
       /\ g[T] \in Nat
       /\ T = {} => g[T] = 0
       /\ \A x \in T : g[T] = f[x] + g[T \ {x}]
       /\ SumFunction([y \in T |-> f[y]]) = g[T]

\* The sums do not depend on the order in which numbers are taken.
LEMMA SumTable ==
  ASSUME NEW S, IsFiniteSet(S), NEW f \in [S -> Nat]
  PROVE  \E g : SumsAre(f, S, g)
  <1> DEFINE First(s) == CHOOSE x \in s : TRUE
  <1>1. PICK g : SumsOf(f, S, g)
    BY SumExists
  <1>2. \A T \in SUBSET S : g[T] = IF T = {} THEN 0 ELSE f[First(T)] + g[T \ {First(T)}]
    BY <1>1 DEF SumsOf
  <1>3. \A T : T # {} => First(T) \in T
    OBVIOUS
  <1> HIDE DEF First
  <1> DEFINE N == {T \in SUBSET S : g[T] \in Nat}
             G == {T \in SUBSET S : \A x \in T : g[T] = f[x] + g[T \ {x}]}
  <1>7. \A T \in SUBSET S : g[T] \in Nat
    <2>1. ASSUME NEW T \in SUBSET S, \A x \in T : T \ {x} \in N PROVE T \in N
      <3>1. CASE T = {}
        <4>1. g[T] = 0
          BY <1>2, <3>1
        <4> QED BY <4>1
      <3>2. CASE T # {}
        <4>1. First(T) \in T /\ f[First(T)] \in Nat /\ g[T \ {First(T)}] \in Nat
          BY <1>3, <2>1, <3>2
        <4> QED BY <1>2, <3>2, <4>1
      <3> QED BY <3>1, <3>2
    <2>2. SUBSET S \subseteq N
      <3> HIDE DEF N
      <3> QED BY <2>1, SubsetInduction
    <2> QED BY <2>2
  <1>4. ASSUME NEW T \in SUBSET S, \A x \in T : T \ {x} \in G PROVE T \in G
    <2>1. \A x \in T : \A y \in T \ {x} : g[T \ {x}] = f[y] + g[(T \ {x}) \ {y}]
      BY <1>4
    <2>2. CASE T = {}
      BY <2>2
    <2>3. CASE T # {}
      <3> DEFINE a == First(T)
      <3>1. a \in T /\ a \in S /\ f[a] \in Nat /\ g[T \ {a}] \in Nat /\ g[T] = f[a] + g[T \ {a}]
        BY <1>2, <1>3, <1>7, <2>3
      <3>2. ASSUME NEW x \in T PROVE g[T] = f[x] + g[T \ {x}]
        <4>1. CASE x = a
          BY <3>1, <4>1
        <4>2. CASE x # a
          <5>1. /\ g[T \ {a}] = f[x] + g[(T \ {a}) \ {x}]
                /\ g[T \ {x}] = f[a] + g[(T \ {x}) \ {a}]
            BY <2>1, <3>1, <4>2
          <5>2. (T \ {a}) \ {x} = (T \ {x}) \ {a}
            OBVIOUS
          <5>3. g[(T \ {x}) \ {a}] \in Nat
            BY <1>7
          <5> QED BY <3>1, <5>1, <5>2, <5>3
        <4> QED BY <4>1, <4>2
      <3> QED BY <3>1, <3>2
    <2> QED BY <2>2, <2>3
  <1>5. SUBSET S \subseteq G
    <2> HIDE DEF G
    <2> QED BY <1>4, SubsetInduction
  <1>6. ASSUME NEW T \in SUBSET S PROVE SumFunction([y \in T |-> f[y]]) = g[T]
    <2> DEFINE r == [y \in T |-> f[y]]
    <2>1. IsFiniteSet(T)
      BY FS_Subset
    <2>2. PICK h : SumsOf(r, T, h) /\ SumFunction(r) = h[T]
      BY <2>1, SumIs
    <2>3. \A U \in SUBSET T : h[U] = IF U = {} THEN 0 ELSE r[First(U)] + h[U \ {First(U)}]
      BY <2>2 DEF SumsOf, First
    <2> DEFINE H == {U \in SUBSET T : h[U] = g[U]}
    <2>4. ASSUME NEW U \in SUBSET T, \A x \in U : U \ {x} \in H PROVE U \in H
      <3>1. CASE U = {}
        BY <1>2, <2>3, <3>1
      <3>2. CASE U # {}
        <4>1. First(U) \in U /\ r[First(U)] = f[First(U)]
          BY <1>3, <3>2
        <4>2. h[U \ {First(U)}] = g[U \ {First(U)}]
          BY <2>4, <4>1
        <4> QED BY <1>2, <2>3, <3>2, <4>1, <4>2
      <3> QED BY <3>1, <3>2
    <2>5. SUBSET T \subseteq H
      <3> HIDE DEF H
      <3> QED BY <2>1, <2>4, SubsetInduction
    <2> QED BY <2>2, <2>5
  <1> QED BY <1>2, <1>5, <1>6, <1>7 DEF SumsAre

\* Sums of natural numbers, one number after the other.
LEMMA SumFacts ==
  ASSUME NEW S, IsFiniteSet(S), NEW f \in [S -> Nat]
  PROVE  /\ SumFunction(f) \in Nat
         /\ S = {} => SumFunction(f) = 0
         /\ \A x \in S : SumFunction(f) = f[x] + SumFunction([y \in S \ {x} |-> f[y]])
  <1>1. PICK g : SumsAre(f, S, g)
    BY SumTable
  <1>2. [y \in S |-> f[y]] = f
    OBVIOUS
  <1>3. SumFunction([y \in S |-> f[y]]) = g[S] /\ g[S] \in Nat /\ (S = {} => g[S] = 0)
    BY <1>1 DEF SumsAre
  <1>4. ASSUME NEW x \in S PROVE SumFunction(f) = f[x] + SumFunction([y \in S \ {x} |-> f[y]])
    <2>1. SumFunction([y \in S \ {x} |-> f[y]]) = g[S \ {x}]
      BY <1>1 DEF SumsAre
    <2>2. g[S] = f[x] + g[S \ {x}]
      BY <1>1 DEF SumsAre
    <2> QED BY <1>2, <1>3, <2>1, <2>2
  <1> QED BY <1>2, <1>3, <1>4

\* One number of a sum.
LEMMA SumStep ==
  ASSUME NEW S, IsFiniteSet(S), NEW f \in [S -> Nat], NEW x \in S
  PROVE  SumFunction(f) = f[x] + SumFunction([y \in S \ {x} |-> f[y]])
  BY SumFacts

\* The sum of two functions.
LEMMA SumPlus ==
  ASSUME NEW S, IsFiniteSet(S), NEW f \in [S -> Nat], NEW h \in [S -> Nat]
  PROVE  SumFunction([x \in S |-> f[x] + h[x]]) = SumFunction(f) + SumFunction(h)
  <1> DEFINE Add(T) == [x \in T |-> f[x] + h[x]]
             F(T) == [x \in T |-> f[x]]
             K(T) == [x \in T |-> h[x]]
             G == {T \in SUBSET S : SumFunction(Add(T)) = SumFunction(F(T)) + SumFunction(K(T))}
  <1>1. ASSUME NEW T \in SUBSET S, \A x \in T : T \ {x} \in G PROVE T \in G
    <2>1. IsFiniteSet(T) /\ Add(T) \in [T -> Nat] /\ F(T) \in [T -> Nat] /\ K(T) \in [T -> Nat]
      BY FS_Subset
    <2>2. CASE T = {}
      <3>1. SumFunction(Add(T)) = 0 /\ SumFunction(F(T)) = 0 /\ SumFunction(K(T)) = 0
        BY <2>1, <2>2, SumFacts
      <3> QED BY <3>1
    <2>3. ASSUME NEW x \in T PROVE T \in G
      <3> DEFINE U == T \ {x}
      <3>1. /\ [y \in T \ {x} |-> Add(T)[y]] = Add(U)
            /\ [y \in T \ {x} |-> F(T)[y]] = F(U)
            /\ [y \in T \ {x} |-> K(T)[y]] = K(U)
            /\ Add(T)[x] = f[x] + h[x] /\ F(T)[x] = f[x] /\ K(T)[x] = h[x]
            /\ f[x] \in Nat /\ h[x] \in Nat
        OBVIOUS
      <3>2. IsFiniteSet(U) /\ F(U) \in [U -> Nat] /\ K(U) \in [U -> Nat]
        BY FS_Subset
      <3>3. SumFunction(Add(U)) = SumFunction(F(U)) + SumFunction(K(U))
        BY <1>1
      <3> HIDE DEF Add, F, K, U
      <3>4. SumFunction(F(U)) \in Nat /\ SumFunction(K(U)) \in Nat
        BY <3>2, SumFacts
      <3>5. /\ SumFunction(Add(T)) = (f[x] + h[x]) + SumFunction(Add(U))
            /\ SumFunction(F(T)) = f[x] + SumFunction(F(U))
            /\ SumFunction(K(T)) = h[x] + SumFunction(K(U))
        <4>1. IsFiniteSet(T) /\ Add(T) \in [T -> Nat] /\ F(T) \in [T -> Nat] /\ K(T) \in [T -> Nat]
          BY <2>1
        <4>2. \A k \in [T -> Nat] : SumFunction(k) = k[x] + SumFunction([y \in T \ {x} |-> k[y]])
          <5>1. IsFiniteSet(T) /\ x \in T
            BY <4>1
          <5> HIDE <1>1, <3>1, <3>2, <3>3, <3>4, <4>1
          <5> QED BY <5>1, SumStep
        <4>3. SumFunction(Add(T)) = Add(T)[x] + SumFunction([y \in T \ {x} |-> Add(T)[y]])
          BY <4>1, <4>2
        <4>4. SumFunction(F(T)) = F(T)[x] + SumFunction([y \in T \ {x} |-> F(T)[y]])
          BY <4>1, <4>2
        <4>5. SumFunction(K(T)) = K(T)[x] + SumFunction([y \in T \ {x} |-> K(T)[y]])
          BY <4>1, <4>2
        <4> QED BY <3>1, <4>3, <4>4, <4>5
      <3>6. SumFunction(Add(T)) = SumFunction(F(T)) + SumFunction(K(T))
        BY <3>1, <3>3, <3>4, <3>5
      <3> QED BY <3>6
    <2> QED BY <2>2, <2>3
  <1>2. SUBSET S \subseteq G
    <2> HIDE DEF G
    <2> QED BY <1>1, SubsetInduction
  <1>3. S \in G /\ F(S) = f /\ K(S) = h
    BY <1>2
  <1> QED BY <1>3

\* A sum of zeros.
LEMMA SumZero ==
  ASSUME NEW S, IsFiniteSet(S)
  PROVE  SumFunction([x \in S |-> 0]) = 0
  <1> DEFINE Zero(T) == [x \in T |-> 0]
             G == {T \in SUBSET S : SumFunction(Zero(T)) = 0}
  <1>1. ASSUME NEW T \in SUBSET S, \A x \in T : T \ {x} \in G PROVE T \in G
    <2>1. IsFiniteSet(T) /\ Zero(T) \in [T -> Nat]
      BY FS_Subset
    <2>2. CASE T = {}
      <3>1. SumFunction(Zero(T)) = 0
        BY <2>1, <2>2, SumFacts
      <3> QED BY <3>1
    <2>3. ASSUME NEW x \in T PROVE T \in G
      <3>1. [y \in T \ {x} |-> Zero(T)[y]] = Zero(T \ {x}) /\ Zero(T)[x] = 0
        OBVIOUS
      <3>2. SumFunction(Zero(T \ {x})) = 0
        BY <1>1
      <3> HIDE DEF Zero
      <3>3. SumFunction(Zero(T)) = 0 + 0
        BY <2>1, <3>1, <3>2, SumFacts
      <3> QED BY <3>3
    <2> QED BY <2>2, <2>3
  <1>2. SUBSET S \subseteq G
    <2> HIDE DEF G
    <2> QED BY <1>1, SubsetInduction
  <1> QED BY <1>2

\* A sum of which one number is not zero.
LEMMA SumPoint ==
  ASSUME NEW S, IsFiniteSet(S), NEW a \in S, NEW v \in Nat
  PROVE  SumFunction([x \in S |-> IF x = a THEN v ELSE 0]) = v
  <1> DEFINE Zero == [x \in S \ {a} |-> 0]
             One == [x \in S |-> IF x = a THEN v ELSE 0]
  <1>1. One \in [S -> Nat] /\ One[a] = v /\ [y \in S \ {a} |-> One[y]] = Zero
    OBVIOUS
  <1>2. IsFiniteSet(S \ {a})
    BY FS_RemoveElement
  <1>3. SumFunction(Zero) = 0
    BY <1>2, SumZero
  <1> HIDE DEF One, Zero
  <1>4. SumFunction(One) = v + 0
    BY <1>1, <1>3, SumStep
  <1> QED BY <1>4 DEF One

=============================================================================
