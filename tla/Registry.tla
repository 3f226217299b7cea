------------------------------ MODULE Registry ------------------------------
(***************************************************************************)
(* What the routing tables of the agents promise.  Seen from outside, each *)
(* agent remembers for every application address the one agent it          *)
(* registered with and the services it offers, and every operation is      *)
(* about one address, one agent, or a whole copy of another agent's view.  *)
(* RouterTable, indexed by service instead, implements this specification. *)
(***************************************************************************)
CONSTANTS Node, Addr, Service, Syncer, NoHost

VARIABLES
    reg,    \* reg[h]: the registrations agent h knows of
    copies  \* copies[c]: what the sync command c has fetched, and for whom

vars == <<reg, copies>>

Registration == [node : Node, services : (SUBSET Service) \ {{}}]

View == UNION {[A -> Registration] : A \in SUBSET Addr}

Forget(view, A) == [a \in DOMAIN view \ A |-> view[a]]

\* A registration replaces an earlier one of the same address; offering no
\* service is the same as not being registered.
Enroll(view, n, a, ss) ==
    [b \in IF ss = {} THEN DOMAIN view \ {a} ELSE DOMAIN view \cup {a} |->
        IF b = a THEN [node |-> n, services |-> ss] ELSE view[b]]

EmptyView == [a \in {} |-> a]

Idle == [host |-> NoHost, view |-> EmptyView]

Init == /\ reg = [h \in Node |-> EmptyView]
        /\ copies = [c \in Syncer |-> Idle]

Register(h, n, a, ss) ==
    /\ reg' = [reg EXCEPT ![h] = Enroll(reg[h], n, a, ss)]
    /\ UNCHANGED copies

Unregister(h, a) ==
    /\ reg' = [reg EXCEPT ![h] = Forget(reg[h], {a})]
    /\ UNCHANGED copies

DropNode(h, n) ==
    /\ reg' = [reg EXCEPT ![h] = Forget(reg[h], {a \in DOMAIN reg[h] : reg[h][a].node = n})]
    /\ UNCHANGED copies

\* The agent starts again and knows nothing.
Reset(h) ==
    /\ reg' = [reg EXCEPT ![h] = EmptyView]
    /\ UNCHANGED copies

Fetch(c, h, m) ==
    /\ copies[c].host = NoHost
    /\ copies' = [copies EXCEPT ![c] = [host |-> h, view |-> reg[m]]]
    /\ UNCHANGED reg

Install(c) ==
    /\ copies[c].host # NoHost
    /\ reg' = [reg EXCEPT ![copies[c].host] = copies[c].view]
    /\ copies' = [copies EXCEPT ![c] = Idle]

Abandon(c) ==
    /\ copies[c].host # NoHost
    /\ copies' = [copies EXCEPT ![c] = Idle]
    /\ UNCHANGED reg

Next ==
    \/ \E h, n \in Node, a \in Addr, ss \in SUBSET Service : Register(h, n, a, ss)
    \/ \E h \in Node, a \in Addr : Unregister(h, a)
    \/ \E h, n \in Node : DropNode(h, n)
    \/ \E h \in Node : Reset(h)
    \/ \E c \in Syncer, h, m \in Node : Fetch(c, h, m)
    \/ \E c \in Syncer : Install(c) \/ Abandon(c)

Spec == Init /\ [][Next]_vars

=============================================================================
