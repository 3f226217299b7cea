------------------------------ MODULE AgentIPC ------------------------------
(***************************************************************************)
(* The life of the agent's RPC connections (command/agent/ipc.go): listen  *)
(* accepts them and enters them in the table of clients, a goroutine each  *)
(* serves them, deregisterClient ends them, and Shutdown closes all that   *)
(* the table has.  What is said on a connection is in module Session.      *)
(*                                                                         *)
(* The table is keyed by the client's address.  An address is free again   *)
(* as soon as the kernel has dropped the old connection, which is when the *)
(* agent has closed it or the client has reset it.                         *)
(***************************************************************************)
EXTENDS Naturals

CONSTANTS
    Conn,    \* connections
    NameOf,  \* NameOf[c]: address of the client
    NoConn

ASSUME NoConnAssumption == NoConn \notin Conn

VARIABLES
    stop,      \* Shutdown was called
    accepted,  \* the connection listen holds and has not registered
    conn,      \* conn[c]: "none", "open", "reset" by the client, or "closed"
    task,      \* task[c]: what the goroutine of c does
    clients    \* clients[name]: the connection entered under a name, or NoConn

vars == <<stop, accepted, conn, task, clients>>

Name == {NameOf[c] : c \in Conn}

TypeOK == /\ stop \in BOOLEAN
          /\ accepted \in Conn \cup {NoConn}
          /\ conn \in [Conn -> {"none", "open", "reset", "closed"}]
          /\ task \in [Conn -> {"none", "serve", "deregister", "ended"}]
          /\ clients \in [Name -> Conn \cup {NoConn}]

Init == /\ stop = FALSE
        /\ accepted = NoConn
        /\ conn = [c \in Conn |-> "none"]
        /\ task = [c \in Conn |-> "none"]
        /\ clients = [n \in Name |-> NoConn]

\* listen: one connection at a time, until the listener is closed.
Accept(c) ==
    /\ ~ stop
    /\ accepted = NoConn
    /\ conn[c] = "none"
    /\ \A d \in Conn : NameOf[d] = NameOf[c] => conn[d] # "open"
    /\ accepted' = c
    /\ conn' = [conn EXCEPT ![c] = "open"]
    /\ UNCHANGED <<stop, task, clients>>

\* Mutant of Register: stop is not looked at again under the lock.
RegisterUnchecked ==
    /\ accepted # NoConn
    /\ clients' = [clients EXCEPT ![NameOf[accepted]] = accepted]
    /\ task' = [task EXCEPT ![accepted] = "serve"]
    /\ accepted' = NoConn
    /\ UNCHANGED <<stop, conn>>

\* Under the lock: a connection that comes too late is closed at once.
Register ==
    /\ accepted # NoConn
    /\ IF ~ stop
       THEN /\ clients' = [clients EXCEPT ![NameOf[accepted]] = accepted]
            /\ task' = [task EXCEPT ![accepted] = "serve"]
            /\ UNCHANGED conn
       ELSE /\ conn' = [conn EXCEPT ![accepted] = "closed"]
            /\ UNCHANGED <<clients, task>>
    /\ accepted' = NoConn
    /\ UNCHANGED stop

\* The client goes away without a farewell.
Reset(c) ==
    /\ conn[c] = "open"
    /\ conn' = [conn EXCEPT ![c] = "reset"]
    /\ UNCHANGED <<stop, accepted, task, clients>>

\* A request that fails ends the connection, whoever is at the other end.
RequestFails(c) ==
    /\ task[c] = "serve" /\ conn[c] = "open"
    /\ conn' = [conn EXCEPT ![c] = "closed"]
    /\ task' = [task EXCEPT ![c] = "deregister"]
    /\ UNCHANGED <<stop, accepted, clients>>

\* handleClient cannot read any more; deregisterClient closes the socket ...
ReadFails(c) ==
    /\ task[c] = "serve" /\ conn[c] # "open"
    /\ conn' = [conn EXCEPT ![c] = "closed"]
    /\ task' = [task EXCEPT ![c] = "deregister"]
    /\ UNCHANGED <<stop, accepted, clients>>

\* Mutant of deregisterClient: the entry stays.
deregisterClientKeeps(c) ==
    /\ task[c] = "deregister"
    /\ task' = [task EXCEPT ![c] = "ended"]
    /\ UNCHANGED <<stop, accepted, conn, clients>>

\* ... and deletes the entry under the lock.
deregisterClient(c) ==
    /\ task[c] = "deregister"
    /\ clients' = [clients EXCEPT ![NameOf[c]] = NoConn]
    /\ task' = [task EXCEPT ![c] = "ended"]
    /\ UNCHANGED <<stop, accepted, conn>>

Shutdown ==
    /\ ~ stop
    /\ stop' = TRUE
    /\ conn' = [c \in Conn |-> IF clients[NameOf[c]] = c THEN "closed" ELSE conn[c]]
    /\ UNCHANGED <<accepted, task, clients>>

Next == \/ \E c \in Conn : \/ Accept(c) \/ Reset(c) \/ RequestFails(c) \/ ReadFails(c)
                           \/ deregisterClient(c)
        \/ Register
        \/ Shutdown

Spec == Init /\ [][Next]_vars

-----------------------------------------------------------------------------
\* "Close the existing connections" (ipc.go:371): after Shutdown, the
\* goroutine of every connection ends and its socket is closed, also of the
\* connection that listen was about to register and of one whose client is
\* still there and silent.  It takes addresses that differ: of two
\* connections from one address, the end of the older deletes the entry of
\* the newer, which Shutdown then does not see.
ShutdownClosesAll ==
    stop ~> \A c \in Conn : conn[c] \in {"none", "closed"} /\ task[c] # "serve"

\* The table has no entry of a connection that is over: nothing piles up in
\* it, whatever the order of resets, failures and new connections.
NoStaleClients ==
    \A n \in Name : clients[n] # NoConn => task[clients[n]] \in {"serve", "deregister"}

=============================================================================
