----------------------------- MODULE AnyClient -----------------------------
(***************************************************************************)
(* The agent's side of a connection, with a client that sends any sequence *)
(* of well-formed requests, without a handshake or a key if it likes, and  *)
(* does not wait for answers.  Requests are numbered as they are sent.     *)
(***************************************************************************)
EXTENDS Session

CONSTANTS
    Asks,         \* pairs of a command and the argument in its body
    MaxRequests   \* bound on the requests

ASSUME MaxRequestsAssumption == MaxRequests \in Nat /\ Seq64 = 1..MaxRequests

\* The version that a handshake names is supported or not.
ASSUME AsksAssumption ==
    \A ask \in Asks : ask[1] = "handshake" => ask[2] \in {"supported", "unsupported"}

VARIABLE asked  \* asked[i]: the i-th request

vars == <<requests, responses, link, version, didAuth, reqHeader, streams, pushed, leaving, asked>>

Bodiless == {"members", "stats", "list-keys", "list-microapps", "list-routers", "leave", "unknown"}

Init == /\ requests = <<>> /\ responses = <<>> /\ link = {}
        /\ SessionInit
        /\ asked = <<>>

Ask(command, arg) ==
    /\ link = {}
    /\ Len(asked) < MaxRequests
    /\ asked' = Append(asked, [command |-> command, arg |-> arg])
    /\ LET seq == Len(asked) + 1
       IN  requests' = requests \o <<Header(command, seq)>>
                       \o (IF command \in Bodiless THEN <<>> ELSE <<Body(command, seq, arg)>>)
    /\ UNCHANGED <<responses, link, version, didAuth, reqHeader, streams, pushed, leaving>>

Next == \/ \E ask \in Asks : Ask(ask[1], ask[2])
        \/ SessionNext /\ UNCHANGED asked

Spec == Init /\ [][Next]_vars

FairSpec == Spec /\ WF_vars(handleRequest /\ UNCHANGED asked)

-----------------------------------------------------------------------------
\* Positions of the answers to requests, as opposed to pushed records.
Answers == {i \in DOMAIN responses :
              /\ responses[i].frame = "header"
              /\ i < Len(responses) => responses[i + 1].error \notin {"record", "done"}}

\* Requests are answered in the order in which they were sent, each once;
\* only one that is refused for want of authentication may be refused twice
\* (its body is taken for another request).  Records in between do not
\* disturb that.
AnswersInOrder ==
    \A i, j \in Answers :
        i < j => \/ responses[i].seq < responses[j].seq
                 \/ /\ responses[i].seq = responses[j].seq
                    /\ responses[i].error = authRequired /\ responses[j].error = authRequired

\* No command is carried out on a guarded agent for a client that has not
\* completed a handshake and, later, shown the right key.
NothingUnauthorised ==
    Guarded =>
        \A i \in Answers :
            LET n == responses[i].seq
            IN  /\ asked[n].command \notin {"handshake", "auth"}
                /\ responses[i].error \notin {authRequired, "handshakeRequired"}
                => \E j, k \in 1..n - 1 : /\ j < k
                                          /\ asked[j] = [command |-> "handshake", arg |-> "supported"]
                                          /\ asked[k] = [command |-> "auth", arg |-> "right"]

\* Every request is answered unless the connection ends: a refused request,
\* a wrong key or a second handshake do not stall the ones behind it.
AllAnswered ==
    \A n \in Seq64 : Len(asked) >= n ~> link # {} \/ \E i \in Answers : responses[i].seq = n

=============================================================================
