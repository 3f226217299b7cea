-------------------------------- MODULE RPC --------------------------------
(***************************************************************************)
(* A client (RPCClient) and the agent's session with it (Session) over one *)
(* connection: two queues of frames, which either side may close.          *)
(***************************************************************************)
EXTENDS Naturals, Sequences

CONSTANTS
    Call, Setup, Commands, Keys, MayClose,  \* as in RPCClient
    Guarded, MaxRecords                     \* as in Session

ASSUME ClientAssumption == /\ Setup \in Seq(Call) /\ Len(Setup) = 2 /\ Setup[1] # Setup[2]
                           /\ \A c \in {Setup[1], Setup[2]} : Commands[c] = {}
                           /\ Keys \subseteq {"none", "right", "wrong"}
                           /\ MayClose \in BOOLEAN
ASSUME AgentAssumption == Guarded \in BOOLEAN /\ MaxRecords \in Nat

VARIABLES
    requests, responses, link,
    version, didAuth, reqHeader, streams, pushed, leaving,
    key, command, target, pc, result, reply, dispatch, init, userCh, cleanup,
    shutdown, closer, reader, crashed

Agent == INSTANCE Session WITH Seq64 <- Call
Client == INSTANCE RPCClient

\* What the user may call are methods of the client.
ASSUME CommandsAssumption ==
    \A c \in Call : \A name \in Commands[c] : \E m \in Client!Methods : m.name = name

rpcWire == <<requests, responses, link>>
session == <<version, didAuth, reqHeader, streams, pushed, leaving>>
client == <<key, command, target, pc, result, reply, dispatch, init, userCh, cleanup,
            shutdown, closer, reader, crashed>>
rpcVars == <<rpcWire, session, client>>

RPCInit == /\ requests = <<>> /\ responses = <<>> /\ link = {}
        /\ Agent!SessionInit
        /\ Client!ClientInit

AgentStep(A) == A /\ UNCHANGED client
ClientStep(A) == ~ crashed /\ A /\ UNCHANGED session

RPCNext == AgentStep(Agent!SessionNext) \/ ClientStep(Client!ClientNext)

RPCSpec == RPCInit /\ [][RPCNext]_rpcVars

\* Goroutines run, and an agent that leaves shuts down.  Users call, stop
\* and close as they like; nobody has to close a connection.
RPCFairness ==
    /\ WF_rpcVars(AgentStep(Agent!handleRequest))
    /\ WF_rpcVars(AgentStep(leaving /\ Agent!Shutdown))
    /\ \A c \in Call : /\ WF_rpcVars(AgentStep(Agent!sendDone(c)))
                       /\ WF_rpcVars(ClientStep(Client!CallStep(c)))
                       /\ WF_rpcVars(ClientStep(Client!CleanupStep(c)))
    /\ \A i \in 1..2 : WF_rpcVars(ClientStep(Client!ClientFromConfig(i)))
    /\ WF_rpcVars(ClientStep(Client!ReaderStep))
    /\ WF_rpcVars(ClientStep(Client!CloseStep))

RPCFairSpec == RPCSpec /\ RPCFairness

-----------------------------------------------------------------------------
RPCTypeOK ==
    /\ version \in 0..1 /\ didAuth \in BOOLEAN /\ leaving \in BOOLEAN
    /\ streams \in [Call -> {"none", "open", "monitor", "query", "stopped", "done"}]
    /\ pushed \in 0..MaxRecords
    /\ link \subseteq {"client", "agent"}
    /\ pc \in [Call -> {"idle", "begun", "registered", "waiting", "leaving", "cleaning", "returned"}]
    /\ result \in [Call -> {"none", "ok", "failed", "closed"}]
    /\ \A c \in Call : Len(reply[c]) <= 1
    /\ dispatch \subseteq Call
    /\ init \in [Call -> BOOLEAN] /\ userCh \in [Call -> {"open", "closed"}]
    /\ cleanup \in [Call -> {"no", "started", "notify", "close", "done"}]
    /\ shutdown \in BOOLEAN /\ crashed \in BOOLEAN
    /\ closer \in {"no", "begun", "deregistering", "closed"}
    /\ reader.at \in {"read", "answer", "check", "init", "record", "cleaning", "ended"}

\* Both sides agree on where a request starts: the agent meets a body where
\* it looks for a header only if it has just refused that very request for
\* want of authentication, which it does without reading the body.
RequestsAligned ==
    requests # <<>> /\ "agent" \notin link /\ Head(requests).frame = "body"
    => Guarded /\ ~ didAuth /\ reqHeader.seq = Head(requests).seq

\* A stream, monitor or query of a client that has shown no key: refused
\* twice, its handler takes the second refusal for a record and then the
\* next response, whosever it is, for the record's body.
Disowned == Guarded /\ key = "none" /\ \E c \in Call : Client!Streaming(c)

\* What the reader decodes for a call or a stream is the body of that call's
\* response, or a record of that stream, whatever else shares the
\* connection, was stopped or has failed.
BodiesMatch ==
    /\ responses # <<>> /\ link = {} /\ ~ Disowned
    /\ \/ reader.at = "record"
       \/ reader.at = "answer" /\ reader.error # "authRequired" /\ Client!Method(reader.seq).expects
    => Head(responses).frame = "body" /\ Head(responses).seq = reader.seq

\* Every call returns, with an answer or because the connection ended, also
\* when it is refused, stopped streams go on sending, or the agent goes.
CallsReturn ==
    \A c \in Call : pc[c] # "idle" ~> pc[c] = "returned" \/ crashed \/ Disowned

\* "At the end of the query, the channels will be closed" (rpc_client.go:665):
\* whether by its last record or because the client is closed.
QueriesEnd ==
    \A c \in Call :
        command[c] = "query" /\ (streams[c] = "done" \/ shutdown) ~> userCh[c] = "closed" \/ crashed

=============================================================================
