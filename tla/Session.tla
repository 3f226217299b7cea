------------------------------ MODULE Session ------------------------------
(***************************************************************************)
(* The agent's side of one RPC connection (command/agent/ipc.go): the      *)
(* goroutine that decodes requests and answers them, the handshake and the *)
(* authentication it insists on, and the goroutines that push the records  *)
(* of event streams, log monitors and queries over the same connection.    *)
(*                                                                         *)
(* A request and a response are each one or two frames, a header and       *)
(* perhaps a body, and nothing marks where one ends: both sides know from  *)
(* the command what to decode next.  The codec decodes a frame by the      *)
(* names of its fields, so that a body decoded as a header leaves the      *)
(* header as it was; the array of update-routers, unless empty, is an      *)
(* error.  What a command does to the agent is left out.                   *)
(***************************************************************************)
EXTENDS Naturals, Sequences

CONSTANTS
    Seq64,      \* sequence numbers of the requests
    Guarded,    \* whether the agent has an authKey
    MaxRecords  \* bound on the records pushed

ASSUME SessionAssumption == Guarded \in BOOLEAN /\ MaxRecords \in Nat

VARIABLES
    requests,   \* frames on their way to the agent
    responses,  \* frames on their way to the client
    link,       \* who has closed the connection, "client" and "agent"
    version, didAuth, reqHeader,
    streams,    \* streams[s]: "none" before it is asked for, then its state
    pushed,     \* records pushed so far
    leaving     \* handleLeave has triggered the shutdown of the agent

authRequired == "authRequired"

Header(command, seq) == [frame |-> "header", command |-> command, seq |-> seq, arg |-> "none"]
Body(command, seq, arg) == [frame |-> "body", command |-> command, seq |-> seq, arg |-> arg]

Response(seq, error) == <<[frame |-> "header", seq |-> seq, error |-> error]>>
Record(seq, type) == <<[frame |-> "body", seq |-> seq, error |-> type]>>

NoHeader == Header("none", "none")

SessionInit ==
    /\ version = 0
    /\ didAuth = FALSE
    /\ reqHeader = NoHeader
    /\ streams = [s \in Seq64 |-> "none"]
    /\ pushed = 0
    /\ leaving = FALSE

-----------------------------------------------------------------------------
\* A frame that is not a header sets none of the fields.
Decoded == IF Head(requests).frame = "header" THEN Head(requests) ELSE reqHeader

Send(frames) == responses' = IF link = {} THEN responses \o frames ELSE responses

\* The header of a request is there and passes the checks of handleRequest.
Admitted(command) ==
    /\ "agent" \notin link
    /\ requests # <<>>
    /\ Decoded.command = command
    /\ version # 0 \/ command = "handshake"
    /\ Guarded => didAuth \/ command \in {"auth", "handshake"}
    /\ reqHeader' = Decoded

\* Commands without a request body, and those whose body is decoded next.
NoBody == requests' = Tail(requests)
ReadBody == Len(requests) > 1 /\ requests' = Tail(Tail(requests))
Arg == requests[2].arg

ReqSeq == Decoded.seq

\* deregisterClient: the connection and its streams end.
Hangup ==
    /\ link' = link \cup {"agent"}
    /\ streams' = [s \in Seq64 |-> IF streams[s] = "none" THEN "none" ELSE "done"]

handshakeRequired ==
    /\ "agent" \notin link
    /\ requests # <<>>
    /\ version = 0 /\ Decoded.command # "handshake"
    /\ Send(Response(ReqSeq, "handshakeRequired"))
    /\ requests' = Tail(requests)
    /\ reqHeader' = Decoded
    /\ Hangup
    /\ UNCHANGED <<version, didAuth, pushed, leaving>>

\* Mutant of refuse: nothing is answered.
refuseSilently ==
    /\ "agent" \notin link
    /\ requests # <<>>
    /\ version # 0 /\ Guarded /\ ~ didAuth
    /\ Decoded.command \notin {"auth", "handshake"}
    /\ requests' = Tail(requests)
    /\ reqHeader' = Decoded
    /\ UNCHANGED <<responses, link, version, didAuth, streams, pushed, leaving>>

\* The connection goes on, and what comes next is taken for a header.
refuse ==
    /\ "agent" \notin link
    /\ requests # <<>>
    /\ version # 0 /\ Guarded /\ ~ didAuth
    /\ Decoded.command \notin {"auth", "handshake"}
    /\ Send(Response(ReqSeq, authRequired))
    /\ requests' = Tail(requests)
    /\ reqHeader' = Decoded
    /\ UNCHANGED <<link, version, didAuth, streams, pushed, leaving>>

\* The routers of an update that was refused do not decode as a header.
decodeFailed ==
    /\ "agent" \notin link
    /\ requests # <<>>
    /\ Head(requests).frame = "body" /\ Head(requests).command = "update-routers"
    /\ requests' = <<>>
    /\ Hangup
    /\ UNCHANGED <<responses, version, didAuth, reqHeader, pushed, leaving>>

unsupportedCommand ==
    /\ Admitted("unknown")
    /\ NoBody
    /\ Send(Response(ReqSeq, "unsupportedCommand"))
    /\ Hangup
    /\ UNCHANGED <<version, didAuth, pushed, leaving>>

-----------------------------------------------------------------------------
(* The handlers. *)

same == <<link, version, didAuth, streams, pushed, leaving>>

handleHandshake ==
    /\ Admitted("handshake") /\ ReadBody
    /\ IF Arg = "unsupported" THEN Send(Response(ReqSeq, "unsupportedIPCVersion")) /\ UNCHANGED version
       ELSE IF version # 0 THEN Send(Response(ReqSeq, "duplicateHandshake")) /\ UNCHANGED version
       ELSE Send(Response(ReqSeq, "")) /\ version' = 1
    /\ UNCHANGED <<link, didAuth, streams, pushed, leaving>>

\* Mutant of handleAuth: the client counts as authenticated before the check.
handleAuthUnchecked ==
    /\ Admitted("auth") /\ ReadBody
    /\ didAuth' = TRUE
    /\ Send(Response(ReqSeq, IF Arg = "right" THEN "" ELSE "invalidAuthToken"))
    /\ UNCHANGED <<link, version, streams, pushed, leaving>>

handleAuth ==
    /\ Admitted("auth") /\ ReadBody
    /\ IF Arg = "right" THEN Send(Response(ReqSeq, "")) /\ didAuth' = TRUE
       ELSE Send(Response(ReqSeq, "invalidAuthToken")) /\ UNCHANGED didAuth
    /\ UNCHANGED <<link, version, streams, pushed, leaving>>

\* The errors of what a handler calls: there may be one, or never is.
MayFail == {"", "failed"}
NeverFails == {""}

\* Mutants of the shapes below: a body is not decoded, and none is answered.
ActsUnread(command, errors) ==
    /\ Admitted(command) /\ NoBody
    /\ \E error \in errors : Send(Response(ReqSeq, error))
    /\ UNCHANGED same

TellsNothing(command, errors) ==
    /\ Admitted(command) /\ NoBody
    /\ \E error \in errors : Send(Response(ReqSeq, error))
    /\ UNCHANGED same

\* Three shapes of handlers: what is decoded, and what is answered, a body also
\* next to an error.
Acts(command, errors) ==
    /\ Admitted(command) /\ ReadBody
    /\ \E error \in errors : Send(Response(ReqSeq, error))
    /\ UNCHANGED same

Exchanges(command, errors) ==
    /\ Admitted(command) /\ ReadBody
    /\ \E error \in errors : Send(Response(ReqSeq, error) \o Record(ReqSeq, "answer"))
    /\ UNCHANGED same

Tells(command, errors) ==
    /\ Admitted(command) /\ NoBody
    /\ \E error \in errors : Send(Response(ReqSeq, error) \o Record(ReqSeq, "answer"))
    /\ UNCHANGED same

handleEvent == Acts("event", MayFail)
handleForceLeave == Acts("force-leave", MayFail)
handleTags == Acts("tags", MayFail)
handleRespond == Acts("respond", MayFail)
handleUpdateRouters == Acts("update-routers", NeverFails)
handleJoin == Exchanges("join", MayFail)
handleInstallKey == Exchanges("install-key", MayFail)
handleUseKey == Exchanges("use-key", MayFail)
handleRemoveKey == Exchanges("remove-key", MayFail)
handleGetCoordinate == Exchanges("get-coordinate", NeverFails)
handleListKeys == Tells("list-keys", MayFail)
handleStats == Tells("stats", NeverFails)
handleListMicroApps == Tells("list-microapps", NeverFails)
handleListRouters == Tells("list-routers", NeverFails)

\* A filter that is no regular expression ends the connection unanswered.
filterFails ==
    /\ Admitted("members-filtered") /\ ReadBody
    /\ Hangup
    /\ UNCHANGED <<responses, version, didAuth, pushed, leaving>>

handleMembers == Tells("members", NeverFails) \/ Exchanges("members-filtered", NeverFails) \/ filterFails

\* Respond, then shut the agent down.
handleLeave ==
    /\ Admitted("leave") /\ NoBody
    /\ \E error \in MayFail : Send(Response(ReqSeq, error))
    /\ leaving' = TRUE
    /\ UNCHANGED <<link, version, didAuth, streams, pushed>>

\* Mutant of Subscribe: after an error it goes on.
SubscribeRegardless(command, state) ==
    /\ Admitted(command) /\ ReadBody
    /\ \E errors \in {<<>>, Response(ReqSeq, "failed")} : Send(errors \o Response(ReqSeq, ""))
    /\ streams' = [streams EXCEPT ![ReqSeq] = state]
    /\ UNCHANGED <<link, version, didAuth, pushed, leaving>>

\* Refused for an invalid filter, level or query, and when the stream or a
\* monitor exists; otherwise its records follow.
Subscribe(command, state) ==
    /\ Admitted(command) /\ ReadBody
    /\ \/ Send(Response(ReqSeq, "failed")) /\ UNCHANGED streams
       \/ /\ streams[ReqSeq] = "none"
          /\ state = "monitor" => \A s \in Seq64 : streams[s] # "monitor"
          /\ Send(Response(ReqSeq, ""))
          /\ streams' = [streams EXCEPT ![ReqSeq] = state]
    /\ UNCHANGED <<link, version, didAuth, pushed, leaving>>

handleStream == Subscribe("stream", "open")
handleMonitor == Subscribe("monitor", "monitor")
handleQuery == Subscribe("query", "query")

handleStop ==
    /\ Admitted("stop") /\ ReadBody
    /\ streams' = [s \in Seq64 |->
                     IF s = Arg /\ streams[s] \in {"open", "monitor"} THEN "stopped" ELSE streams[s]]
    /\ Send(Response(ReqSeq, ""))
    /\ UNCHANGED <<link, version, didAuth, pushed, leaving>>

-----------------------------------------------------------------------------
\* The goroutine of a stream sends a record; a stopped one sends what its
\* channel still holds.
sendRecord(s) ==
    /\ link = {}
    /\ streams[s] \in {"open", "monitor", "query", "stopped"}
    /\ pushed < MaxRecords
    /\ Send(Response(s, "") \o Record(s, "record"))
    /\ pushed' = pushed + 1
    /\ UNCHANGED <<requests, link, version, didAuth, reqHeader, streams, leaving>>

\* The deadline of a query passes.
sendDone(s) ==
    /\ link = {}
    /\ streams[s] = "query"
    /\ Send(Response(s, "") \o Record(s, "done"))
    /\ streams' = [streams EXCEPT ![s] = "done"]
    /\ UNCHANGED <<requests, link, version, didAuth, reqHeader, pushed, leaving>>

\* The agent shuts down, or reads the end of a connection the client closed.
Shutdown ==
    /\ "agent" \notin link
    /\ Hangup
    /\ UNCHANGED <<requests, responses, version, didAuth, reqHeader, pushed, leaving>>

handleRequest ==
    \/ handshakeRequired \/ refuse \/ decodeFailed \/ unsupportedCommand
    \/ handleHandshake \/ handleAuth
    \/ handleEvent \/ handleForceLeave \/ handleTags \/ handleRespond \/ handleUpdateRouters
    \/ handleJoin \/ handleInstallKey \/ handleUseKey \/ handleRemoveKey \/ handleGetCoordinate
    \/ handleListKeys \/ handleStats \/ handleListMicroApps \/ handleListRouters \/ handleMembers
    \/ handleLeave \/ handleStream \/ handleMonitor \/ handleQuery \/ handleStop

SessionNext ==
    \/ handleRequest
    \/ \E s \in Seq64 : sendRecord(s) \/ sendDone(s)
    \/ Shutdown

=============================================================================
