----------------------------- MODULE RPCClient -----------------------------
(***************************************************************************)
(* The client of the RPC protocol (client/rpc_client.go): calls made by    *)
(* any number of goroutines, the table of handlers by sequence number, the *)
(* goroutine that reads responses and hands them to the handlers, and the  *)
(* end of the connection.                                                  *)
(*                                                                         *)
(* getSeq gives every call a number of its own; the calls stand for their  *)
(* numbers.  The handlers of Stream, Monitor and Query are called by the   *)
(* reader and cleaned up by whoever removes them, without a lock: the      *)
(* check of "init" and what follows are separate steps.  The other race,   *)
(* on "shutdown", has no outcome a reordering of steps does not have.      *)
(* Channels given by the user are never full.                              *)
(***************************************************************************)
EXTENDS Naturals, Sequences

CONSTANTS
    Call,      \* the calls, which are also their sequence numbers
    Setup,     \* the two calls ClientFromConfig makes, the second with a key only
    Commands,  \* Commands[c]: what the user may use call c for
    Keys,      \* keys a client may have been given: "none", "right", "wrong"
    MayClose   \* whether the user may call Close

VARIABLES
    requests, responses, link,  \* as in Session
    key,       \* the AuthKey of the configuration
    command,   \* command[c]: what call c is
    target,    \* target[c]: the stream a stop is about
    pc,        \* where the goroutine of call c is
    result,    \* what the call returns
    reply,     \* reply[c]: its errCh or initCh, with one slot
    dispatch,  \* calls that have a handler
    init,      \* init[c]: the first response has come
    userCh,    \* userCh[c]: the channels of the user, "open" or "closed"
    cleanup,   \* cleanup[c]: progress of the handler's Cleanup
    shutdown,  \* Close was called; shutdownCh is closed
    closer,    \* progress of Close
    reader,    \* the goroutine that runs listen
    crashed   \* a send on a closed channel has ended the process

\* A method of the client: whether it sends a body and whether it decodes one.
Rpc(name, sends, expects) == [name |-> name, sends |-> sends, expects |-> expects]

handshake == Rpc("handshake", TRUE, FALSE)
auth == Rpc("auth", TRUE, FALSE)
ForceLeave == Rpc("force-leave", TRUE, FALSE)
Join == Rpc("join", TRUE, TRUE)
Members == Rpc("members", FALSE, TRUE)
MembersFiltered == Rpc("members-filtered", TRUE, TRUE)
UserEvent == Rpc("event", TRUE, FALSE)
Leave == Rpc("leave", FALSE, FALSE)
UpdateTags == Rpc("tags", TRUE, FALSE)
Respond == Rpc("respond", TRUE, FALSE)
InstallKey == Rpc("install-key", TRUE, TRUE)
UseKey == Rpc("use-key", TRUE, TRUE)
RemoveKey == Rpc("remove-key", TRUE, TRUE)
ListKeys == Rpc("list-keys", FALSE, TRUE)
Stats == Rpc("stats", FALSE, TRUE)
GetCoordinate == Rpc("get-coordinate", TRUE, TRUE)
ListMicroApps == Rpc("list-microapps", FALSE, TRUE)
ListRouters == Rpc("list-routers", FALSE, TRUE)
UpdateRouters == Rpc("update-routers", TRUE, FALSE)
Stop == Rpc("stop", TRUE, FALSE)
Monitor == Rpc("monitor", TRUE, FALSE)
Stream == Rpc("stream", TRUE, FALSE)
Query == Rpc("query", TRUE, FALSE)

Methods == {handshake, auth, ForceLeave, Join, Members, MembersFiltered, UserEvent, Leave,
            UpdateTags, Respond, InstallKey, UseKey, RemoveKey, ListKeys, Stats, GetCoordinate,
            ListMicroApps, ListRouters, UpdateRouters, Stop, Monitor, Stream, Query}

Method(c) == CHOOSE m \in Methods : m.name = command[c]

Streaming(c) == command[c] \in {"monitor", "stream", "query"}

authRequired == "authRequired"

IdleReader == [at |-> "read", seq |-> "none", error |-> ""]

ClientInit ==
    /\ key \in Keys
    /\ command = [c \in Call |-> "none"]
    /\ target = [c \in Call |-> "none"]
    /\ pc = [c \in Call |-> "idle"]
    /\ result = [c \in Call |-> "none"]
    /\ reply = [c \in Call |-> <<>>]
    /\ dispatch = {}
    /\ init = [c \in Call |-> FALSE]
    /\ userCh = [c \in Call |-> "open"]
    /\ cleanup = [c \in Call |-> "no"]
    /\ shutdown = FALSE
    /\ closer = "no"
    /\ reader = IdleReader
    /\ crashed = FALSE

-----------------------------------------------------------------------------
(* The handlers' table.  Close holds dispatchLock during all of            *)
(* deregisterAll.                                                          *)

Unlocked == closer # "deregistering"

\* deregisterHandler: only who finds the handler in the table cleans it up.
deregisterHandler(h) ==
    /\ Unlocked
    /\ dispatch' = dispatch \ {h}
    /\ cleanup' = IF h \in dispatch /\ Streaming(h) THEN [cleanup EXCEPT ![h] = "started"] ELSE cleanup

\* Its Cleanup is over, or was none of its business.
Clean(h) == cleanup[h] \in {"no", "done"}

CleanupCheck(h) ==
    /\ cleanup[h] = "started"
    /\ cleanup' = [cleanup EXCEPT ![h] = IF init[h] THEN "close" ELSE "notify"]
    /\ UNCHANGED <<requests, responses, link, key, command, target, pc, result, reply, dispatch, init,
                   userCh, shutdown, closer, reader, crashed>>

\* A send that waits for room, then the channels of the user are closed.
CleanupNotify(h) ==
    /\ cleanup[h] = "notify"
    /\ reply[h] = <<>>
    /\ init' = [init EXCEPT ![h] = TRUE]
    /\ reply' = [reply EXCEPT ![h] = <<"failed">>]
    /\ cleanup' = [cleanup EXCEPT ![h] = "close"]
    /\ UNCHANGED <<requests, responses, link, key, command, target, pc, result, dispatch, userCh,
                   shutdown, closer, reader, crashed>>

CleanupClose(h) ==
    /\ cleanup[h] = "close"
    /\ userCh' = [userCh EXCEPT ![h] = "closed"]
    /\ cleanup' = [cleanup EXCEPT ![h] = "done"]
    /\ UNCHANGED <<requests, responses, link, key, command, target, pc, result, reply, dispatch, init,
                   shutdown, closer, reader, crashed>>

-----------------------------------------------------------------------------
(* Calls. *)

Returned(c) == pc[c] = "returned"

Succeeded(c) == Returned(c) /\ result[c] = "ok"

\* ClientFromConfig goes on only with what it has so far succeeded in.
Connected == Succeeded(Setup[1]) /\ (key # "none" => Succeeded(Setup[2]))

\* The calls of ClientFromConfig, one after the other.
ClientFromConfig(i) ==
    /\ pc[Setup[i]] = "idle"
    /\ i = 2 => key # "none" /\ Succeeded(Setup[1])
    /\ command' = [command EXCEPT ![Setup[i]] = IF i = 1 THEN "handshake" ELSE "auth"]
    /\ pc' = [pc EXCEPT ![Setup[i]] = "begun"]
    /\ UNCHANGED <<requests, responses, link, key, target, result, reply, dispatch, init, userCh,
                   cleanup, shutdown, closer, reader, crashed>>

\* The user calls a method of the connected client.
Begin(c, name) ==
    /\ pc[c] = "idle" /\ Connected
    /\ name \in Commands[c] \ {"stop"}
    /\ command' = [command EXCEPT ![c] = name]
    /\ pc' = [pc EXCEPT ![c] = "begun"]
    /\ UNCHANGED <<requests, responses, link, key, target, result, reply, dispatch, init, userCh,
                   cleanup, shutdown, closer, reader, crashed>>

\* Stop deregisters the handler first.
BeginStop(c, h) ==
    /\ pc[c] = "idle" /\ Connected
    /\ "stop" \in Commands[c]
    /\ command[h] \in {"monitor", "stream"} /\ Returned(h) /\ result[h] = "ok"
    /\ command' = [command EXCEPT ![c] = "stop"]
    /\ target' = [target EXCEPT ![c] = h]
    /\ pc' = [pc EXCEPT ![c] = "begun"]
    /\ deregisterHandler(h)
    /\ UNCHANGED <<requests, responses, link, key, result, reply, init, userCh, shutdown, closer,
                   reader, crashed>>

handleSeq(c) ==
    /\ pc[c] = "begun"
    /\ command[c] = "stop" => Clean(target[c])
    /\ Unlocked
    /\ dispatch' = dispatch \cup {c}
    /\ pc' = [pc EXCEPT ![c] = "registered"]
    /\ UNCHANGED <<requests, responses, link, key, command, target, result, reply, init, userCh,
                   cleanup, shutdown, closer, reader, crashed>>

ArgOf(c) == CASE command[c] = "auth" -> key
              [] command[c] = "stop" -> target[c]
              [] OTHER -> "none"

Request(c) ==
    <<[frame |-> "header", command |-> command[c], seq |-> c, arg |-> "none"]>>
    \o (IF Method(c).sends
        THEN <<[frame |-> "body", command |-> command[c], seq |-> c, arg |-> ArgOf(c)]>>
        ELSE <<>>)

\* What is written after the agent has closed the connection may be lost.
send(c) ==
    /\ pc[c] = "registered"
    /\ ~ shutdown
    /\ requests' = IF link = {} THEN requests \o Request(c) ELSE requests
    /\ pc' = [pc EXCEPT ![c] = "waiting"]
    /\ UNCHANGED <<responses, link, key, command, target, result, reply, dispatch, init, userCh,
                   cleanup, shutdown, closer, reader, crashed>>

sendFails(c) ==
    /\ pc[c] = "registered"
    /\ shutdown \/ link # {}
    /\ result' = [result EXCEPT ![c] = IF shutdown THEN "closed" ELSE "failed"]
    /\ pc' = [pc EXCEPT ![c] = "leaving"]
    /\ UNCHANGED <<requests, responses, link, key, command, target, reply, dispatch, init, userCh,
                   cleanup, shutdown, closer, reader, crashed>>

\* The select of genericRPC, Stream, Monitor and Query.  A stream keeps its
\* handler, also when the answer is an error.
Answered(c) ==
    /\ pc[c] = "waiting"
    /\ reply[c] # <<>>
    /\ result' = [result EXCEPT ![c] = reply[c][1]]
    /\ reply' = [reply EXCEPT ![c] = <<>>]
    /\ pc' = [pc EXCEPT ![c] = IF Streaming(c) THEN "returned" ELSE "leaving"]
    /\ UNCHANGED <<requests, responses, link, key, command, target, dispatch, init, userCh, cleanup,
                   shutdown, closer, reader, crashed>>

Abandoned(c) ==
    /\ pc[c] = "waiting"
    /\ shutdown
    /\ result' = [result EXCEPT ![c] = "closed"]
    /\ pc' = [pc EXCEPT ![c] = "leaving"]
    /\ UNCHANGED <<requests, responses, link, key, command, target, reply, dispatch, init, userCh,
                   cleanup, shutdown, closer, reader, crashed>>

Deregister(c) ==
    /\ pc[c] = "leaving"
    /\ deregisterHandler(c)
    /\ pc' = [pc EXCEPT ![c] = "cleaning"]
    /\ UNCHANGED <<requests, responses, link, key, command, target, result, reply, init, userCh,
                   shutdown, closer, reader, crashed>>

Return(c) ==
    /\ pc[c] = "cleaning"
    /\ Clean(c)
    /\ pc' = [pc EXCEPT ![c] = "returned"]
    /\ UNCHANGED <<requests, responses, link, key, command, target, result, reply, dispatch, init,
                   userCh, cleanup, shutdown, closer, reader, crashed>>

-----------------------------------------------------------------------------
(* The reader. *)

Handler == reader.seq

At(where) == reader' = [reader EXCEPT !.at = where]

rest == <<requests, link, key, command, target, pc, result, shutdown, closer>>

\* Nothing more will come.
Ended == "client" \in link \/ (responses = <<>> /\ link # {})

\* Decode a header and look its handler up; a frame that is not a header
\* leaves the header as it was.  Responses without a handler are ignored.
respondSeq ==
    /\ reader.at = "read"
    /\ responses # <<>> /\ "client" \notin link
    /\ Unlocked
    /\ LET f   == Head(responses)
           seq == IF f.frame = "header" THEN f.seq ELSE reader.seq
           err == IF f.frame = "header" THEN f.error ELSE reader.error
       IN  reader' = [at    |-> IF seq \notin dispatch THEN "read"
                                ELSE IF Streaming(seq) THEN "check" ELSE "answer",
                      seq   |-> seq,
                      error |-> err]
    /\ responses' = Tail(responses)
    /\ UNCHANGED rest /\ UNCHANGED <<reply, dispatch, init, userCh, cleanup, crashed>>

ToError(error) == IF error = "" THEN "ok" ELSE "failed"

\* Mutant of HandleAnswer: errCh has room for more than one answer.
HandleAnswerRoomy ==
    /\ reader.at = "answer"
    /\ IF reader.error # authRequired /\ Method(Handler).expects
       THEN responses # <<>> /\ responses' = Tail(responses)
       ELSE UNCHANGED responses
    /\ reply' = [reply EXCEPT ![Handler] = Append(@, ToError(reader.error))]
    /\ At("read")
    /\ UNCHANGED rest /\ UNCHANGED <<dispatch, init, userCh, cleanup, crashed>>

\* The handler of genericRPC: no body is awaited after an auth error.
HandleAnswer ==
    /\ reader.at = "answer"
    /\ reply[Handler] = <<>>
    /\ IF reader.error # authRequired /\ Method(Handler).expects
       THEN \/ /\ ~ Ended /\ responses # <<>>
               /\ responses' = Tail(responses)
               /\ reply' = [reply EXCEPT ![Handler] = <<ToError(reader.error)>>]
            \/ /\ Ended
               /\ reply' = [reply EXCEPT ![Handler] = <<"failed">>]
               /\ UNCHANGED responses
       ELSE /\ reply' = [reply EXCEPT ![Handler] = <<ToError(reader.error)>>]
            /\ UNCHANGED responses
    /\ At("read")
    /\ UNCHANGED rest /\ UNCHANGED <<dispatch, init, userCh, cleanup, crashed>>

\* Handle of the three streaming handlers.
HandleCheck ==
    /\ reader.at = "check"
    /\ At(IF init[Handler] THEN "record" ELSE "init")
    /\ UNCHANGED rest /\ UNCHANGED <<responses, reply, dispatch, init, userCh, cleanup, crashed>>

HandleInit ==
    /\ reader.at = "init"
    /\ reply[Handler] = <<>>
    /\ init' = [init EXCEPT ![Handler] = TRUE]
    /\ reply' = [reply EXCEPT ![Handler] = <<ToError(reader.error)>>]
    /\ At("read")
    /\ UNCHANGED rest /\ UNCHANGED <<responses, dispatch, userCh, cleanup, crashed>>

IsDone(f) == command[Handler] = "query" /\ f.frame = "body" /\ f.error = "done"

\* Decode the body and pass it on; a send on a closed channel panics.
HandleRecord ==
    /\ reader.at = "record"
    /\ responses # <<>> /\ "client" \notin link
    /\ ~ IsDone(Head(responses))
    /\ responses' = Tail(responses)
    /\ crashed' = (userCh[Handler] = "closed")
    /\ At("read")
    /\ UNCHANGED rest /\ UNCHANGED <<reply, dispatch, init, userCh, cleanup>>

\* Mutant of HandleEnd: the handler of a query that is done stays.
HandleEndForgets ==
    /\ reader.at = "record"
    /\ \/ /\ responses # <<>> /\ "client" \notin link /\ IsDone(Head(responses))
          /\ responses' = Tail(responses)
       \/ Ended /\ UNCHANGED responses
    /\ At("read")
    /\ UNCHANGED rest /\ UNCHANGED <<reply, dispatch, init, userCh, cleanup, crashed>>

\* The end of a query, and a body that does not come.
HandleEnd ==
    /\ reader.at = "record"
    /\ \/ /\ responses # <<>> /\ "client" \notin link /\ IsDone(Head(responses))
          /\ responses' = Tail(responses)
       \/ Ended /\ UNCHANGED responses
    /\ deregisterHandler(Handler)
    /\ At("cleaning")
    /\ UNCHANGED rest /\ UNCHANGED <<reply, init, userCh, crashed>>

HandleReturn ==
    /\ reader.at = "cleaning"
    /\ Clean(Handler)
    /\ At("read")
    /\ UNCHANGED rest
    /\ UNCHANGED <<responses, reply, dispatch, init, userCh, cleanup, crashed>>

-----------------------------------------------------------------------------
(* Close, by the user, by ClientFromConfig or by the reader at its end.     *)

beginClose == shutdown' = TRUE /\ closer' = "begun"

afterClose == UNCHANGED <<requests, responses, link, key, command, target, pc, result, reply,
                          dispatch, init, userCh, cleanup, crashed>>

SetupFailed == \E i \in DOMAIN Setup : Returned(Setup[i]) /\ result[Setup[i]] # "ok"

Close ==
    /\ ~ shutdown
    /\ (MayClose /\ Connected) \/ SetupFailed
    /\ beginClose
    /\ UNCHANGED reader /\ afterClose

\* Mutant of listenEnds: the reader leaves without closing the client.
listenEndsQuietly ==
    /\ reader.at = "read"
    /\ Ended
    /\ UNCHANGED <<shutdown, closer>>
    /\ At("ended")
    /\ afterClose

listenEnds ==
    /\ reader.at = "read"
    /\ Ended
    /\ IF shutdown THEN UNCHANGED <<shutdown, closer>> ELSE beginClose
    /\ At("ended")
    /\ afterClose

\* deregisterAll takes the lock, cleans up one handler after the other ...
deregisterAll ==
    /\ closer = "begun"
    /\ closer' = "deregistering"
    /\ UNCHANGED <<shutdown, reader>> /\ afterClose

CleanupNext(h) ==
    /\ closer = "deregistering"
    /\ h \in dispatch /\ Streaming(h) /\ cleanup[h] = "no"
    /\ \A g \in dispatch : Clean(g)
    /\ cleanup' = [cleanup EXCEPT ![h] = "started"]
    /\ UNCHANGED <<requests, responses, link, key, command, target, pc, result, reply, dispatch, init,
                   userCh, shutdown, closer, reader, crashed>>

\* ... and empties the table; then the connection is closed.
CloseConn ==
    /\ closer = "deregistering"
    /\ \A h \in dispatch : Streaming(h) => cleanup[h] = "done"
    /\ closer' = "closed"
    /\ dispatch' = {}
    /\ link' = link \cup {"client"}
    /\ UNCHANGED <<requests, responses, key, command, target, pc, result, reply, init, userCh, cleanup,
                   shutdown, reader, crashed>>

CallStep(c) == handleSeq(c) \/ send(c) \/ sendFails(c) \/ Answered(c) \/ Abandoned(c)
               \/ Deregister(c) \/ Return(c)
CleanupStep(h) == CleanupCheck(h) \/ CleanupNotify(h) \/ CleanupClose(h)
ReaderStep == \/ respondSeq \/ HandleAnswer \/ HandleCheck \/ HandleInit \/ HandleRecord
              \/ HandleEnd \/ HandleReturn \/ listenEnds
CloseStep == deregisterAll \/ CloseConn \/ \E h \in Call : CleanupNext(h)

ClientNext ==
    /\ ~ crashed
    /\ \/ \E i \in DOMAIN Setup : ClientFromConfig(i)
       \/ \E c \in Call : \E name \in Commands[c] : Begin(c, name)
       \/ \E c, h \in Call : BeginStop(c, h)
       \/ \E c \in Call : CallStep(c) \/ CleanupStep(c)
       \/ ReaderStep
       \/ Close
       \/ CloseStep

=============================================================================
