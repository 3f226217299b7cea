------------------------------- MODULE Reload -------------------------------
(***************************************************************************)
(* What an agent can change while it runs, and what of it survives a crash *)
(* (command/agent/command.go, agent.go, ipc.go, event_handler.go): SIGHUP  *)
(* makes the goroutine of Run read the configuration again and put log     *)
(* level, event scripts and tags in force, and RPC clients change tags.    *)
(* Tags go to the tags file, if there is one, and then to serf.            *)
(*                                                                         *)
(* The file is written in place: it is empty between its truncation and    *)
(* the write, and of two writers at once the second may leave the end of   *)
(* the first's text behind its own.  SetTags has no lock, and a client's   *)
(* request starts from the tags it read before.                            *)
(*                                                                         *)
(* Serf is modelled from how the code uses it: it refuses tags that do not *)
(* fit into its messages.  A crash of the process loses nothing that was   *)
(* written to the file.                                                    *)
(***************************************************************************)
EXTENDS Config, FiniteSets

CONSTANTS
    Client,      \* RPC clients that change tags
    Main,        \* the goroutine of Run
    FileLists,   \* configuration files an operator may have put there
    CmdConfig,   \* the settings of the command line
    Request,     \* what clients ask for: tags to set and tags to delete
    Event,       \* events of the cluster
    MaxTags      \* tags that fit into a message

ASSUME ReloadAssumption == Main \notin Client /\ MaxTags \in Nat

\* The command line has a sequence of event handlers, and so has each file of a
\* sequence that can be read.
ASSUME FilesAssumption ==
    /\ CmdConfig.handlers \in Seq(HandlerSetting)
    /\ \A files \in FileLists :
          /\ files \in Seq({files[i] : i \in DOMAIN files})
          /\ \A i \in DOMAIN files : files[i] # Bad => files[i].handlers \in Seq(HandlerSetting)

VARIABLES
    persist,     \* there is a tags file
    up,          \* the process runs
    config,      \* the configuration of handleSignals
    sources,     \* the files it was read from, and tags restored (history)
    filter,      \* minimal level of the log filter
    scripts,     \* h.Scripts
    newScripts,  \* h.newScripts: {} for nil, or the one list in it
    ran,         \* the last event under it, and the scripts that were run (history)
    tagsFile,    \* the tags file
    tags,        \* tags in serf's configuration, as last gossiped
    job,         \* job[s]: how far the SetTags of s is
    want,        \* tags that the calls so far asked for (history)
    dirty,       \* calls overlapped or failed half-way since (history)
    inflight     \* tags of the calls that the last crash cut off (history)

confVars == <<config, sources, filter, scripts, newScripts, ran>>
tagVars == <<tagsFile, tags, job, want, dirty, inflight>>
reloadVars == <<persist, up, confVars, tagVars>>

Setter == Client \cup {Main}

\* Tags, and a tags file that holds them as it should.
Whole(t) == [state |-> "whole", tags |-> t]
File(state) == [state |-> state, tags |-> NoTags]

Rest == [step |-> "idle", tags |-> NoTags, asked |-> NoTags, alone |-> TRUE]
Busy(s) == job[s].step # "idle"

Fits(t) == Cardinality(DOMAIN t) <= MaxTags

\* Log levels, of which any case is accepted.
ToUpper(level) == CASE level = "info" -> "INFO" [] level = "debug" -> "DEBUG" [] OTHER -> level
ValidLevel(level) == level \in {"TRACE", "DEBUG", "INFO", "WARN", "ERR"}

\* Neither files nor tags of a tags file.
NoSources == [files |-> <<>>, restored |-> NoTags]

\* No event was handled yet under the configuration.
NoRun == [event |-> [event |-> "none", name |-> ""], scripts |-> {}]

ReloadInit ==
    /\ persist \in BOOLEAN
    /\ up = FALSE
    /\ config = DefaultConfig /\ sources = NoSources /\ filter = "INFO"
    /\ scripts = <<>> /\ newScripts = {} /\ ran = NoRun
    /\ tagsFile = File("absent")
    /\ tags = NoTags /\ want = NoTags
    /\ job = [s \in Setter |-> Rest]
    /\ dirty = FALSE /\ inflight = {}

-----------------------------------------------------------------------------
\* loadTagsFile: the tags of the file, if there is one.
Restored == IF persist /\ tagsFile.state = "whole" THEN tagsFile.tags ELSE NoTags

\* It decodes them into serf's configuration, whose tags are the map of the
\* agent's: both have them.
StartTags(conf) == IF Restored = NoTags THEN conf.tags ELSE Restored

\* Run, up to a running agent.  It refuses a configuration that cannot be
\* read, an unknown log level, tags in the configuration next to a tags file,
\* a tags file that cannot be decoded, and tags that do not fit.
Start(files) ==
    LET conf == readConfig(files, CmdConfig)
    IN  /\ ~ up
        /\ conf # Failed
        /\ ValidLevel(ToUpper(conf.level))
        /\ persist => conf.tags = NoTags /\ tagsFile.state \in {"absent", "whole"}
        /\ Fits(StartTags(conf))
        /\ up' = TRUE
        /\ config' = [conf EXCEPT !.tags = StartTags(conf)]
        /\ sources' = [files |-> files, restored |-> Restored]
        /\ filter' = ToUpper(conf.level)
        /\ scripts' = EventScripts(conf) /\ newScripts' = {} /\ ran' = NoRun
        /\ tags' = StartTags(conf) /\ want' = StartTags(conf)
        /\ dirty' = FALSE /\ inflight' = {}
        /\ UNCHANGED <<persist, tagsFile, job>>

\* The process is killed, and its memory is gone.
Crash ==
    /\ up
    /\ up' = FALSE
    /\ config' = DefaultConfig /\ sources' = NoSources /\ filter' = "INFO"
    /\ scripts' = <<>> /\ newScripts' = {} /\ ran' = NoRun
    /\ job' = [s \in Setter |-> Rest]
    /\ inflight' = {job[s].tags : s \in {s \in Setter : Busy(s)}}
    /\ UNCHANGED <<persist, tagsFile, tags, want, dirty>>

\* An operator removes a file with which the agent does not start.
RemoveTagsFile ==
    /\ ~ up
    /\ tagsFile.state # "absent"
    /\ tagsFile.state = "whole" => ~ Fits(tagsFile.tags)
    /\ tagsFile' = File("absent")
    /\ dirty' = TRUE
    /\ UNCHANGED <<persist, up, confVars, tags, job, want, inflight>>

-----------------------------------------------------------------------------
\* SetTags begins, for tags that are to come out as asked; calls that are under
\* way are not alone any more.
SetTags(s, t, asked) ==
    LET alone == \A r \in Setter : ~ Busy(r)
    IN  /\ job' = [r \in Setter |->
                     IF r = s THEN [step |-> IF persist THEN "open" ELSE "gossip", tags |-> t,
                                    asked |-> asked, alone |-> alone]
                     ELSE [job[r] EXCEPT !.alone = @ /\ ~ Busy(r)]]
        /\ dirty' = (dirty \/ ~ alone)
        /\ UNCHANGED <<tagsFile, tags, want, inflight>>

\* The tags a request leaves of those there were: not those to delete, and
\* over the others those to set.
Applied(t, req) == Over([k \in DOMAIN t \ req.delete |-> t[k]], req.set)

\* Mutant of handleTags: the other tags are forgotten.
handleTagsAlone(s, req) ==
    /\ up /\ ~ Busy(s)
    /\ SetTags(s, req.set, Applied(want, req))
    /\ UNCHANGED <<persist, up, confVars>>

\* handleTags of a client starts from the tags it reads.
handleTags(s, req) ==
    /\ up /\ ~ Busy(s)
    /\ SetTags(s, Applied(tags, req), Applied(want, req))
    /\ UNCHANGED <<persist, up, confVars>>

\* The call of s goes on or ends.
Goes(s, step) == job' = [job EXCEPT ![s].step = step]
Ends(s) == job' = [job EXCEPT ![s] = Rest]

\* Mutant of OpenTagsFile: a file that cannot be opened is passed over.
OpenTagsFileOrNot(s) ==
    /\ job[s].step = "open"
    /\ \/ Goes(s, "write") /\ tagsFile' = File("empty")
       \/ Goes(s, "gossip") /\ UNCHANGED tagsFile
    /\ UNCHANGED <<persist, up, confVars, tags, want, dirty, inflight>>

\* writeTagsFile truncates the file, or cannot open it.
OpenTagsFile(s) ==
    /\ job[s].step = "open"
    /\ \/ Goes(s, "write") /\ tagsFile' = File("empty")
       \/ Ends(s) /\ UNCHANGED tagsFile
    /\ UNCHANGED <<persist, up, confVars, tags, want, dirty, inflight>>

\* Then it writes, from the start of what is there now: alone the whole text,
\* after another write perhaps less than that has left.  Or the disk is full.
WriteTagsFile(s) ==
    /\ job[s].step = "write"
    /\ \/ /\ Goes(s, "gossip")
          /\ \/ tagsFile' = Whole(job[s].tags)
             \/ tagsFile.state # "empty" /\ tagsFile' = File("garbled")
          /\ UNCHANGED dirty
       \/ Ends(s) /\ tagsFile' = File("garbled") /\ dirty' = TRUE
    /\ UNCHANGED <<persist, up, confVars, tags, want, inflight>>

\* serf.SetTags changes the tags and gossips them, or refuses them.  A call
\* that was alone brings file and tags together again.
Gossip(s) ==
    /\ job[s].step = "gossip"
    /\ Ends(s)
    /\ IF Fits(job[s].tags)
       THEN /\ tags' = job[s].tags
            /\ want' = IF dirty THEN job[s].tags ELSE job[s].asked
            /\ dirty' = (dirty /\ ~ job[s].alone)
       ELSE /\ dirty' = (dirty \/ persist)
            /\ UNCHANGED <<tags, want>>
    /\ UNCHANGED <<persist, up, confVars, tagsFile, inflight>>

-----------------------------------------------------------------------------
\* Mutant of UpdateScripts: an empty list is no list.
UpdateScriptsUnlessEmpty(new) == newScripts' = IF new = <<>> THEN {} ELSE {new}

\* UpdateScripts leaves the new list for the event loop, an empty one too.
UpdateScripts(new) == newScripts' = {new}

\* Mutant of newLevel: the level that is refused is kept for the next time.
newLevelRefused(conf) == conf.level

\* The level handleReload keeps: the old one if the new one is unknown.
newLevel(conf) == IF ValidLevel(ToUpper(conf.level)) THEN conf.level ELSE config.level

\* handleReload: nothing if the files cannot be read; else level, scripts and
\* tags, whether or not the tags can be set.  The level is the filter's.
handleReload(files) ==
    LET conf == readConfig(files, CmdConfig)
    IN  /\ up /\ ~ Busy(Main)
        /\ conf # Failed
        /\ config' = [conf EXCEPT !.level = newLevel(conf)]
        /\ filter' = IF ValidLevel(ToUpper(conf.level)) THEN ToUpper(conf.level) ELSE filter
        /\ UpdateScripts(EventScripts(conf))
        /\ SetTags(Main, conf.tags, conf.tags)
        /\ sources' = [files |-> files, restored |-> NoTags] /\ ran' = NoRun
        /\ UNCHANGED <<persist, up, scripts>>

\* HandleEvent of the scripts' handler: it takes the new list, if there is one,
\* and runs the scripts that are for the event.
HandleEvent(e) ==
    /\ up
    /\ scripts' = IF newScripts = {} THEN scripts ELSE CHOOSE new \in newScripts : TRUE
    /\ newScripts' = {}
    /\ ran' = [event |-> e, scripts |-> {x.script : x \in {y \in Range(scripts') : Invoke(y, e)}}]
    /\ UNCHANGED <<persist, up, config, sources, filter, tagVars>>

ReloadNext ==
    \/ \E files \in FileLists : Start(files) \/ handleReload(files)
    \/ Crash \/ RemoveTagsFile
    \/ \E c \in Client, req \in Request : handleTags(c, req)
    \/ \E s \in Setter : OpenTagsFile(s) \/ WriteTagsFile(s) \/ Gossip(s)
    \/ \E e \in Event : HandleEvent(e)

ReloadSpec == ReloadInit /\ [][ReloadNext]_reloadVars

-----------------------------------------------------------------------------
\* The scripts that a configuration asks for when an event comes.
ScriptsFor(conf, e) ==
    {h.script : h \in {h \in Range(conf.handlers) :
        \/ h.filters = <<>>
        \/ \E f \in Range(h.filters) : f.event = "*" \/ (f.event = e.event /\ f.name \in {"", e.name})}}

\* The scripts run for an event are those of the configuration in force, the
\* last one that could be read, however many reloads came since the last
\* event, and none if it has none any more (event_handler.go:29-33).
ScriptsFresh == ran # NoRun => ran.scripts = ScriptsFor(config, ran.event)

\* The filter has the level that the configuration says, and one that it
\* knows, also after reloads with a level that there is not
\* (command.go:671-682).
LevelInForce == up => filter = ToUpper(config.level) /\ ValidLevel(filter)

\* A start finds the tags that were gossiped last, or those of a call that the
\* crash cut off: "persist tags if necessary before gossiping" (agent.go:290).
\* Excepted are calls at the same time, and those that failed half-way.
Durable ==
    [][~ up /\ up' /\ persist /\ ~ dirty => tags' \in {tags} \cup inflight]_reloadVars

\* Of calls one after the other, a client's changes the tags it names and no
\* other, a reload puts the configuration's in the place of all there are, also
\* of those that clients have set (command.go:687), and one that fails changes
\* none; and file and tags agree.  Calls at the same time may undo each other
\* (ipc.go:973), until the next one that is alone.
TagsAsAsked ==
    up /\ ~ dirty /\ (\A s \in Setter : ~ Busy(s)) =>
        tags = want /\ (persist /\ tagsFile.state # "absent" => tagsFile = Whole(tags))

\* What a configuration is that comes of files between the defaults and the
\* command line, and of tags restored over all of them: of each setting the last
\* that sets it, a flag that any of them sets, and the handlers of all of them.
ByPrecedence(conf, files, restored) ==
    LET all == <<DefaultConfig>> \o files \o <<CmdConfig>>
        withTtl == {i \in DOMAIN all : all[i].ttl > 0}
        withRole == {i \in DOMAIN all : all[i].role # ""}
        withTag(k) == {i \in DOMAIN all : k \in DOMAIN all[i].tags}
    IN  /\ conf.ttl = all[Max(withTtl)].ttl
        /\ conf.leaveOnTerm = \E i \in DOMAIN all : all[i].leaveOnTerm
        /\ conf.handlers = FlattenSeq([i \in DOMAIN all |-> all[i].handlers])
        /\ DOMAIN conf.tags = (UNION {DOMAIN all[i].tags : i \in DOMAIN all})
                                 \cup (IF withRole = {} THEN {} ELSE {"role"})
                                 \cup DOMAIN restored
        /\ \A k \in DOMAIN conf.tags :
              conf.tags[k] = IF k \in DOMAIN restored THEN restored[k]
                             ELSE IF k = "role" /\ withRole # {} THEN all[Max(withRole)].role
                             ELSE all[Max(withTag(k))].tags[k]

\* The configuration in force is what its sources say in their order, the
\* defaults first and the command line last (config.go:337-462,
\* command.go:115-125), with the tags that the start restored from the tags file
\* until a reload takes their place (command.go:292, agent.go:317).  Of the
\* level, which a reload may refuse, LevelInForce speaks.
ConfigByPrecedence == up => ByPrecedence(config, sources.files, sources.restored)

=============================================================================
