------------------------------- MODULE Config -------------------------------
(***************************************************************************)
(* How an agent's configuration comes about (command/agent/config.go, and  *)
(* readConfig of command.go): defaults, files and command line are merged, *)
(* the later over the earlier.  Of the settings that are treated alike one *)
(* is kept: a string (log_level), a positive number (service_ttl), a flag  *)
(* (leave_on_terminate), the tags with the old role, and a list            *)
(* (event_handlers).                                                       *)
(*                                                                         *)
(* An event handler is a record of its filters and its script; a filter    *)
(* names a type of event and, for user events and queries, a name or "".   *)
(***************************************************************************)
EXTENDS Naturals, Sequences, SequencesExt

\* A file that cannot be read or decoded, and what comes of it.
Bad == [bad |-> TRUE]
Failed == [failed |-> TRUE]

\* A filter has a type of event, or * for all, and only those of user events
\* and queries have a name.
EventFilter == [event : STRING \cup {"*"}, name : {""}] \cup [event : {"user", "query"}, name : STRING]
HandlerSetting == [filters : Seq(EventFilter), script : STRING]

\* Two maps, the second over the first.
Over(f, g) == [k \in DOMAIN f \cup DOMAIN g |-> IF k \in DOMAIN g THEN g[k] ELSE f[k]]

NoTags == [k \in {} |-> ""]

\* new(Config): nothing is set.
Unset == [level |-> "", ttl |-> 0, leaveOnTerm |-> FALSE, role |-> "", tags |-> NoTags,
          handlers |-> <<>>]

DefaultConfig == [level |-> "INFO", ttl |-> 60, leaveOnTerm |-> FALSE, role |-> "", tags |-> NoTags,
                  handlers |-> <<>>]

\* Settings of b that are set win, flags and handlers add up.
MergeConfig(a, b) ==
    [level       |-> IF b.level # "" THEN b.level ELSE a.level,
     ttl         |-> IF b.ttl > 0 THEN b.ttl ELSE a.ttl,
     leaveOnTerm |-> a.leaveOnTerm \/ b.leaveOnTerm,
     role        |-> IF b.role # "" THEN b.role ELSE a.role,
     tags        |-> Over(a.tags, b.tags),
     handlers    |-> a.handlers \o b.handlers]

\* The files in the order of the command line, those of a directory by name.
ReadConfigPaths(files) ==
    IF \E i \in DOMAIN files : files[i] = Bad
    THEN Failed
    ELSE FoldLeft(MergeConfig, Unset, files)

-----------------------------------------------------------------------------
\* No filter stands for every event.
ParseEventFilter(filters) ==
    IF filters = <<>> THEN <<[event |-> "*", name |-> ""]>> ELSE filters

\* A handler with several filters is a script for each of them.
ParseEventScript(h) ==
    LET filters == ParseEventFilter(h.filters)
    IN  [i \in DOMAIN filters |-> [event |-> filters[i].event, name |-> filters[i].name,
                                   script |-> h.script]]

EventScripts(config) ==
    FlattenSeq([i \in DOMAIN config.handlers |-> ParseEventScript(config.handlers[i])])

Valid(script) ==
    script.event \in {"member-join", "member-leave", "member-failed", "member-update",
                      "member-reap", "user", "query", "*"}

\* Whether a script is for an event: of all, or of its type, and then for any
\* name or its own.
Invoke(script, e) ==
    \/ script.event = "*"
    \/ /\ script.event = e.event
       /\ script.event \in {"user", "query"} /\ script.name # "" => script.name = e.name

-----------------------------------------------------------------------------
\* Mutant of readConfig: the command line is merged before the files.
readConfigFilesLast(files, cmdConfig) ==
    LET fileConfig == ReadConfigPaths(files)
        config == MergeConfig(MergeConfig(DefaultConfig, cmdConfig), fileConfig)
    IN  IF fileConfig = Failed \/ \E i \in DOMAIN EventScripts(config) : ~ Valid(EventScripts(config)[i])
        THEN Failed
        ELSE [config EXCEPT !.tags = IF config.role = "" THEN @ ELSE Over(@, [k \in {"role"} |-> config.role])]

\* readConfig: an unreadable file or an unknown event fails; the role becomes
\* a tag.  (The flag -service-ttl is never unset: its default is 60.)
readConfig(files, cmdConfig) ==
    LET fileConfig == ReadConfigPaths(files)
        config == MergeConfig(MergeConfig(DefaultConfig, fileConfig), cmdConfig)
    IN  IF fileConfig = Failed \/ \E i \in DOMAIN EventScripts(config) : ~ Valid(EventScripts(config)[i])
        THEN Failed
        ELSE [config EXCEPT !.tags = IF config.role = "" THEN @ ELSE Over(@, [k \in {"role"} |-> config.role])]

=============================================================================
