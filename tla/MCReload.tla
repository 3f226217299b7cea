------------------------------ MODULE MCReload ------------------------------
(***************************************************************************)
(* Two clients and the goroutine of Run; configurations that differ in     *)
(* level, handlers and tags, some in two files, one invalid, one that      *)
(* cannot be read; a message with room for one tag.                        *)
(***************************************************************************)
EXTENDS Reload

CONSTANTS c1, c2

Role == [k \in {"role"} |-> "web"]
Zone == [k \in {"zone"} |-> "a"]

On(event, name) == [event |-> event, name |-> name]
Handler(filters, script) == [filters |-> filters, script |-> script]

Files ==
    {<<>>,
     <<[Unset EXCEPT !.level = "debug", !.handlers = <<Handler(<<>>, "s1")>>]>>,
     <<[Unset EXCEPT !.level = "loud", !.handlers = <<Handler(<<On("user", "deploy")>>, "s2")>>],
       [Unset EXCEPT !.ttl = 30, !.leaveOnTerm = TRUE, !.tags = Zone]>>,
     <<[Unset EXCEPT !.handlers = <<Handler(<<On("member-join", ""), On("user", "")>>, "s1")>>],
       [Unset EXCEPT !.level = "WARN", !.role = "web", !.handlers = <<Handler(<<On("user", "other")>>, "s2")>>]>>,
     <<[Unset EXCEPT !.level = "debug", !.handlers = <<Handler(<<On("start", "")>>, "s1")>>]>>,
     <<Bad>>}

Cmd == [Unset EXCEPT !.ttl = 60]

Requests == {[set |-> Role, delete |-> {}], [set |-> NoTags, delete |-> {"role"}],
             [set |-> Zone, delete |-> {"role"}], [set |-> Zone, delete |-> {}]}

Events == {On("user", "deploy"), On("member-join", "")}

=============================================================================
