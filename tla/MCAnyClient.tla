---------------------------- MODULE MCAnyClient ----------------------------
(***************************************************************************)
(* Up to four requests: a handshake, a key and two commands, in any order. *)
(* One command of each shape, and the ones that end the connection.        *)
(***************************************************************************)
EXTENDS AnyClient

MCSeq == 1..MaxRequests

MCAsks == {<<"handshake", "supported">>, <<"handshake", "unsupported">>,
           <<"auth", "right">>, <<"auth", "wrong">>, <<"event", "">>, <<"stats", "">>,
           <<"update-routers", "">>, <<"members-filtered", "">>, <<"stream", "">>,
           <<"unknown", "">>}

=============================================================================
