---------------------------- MODULE MCLobbyLoop ----------------------------
(* Values for LobbyLoop: a line of each kind that the loop treats apart,    *)
(* and one line that contains the words of two commands.                    *)
EXTENDS LobbyLoop

MCTexts == {Unreadable, {"status"}, {"get_server_for_team"}, {"add_one_server"},
            {"hello", "get_server_for_team"}}
=============================================================================
