----------------------------- MODULE MCMCServer -----------------------------
(* Values for MCServer: a line for each branch of the dispatch that changes *)
(* something of its own.                                                    *)
EXTENDS MCServer

Line(words, arg) == [words |-> words, arg |-> arg]

MCTexts ==
  {Unreadable, Line({"hello"}, "none"), Line({"abort"}, "none"), Line({"launch_mc"}, "none"),
   Line({"mc_alive"}, "none"), Line({"pass_msg"}, "none"),
   Line({"stop"}, "none"), Line({"stop"}, "address"), Line({"stop"}, "broken")}
=============================================================================
