---------------------------- MODULE MCLiveText ----------------------------
(* Two browsers on a text of one character. One user edits under the plain   *)
(* conditions, with a wide character, or around lost sockets, which may end  *)
(* a broadcast; or both edit while sends overtake one another.               *)
EXTENDS LiveText, TLC

CONSTANTS c1, c2

MCInitialText == <<1>>

Plain == {}
Flaky == {"types_early", "reads_late"}
Crowded == {"all_write", "interleaved"}
Astral == {"wide"}
Aborting == {"interleaved"}

MCConditions == {Plain, Flaky, Crowded, Astral, Aborting}
MCBothWrite == {{"all_write"}}
MCWide == {2}
MCMaxEdits(c) == IF c \in {Plain, Astral} THEN 3 ELSE 2
MCMaxDrops(c) == IF c \in {Crowded, Astral} THEN 0 ELSE 1
=============================================================================
