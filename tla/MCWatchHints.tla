---------------------------- MODULE MCWatchHints ----------------------------
(***************************************************************************)
(* A model-checking instance of WatchHints: a root with a directory d,     *)
(* which may hold a file f, and a file g.                                  *)
(***************************************************************************)
EXTENDS WatchHints

MCDir == {<<>>, <<"d">>}
MCPath == MCDir \cup {<<"d", "f">>, <<"g">>}
MCPresent == MCPath \ {<<"d", "f">>}
=============================================================================
