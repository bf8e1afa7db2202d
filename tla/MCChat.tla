------------------------------- MODULE MCChat -------------------------------
(* Two client processes at a time, started with the same or with different *)
(* nicknames, one of which is "0".                                         *)
EXTENDS Chat

CONSTANTS ana, p1, p2
=============================================================================
