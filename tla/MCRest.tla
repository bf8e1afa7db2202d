------------------------------- MODULE MCRest -------------------------------
(* Two users of one client, a book, and two sessions.                      *)
EXTENDS RestSession
=============================================================================
