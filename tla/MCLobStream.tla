----------------------------- MODULE MCLobStream ----------------------------
(* The instance of LobStream for TLC: its .cfg files give all the constants. *)
EXTENDS LobStream
=============================================================================
