------------------------------ MODULE MCFriends ------------------------------
(* Small instances of Friends for TLC. *)
EXTENDS Friends, TLC
=============================================================================
