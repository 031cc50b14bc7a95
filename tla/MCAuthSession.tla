---------------------------- MODULE MCAuthSession ----------------------------
(***************************************************************************)
(* Two players, one login, one or two passwords: enough for a slot to be   *)
(* left and taken again while another slot waits in the queue.             *)
(***************************************************************************)
EXTENDS AuthSession, TLC

Symmetry == Permutations(Players) \cup Permutations(Passwords)
=============================================================================
