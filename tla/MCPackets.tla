------------------------------ MODULE MCPackets -------------------------------
(***************************************************************************)
(* A short input and what comes behind it in the same frame; two lines of  *)
(* the dialogue in one frame; an answer too long for its three lines.      *)
(***************************************************************************)
EXTENDS Packets
=============================================================================
