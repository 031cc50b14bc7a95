------------------------------ MODULE PacketLink ------------------------------
(***************************************************************************)
(* The connection of one player with the server, which is the game's: it   *)
(* loses and reorders nothing, and it hands over packets in frames of any  *)
(* number.  Both sides of the mod (ServerPackets, ClientPackets) look at a *)
(* frame before the game takes it (src/libVer.cpp).                        *)
(***************************************************************************)
EXTENDS Integers, SequencesExt

VARIABLES
  present,  \* the player is on the server
  up,       \* packets to the server that are in no frame yet
  down      \* packets to the client likewise

linkVars == <<present, up, down>>

(* The packets that are told apart, and the characters a line brings.      *)
Packet(kind) == [kind |-> kind, text |-> <<>>]
Line(text) == [kind |-> "print", text |-> text]

Kinds(q) == {q[j].kind : j \in DOMAIN q}

(* Where a side is with its frame: between frames, in the filter of the    *)
(* mod, or about to let the game take what is at BufStart.                 *)
Turns == {"idle", "look", "game"}

(* What is left when the packet at BufStart has been passed. *)
Passed(frame) == IF frame = <<>> THEN <<>> ELSE Tail(frame)

(* netOnServ, netOnCli: at the end of the frame the loop is left. *)
AfterGame(frame) == IF Len(frame) > 1 THEN "look" ELSE "idle"
=============================================================================
