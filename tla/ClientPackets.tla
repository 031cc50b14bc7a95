----------------------------- MODULE ClientPackets -----------------------------
(***************************************************************************)
(* The client's filter, onNetPacket (src/net.cpp), called by netOnCli      *)
(* (src/libVer.cpp): it keeps the mod's packets from the game, answers the *)
(* server's question for its version, and prints what is sent to it.       *)
(***************************************************************************)
EXTENDS PacketLink

VARIABLES
  cFrame,         \* from BufStart to the end
  cTurn,
  cOverran,       \* history: the filter has taken something behind the end
  console         \* the characters printed since the player joined

clientVars == <<cFrame, cTurn, cOverran, console>>

ClientInit ==
  /\ cFrame = <<>> /\ cTurn = "idle" /\ cOverran = FALSE
  /\ console = <<>>

(* A packet of the mod: netOnVersionServerRq, netOnVersionResp (which only *)
(* calls clientOnServerVersion), netPrintConsole.                          *)
UniCases(p) ==
  \/ /\ p.kind = "askVersion"
     /\ up' = Append(up, Packet("version"))
     /\ UNCHANGED console
  \/ /\ p.kind = "serverVersion"
     /\ UNCHANGED <<up, console>>
  \/ /\ p.kind = "print"
     /\ console' = console \o p.text
     /\ UNCHANGED up

onNetPacket(p) ==
  IF p.kind \in {"askVersion", "serverVersion", "print"}
    THEN /\ cFrame' = Passed(cFrame)
         /\ cTurn' = "look"
         /\ UniCases(p)
    ELSE cTurn' = "game" /\ UNCHANGED <<cFrame, up, console>>

(* Behind the end of a frame: an old line once more, once at most here. *)
BehindFrame ==
  {Packet("none")} \cup
  IF cOverran THEN {}
    ELSE {Packet("askVersion")} \cup {Line(<<c>>) : c \in Range(console)}

ClientLooks ==
  /\ cTurn = "look"
  /\ \/ cFrame # <<>> /\ onNetPacket(Head(cFrame)) /\ UNCHANGED cOverran
     \/ /\ cFrame = <<>>
        /\ \E p \in BehindFrame :
             onNetPacket(p) /\ cOverran' = (cOverran \/ p.kind # "none")
  /\ UNCHANGED <<present, down>>

(* The game takes the packet at BufStart. *)
ClientGame ==
  /\ cTurn = "game"
  /\ cFrame' = Passed(cFrame)
  /\ cTurn' = AfterGame(cFrame)
  /\ UNCHANGED <<cOverran, console, linkVars>>

ClientFrame ==
  /\ cTurn = "idle" /\ down # <<>>
  /\ \E n \in 1 .. Len(down) :
       cFrame' = SubSeq(down, 1, n) /\ down' = SubSeq(down, n + 1, Len(down))
  /\ cTurn' = "look"
  /\ UNCHANGED <<cOverran, console, present, up>>

netOnCli == ClientFrame \/ ClientLooks \/ ClientGame
=============================================================================
