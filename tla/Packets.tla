-------------------------------- MODULE Packets --------------------------------
(***************************************************************************)
(* A player and the server: the two filters and the connection between     *)
(* them (src/net.cpp, src/libVer.cpp; joining and leaving, src/admin.cpp). *)
(* The client is one of this mod.                                          *)
(***************************************************************************)
EXTENDS ServerPackets, ClientPackets

CONSTANTS
  PlayerKinds,  \* what a player's game sends
  MaxTransit    \* bound on the packets under way where a game sends one

packetVars == <<serverVars, clientVars, linkVars>>

PacketsInit ==
  /\ ServerInit /\ ClientInit
  /\ present = FALSE /\ up = <<>> /\ down = <<>>

(***************************************************************************)
(* Input packets, short and long, chat lines without and with "//auth",    *)
(* packets of the mod, and a sysop's commands: one that the mod does not   *)
(* execute is like any other packet of the game.                           *)
(***************************************************************************)
ASSUME PacketsAssumption ==
  PlayerKinds \subseteq {"short", "input", "chat", "auth", "uni", "sysop"}

Roomy == Len(up) + Len(sFrame) + Len(down) + Len(cFrame) < MaxTransit

PlayerSends ==
  /\ present /\ Roomy
  /\ \E kind \in PlayerKinds : up' = Append(up, Packet(kind))
  /\ UNCHANGED <<serverVars, clientVars, present, down>>

ServerSends ==
  /\ present /\ Roomy
  /\ down' = Append(down, Packet("other"))
  /\ UNCHANGED <<serverVars, clientVars, present, up>>

onPlayerJoin ==
  /\ ~present /\ present' = TRUE
  /\ clientsVersions' = 0
  /\ authorisedState' = IF specialAuthorisation THEN 0 ELSE authorisedState
  /\ up' = <<>>
  /\ down' = IF specialAuthorisation THEN <<Packet("askVersion")>> ELSE <<>>
  /\ UNCHANGED <<specialAuthorisation, filterVars, missed, told, clientVars>>

(* Between two frames.  What is under way is lost, and the histories begin *)
(* anew.                                                                   *)
onPlayerLeave ==
  /\ present /\ present' = FALSE
  /\ sTurn = "idle" /\ cTurn = "idle"
  /\ clientsVersions' = 0
  /\ authorisedState' = 0
  /\ up' = <<>> /\ down' = <<>>
  /\ told' = <<>> /\ missed' = FALSE /\ sOverran' = FALSE
  /\ console' = <<>> /\ cOverran' = FALSE
  /\ UNCHANGED <<specialAuthorisation, sFrame, sTurn, sLooked, cFrame, cTurn>>

PacketsNext ==
  \/ PlayerSends
  \/ ServerSends
  \/ onPlayerJoin
  \/ onPlayerLeave
  \/ netOnServ /\ UNCHANGED clientVars
  \/ Dialogue /\ UNCHANGED clientVars
  \/ netOnCli /\ UNCHANGED serverVars

PacketsSpec == PacketsInit /\ [][PacketsNext]_packetVars

(* Both games go on taking what has arrived. *)
PacketsFairSpec ==
  /\ PacketsSpec
  /\ WF_packetVars(netOnServ /\ UNCHANGED clientVars)
  /\ WF_packetVars(netOnCli /\ UNCHANGED serverVars)

-----------------------------------------------------------------------------
(***************************************************************************)
(* Of what the filter has looked at the game takes no packet of the mod,   *)
(* no "//auth" line, and from a player who has not logged in neither an    *)
(* input nor a chat line, however the packets before it in the same frame  *)
(* have changed his state.                                                 *)
(***************************************************************************)
GameSpared ==
  sTurn = "game" /\ sFrame # <<>> /\ sLooked =>
    LET kind == Head(sFrame).kind
    IN  /\ kind \notin {"version", "uni"}
        /\ specialAuthorisation => kind # "auth"
        /\ LoggingIn => kind \notin {"short", "input", "chat"}

(***************************************************************************)
(* A client that is asked for its version makes it known, unless it leaves *)
(* or its answer comes directly behind a short input packet, where the     *)
(* filter does not see it.                                                 *)
(***************************************************************************)
VersionLearned ==
  "askVersion" \in Kinds(down) ~> clientsVersions = Version \/ missed \/ ~present

(***************************************************************************)
(* The lines that answer a sysop's command are printed whole, once and in  *)
(* order: what is on the console and what is under way is the text, up to  *)
(* 2 * PieceLength + 1 characters of it; unless the filter has taken an    *)
(* old line from behind the end of a frame.                                *)
(***************************************************************************)
UnderWay ==
  LET packets == cFrame \o down
  IN  FlattenSeq([j \in DOMAIN packets |-> packets[j].text])

LinesWhole == cOverran \/ console \o UnderWay = told
=============================================================================
