------------------------------ MODULE MCTimeouts ------------------------------
(***************************************************************************)
(* The timeouts of the server and of the client in one run.  They share    *)
(* neither state nor steps, so a behaviour is one of either: side says of  *)
(* which, and the other list stays as it was at the start.  Three frames   *)
(* and three timeouts are enough for a function to set another before, on  *)
(* and after its own frame while a third one waits.                        *)
(***************************************************************************)
EXTENDS ServerTimeouts, ClientTimeouts

VARIABLE side

sidesVars == <<side, serverVars, clientVars>>

Server(A) == side = "server" /\ A /\ UNCHANGED <<side, clientVars>>
Client(A) == side = "client" /\ A /\ UNCHANGED <<side, serverVars>>

SidesInit ==
  /\ side \in {"server", "client"}
  /\ TimeoutsInit /\ (side = "client" => frameCounter = 0)
  /\ ClientInit /\ (side = "server" => cliFrameCounter = 0)

SidesNext == Server(TimeoutsNext) \/ Client(ClientNext)

SidesSpec == SidesInit /\ [][SidesNext]_sidesVars

SidesFairSpec ==
  /\ SidesSpec
  /\ WF_sidesVars(Server(FrameGoesOn))
  /\ WF_sidesVars(Client(ClientFrameGoesOn))
=============================================================================
