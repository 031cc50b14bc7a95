----------------------------- MODULE ServerPackets -----------------------------
(***************************************************************************)
(* The server's filter, onNetPacket2 (src/net.cpp), called by netOnServ    *)
(* (src/libVer.cpp) for what is at BufStart whenever the game is about to  *)
(* take a packet.  It goes on to the next packet as long as it has set     *)
(* found, also beyond the end of the frame, and keeps from the game what   *)
(* is the mod's, or what a player who has not logged in may not do.        *)
(***************************************************************************)
EXTENDS PacketLink

CONSTANTS
  PieceLength,   \* characters of a line: 199
  TextLengths,   \* the lengths of what a sysop's command may answer
  Version,       \* UnimodVersion of this client
  OtherVersion   \* of another client

ASSUME ServerPacketsAssumption ==
  /\ PieceLength \in Nat \ {0}
  /\ TextLengths \subseteq Nat \ {0}
  /\ Version # OtherVersion /\ 0 \notin {Version, OtherVersion}

VARIABLES
  specialAuthorisation,  \* not switched here (module AuthSession)
  authorisedState,   \* of the player's slot
  clientsVersions,   \* of the player's slot, 0 if not known
  sFrame,            \* from BufStart to the end
  sTurn,
  sLooked,           \* the filter has looked at what is at BufStart
  sOverran,          \* history: it has taken something behind the end
  missed,            \* history: the game took the client's version, not looked at
  told               \* history: the characters sent to the player's console

filterVars == <<sFrame, sTurn, sLooked, sOverran>>
serverVars ==
  <<specialAuthorisation, authorisedState, clientsVersions, filterVars, missed, told>>

ServerInit ==
  /\ specialAuthorisation \in BOOLEAN
  /\ authorisedState = 0
  /\ clientsVersions = 0
  /\ sFrame = <<>> /\ sTurn = "idle" /\ sLooked = TRUE
  /\ sOverran = FALSE /\ missed = FALSE
  /\ told = <<>>

-----------------------------------------------------------------------------
(* A line for the player's console. *)

Smaller(a, b) == IF a < b THEN a ELSE b

(* Mutant: no room for the character after the last. *)
RestShort(n) == Smaller(n - PieceLength, PieceLength)

(* strncpy to NextSrc: at most one character more than a line. *)
Rest(n) == Smaller(n - PieceLength, PieceLength + 1)

(***************************************************************************)
(* netDoPrintConsole, for a text of n characters that may be cropped: the  *)
(* lengths of its lines.                                                   *)
(***************************************************************************)
LinesOf[n \in Nat] ==
  IF n <= PieceLength THEN <<n>>
    ELSE <<PieceLength>> \o LinesOf[Rest(n)]

(* The packets, the text being 1, 2, .. n. *)
netDoPrintConsole(n) ==
  LET lines == LinesOf[n]
  IN  [j \in DOMAIN lines |-> Line([i \in 1 .. lines[j] |-> (j - 1) * PieceLength + i])]

(* The part of it that can be shown. *)
Shown(n) == [i \in 1 .. Smaller(n, 2 * PieceLength + 1) |-> i]

-----------------------------------------------------------------------------
(* The filter. *)

LoggingIn == specialAuthorisation /\ authorisedState < 4

(* The packet at BufStart is let through to the game. *)
ToGame(rest, looked) ==
  /\ sFrame' = rest /\ sTurn' = "game" /\ sLooked' = looked

(* It is filtered out, found is set and the next one looked at. *)
Found ==
  /\ sFrame' = Passed(sFrame) /\ UNCHANGED <<sTurn, sLooked>>

(* fakePlayerInputPacket: a long input is replaced by one that does        *)
(* nothing; there is no room for that in a short one, which is passed,     *)
(* and found is not set.                                                   *)
Input(kind) ==
  /\ LoggingIn
  /\ \/ kind = "short" /\ ToGame(Passed(sFrame), FALSE)
     \/ kind = "input" /\ ToGame(<<Packet("still")>> \o Passed(sFrame), TRUE)
  /\ UNCHANGED <<authorisedState, clientsVersions, down>>

(* Mutant: a line is left where it is in states 0 and 3. *)
ChatLeft(kind) ==
  /\ specialAuthorisation
  /\ kind = "auth" \/ (kind = "chat" /\ LoggingIn)
  /\ authorisedState' = IF authorisedState \in {1, 2} THEN authorisedState + 1
                        ELSE authorisedState
  /\ IF authorisedState \in {0, 3} THEN ToGame(sFrame, TRUE) ELSE Found
  /\ UNCHANGED <<clientsVersions, down>>

(***************************************************************************)
(* 0xA8, or 0xBB with "//auth": a login in state 1, a password in state 2, *)
(* dropped in states 0 and 3; and once a player has logged in, or is the   *)
(* host, with "//auth" only.                                               *)
(***************************************************************************)
Chat(kind) ==
  /\ specialAuthorisation
  /\ kind = "auth" \/ (kind = "chat" /\ LoggingIn)
  /\ authorisedState' = IF authorisedState \in {1, 2} THEN authorisedState + 1
                        ELSE authorisedState
  /\ Found
  /\ UNCHANGED <<clientsVersions, down>>

(* Mutant: the version alone is taken for too short (End-Start<=4). *)
UniPacketTooShort(kind, version) ==
  /\ kind \in {"version", "uni"}
  /\ Found
  /\ UNCHANGED <<authorisedState, clientsVersions, down>>

(* netOnVersionRq, and the other packets of the mod, custom spells as well. *)
UniPacket(kind, version) ==
  /\ \/ /\ kind = "version"
        /\ clientsVersions' = version
        /\ down' = Append(down, Packet("serverVersion"))
     \/ kind = "uni" /\ UNCHANGED <<clientsVersions, down>>
  /\ Found
  /\ UNCHANGED authorisedState

(* Any packet that has a case of its own. *)
Cases(kind) ==
  \/ LoggingIn /\ kind \in {"short", "input"}
  \/ specialAuthorisation /\ kind = "auth"
  \/ LoggingIn /\ kind = "chat"
  \/ kind \in {"version", "uni"}

onNetPacket2(kind, version) ==
  \/ Input(kind)
  \/ Chat(kind)
  \/ UniPacket(kind, version)
  \/ /\ ~Cases(kind)
     /\ ToGame(sFrame, TRUE)
     /\ UNCHANGED <<authorisedState, clientsVersions, down>>

(***************************************************************************)
(* Behind the end of a frame lies what an earlier, longer one left, of     *)
(* this player or of another.  Taken once at most here.                    *)
(***************************************************************************)
Behind == {"none"} \cup (IF sOverran THEN {} ELSE {"short", "auth", "version", "uni"})

ServerLooks ==
  /\ sTurn = "look"
  /\ \/ /\ sFrame # <<>>
        /\ onNetPacket2(Head(sFrame).kind, Version)
        /\ UNCHANGED sOverran
     \/ /\ sFrame = <<>>
        /\ \E kind \in Behind, version \in {Version, OtherVersion} :
             /\ onNetPacket2(kind, version)
             /\ sOverran' = (sOverran \/ kind # "none")
  /\ UNCHANGED <<specialAuthorisation, missed, told, present, up>>

(***************************************************************************)
(* The game takes the packet at BufStart.  A sysop's command is the mod's  *)
(* again (sysopMyTrap), and its answer goes to the player's console: one   *)
(* at most here.                                                           *)
(***************************************************************************)
ServerGame ==
  /\ sTurn = "game"
  /\ \/ /\ sFrame # <<>> /\ Head(sFrame).kind = "sysop" /\ told = <<>>
        /\ \E n \in TextLengths :
             /\ down' = down \o netDoPrintConsole(n)
             /\ told' = Shown(n)
     \/ UNCHANGED <<down, told>>
  /\ missed' = (missed \/ (sFrame # <<>> /\ Head(sFrame).kind = "version" /\ ~sLooked))
  /\ sFrame' = Passed(sFrame)
  /\ sTurn' = AfterGame(sFrame)
  /\ UNCHANGED <<specialAuthorisation, authorisedState, clientsVersions, sLooked, sOverran,
                 present, up>>

ServerFrame ==
  /\ sTurn = "idle" /\ up # <<>>
  /\ \E n \in 1 .. Len(up) :
       sFrame' = SubSeq(up, 1, n) /\ up' = SubSeq(up, n + 1, Len(up))
  /\ sTurn' = "look"
  /\ UNCHANGED <<specialAuthorisation, authorisedState, clientsVersions, sLooked, sOverran,
                 missed, told, present, down>>

netOnServ == ServerFrame \/ ServerLooks \/ ServerGame

(***************************************************************************)
(* What module AuthSession describes in detail, between two frames: the    *)
(* message that asks for a login and the answer to a check.                *)
(***************************************************************************)
Dialogue ==
  /\ sTurn = "idle"
  /\ \/ authorisedState = 0 /\ authorisedState' = 1
     \/ authorisedState = 3 /\ authorisedState' \in {1, 4}
  /\ UNCHANGED <<specialAuthorisation, clientsVersions, filterVars, missed, told, linkVars>>
=============================================================================
