---------------------------- MODULE PacketsProofs -----------------------------
(***************************************************************************)
(* Proofs about Packets for any packets a player's game may send, answers  *)
(* of any length, frames of any length and any number of packets under     *)
(* way: what the game of the server is spared, and that what a console     *)
(* shows of an answer is whole.  How an answer is cut (LinesOf) has a      *)
(* closed form, and what the lines hold together (FlattenSeq) is found by  *)
(* induction over a set of naturals.                                       *)
(***************************************************************************)
EXTENDS Packets, SequenceTheorems, WellFoundedInduction, TLAPS

(* What may come from a player: what his game sends, the answer of his    *)
(* mod, and what the filter puts in place of an input.                     *)
PlayerPacketKinds == {"short", "input", "chat", "auth", "uni", "sysop", "version", "still"}
PlayerPacket == [kind : PlayerPacketKinds, text : {<<>>}]

(* Of a player who is not there nothing is under way. *)
GoneIsQuiet ==
  ~present => sTurn = "idle" /\ cTurn = "idle" /\ up = <<>> /\ down = <<>>

PacketsInv ==
  /\ up \in Seq(PlayerPacket) /\ sFrame \in Seq(PlayerPacket)
  /\ GoneIsQuiet
  /\ GameSpared

(* What is passed or cut off leaves packets. *)
LEMMA PassedType ==
  ASSUME NEW frame \in Seq(PlayerPacket)
  PROVE  Passed(frame) \in Seq(PlayerPacket)
BY HeadTailProperties DEF Passed

LEMMA PacketType ==
  ASSUME NEW kind \in PlayerPacketKinds
  PROVE  Packet(kind) \in PlayerPacket /\ Packet(kind).kind = kind
BY DEF Packet, PlayerPacket

(* The packet put in place of a long input is the first one then. *)
LEMMA StillFirst ==
  ASSUME NEW rest \in Seq(PlayerPacket)
  PROVE  /\ <<Packet("still")>> \o rest \in Seq(PlayerPacket)
         /\ Head(<<Packet("still")>> \o rest).kind = "still"
<1>1. /\ <<Packet("still")>> \in Seq(PlayerPacket)
      /\ Len(<<Packet("still")>>) = 1 /\ <<Packet("still")>>[1] = Packet("still")
      /\ Packet("still").kind = "still"
  BY PacketType DEF PlayerPacketKinds
<1> DEFINE first == <<Packet("still")>>
           frame == first \o rest
<1> HIDE DEF first
<1>2. /\ frame \in Seq(PlayerPacket) /\ Len(frame) = 1 + Len(rest)
      /\ frame[1] = first[1] /\ Len(rest) \in Nat
  BY <1>1, ConcatProperties, LenProperties DEF first
<1> HIDE DEF frame
<1>3. frame # <<>> /\ Head(frame) = frame[1]
  BY <1>2, HeadTailProperties
<1> QED BY <1>1, <1>2, <1>3 DEF frame, first

-----------------------------------------------------------------------------
(* The filter on what is at BufStart. *)
LEMMA LooksKeeps ==
  ASSUME PacketsInv, ServerLooks, UNCHANGED clientVars
  PROVE  PacketsInv'
<1>1. /\ sTurn = "look" /\ present
      /\ UNCHANGED <<specialAuthorisation, present, up, cTurn>>
  BY DEF ServerLooks, PacketsInv, GoneIsQuiet, clientVars
<1>2. PICK kind, version :
        /\ onNetPacket2(kind, version)
        /\ \/ sFrame # <<>> /\ kind = Head(sFrame).kind
           \/ sFrame = <<>> /\ kind \in Behind
  BY DEF ServerLooks
<1>3. Passed(sFrame) \in Seq(PlayerPacket)
  BY PassedType DEF PacketsInv
<1>4. GoneIsQuiet'
  BY <1>1 DEF GoneIsQuiet
<1>5. sFrame' \in Seq(PlayerPacket) /\ GameSpared'
  <2>1. CASE Input(kind)
    <3>1. LoggingIn /\ UNCHANGED authorisedState
      BY <2>1 DEF Input
    <3>2. CASE kind = "short" /\ ToGame(Passed(sFrame), FALSE)
      BY <1>3, <3>2 DEF ToGame, GameSpared
    <3>3. CASE kind = "input" /\ ToGame(<<Packet("still")>> \o Passed(sFrame), TRUE)
      <4>1. /\ sFrame' \in Seq(PlayerPacket)
            /\ Head(sFrame').kind = "still"
        BY <1>3, <3>3, StillFirst DEF ToGame
      <4> QED BY <4>1 DEF GameSpared
    <3> QED BY <2>1, <3>2, <3>3 DEF Input
  <2>2. CASE Chat(kind) \/ UniPacket(kind, version)
    <3>1. sFrame' = Passed(sFrame) /\ sTurn' = "look"
      BY <1>1, <2>2 DEF Chat, UniPacket, Found
    <3> QED BY <1>3, <3>1 DEF GameSpared
  <2>3. CASE ~Cases(kind) /\ ToGame(sFrame, TRUE) /\ UNCHANGED authorisedState
    <3>1. sFrame' = sFrame /\ sFrame \in Seq(PlayerPacket)
      BY <2>3 DEF ToGame, PacketsInv
    <3>2. LoggingIn' = LoggingIn
      BY <1>1, <2>3 DEF LoggingIn
    <3>3. sFrame' # <<>> => Head(sFrame').kind = kind
      BY <1>2, <3>1
    <3> QED BY <1>1, <2>3, <3>1, <3>2, <3>3 DEF GameSpared, Cases
  <2> QED BY <1>2, <2>1, <2>2, <2>3 DEF onNetPacket2
<1> QED BY <1>1, <1>4, <1>5 DEF PacketsInv

(* The game takes a packet, or a frame comes in. *)
LEMMA GameKeeps ==
  ASSUME PacketsInv, ServerGame \/ ServerFrame, UNCHANGED clientVars
  PROVE  PacketsInv'
<1>1. present
  BY DEF PacketsInv, GoneIsQuiet, ServerGame, ServerFrame
<1>2. GoneIsQuiet'
  BY <1>1 DEF GoneIsQuiet, ServerGame, ServerFrame
<1>3. sTurn' # "game"
  BY DEF ServerGame, ServerFrame, AfterGame
<1>4. up' \in Seq(PlayerPacket) /\ sFrame' \in Seq(PlayerPacket)
  <2>1. CASE ServerGame
    BY <2>1, PassedType DEF ServerGame, PacketsInv
  <2>2. CASE ServerFrame
    <3>1. PICK n \in 1 .. Len(up) :
            sFrame' = SubSeq(up, 1, n) /\ up' = SubSeq(up, n + 1, Len(up))
      BY <2>2 DEF ServerFrame
    <3>2. /\ up \in Seq(PlayerPacket) /\ Len(up) \in Nat
          /\ \A j \in 1 .. Len(up) : up[j] \in PlayerPacket
      BY LenProperties, ElementOfSeq DEF PacketsInv
    <3>3. SubSeq(up, 1, n) \in Seq(PlayerPacket)
      <4>1. \A j \in 1 .. n : up[j] \in PlayerPacket
        BY <3>2
      <4> QED BY <3>2, <4>1, SubSeqProperties
    <3>4. SubSeq(up, n + 1, Len(up)) \in Seq(PlayerPacket)
      <4>1. \A j \in n + 1 .. Len(up) : up[j] \in PlayerPacket
        BY <3>2
      <4> QED BY <3>2, <4>1, SubSeqProperties
    <3> QED BY <3>1, <3>3, <3>4
  <2> QED BY <2>1, <2>2
<1> QED BY <1>2, <1>3, <1>4 DEF PacketsInv, GameSpared

(* The dialogue changes the state between two frames only. *)
LEMMA DialogueKeeps ==
  ASSUME PacketsInv, Dialogue, UNCHANGED clientVars
  PROVE  PacketsInv'
<1>1. sTurn' = "idle" /\ UNCHANGED <<up, sFrame, sTurn, cTurn, down, present>>
  BY DEF Dialogue, filterVars, linkVars, clientVars
<1> QED BY <1>1 DEF PacketsInv, GoneIsQuiet, GameSpared

(* The client's filter may answer, once the player is there. *)
LEMMA ClientKeeps ==
  ASSUME PacketsInv, netOnCli, UNCHANGED serverVars
  PROVE  PacketsInv'
<1>1. present /\ UNCHANGED present
  BY DEF PacketsInv, GoneIsQuiet, netOnCli, ClientFrame, ClientLooks, ClientGame, linkVars
<1>2. up' = up \/ up' = Append(up, Packet("version"))
  BY DEF netOnCli, ClientFrame, ClientLooks, ClientGame, onNetPacket, UniCases, linkVars
<1>3. up' \in Seq(PlayerPacket)
  BY <1>2, PacketType, AppendProperties DEF PacketsInv, PlayerPacketKinds
<1>4. GameSpared' /\ sFrame' = sFrame
  BY DEF PacketsInv, GameSpared, LoggingIn, serverVars, filterVars
<1> QED BY <1>1, <1>3, <1>4 DEF PacketsInv, GoneIsQuiet

(* The games send, the player joins and leaves. *)
LEMMA PlayerKeeps ==
  ASSUME PacketsInv, PlayerSends \/ ServerSends \/ onPlayerJoin \/ onPlayerLeave
  PROVE  PacketsInv'
<1>1. CASE PlayerSends
  <2>1. PICK kind \in PlayerKinds : up' = Append(up, Packet(kind))
    BY <1>1 DEF PlayerSends
  <2>2. kind \in PlayerPacketKinds
    BY PacketsAssumption DEF PacketsAssumption, PlayerPacketKinds
  <2>3. up' \in Seq(PlayerPacket)
    BY <2>1, <2>2, PacketType, AppendProperties DEF PacketsInv
  <2> QED BY <1>1, <2>3 DEF PacketsInv, PlayerSends, GoneIsQuiet, GameSpared, LoggingIn,
               serverVars, filterVars, clientVars
<1>2. CASE ServerSends
  BY <1>2 DEF PacketsInv, ServerSends, GoneIsQuiet, GameSpared, LoggingIn, serverVars,
              filterVars, clientVars
<1>3. CASE onPlayerJoin
  <2>1. sTurn' = "idle" /\ present' /\ up' = <<>> /\ sFrame' = sFrame
    BY <1>3 DEF PacketsInv, GoneIsQuiet, onPlayerJoin, filterVars
  <2> QED BY <2>1 DEF PacketsInv, GoneIsQuiet, GameSpared
<1>4. CASE onPlayerLeave
  <2>1. /\ sTurn' = "idle" /\ cTurn' = "idle" /\ up' = <<>> /\ down' = <<>>
        /\ sFrame' = sFrame
    BY <1>4 DEF onPlayerLeave
  <2> QED BY <2>1 DEF PacketsInv, GoneIsQuiet, GameSpared
<1> QED BY <1>1, <1>2, <1>3, <1>4

-----------------------------------------------------------------------------
LEMMA PacketsInitInv == PacketsInit => PacketsInv
BY DEF PacketsInit, ServerInit, ClientInit, PacketsInv, GoneIsQuiet, GameSpared

LEMMA PacketsStepInv == PacketsInv /\ [PacketsNext]_packetVars => PacketsInv'
<1> SUFFICES ASSUME PacketsInv, [PacketsNext]_packetVars PROVE PacketsInv'
  OBVIOUS
<1>1. CASE PlayerSends \/ ServerSends \/ onPlayerJoin \/ onPlayerLeave
  BY <1>1, PlayerKeeps
<1>2. CASE netOnServ /\ UNCHANGED clientVars
  BY <1>2, LooksKeeps, GameKeeps DEF netOnServ
<1>3. CASE Dialogue /\ UNCHANGED clientVars
  BY <1>3, DialogueKeeps
<1>4. CASE netOnCli /\ UNCHANGED serverVars
  BY <1>4, ClientKeeps
<1>5. CASE UNCHANGED packetVars
  BY <1>5 DEF PacketsInv, GoneIsQuiet, GameSpared, LoggingIn, packetVars, serverVars,
              filterVars, clientVars, linkVars
<1> QED BY <1>1, <1>2, <1>3, <1>4, <1>5 DEF PacketsNext

(***************************************************************************)
(* Of what the filter has looked at the game takes nothing that a player   *)
(* who has not logged in may not send, and no packet of the mod, however   *)
(* the packets are spread over frames and whenever the state changes: it   *)
(* changes between a look and the game's turn in no step.                  *)
(***************************************************************************)
THEOREM AlwaysGameSpared == PacketsSpec => []GameSpared
<1>1. PacketsInv => GameSpared
  BY DEF PacketsInv
<1> QED BY <1>1, PacketsInitInv, PacketsStepInv, PTL DEF PacketsSpec
-----------------------------------------------------------------------------
(***************************************************************************)
(* The texts of the lines.  Induction over the natural numbers for a set   *)
(* of them, from the library's theorem on smallest elements.               *)
(***************************************************************************)
Below == {p \in Nat \X Nat : p[1] < p[2]}

LEMMA SetInduction ==
  ASSUME NEW S \in SUBSET Nat, 0 \in S, \A n \in S : n + 1 \in S
  PROVE  S = Nat
<1> SUFFICES ASSUME Nat \ S # {} PROVE FALSE
  OBVIOUS
<1> DEFINE Missing == Nat \ S
<1>1. Missing \subseteq Nat /\ Missing # {}
  OBVIOUS
<1>2. IsWellFoundedOn(Below, Nat)
  BY NatLessThanWellFounded DEF OpToRel, Below
<1>3. PICK n \in Missing : \A k \in Missing : ~ (<<k, n>> \in Below)
  <2> HIDE DEF Missing
  <2> QED BY <1>1, <1>2, WFMin
<1>4. n # 0 /\ n - 1 \in Nat /\ n = (n - 1) + 1
  BY <1>3
<1>5. <<n - 1, n>> \in Below
  BY <1>3, <1>4 DEF Below
<1> QED BY <1>3, <1>4, <1>5

(* What FlattenSeq computes, line by line. *)
UpTo(s, g, n) == [i \in 1 .. n |-> IF i = 1 THEN s[i] ELSE g[i - 1] \o s[i]]

LEMMA FlattenExists ==
  ASSUME NEW s, NEW n \in Nat
  PROVE  \E g : g = UpTo(s, g, n)
<1> DEFINE S == {m \in Nat : \E g : g = UpTo(s, g, m)}
<1> HIDE DEF S
<1>1. 0 \in S
  <2> DEFINE e == [i \in 1 .. 0 |-> i]
  <2>1. e = UpTo(s, e, 0)
    BY DEF UpTo
  <2> HIDE DEF e
  <2> QED BY <2>1 DEF S
<1>2. ASSUME NEW m \in S PROVE m + 1 \in S
  <2>1. m \in Nat /\ \E g : g = UpTo(s, g, m)
    BY DEF S
  <2>2. PICK g : g = UpTo(s, g, m)
    BY <2>1
  <2> DEFINE h == UpTo(s, g, m + 1)
  <2>3. \A i \in 1 .. m + 1 : h[i] = IF i = 1 THEN s[i] ELSE g[i - 1] \o s[i]
    BY DEF UpTo
  <2>4. \A i \in 1 .. m : g[i] = IF i = 1 THEN s[i] ELSE g[i - 1] \o s[i]
    BY <2>2 DEF UpTo
  <2> HIDE DEF h
  <2>5. \A i \in 1 .. m : i \in 1 .. m + 1 /\ h[i] = g[i]
    BY <2>1, <2>3, <2>4
  <2>6. ASSUME NEW i \in 1 .. m + 1
        PROVE  h[i] = IF i = 1 THEN s[i] ELSE h[i - 1] \o s[i]
    <3>1. i # 1 => i - 1 \in 1 .. m
      BY <2>1
    <3> QED BY <2>3, <2>5, <3>1
  <2>7. h = [i \in 1 .. m + 1 |-> h[i]]
    BY DEF h, UpTo
  <2>8. h = UpTo(s, h, m + 1)
    BY <2>6, <2>7 DEF UpTo
  <2> QED BY <2>1, <2>8 DEF S
<1>3. S = Nat
  <2>1. S \in SUBSET Nat
    BY DEF S
  <2> QED BY <1>1, <1>2, <2>1, SetInduction
<1> QED BY <1>3 DEF S

Joins(s, g) ==
  \A i \in 1 .. Len(s) : g[i] = IF i = 1 THEN s[i] ELSE g[i - 1] \o s[i]

LEMMA FlattenJoins ==
  ASSUME NEW s, Len(s) \in Nat \ {0}
  PROVE  \E g : Joins(s, g) /\ FlattenSeq(s) = g[Len(s)]
<1> DEFINE f == CHOOSE g : g = UpTo(s, g, Len(s))
<1>1. f = UpTo(s, f, Len(s))
  BY FlattenExists
<1>2. FlattenSeq(s) = f[Len(s)]
  BY DEF FlattenSeq, UpTo
<1>3. Joins(s, f)
  <2> HIDE DEF f
  <2> QED BY <1>1 DEF UpTo, Joins
<1> QED BY <1>2, <1>3

(* Texts are sequences of characters, and stay so when they are joined. *)
LEMMA FlattenText ==
  ASSUME NEW s \in Seq(Seq(Nat)), s # <<>>,
         NEW g, Joins(s, g)
  PROVE  \A i \in 1 .. Len(s) : g[i] \in Seq(Nat)
<1>1. Len(s) \in Nat /\ \A i \in 1 .. Len(s) : s[i] \in Seq(Nat)
  BY LenProperties, ElementOfSeq
<1>2. \A i \in 1 .. Len(s) : g[i] = IF i = 1 THEN s[i] ELSE g[i - 1] \o s[i]
  BY DEF Joins
<1> DEFINE S == {m \in Nat : m + 1 \in 1 .. Len(s) => g[m + 1] \in Seq(Nat)}
<1>3. 0 \in S
  BY <1>1, <1>2
<1>4. ASSUME NEW m \in S PROVE m + 1 \in S
  <2>1. m \in Nat /\ m + 1 \in Nat
    OBVIOUS
  <2> SUFFICES ASSUME (m + 1) + 1 \in 1 .. Len(s)
               PROVE  g[(m + 1) + 1] \in Seq(Nat)
    BY <2>1
  <2>2. m + 1 \in 1 .. Len(s) /\ (m + 1) + 1 # 1 /\ ((m + 1) + 1) - 1 = m + 1
    BY <1>1, <2>1
  <2>3. g[m + 1] \in Seq(Nat)
    BY <2>2
  <2>4. g[(m + 1) + 1] = g[m + 1] \o s[(m + 1) + 1]
    BY <1>2, <2>2
  <2> QED BY <1>1, <2>3, <2>4, ConcatProperties
<1>5. S = Nat
  <2> HIDE DEF S
  <2>1. S \in SUBSET Nat
    BY DEF S
  <2> QED BY <1>3, <1>4, <2>1, SetInduction
<1>6. ASSUME NEW i \in 1 .. Len(s) PROVE g[i] \in Seq(Nat)
  <2>1. i - 1 \in Nat /\ (i - 1) + 1 = i
    BY <1>1
  <2>2. i - 1 \in S
    BY <1>5, <2>1
  <2> QED BY <2>1, <2>2
<1> QED BY <1>6

LEMMA FlattenType ==
  ASSUME NEW s \in Seq(Seq(Nat))
  PROVE  FlattenSeq(s) \in Seq(Nat) /\ (s = <<>> => FlattenSeq(s) = <<>>)
<1>1. CASE s = <<>>
  BY <1>1, EmptySeq DEF FlattenSeq
<1>2. CASE s # <<>>
  <2>1. Len(s) \in Nat \ {0} /\ Len(s) \in 1 .. Len(s)
    BY <1>2, EmptySeq, LenProperties
  <2>2. PICK g : Joins(s, g) /\ FlattenSeq(s) = g[Len(s)]
    BY <2>1, FlattenJoins
  <2> QED BY <1>2, <2>1, <2>2, FlattenText
<1> QED BY <1>1, <1>2

(* With one text more, what was joined is the same as before. *)
LEMMA JoinsAgree ==
  ASSUME NEW s \in Seq(Seq(Nat)), NEW p \in Seq(Nat),
         NEW f, NEW g, Joins(s, f), Joins(Append(s, p), g)
  PROVE  \A i \in 1 .. Len(s) : g[i] = f[i]
<1> DEFINE t == Append(s, p)
<1>0. /\ Len(s) \in Nat /\ Len(t) = Len(s) + 1
      /\ \A i \in 1 .. Len(s) : t[i] = s[i]
  BY LenProperties, AppendProperties
<1> HIDE DEF t
<1>1. \A i \in 1 .. Len(s) : f[i] = IF i = 1 THEN s[i] ELSE f[i - 1] \o s[i]
  BY DEF Joins
<1>2. \A i \in 1 .. Len(t) : g[i] = IF i = 1 THEN t[i] ELSE g[i - 1] \o t[i]
  BY DEF Joins, t
<1> DEFINE S == {k \in Nat : k + 1 \in 1 .. Len(s) => g[k + 1] = f[k + 1]}
<1>3. 0 \in S
  BY <1>0, <1>1, <1>2
<1>4. ASSUME NEW k \in S PROVE k + 1 \in S
  <2>1. k \in Nat /\ k + 1 \in Nat
    OBVIOUS
  <2> SUFFICES ASSUME (k + 1) + 1 \in 1 .. Len(s)
               PROVE  g[(k + 1) + 1] = f[(k + 1) + 1]
    BY <2>1
  <2>2. /\ k + 1 \in 1 .. Len(s) /\ (k + 1) + 1 \in 1 .. Len(t)
        /\ (k + 1) + 1 # 1 /\ ((k + 1) + 1) - 1 = k + 1
    BY <1>0, <2>1
  <2>3. g[k + 1] = f[k + 1]
    BY <2>2
  <2> QED BY <1>0, <1>1, <1>2, <2>2, <2>3
<1>5. S = Nat
  <2> HIDE DEF S
  <2>1. S \in SUBSET Nat
    BY DEF S
  <2> QED BY <1>3, <1>4, <2>1, SetInduction
<1>6. ASSUME NEW i \in 1 .. Len(s) PROVE g[i] = f[i]
  <2>1. i - 1 \in Nat /\ (i - 1) + 1 = i
    BY <1>0
  <2>2. i - 1 \in S
    BY <1>5, <2>1
  <2> QED BY <2>1, <2>2
<1> QED BY <1>6

(* One more text is joined behind what was there. *)
LEMMA FlattenAppend ==
  ASSUME NEW s \in Seq(Seq(Nat)), NEW p \in Seq(Nat)
  PROVE  FlattenSeq(Append(s, p)) = FlattenSeq(s) \o p
<1> DEFINE t == Append(s, p)
<1>1. /\ Len(s) \in Nat /\ Len(t) = Len(s) + 1 /\ t[Len(s) + 1] = p
      /\ \A i \in 1 .. Len(s) : t[i] = s[i]
  BY LenProperties, AppendProperties
<1> HIDE DEF t
<1>2. PICK g : Joins(t, g) /\ FlattenSeq(t) = g[Len(t)]
  BY <1>1, FlattenJoins
<1>3. g[Len(t)] = IF Len(t) = 1 THEN p ELSE g[Len(s)] \o p
  <2>1. Len(t) \in 1 .. Len(t) /\ Len(t) - 1 = Len(s)
    BY <1>1
  <2> QED BY <1>1, <1>2, <2>1 DEF Joins
<1>4. CASE s = <<>>
  <2>1. FlattenSeq(t) = p
    BY <1>1, <1>2, <1>3, <1>4, EmptySeq
  <2>2. FlattenSeq(s) = <<>> /\ <<>> \o p = p
    BY <1>4, FlattenType, ConcatEmptySeq
  <2> QED BY <2>1, <2>2 DEF t
<1>5. CASE s # <<>>
  <2>1. Len(s) \in Nat \ {0} /\ Len(s) \in 1 .. Len(s) /\ Len(t) # 1
    BY <1>1, <1>5, EmptySeq
  <2>2. PICK f : Joins(s, f) /\ FlattenSeq(s) = f[Len(s)]
    BY <2>1, FlattenJoins
  <2>3. g[Len(s)] = f[Len(s)]
    <3>1. \A i \in 1 .. Len(s) : g[i] = f[i]
      BY <1>2, <2>2, JoinsAgree DEF t
    <3> QED BY <2>1, <3>1
  <2> QED BY <1>2, <1>3, <2>1, <2>2, <2>3 DEF t
<1> QED BY <1>4, <1>5

LEMMA JoinAssociative ==
  ASSUME NEW a \in Seq(Nat), NEW b \in Seq(Nat), NEW c \in Seq(Nat)
  PROVE  (a \o b) \o c = a \o (b \o c)
BY ConcatAssociative

(* The first text is in front of what the others make. *)
LEMMA FlattenHead ==
  ASSUME NEW s \in Seq(Seq(Nat)), s # <<>>
  PROVE  FlattenSeq(s) = Head(s) \o FlattenSeq(Tail(s))
<1> DEFINE t == Tail(s)
<1>1. /\ Len(s) \in Nat \ {0} /\ t \in Seq(Seq(Nat)) /\ Len(t) = Len(s) - 1
      /\ Head(s) = s[1] /\ Head(s) \in Seq(Nat)
      /\ \A i \in 1 .. Len(t) : t[i] = s[i + 1]
      /\ \A i \in 1 .. Len(s) : s[i] \in Seq(Nat)
  BY HeadTailProperties, LenProperties, EmptySeq, ElementOfSeq
<1> HIDE DEF t
<1>2. PICK f : Joins(s, f) /\ FlattenSeq(s) = f[Len(s)]
  BY <1>1, FlattenJoins
<1>3. \A i \in 1 .. Len(s) : f[i] = IF i = 1 THEN s[i] ELSE f[i - 1] \o s[i]
  BY <1>2 DEF Joins
<1>4. CASE t = <<>>
  <2>1. Len(s) = 1
    BY <1>1, <1>4, EmptySeq
  <2>2. FlattenSeq(s) = Head(s)
    BY <1>1, <1>2, <1>3, <2>1
  <2>3. FlattenSeq(t) = <<>>
    BY <1>1, <1>4, FlattenType
  <2> QED BY <1>1, <2>2, <2>3, ConcatEmptySeq DEF t
<1>5. CASE t # <<>>
  <2>1. Len(t) \in Nat \ {0}
    BY <1>1, <1>5, EmptySeq, LenProperties
  <2>2. PICK g : Joins(t, g) /\ FlattenSeq(t) = g[Len(t)]
    BY <2>1, FlattenJoins
  <2>3. \A i \in 1 .. Len(t) : g[i] = IF i = 1 THEN t[i] ELSE g[i - 1] \o t[i]
    BY <2>2 DEF Joins
  <2>4. \A i \in 1 .. Len(t) : g[i] \in Seq(Nat)
    BY <1>1, <1>5, <2>2, FlattenText
  <2>5. ASSUME NEW k \in 1 .. Len(t), k # 1 => f[k] = s[1] \o g[k - 1]
        PROVE  f[k + 1] = s[1] \o g[k]
    <3>1. /\ k \in Nat /\ k + 1 \in 1 .. Len(s) /\ k + 1 # 1 /\ (k + 1) - 1 = k
          /\ k # 1 => k - 1 \in 1 .. Len(t)
      <4> HIDE <2>5
      <4> QED BY <1>1, <2>1
    <3>2. f[k + 1] = f[k] \o t[k]
      BY <1>1, <1>3, <3>1
    <3>3. CASE k = 1
      <4>1. f[1] = s[1] /\ g[1] = t[1] /\ 1 \in 1 .. Len(t)
        BY <1>1, <1>3, <2>1, <2>3
      <4> QED BY <3>2, <3>3, <4>1
    <3>4. CASE k # 1
      <4>1. f[k + 1] = (s[1] \o g[k - 1]) \o t[k] /\ g[k] = g[k - 1] \o t[k]
        BY <2>3, <2>5, <3>2, <3>4
      <4>2. s[1] \in Seq(Nat) /\ g[k - 1] \in Seq(Nat) /\ t[k] \in Seq(Nat)
        BY <1>1, <2>4, <3>1, <3>4
      <4>3. (s[1] \o g[k - 1]) \o t[k] = s[1] \o (g[k - 1] \o t[k])
        BY <4>2, JoinAssociative
      <4> QED BY <4>1, <4>3
    <3> QED BY <3>3, <3>4
  <2> DEFINE S == {k \in Nat : k \in 1 .. Len(t) => f[k + 1] = s[1] \o g[k]}
  <2>6. 0 \in S
    OBVIOUS
  <2>7. ASSUME NEW k \in S PROVE k + 1 \in S
    <3>1. k \in Nat /\ k + 1 \in Nat /\ (k + 1) - 1 = k
      OBVIOUS
    <3> SUFFICES ASSUME k + 1 \in 1 .. Len(t)
                 PROVE  f[(k + 1) + 1] = s[1] \o g[k + 1]
      BY <3>1
    <3>2. k + 1 # 1 => f[k + 1] = s[1] \o g[(k + 1) - 1]
      <4>1. CASE k = 0
        BY <4>1
      <4>2. CASE k # 0
        <5>1. k \in 1 .. Len(t)
          BY <2>1, <3>1, <4>2
        <5> QED BY <3>1, <5>1
      <4> QED BY <4>1, <4>2
    <3> HIDE DEF S
    <3> QED BY <2>5, <3>2
  <2>8. S = Nat
    <3> HIDE DEF S
    <3>1. S \in SUBSET Nat
      BY DEF S
    <3> QED BY <2>6, <2>7, <3>1, SetInduction
  <2>9. f[Len(t) + 1] = s[1] \o g[Len(t)]
    <3>1. Len(t) \in 1 .. Len(t)
      BY <2>1
    <3>2. Len(t) \in S
      <4> HIDE DEF S
      <4> QED BY <2>1, <2>8
    <3> QED BY <3>1, <3>2
  <2>10. Len(t) + 1 = Len(s)
    BY <1>1
  <2> QED BY <1>1, <1>2, <2>2, <2>9, <2>10 DEF t
<1> QED BY <1>4, <1>5

-----------------------------------------------------------------------------
(***************************************************************************)
(* How a text is cut.  What LinesOf computes: it has a value, as the       *)
(* lengths below satisfy its equation, and the equation leaves no other.   *)
(***************************************************************************)
Cut(n) ==
  IF n <= PieceLength THEN <<n>>
  ELSE IF n <= PieceLength + PieceLength THEN <<PieceLength, n - PieceLength>>
  ELSE <<PieceLength, PieceLength, 1>>

LEMMA TwoAndThree ==
  ASSUME NEW a, NEW b, NEW c
  PROVE  <<a>> \o <<b>> = <<a, b>> /\ <<a>> \o <<b, c>> = <<a, b, c>>
<1> DEFINE S == {a, b, c}
           two == <<a>> \o <<b>>
           three == <<a>> \o <<b, c>>
<1>1. /\ <<a>> \in Seq(S) /\ <<b>> \in Seq(S) /\ <<b, c>> \in Seq(S)
      /\ <<a, b>> \in Seq(S) /\ <<a, b, c>> \in Seq(S)
      /\ Len(<<a>>) = 1 /\ Len(<<b>>) = 1 /\ Len(<<b, c>>) = 2
      /\ Len(<<a, b>>) = 2 /\ Len(<<a, b, c>>) = 3
  OBVIOUS
<1>2. /\ two \in Seq(S) /\ Len(two) = 2
      /\ \A i \in 1 .. 2 : two[i] = <<a, b>>[i]
  <2> HIDE DEF S
  <2> QED BY <1>1, ConcatProperties
<1>3. /\ three \in Seq(S) /\ Len(three) = 3
      /\ \A i \in 1 .. 3 : three[i] = <<a, b, c>>[i]
  <2> HIDE DEF S
  <2> QED BY <1>1, ConcatProperties
<1> HIDE DEF S, two, three
<1>4. two = <<a, b>> /\ three = <<a, b, c>>
  BY <1>1, <1>2, <1>3, SeqEqual
<1> QED BY <1>4 DEF two, three

LEMMA CutRest ==
  ASSUME NEW n \in Nat, ~ (n <= PieceLength)
  PROVE  Rest(n) \in Nat /\ Cut(n) = <<PieceLength>> \o Cut(Rest(n))
<1>1. PieceLength \in Nat \ {0}
  BY ServerPacketsAssumption DEF ServerPacketsAssumption
<1>2. CASE n <= PieceLength + PieceLength
  <2>1. Rest(n) = n - PieceLength /\ n - PieceLength \in Nat /\ n - PieceLength <= PieceLength
    BY <1>1, <1>2 DEF Rest, Smaller
  <2>2. Cut(Rest(n)) = <<n - PieceLength>> /\ Cut(n) = <<PieceLength, n - PieceLength>>
    BY <1>1, <1>2, <2>1 DEF Cut
  <2> QED BY <2>1, <2>2, TwoAndThree
<1>3. CASE ~ (n <= PieceLength + PieceLength)
  <2>1. Rest(n) = PieceLength + 1 /\ PieceLength + 1 \in Nat
    BY <1>1, <1>3 DEF Rest, Smaller
  <2>2. ~ (PieceLength + 1 <= PieceLength) /\ PieceLength + 1 <= PieceLength + PieceLength
        /\ (PieceLength + 1) - PieceLength = 1
    BY <1>1
  <2>3. Cut(PieceLength + 1) = <<PieceLength, 1>>
    BY <2>2 DEF Cut
  <2>4. Cut(n) = <<PieceLength, PieceLength, 1>>
    BY <1>1, <1>3 DEF Cut
  <2> QED BY <2>1, <2>3, <2>4, TwoAndThree
<1> QED BY <1>2, <1>3

LEMMA LinesOfEquation ==
  LinesOf = [n \in Nat |-> IF n <= PieceLength THEN <<n>>
                             ELSE <<PieceLength>> \o LinesOf[Rest(n)]]
<1> DEFINE w == [n \in Nat |-> Cut(n)]
<1>1. ASSUME NEW n \in Nat
      PROVE  w[n] = IF n <= PieceLength THEN <<n>> ELSE <<PieceLength>> \o w[Rest(n)]
  <2>1. CASE n <= PieceLength
    BY <2>1 DEF Cut
  <2>2. CASE ~ (n <= PieceLength)
    BY <2>2, CutRest
  <2> QED BY <2>1, <2>2
<1>2. w = [n \in Nat |-> w[n]]
  OBVIOUS
<1>3. w = [n \in Nat |-> IF n <= PieceLength THEN <<n>>
                           ELSE <<PieceLength>> \o w[Rest(n)]]
  <2> HIDE DEF w
  <2> QED BY <1>1, <1>2
<1>4. \E f : f = [n \in Nat |-> IF n <= PieceLength THEN <<n>>
                                  ELSE <<PieceLength>> \o f[Rest(n)]]
  <2> HIDE DEF w
  <2> QED BY <1>3
<1> QED BY <1>4 DEF LinesOf

LEMMA LinesOfCut ==
  ASSUME NEW n \in Nat
  PROVE  LinesOf[n] = Cut(n)
<1>1. PieceLength \in Nat \ {0}
  BY ServerPacketsAssumption DEF ServerPacketsAssumption
<1>2. ASSUME NEW m \in Nat
      PROVE  LinesOf[m] = IF m <= PieceLength THEN <<m>>
                          ELSE <<PieceLength>> \o LinesOf[Rest(m)]
  BY LinesOfEquation
<1>3. ASSUME NEW m \in Nat, m <= PieceLength PROVE LinesOf[m] = Cut(m)
  BY <1>2, <1>3 DEF Cut
<1>4. ASSUME NEW m \in Nat, m <= PieceLength + PieceLength PROVE LinesOf[m] = Cut(m)
  <2>1. CASE m <= PieceLength
    BY <1>3, <2>1
  <2>2. CASE ~ (m <= PieceLength)
    <3>1. Rest(m) \in Nat /\ Rest(m) <= PieceLength
      BY <1>1, <1>4, <2>2 DEF Rest, Smaller
    <3>2. LinesOf[Rest(m)] = Cut(Rest(m))
      BY <1>3, <3>1
    <3> QED BY <1>2, <2>2, <3>2, CutRest
  <2> QED BY <2>1, <2>2
<1>5. CASE ~ (n <= PieceLength + PieceLength)
  <2>1. ~ (n <= PieceLength) /\ Rest(n) \in Nat /\ Rest(n) <= PieceLength + PieceLength
    BY <1>1, <1>5 DEF Rest, Smaller
  <2>2. LinesOf[Rest(n)] = Cut(Rest(n))
    BY <1>4, <2>1
  <2> QED BY <1>2, <2>1, <2>2, CutRest
<1> QED BY <1>4, <1>5

(* The characters behind the first k. *)
Span(k, m) == [i \in 1 .. m |-> k + i]

LEMMA SpanType ==
  ASSUME NEW k \in Nat, NEW m \in Nat
  PROVE  Span(k, m) \in Seq(Nat) /\ Len(Span(k, m)) = m
BY DEF Span

LEMMA SpanJoin ==
  ASSUME NEW k \in Nat, NEW m \in Nat, NEW l \in Nat
  PROVE  Span(k, m) \o Span(k + m, l) = Span(k, m + l)
<1> DEFINE a == Span(k, m)
           b == Span(k + m, l)
           c == Span(k, m + l)
<1>1. /\ a \in Seq(Nat) /\ Len(a) = m /\ \A i \in 1 .. m : a[i] = k + i
      /\ b \in Seq(Nat) /\ Len(b) = l /\ \A i \in 1 .. l : b[i] = (k + m) + i
      /\ c \in Seq(Nat) /\ Len(c) = m + l /\ \A i \in 1 .. m + l : c[i] = k + i
  BY SpanType DEF Span
<1> HIDE DEF a, b, c
<1>2. /\ a \o b \in Seq(Nat) /\ Len(a \o b) = m + l
      /\ \A i \in 1 .. m + l : (a \o b)[i] = IF i <= m THEN a[i] ELSE b[i - m]
  BY <1>1, ConcatProperties
<1>3. ASSUME NEW i \in 1 .. m + l PROVE (a \o b)[i] = c[i]
  <2>1. CASE i <= m
    <3>1. i \in 1 .. m
      BY <2>1
    <3> QED BY <1>1, <1>2, <2>1, <3>1
  <2>2. CASE ~ (i <= m)
    <3>1. i - m \in 1 .. l /\ (k + m) + (i - m) = k + i
      BY <2>2
    <3>2. (a \o b)[i] = b[i - m]
      BY <1>2, <2>2
    <3> QED BY <1>1, <3>1, <3>2
  <2> QED BY <2>1, <2>2
<1>4. a \o b = c
  BY <1>1, <1>2, <1>3, SeqEqual
<1> QED BY <1>4 DEF a, b, c

(* What may come to a client: only lines bring characters. *)
ClientPacketKinds == {"other", "askVersion", "serverVersion", "print"}
ClientPacket ==
  {p \in [kind : ClientPacketKinds, text : Seq(Nat)] : p.kind # "print" => p.text = <<>>}

LEMMA ClientPacketType ==
  /\ \A kind \in ClientPacketKinds :
       Packet(kind) \in ClientPacket /\ Packet(kind).kind = kind /\ Packet(kind).text = <<>>
  /\ \A text \in Seq(Nat) :
       Line(text) \in ClientPacket /\ Line(text).kind = "print" /\ Line(text).text = text
BY EmptySeq DEF Packet, Line, ClientPacket, ClientPacketKinds

TextsOf(q) == [j \in DOMAIN q |-> q[j].text]
Joined(q) == FlattenSeq(TextsOf(q))

LEMMA TextsType ==
  ASSUME NEW q \in Seq(ClientPacket)
  PROVE  /\ TextsOf(q) \in Seq(Seq(Nat)) /\ Len(TextsOf(q)) = Len(q)
         /\ \A j \in 1 .. Len(q) : TextsOf(q)[j] = q[j].text
<1>1. /\ Len(q) \in Nat /\ DOMAIN q = 1 .. Len(q)
      /\ \A j \in 1 .. Len(q) : q[j] \in ClientPacket
  BY LenProperties, ElementOfSeq
<1>2. \A p \in ClientPacket : p.text \in Seq(Nat)
  BY DEF ClientPacket
<1> QED BY <1>1, <1>2 DEF TextsOf

LEMMA JoinedAppend ==
  ASSUME NEW q \in Seq(ClientPacket), NEW p \in ClientPacket
  PROVE  Joined(Append(q, p)) = Joined(q) \o p.text
<1>1. /\ Append(q, p) \in Seq(ClientPacket) /\ Len(Append(q, p)) = Len(q) + 1
      /\ Append(q, p)[Len(q) + 1] = p
      /\ \A j \in 1 .. Len(q) : Append(q, p)[j] = q[j]
      /\ Len(q) \in Nat /\ p.text \in Seq(Nat)
  BY AppendProperties, LenProperties DEF ClientPacket
<1> DEFINE r == Append(q, p)
           t == TextsOf(q)
           u == TextsOf(r)
<1>2. /\ t \in Seq(Seq(Nat)) /\ Len(t) = Len(q)
      /\ u \in Seq(Seq(Nat)) /\ Len(u) = Len(q) + 1
      /\ \A j \in 1 .. Len(q) : t[j] = q[j].text
      /\ \A j \in 1 .. Len(q) + 1 : u[j] = r[j].text
  BY <1>1, TextsType
<1> HIDE DEF t, u
<1>3. /\ Append(t, p.text) \in Seq(Seq(Nat)) /\ Len(Append(t, p.text)) = Len(q) + 1
      /\ Append(t, p.text)[Len(q) + 1] = p.text
      /\ \A j \in 1 .. Len(q) : Append(t, p.text)[j] = t[j]
  BY <1>1, <1>2, AppendProperties
<1>4. ASSUME NEW j \in 1 .. Len(q) + 1 PROVE u[j] = Append(t, p.text)[j]
  <2>1. CASE j = Len(q) + 1
    BY <1>1, <1>2, <1>3, <2>1
  <2>2. CASE j # Len(q) + 1
    <3>1. j \in 1 .. Len(q)
      BY <1>1, <2>2
    <3> QED BY <1>1, <1>2, <1>3, <3>1
  <2> QED BY <2>1, <2>2
<1>5. u = Append(t, p.text)
  BY <1>2, <1>3, <1>4, SeqEqual
<1>6. FlattenSeq(Append(t, p.text)) = FlattenSeq(t) \o p.text
  BY <1>1, <1>2, FlattenAppend
<1> QED BY <1>5, <1>6 DEF Joined, t, u

LEMMA JoinedHead ==
  ASSUME NEW q \in Seq(ClientPacket), q # <<>>
  PROVE  Joined(q) = Head(q).text \o Joined(Tail(q))
<1>1. /\ Tail(q) \in Seq(ClientPacket) /\ Len(Tail(q)) = Len(q) - 1
      /\ \A j \in 1 .. Len(q) - 1 : Tail(q)[j] = q[j + 1]
      /\ Len(q) \in Nat \ {0} /\ Head(q) = q[1]
  BY HeadTailProperties, LenProperties, EmptySeq
<1> DEFINE r == Tail(q)
           t == TextsOf(q)
           u == TextsOf(r)
<1>2. /\ t \in Seq(Seq(Nat)) /\ Len(t) = Len(q)
      /\ u \in Seq(Seq(Nat)) /\ Len(u) = Len(q) - 1
      /\ \A j \in 1 .. Len(q) : t[j] = q[j].text
      /\ \A j \in 1 .. Len(q) - 1 : u[j] = r[j].text
  BY <1>1, TextsType
<1> HIDE DEF t, u
<1>3. t # <<>>
  BY <1>1, <1>2
<1>4. /\ Tail(t) \in Seq(Seq(Nat)) /\ Len(Tail(t)) = Len(q) - 1
      /\ \A j \in 1 .. Len(q) - 1 : Tail(t)[j] = t[j + 1]
      /\ Head(t) = t[1]
  BY <1>2, <1>3, HeadTailProperties
<1>5. \A j \in 1 .. Len(q) - 1 : u[j] = Tail(t)[j]
  BY <1>1, <1>2, <1>4
<1>6. u = Tail(t)
  BY <1>2, <1>4, <1>5, SeqEqual
<1>7. Head(t) = Head(q).text
  BY <1>1, <1>2, <1>4
<1>8. FlattenSeq(t) = Head(t) \o FlattenSeq(Tail(t))
  BY <1>2, <1>3, FlattenHead
<1> QED BY <1>6, <1>7, <1>8 DEF Joined, t, u

LEMMA JoinedType ==
  ASSUME NEW q \in Seq(ClientPacket)
  PROVE  Joined(q) \in Seq(Nat) /\ (q = <<>> => Joined(q) = <<>>)
<1>1. TextsOf(q) \in Seq(Seq(Nat)) /\ Len(TextsOf(q)) = Len(q)
  BY TextsType
<1>2. q = <<>> => TextsOf(q) = <<>>
  BY <1>1, EmptySeq
<1> QED BY <1>1, <1>2, FlattenType DEF Joined

LEMMA TailOfJoin ==
  ASSUME NEW a \in Seq(ClientPacket), NEW b \in Seq(ClientPacket), a # <<>>
  PROVE  /\ a \o b \in Seq(ClientPacket) /\ a \o b # <<>>
         /\ Head(a \o b) = Head(a) /\ Tail(a \o b) = Tail(a) \o b
<1> DEFINE ab == a \o b
           l == Tail(ab)
           r == Tail(a) \o b
<1>1. /\ Len(a) \in Nat \ {0} /\ Len(b) \in Nat
      /\ ab \in Seq(ClientPacket) /\ Len(ab) = Len(a) + Len(b)
      /\ \A i \in 1 .. Len(a) + Len(b) :
           ab[i] = IF i <= Len(a) THEN a[i] ELSE b[i - Len(a)]
      /\ Tail(a) \in Seq(ClientPacket) /\ Len(Tail(a)) = Len(a) - 1
      /\ \A i \in 1 .. Len(a) - 1 : Tail(a)[i] = a[i + 1]
  BY ConcatProperties, LenProperties, EmptySeq, HeadTailProperties
<1> HIDE DEF ab
<1>2. ab # <<>>
  BY <1>1, EmptySeq
<1>3. /\ Head(ab) = ab[1] /\ Head(a) = a[1] /\ ab[1] = a[1]
  BY <1>1, <1>2
<1>4. /\ l \in Seq(ClientPacket) /\ Len(l) = Len(ab) - 1
      /\ \A i \in 1 .. Len(ab) - 1 : l[i] = ab[i + 1]
  BY <1>1, <1>2, HeadTailProperties
<1>5. /\ r \in Seq(ClientPacket) /\ Len(r) = (Len(a) - 1) + Len(b)
      /\ \A i \in 1 .. (Len(a) - 1) + Len(b) :
           r[i] = IF i <= Len(a) - 1 THEN Tail(a)[i] ELSE b[i - (Len(a) - 1)]
  BY <1>1, ConcatProperties
<1> HIDE DEF l, r
<1>6. Len(l) = Len(r)
  BY <1>1, <1>4, <1>5
<1>7. ASSUME NEW i \in 1 .. Len(l) PROVE l[i] = r[i]
  <2>1. i \in 1 .. (Len(a) - 1) + Len(b) /\ i + 1 \in 1 .. Len(a) + Len(b) /\ i \in Nat
    BY <1>1, <1>4, <1>6
  <2>2. l[i] = ab[i + 1]
    BY <1>1, <1>4, <2>1
  <2>3. CASE i <= Len(a) - 1
    <3>1. i + 1 <= Len(a) /\ i \in 1 .. Len(a) - 1
      BY <1>1, <2>1, <2>3
    <3>2. l[i] = a[i + 1]
      BY <1>1, <2>1, <2>2, <3>1
    <3> QED BY <1>1, <1>5, <2>1, <2>3, <3>1, <3>2
  <2>4. CASE ~ (i <= Len(a) - 1)
    <3>1. ~ (i + 1 <= Len(a)) /\ (i + 1) - Len(a) = i - (Len(a) - 1)
      BY <1>1, <2>1, <2>4
    <3>2. l[i] = b[(i + 1) - Len(a)]
      BY <1>1, <2>1, <2>2, <3>1
    <3>3. r[i] = b[i - (Len(a) - 1)]
      BY <1>5, <2>1, <2>4
    <3> QED BY <3>1, <3>2, <3>3
  <2> QED BY <2>3, <2>4
<1>8. l = r
  BY <1>4, <1>5, <1>6, <1>7, SeqEqual
<1> QED BY <1>1, <1>2, <1>3, <1>8 DEF ab, l, r

(* What one group of lines brings is in front of what the next one brings. *)
LEMMA JoinedConcat ==
  ASSUME NEW b \in Seq(ClientPacket)
  PROVE  \A a \in Seq(ClientPacket) :
           a \o b \in Seq(ClientPacket) /\ Joined(a \o b) = Joined(a) \o Joined(b)
<1> DEFINE S == {k \in Nat : \A a \in Seq(ClientPacket) :
                    Len(a) = k => Joined(a \o b) = Joined(a) \o Joined(b)}
<1> HIDE DEF S
<1>1. 0 \in S
  <2> SUFFICES ASSUME NEW a \in Seq(ClientPacket), Len(a) = 0
               PROVE  Joined(a \o b) = Joined(a) \o Joined(b)
    BY DEF S
  <2>1. a = <<>> /\ a \o b = b
    BY EmptySeq, ConcatEmptySeq
  <2>2. Joined(a) = <<>> /\ Joined(b) \in Seq(Nat)
    BY <2>1, JoinedType
  <2>3. <<>> \o Joined(b) = Joined(b)
    BY <2>2, ConcatEmptySeq
  <2> QED BY <2>1, <2>2, <2>3
<1>2. ASSUME NEW k \in S PROVE k + 1 \in S
  <2>1. k \in Nat
    BY DEF S
  <2> SUFFICES ASSUME NEW a \in Seq(ClientPacket), Len(a) = k + 1
               PROVE  Joined(a \o b) = Joined(a) \o Joined(b)
    BY <2>1 DEF S
  <2>2. a # <<>>
    BY <2>1, EmptySeq
  <2>3. /\ Tail(a) \in Seq(ClientPacket) /\ Len(Tail(a)) = k /\ Head(a) \in ClientPacket
    BY <2>1, <2>2, HeadTailProperties
  <2>4. Joined(Tail(a) \o b) = Joined(Tail(a)) \o Joined(b)
    BY <2>3 DEF S
  <2>5. Joined(a \o b) = Head(a).text \o (Joined(Tail(a)) \o Joined(b))
    <3>1. /\ a \o b \in Seq(ClientPacket) /\ a \o b # <<>>
          /\ Head(a \o b) = Head(a) /\ Tail(a \o b) = Tail(a) \o b
      BY <2>2, TailOfJoin
    <3> QED BY <2>4, <3>1, JoinedHead
  <2>6. Joined(a) = Head(a).text \o Joined(Tail(a))
    BY <2>2, JoinedHead
  <2>7. /\ Head(a).text \in Seq(Nat) /\ Joined(Tail(a)) \in Seq(Nat)
        /\ Joined(b) \in Seq(Nat)
    BY <2>3, JoinedType DEF ClientPacket
  <2>8. (Head(a).text \o Joined(Tail(a))) \o Joined(b)
          = Head(a).text \o (Joined(Tail(a)) \o Joined(b))
    <3> DEFINE x == Head(a).text
               y == Joined(Tail(a))
               z == Joined(b)
    <3> HIDE DEF x, y, z
    <3>1. x \in Seq(Nat) /\ y \in Seq(Nat) /\ z \in Seq(Nat)
      BY <2>7 DEF x, y, z
    <3>2. (x \o y) \o z = x \o (y \o z)
      BY <3>1, JoinAssociative
    <3> QED BY <3>2 DEF x, y, z
  <2> QED BY <2>5, <2>6, <2>8
<1>3. S = Nat
  <2>1. S \in SUBSET Nat
    BY DEF S
  <2> QED BY <1>1, <1>2, <2>1, SetInduction
<1> QED BY <1>3, ConcatProperties, LenProperties DEF S

-----------------------------------------------------------------------------
(* The lines of an answer of n characters, and what they bring. *)
AnswerLines(n) ==
  IF n <= PieceLength THEN <<Line(Span(0, n))>>
  ELSE IF n <= PieceLength + PieceLength
       THEN <<Line(Span(0, PieceLength)), Line(Span(PieceLength, n - PieceLength))>>
  ELSE <<Line(Span(0, PieceLength)), Line(Span(PieceLength, PieceLength)),
         Line(Span(PieceLength + PieceLength, 1))>>

LEMMA PrintedLines ==
  ASSUME NEW n \in Nat
  PROVE  netDoPrintConsole(n) = AnswerLines(n)
<1>1. PieceLength \in Nat \ {0}
  BY ServerPacketsAssumption DEF ServerPacketsAssumption
<1> DEFINE Piece(j, m) == Line([i \in 1 .. m |-> (j - 1) * PieceLength + i])
<1>2. netDoPrintConsole(n) = [j \in DOMAIN Cut(n) |-> Piece(j, Cut(n)[j])]
  BY LinesOfCut DEF netDoPrintConsole
<1>3. \A m \in Nat : /\ Piece(1, m) = Line(Span(0, m))
                     /\ Piece(2, m) = Line(Span(PieceLength, m))
                     /\ Piece(3, m) = Line(Span(PieceLength + PieceLength, m))
  <2>1. /\ (1 - 1) * PieceLength = 0 /\ (2 - 1) * PieceLength = PieceLength
        /\ (3 - 1) * PieceLength = PieceLength + PieceLength
    BY <1>1
  <2> QED BY <2>1 DEF Span
<1> HIDE DEF Piece
<1>4. CASE n <= PieceLength
  <2>1. Cut(n) = <<n>>
    BY <1>4 DEF Cut
  <2>2. netDoPrintConsole(n) = <<Piece(1, n)>>
    BY <1>2, <2>1
  <2> QED BY <1>3, <1>4, <2>2 DEF AnswerLines
<1>5. CASE ~ (n <= PieceLength) /\ n <= PieceLength + PieceLength
  <2>1. Cut(n) = <<PieceLength, n - PieceLength>> /\ n - PieceLength \in Nat
    BY <1>1, <1>5 DEF Cut
  <2>2. netDoPrintConsole(n) = <<Piece(1, PieceLength), Piece(2, n - PieceLength)>>
    BY <1>2, <2>1
  <2> QED BY <1>1, <1>3, <1>5, <2>1, <2>2 DEF AnswerLines
<1>6. CASE ~ (n <= PieceLength) /\ ~ (n <= PieceLength + PieceLength)
  <2>1. Cut(n) = <<PieceLength, PieceLength, 1>>
    BY <1>1, <1>6 DEF Cut
  <2>2. netDoPrintConsole(n) =
          <<Piece(1, PieceLength), Piece(2, PieceLength), Piece(3, 1)>>
    BY <1>2, <2>1
  <2> QED BY <1>1, <1>3, <1>6, <2>2 DEF AnswerLines
<1> QED BY <1>4, <1>5, <1>6

(* One, two or three lines bring their texts one behind the other. *)
LEMMA JoinedFew ==
  ASSUME NEW a \in Seq(Nat), NEW b \in Seq(Nat), NEW c \in Seq(Nat)
  PROVE  /\ Joined(<<Line(a)>>) = a
         /\ Joined(<<Line(a), Line(b)>>) = a \o b
         /\ Joined(<<Line(a), Line(b), Line(c)>>) = a \o (b \o c)
<1>1. \A t \in Seq(Nat) : /\ Line(t) \in ClientPacket /\ Line(t).text = t
                          /\ <<Line(t)>> \in Seq(ClientPacket)
  BY ClientPacketType
<1>2. ASSUME NEW t \in Seq(Nat) PROVE Joined(<<Line(t)>>) = t
  <2> DEFINE e == <<>>
  <2>1. e \in Seq(ClientPacket) /\ Joined(e) = <<>> /\ Append(e, Line(t)) = <<Line(t)>>
    <3>1. e \in Seq(ClientPacket)
      BY EmptySeq
    <3>2. e \o <<Line(t)>> = <<Line(t)>>
      BY <1>1, ConcatEmptySeq
    <3>3. Append(e, Line(t)) = e \o <<Line(t)>>
      BY <1>1, <3>1, AppendIsConcat
    <3> QED BY <3>1, <3>2, <3>3, JoinedType
  <2> HIDE DEF e
  <2>2. Joined(Append(e, Line(t))) = Joined(e) \o Line(t).text
    BY <1>1, <2>1, JoinedAppend
  <2> QED BY <1>1, <2>1, <2>2, ConcatEmptySeq
<1>3. ASSUME NEW t \in Seq(Nat), NEW q \in Seq(ClientPacket)
      PROVE  Joined(<<Line(t)>> \o q) = t \o Joined(q)
  BY <1>1, <1>2, JoinedConcat
<1>4. <<Line(b), Line(c)>> = <<Line(b)>> \o <<Line(c)>>
  BY TwoAndThree
<1>5. <<Line(a), Line(b)>> = <<Line(a)>> \o <<Line(b)>>
  BY TwoAndThree
<1>6. <<Line(a), Line(b), Line(c)>> = <<Line(a)>> \o <<Line(b), Line(c)>>
  BY TwoAndThree
<1>7. <<Line(b), Line(c)>> \in Seq(ClientPacket)
  BY <1>1
<1>8. Joined(<<Line(b), Line(c)>>) = b \o c
  BY <1>1, <1>2, <1>3, <1>4
<1> QED BY <1>1, <1>2, <1>3, <1>5, <1>6, <1>7, <1>8

LEMMA FewLines ==
  ASSUME NEW a \in Seq(Nat), NEW b \in Seq(Nat), NEW c \in Seq(Nat),
         Len(a) <= PieceLength, Len(b) <= PieceLength, Len(c) <= PieceLength,
         NEW q \in {<<Line(a)>>, <<Line(a), Line(b)>>, <<Line(a), Line(b), Line(c)>>}
  PROVE  /\ q \in Seq(ClientPacket) /\ Len(q) \in 1 .. 3
         /\ \A j \in DOMAIN q : Len(q[j].text) <= PieceLength
<1>1. /\ Line(a) \in ClientPacket /\ Line(a).text = a
      /\ Line(b) \in ClientPacket /\ Line(b).text = b
      /\ Line(c) \in ClientPacket /\ Line(c).text = c
  BY ClientPacketType
<1>2. CASE q = <<Line(a)>>
  BY <1>1, <1>2
<1>3. CASE q = <<Line(a), Line(b)>>
  BY <1>1, <1>3
<1>4. CASE q = <<Line(a), Line(b), Line(c)>>
  BY <1>1, <1>4
<1> QED BY <1>2, <1>3, <1>4

(***************************************************************************)
(* An answer of n characters needs three lines at most, each of them fits  *)
(* a packet, and together they bring what can be shown of the answer, in   *)
(* order and nothing twice: netDoPrintConsole (src/net.cpp) loses nothing  *)
(* where it cuts, though the copy of the rest takes one character more     *)
(* than a line.                                                            *)
(***************************************************************************)
THEOREM AnswerCutWhole ==
  \A n \in Nat :
    /\ netDoPrintConsole(n) \in Seq(ClientPacket)
    /\ Len(netDoPrintConsole(n)) \in 1 .. 3
    /\ \A j \in DOMAIN netDoPrintConsole(n) :
         Len(netDoPrintConsole(n)[j].text) <= PieceLength
    /\ Joined(netDoPrintConsole(n)) = Shown(n)
<1> SUFFICES ASSUME NEW n \in Nat
             PROVE  /\ AnswerLines(n) \in Seq(ClientPacket)
                    /\ Len(AnswerLines(n)) \in 1 .. 3
                    /\ \A j \in DOMAIN AnswerLines(n) :
                         Len(AnswerLines(n)[j].text) <= PieceLength
                    /\ Joined(AnswerLines(n)) = Shown(n)
  BY PrintedLines
<1>1. PieceLength \in Nat \ {0}
  BY ServerPacketsAssumption DEF ServerPacketsAssumption
<1>2. \A k, m \in Nat : /\ Span(k, m) \in Seq(Nat) /\ Len(Span(k, m)) = m
                        /\ Line(Span(k, m)) \in ClientPacket
                        /\ Line(Span(k, m)).text = Span(k, m)
  BY SpanType, ClientPacketType
<1>3. Shown(n) = Span(0, Smaller(n, PieceLength + PieceLength + 1))
  BY <1>1 DEF Shown, Span, Smaller
<1>4. CASE n <= PieceLength
  <2>1. AnswerLines(n) = <<Line(Span(0, n))>>
    BY <1>4 DEF AnswerLines
  <2>2. Shown(n) = Span(0, n)
    BY <1>1, <1>3, <1>4 DEF Smaller
  <2> DEFINE a == Span(0, n)
  <2>3. a \in Seq(Nat) /\ Len(a) <= PieceLength
    BY <1>2, <1>4
  <2> HIDE DEF a
  <2>4. Joined(<<Line(a)>>) = a
    BY <2>3, JoinedFew
  <2> QED BY <2>1, <2>2, <2>3, <2>4, FewLines DEF a
<1>5. CASE ~ (n <= PieceLength) /\ n <= PieceLength + PieceLength
  <2>1. PICK r \in Nat : r = n - PieceLength /\ PieceLength + r = n /\ r <= PieceLength
    BY <1>1, <1>5
  <2> DEFINE a == Span(0, PieceLength)
             b == Span(PieceLength, r)
  <2>2. AnswerLines(n) = <<Line(a), Line(b)>>
    BY <1>5, <2>1 DEF AnswerLines
  <2>3. Shown(n) = Span(0, n)
    BY <1>1, <1>3, <1>5 DEF Smaller
  <2>4. a \o b = Shown(n)
    <3>1. \A k, m, l \in Nat : Span(k, m) \o Span(k + m, l) = Span(k, m + l)
      BY SpanJoin
    <3>2. 0 + PieceLength = PieceLength /\ 0 \in Nat
      BY <1>1
    <3>3. Span(0, PieceLength) \o Span(0 + PieceLength, r) = Span(0, PieceLength + r)
      BY <1>1, <3>1
    <3> QED BY <2>1, <2>3, <3>2, <3>3
  <2>5. /\ a \in Seq(Nat) /\ Len(a) <= PieceLength
        /\ b \in Seq(Nat) /\ Len(b) <= PieceLength
    BY <1>1, <1>2, <2>1
  <2> HIDE DEF a, b
  <2>6. Joined(<<Line(a), Line(b)>>) = a \o b
    BY <2>5, JoinedFew
  <2> QED BY <2>2, <2>4, <2>5, <2>6, FewLines
<1>6. CASE ~ (n <= PieceLength) /\ ~ (n <= PieceLength + PieceLength)
  <2> DEFINE a == Span(0, PieceLength)
             b == Span(PieceLength, PieceLength)
             c == Span(PieceLength + PieceLength, 1)
  <2>1. AnswerLines(n) = <<Line(a), Line(b), Line(c)>>
    BY <1>6 DEF AnswerLines
  <2>2. Shown(n) = Span(0, PieceLength + (PieceLength + 1))
    BY <1>1, <1>3, <1>6 DEF Smaller
  <2>3. a \o (b \o c) = Shown(n)
    <3>1. \A k, m, l \in Nat : Span(k, m) \o Span(k + m, l) = Span(k, m + l)
      BY SpanJoin
    <3>2. 0 + PieceLength = PieceLength /\ 0 \in Nat /\ PieceLength + 1 \in Nat
      BY <1>1
    <3>3. b \o c = Span(PieceLength, PieceLength + 1)
      BY <1>1, <3>1
    <3>4. Span(0, PieceLength) \o Span(0 + PieceLength, PieceLength + 1)
            = Span(0, PieceLength + (PieceLength + 1))
      BY <1>1, <3>1, <3>2
    <3> QED BY <2>2, <3>2, <3>3, <3>4
  <2>4. /\ a \in Seq(Nat) /\ Len(a) <= PieceLength
        /\ b \in Seq(Nat) /\ Len(b) <= PieceLength
        /\ c \in Seq(Nat) /\ Len(c) <= PieceLength
    <3>1. PieceLength + PieceLength \in Nat /\ 1 <= PieceLength /\ PieceLength \in Nat
      BY <1>1
    <3>2. /\ a \in Seq(Nat) /\ Len(a) = PieceLength
          /\ b \in Seq(Nat) /\ Len(b) = PieceLength
      BY <1>2, <3>1
    <3>3. c \in Seq(Nat) /\ Len(c) = 1
      BY <1>2, <3>1
    <3> QED BY <3>1, <3>2, <3>3
  <2> HIDE DEF a, b, c
  <2>5. Joined(<<Line(a), Line(b), Line(c)>>) = a \o (b \o c)
    BY <2>4, JoinedFew
  <2> QED BY <2>1, <2>3, <2>4, <2>5, FewLines
<1> QED BY <1>4, <1>5, <1>6

-----------------------------------------------------------------------------
(***************************************************************************)
(* The lines on their way: between two frames nothing is left of the last  *)
(* one, the game is about to take no line, and of a player who is not      *)
(* there nothing is under way and nothing is remembered.                   *)
(***************************************************************************)
NothingLeft ==
  /\ cTurn = "idle" => cFrame = <<>>
  /\ ~present => cTurn = "idle" /\ down = <<>> /\ told = <<>> /\ console = <<>>

NoLineForGame == cTurn = "game" /\ cFrame # <<>> => Head(cFrame).kind # "print"

LinesInv ==
  /\ down \in Seq(ClientPacket) /\ cFrame \in Seq(ClientPacket)
  /\ console \in Seq(Nat) /\ told \in Seq(Nat)
  /\ NothingLeft
  /\ NoLineForGame
  /\ LinesWhole

LEMMA UnderWayJoined == UnderWay = Joined(cFrame \o down)
BY DEF UnderWay, Joined, TextsOf

LEMMA PacketsAssociative ==
  ASSUME NEW a \in Seq(ClientPacket), NEW b \in Seq(ClientPacket),
         NEW c \in Seq(ClientPacket)
  PROVE  (a \o b) \o c = a \o (b \o c)
BY ConcatAssociative

(* Lines are sent to the client, with the characters that are told. *)
LEMMA SentKeeps ==
  ASSUME LinesInv, present, UNCHANGED <<present, clientVars>>,
         NEW lines \in Seq(ClientPacket),
         down' = down \o lines, told' = told \o Joined(lines)
  PROVE  LinesInv'
<1> DEFINE x == console
           y == Joined(cFrame \o down)
           z == Joined(lines)
           q == cFrame \o down
<1>1. q \in Seq(ClientPacket) /\ cFrame \o (down \o lines) = q \o lines
  BY ConcatProperties, PacketsAssociative DEF LinesInv
<1>2. x \in Seq(Nat) /\ y \in Seq(Nat) /\ z \in Seq(Nat)
  <2> HIDE DEF q
  <2> QED BY <1>1, JoinedType DEF LinesInv, q
<1>3. Joined(q \o lines) = Joined(q) \o Joined(lines)
  <2> HIDE DEF q
  <2> QED BY <1>1, JoinedConcat
<1>4. down' \in Seq(ClientPacket) /\ told' \in Seq(Nat)
  BY <1>2, ConcatProperties DEF LinesInv
<1>5. UNCHANGED <<cFrame, cTurn, cOverran, console>>
  BY DEF clientVars
<1>6. LinesWhole'
  <2> SUFFICES ASSUME ~ cOverran PROVE console \o Joined(cFrame \o (down \o lines)) = told'
    BY <1>5 DEF LinesWhole, UnderWay, Joined, TextsOf
  <2>1. told = x \o y
    BY UnderWayJoined DEF LinesInv, LinesWhole
  <2> HIDE DEF x, y, z
  <2>2. (x \o y) \o z = x \o (y \o z)
    BY <1>2, JoinAssociative
  <2>3. told' = x \o (y \o z)
    BY <2>1, <2>2 DEF z
  <2>4. Joined(cFrame \o (down \o lines)) = y \o z
    BY <1>1, <1>3 DEF y, z
  <2> QED BY <2>3, <2>4 DEF x
<1> QED BY <1>4, <1>5, <1>6 DEF LinesInv, NothingLeft, NoLineForGame

(* A packet that brings no characters. *)
LEMMA QuietSentKeeps ==
  ASSUME LinesInv, present, UNCHANGED <<present, clientVars, told>>,
         NEW kind \in {"other", "serverVersion", "askVersion"},
         down' = Append(down, Packet(kind))
  PROVE  LinesInv'
<1>1. Packet(kind) \in ClientPacket /\ Packet(kind).text = <<>>
  BY ClientPacketType DEF ClientPacketKinds
<1> DEFINE e == <<>>
           lines == Append(e, Packet(kind))
<1>2. e \in Seq(ClientPacket) /\ Joined(e) = <<>>
  BY EmptySeq, JoinedType
<1>3. lines \in Seq(ClientPacket) /\ Joined(lines) = Joined(e) \o Packet(kind).text
  <2> HIDE DEF e
  <2> QED BY <1>1, <1>2, AppendProperties, JoinedAppend
<1>4. Joined(lines) = <<>>
  BY <1>1, <1>2, <1>3, ConcatEmptySeq
<1>5. lines = <<Packet(kind)>>
  <2>1. lines = e \o <<Packet(kind)>>
    <3> HIDE DEF e
    <3> QED BY <1>1, <1>2, AppendIsConcat
  <2> QED BY <1>1, <2>1, ConcatEmptySeq
<1>6. down' = down \o lines
  BY <1>1, <1>5, AppendIsConcat DEF LinesInv
<1>7. told' = told \o Joined(lines)
  BY <1>4, ConcatEmptySeq DEF LinesInv
<1> HIDE DEF lines
<1> QED BY <1>3, <1>6, <1>7, SentKeeps

(* The server's side: its filter answers, and the answer to a sysop goes.  *)
LEMMA ServerKeepsLines ==
  ASSUME LinesInv, PacketsInv, netOnServ, UNCHANGED clientVars
  PROVE  LinesInv'
<1>1. present /\ UNCHANGED present
  BY DEF PacketsInv, GoneIsQuiet, netOnServ, ServerFrame, ServerLooks, ServerGame
<1>2. CASE UNCHANGED <<down, told>>
  BY <1>1, <1>2 DEF LinesInv, NothingLeft, NoLineForGame, LinesWhole, UnderWay, clientVars
<1>3. CASE down' = Append(down, Packet("serverVersion")) /\ UNCHANGED told
  BY <1>1, <1>3, QuietSentKeeps
<1>4. ASSUME NEW n \in TextLengths,
             down' = down \o netDoPrintConsole(n), told = <<>>, told' = Shown(n)
      PROVE  LinesInv'
  <2> DEFINE lines == netDoPrintConsole(n)
  <2>1. n \in Nat
    BY ServerPacketsAssumption DEF ServerPacketsAssumption
  <2>2. lines \in Seq(ClientPacket) /\ Joined(lines) = Shown(n)
    BY <2>1, AnswerCutWhole
  <2>3. Joined(lines) \in Seq(Nat)
    <3> HIDE DEF lines
    <3> QED BY <2>2, JoinedType
  <2>4. told' = told \o Joined(lines)
    BY <1>4, <2>2, <2>3, ConcatEmptySeq
  <2>5. down' = down \o lines
    BY <1>4
  <2> HIDE DEF lines
  <2> QED BY <1>1, <2>2, <2>4, <2>5, SentKeeps
<1>5. \/ UNCHANGED <<down, told>>
      \/ down' = Append(down, Packet("serverVersion")) /\ UNCHANGED told
      \/ \E n \in TextLengths : down' = down \o netDoPrintConsole(n) /\ told = <<>>
                                /\ told' = Shown(n)
  BY DEF netOnServ, ServerFrame, ServerLooks, ServerGame, onNetPacket2, Input, Chat, UniPacket
<1> QED BY <1>2, <1>3, <1>4, <1>5

(* What the client has taken is no longer under way. *)
LEMMA TakenFirst ==
  ASSUME LinesInv, cFrame # <<>>
  PROVE  /\ Passed(cFrame) \in Seq(ClientPacket) /\ Head(cFrame) \in ClientPacket
         /\ Joined(cFrame \o down) = Head(cFrame).text \o Joined(Passed(cFrame) \o down)
<1>1. /\ cFrame \in Seq(ClientPacket) /\ down \in Seq(ClientPacket)
      /\ Passed(cFrame) = Tail(cFrame) /\ Tail(cFrame) \in Seq(ClientPacket)
      /\ Head(cFrame) \in ClientPacket
  BY HeadTailProperties DEF LinesInv, Passed
<1>2. /\ cFrame \o down \in Seq(ClientPacket) /\ cFrame \o down # <<>>
      /\ Head(cFrame \o down) = Head(cFrame)
      /\ Tail(cFrame \o down) = Tail(cFrame) \o down
  BY <1>1, TailOfJoin
<1>3. Joined(cFrame \o down) = Head(cFrame \o down).text \o Joined(Tail(cFrame \o down))
  BY <1>2, JoinedHead
<1> QED BY <1>1, <1>2, <1>3

(* A packet without characters leaves the frame: for the filter or the     *)
(* game; or there was none.                                                *)
LEMMA QuietTakenKeeps ==
  ASSUME LinesInv, present, UNCHANGED <<present, down, told, console, cOverran>>,
         cFrame' = Passed(cFrame),
         cFrame # <<>> => Head(cFrame).kind # "print",
         cTurn' = "idle" => Passed(cFrame) = <<>>,
         cTurn' # "game"
  PROVE  LinesInv'
<1>1. CASE cFrame = <<>>
  BY <1>1 DEF LinesInv, NothingLeft, NoLineForGame, LinesWhole, UnderWay, Passed
<1>2. CASE cFrame # <<>>
  <2>1. /\ Passed(cFrame) \in Seq(ClientPacket) /\ Head(cFrame) \in ClientPacket
        /\ Joined(cFrame \o down) = Head(cFrame).text \o Joined(Passed(cFrame) \o down)
    BY <1>2, TakenFirst
  <2>2. Head(cFrame).text = <<>>
    BY <1>2, <2>1 DEF ClientPacket
  <2>3. Passed(cFrame) \o down \in Seq(ClientPacket)
    BY <2>1, ConcatProperties DEF LinesInv
  <2>4. Joined(Passed(cFrame) \o down) \in Seq(Nat)
    BY <2>3, JoinedType
  <2>5. Joined(cFrame \o down) = Joined(Passed(cFrame) \o down)
    BY <2>1, <2>2, <2>4, ConcatEmptySeq
  <2>6. LinesWhole'
    BY <2>5, UnderWayJoined DEF LinesInv, LinesWhole, UnderWay, Joined, TextsOf
  <2> QED BY <2>1, <2>6 DEF LinesInv, NothingLeft, NoLineForGame
<1> QED BY <1>1, <1>2

(* A line is printed. *)
LEMMA PrintedKeeps ==
  ASSUME LinesInv, present, UNCHANGED <<present, down, told, cOverran>>,
         cFrame # <<>>, cFrame' = Passed(cFrame), cTurn' = "look",
         console' = console \o Head(cFrame).text
  PROVE  LinesInv'
<1> DEFINE x == console
           y == Head(cFrame).text
           z == Joined(Passed(cFrame) \o down)
<1>1. /\ Passed(cFrame) \in Seq(ClientPacket) /\ Head(cFrame) \in ClientPacket
      /\ Joined(cFrame \o down) = y \o z
  BY TakenFirst
<1>2. Passed(cFrame) \o down \in Seq(ClientPacket)
  BY <1>1, ConcatProperties DEF LinesInv
<1>3. x \in Seq(Nat) /\ y \in Seq(Nat) /\ z \in Seq(Nat)
  BY <1>1, <1>2, JoinedType DEF LinesInv, ClientPacket
<1>4. ~ cOverran => told = x \o (y \o z)
  BY <1>1, UnderWayJoined DEF LinesInv, LinesWhole
<1>5. console' \in Seq(Nat)
  BY <1>3, ConcatProperties
<1>6. LinesWhole'
  <2>1. (x \o y) \o z = x \o (y \o z)
    <3> HIDE DEF x, y, z
    <3> QED BY <1>3, JoinAssociative
  <2>2. UnderWay' = z
    BY DEF UnderWay, Joined, TextsOf
  <2> QED BY <1>4, <2>1, <2>2 DEF LinesWhole
<1> QED BY <1>1, <1>5, <1>6 DEF LinesInv, NothingLeft, NoLineForGame

(* A frame comes in where the last one has been taken. *)
LEMMA FrameKeepsLines ==
  ASSUME LinesInv, present, ClientFrame, UNCHANGED told
  PROVE  LinesInv'
<1>1. /\ cTurn = "idle" /\ cTurn' = "look" /\ cFrame = <<>>
      /\ UNCHANGED <<present, told, console, cOverran>>
  BY DEF LinesInv, NothingLeft, ClientFrame
<1>2. PICK n \in 1 .. Len(down) :
        cFrame' = SubSeq(down, 1, n) /\ down' = SubSeq(down, n + 1, Len(down))
  BY DEF ClientFrame
<1>3. /\ down \in Seq(ClientPacket) /\ Len(down) \in Nat
      /\ \A j \in 1 .. Len(down) : down[j] \in ClientPacket
  BY LenProperties, ElementOfSeq DEF LinesInv
<1>4. cFrame' \in Seq(ClientPacket)
  <2>1. \A j \in 1 .. n : down[j] \in ClientPacket
    BY <1>3
  <2> QED BY <1>2, <1>3, <2>1, SubSeqProperties
<1>5. down' \in Seq(ClientPacket)
  <2>1. \A j \in n + 1 .. Len(down) : down[j] \in ClientPacket
    BY <1>3
  <2> QED BY <1>2, <1>3, <2>1, SubSeqProperties
<1>6. cFrame' \o down' = cFrame \o down
  <2>1. SubSeq(down, 1, n) \o SubSeq(down, n + 1, Len(down)) = SubSeq(down, 1, Len(down))
    <3>1. /\ 1 \in 1 .. Len(down) + 1 /\ n \in 1 - 1 .. Len(down)
          /\ Len(down) \in n .. Len(down)
      BY <1>3
    <3> QED BY <1>3, <3>1, ConcatAdjacentSubSeq
  <2>2. SubSeq(down, 1, Len(down)) = down /\ <<>> \o down = down
    BY <1>3, SubSeqFull, ConcatEmptySeq
  <2> QED BY <1>1, <1>2, <2>1, <2>2
<1>7. LinesWhole'
  BY <1>1, <1>6, UnderWayJoined DEF LinesInv, LinesWhole, UnderWay, Joined, TextsOf
<1> QED BY <1>1, <1>4, <1>5, <1>7 DEF LinesInv, NothingLeft, NoLineForGame

(* The client's filter on what is at BufStart, or behind the end. *)
LEMMA LooksKeepsLines ==
  ASSUME LinesInv, present, ClientLooks, UNCHANGED told
  PROVE  LinesInv'
<1>1. cTurn = "look" /\ UNCHANGED <<present, down, told>>
  BY DEF ClientLooks
<1>2. CASE cFrame # <<>> /\ onNetPacket(Head(cFrame)) /\ UNCHANGED cOverran
  <2>1. CASE Head(cFrame).kind = "print"
    BY <1>1, <1>2, <2>1, PrintedKeeps DEF onNetPacket, UniCases
  <2>2. CASE Head(cFrame).kind \in {"askVersion", "serverVersion"}
    <3>1. /\ cFrame' = Passed(cFrame) /\ cTurn' = "look" /\ UNCHANGED console
      BY <1>2, <2>2 DEF onNetPacket, UniCases
    <3> QED BY <1>1, <1>2, <2>2, <3>1, QuietTakenKeeps
  <2>3. CASE Head(cFrame).kind \notin {"askVersion", "serverVersion", "print"}
    <3>1. cTurn' = "game" /\ UNCHANGED <<cFrame, console>>
      BY <1>2, <2>3 DEF onNetPacket
    <3> QED BY <1>1, <1>2, <2>3, <3>1
            DEF LinesInv, NothingLeft, NoLineForGame, LinesWhole, UnderWay
  <2> QED BY <2>1, <2>2, <2>3
<1>3. ASSUME cFrame = <<>>, NEW p \in BehindFrame,
             onNetPacket(p), cOverran' = (cOverran \/ p.kind # "none")
      PROVE  LinesInv'
  <2>1. cFrame' = <<>> /\ cTurn' # "idle"
    BY <1>3 DEF onNetPacket, Passed
  <2>2. CASE p = Packet("none")
    <3>1. UNCHANGED <<cFrame, console>> /\ (cOverran => cOverran')
      BY <1>3, <2>2 DEF onNetPacket, Packet
    <3> QED BY <1>1, <2>1, <3>1
            DEF LinesInv, NothingLeft, NoLineForGame, LinesWhole, UnderWay
  <2>3. CASE p = Packet("askVersion")
    <3>1. UNCHANGED console /\ cOverran'
      BY <1>3, <2>3 DEF onNetPacket, UniCases, Packet
    <3> QED BY <1>1, <2>1, <3>1 DEF LinesInv, NothingLeft, NoLineForGame, LinesWhole
  <2>4. ASSUME NEW c \in Range(console), p = Line(<<c>>) PROVE LinesInv'
    <3>1. console' = console \o <<c>> /\ cOverran'
      BY <1>3, <2>4 DEF onNetPacket, UniCases, Line
    <3>2. c \in Nat
      BY ElementOfSeq DEF Range, LinesInv
    <3>3. console' \in Seq(Nat)
      BY <3>1, <3>2, ConcatProperties DEF LinesInv
    <3> QED BY <1>1, <2>1, <3>1, <3>3 DEF LinesInv, NothingLeft, NoLineForGame, LinesWhole
  <2> QED BY <1>3, <2>2, <2>3, <2>4 DEF BehindFrame
<1> QED BY <1>2, <1>3 DEF ClientLooks

LEMMA ClientKeepsLines ==
  ASSUME LinesInv, PacketsInv, netOnCli, UNCHANGED serverVars
  PROVE  LinesInv'
<1>1. present /\ UNCHANGED told
  BY DEF PacketsInv, GoneIsQuiet, netOnCli, ClientFrame, ClientLooks, ClientGame, serverVars
<1>2. CASE ClientGame
  <2>1. /\ cTurn = "game" /\ cFrame' = Passed(cFrame) /\ cTurn' = AfterGame(cFrame)
        /\ UNCHANGED <<present, down, told, console, cOverran>>
    BY <1>1, <1>2 DEF ClientGame, linkVars
  <2>2. cFrame # <<>> => Head(cFrame).kind # "print"
    BY <2>1 DEF LinesInv, NoLineForGame
  <2>3. cTurn' # "game" /\ (cTurn' = "idle" => Passed(cFrame) = <<>>)
    <3>1. cFrame # <<>> /\ ~ (Len(cFrame) > 1) => Tail(cFrame) = <<>>
      <4> SUFFICES ASSUME cFrame # <<>>, ~ (Len(cFrame) > 1) PROVE Tail(cFrame) = <<>>
        OBVIOUS
      <4>1. /\ Len(cFrame) \in Nat \ {0} /\ Tail(cFrame) \in Seq(ClientPacket)
            /\ Len(Tail(cFrame)) = Len(cFrame) - 1
        BY LenProperties, EmptySeq, HeadTailProperties DEF LinesInv
      <4>2. Len(Tail(cFrame)) = 0
        BY <4>1
      <4> QED BY <4>1, <4>2, EmptySeq
    <3> QED BY <2>1, <3>1 DEF AfterGame, Passed
  <2> QED BY <1>1, <2>1, <2>2, <2>3, QuietTakenKeeps
<1> QED BY <1>1, <1>2, FrameKeepsLines, LooksKeepsLines DEF netOnCli

LEMMA PlayerKeepsLines ==
  ASSUME LinesInv, PlayerSends \/ ServerSends \/ onPlayerJoin \/ onPlayerLeave
  PROVE  LinesInv'
<1>1. CASE PlayerSends
  BY <1>1 DEF LinesInv, NothingLeft, NoLineForGame, LinesWhole, UnderWay, PlayerSends,
              serverVars, clientVars
<1>2. CASE ServerSends
  <2>1. present /\ UNCHANGED <<present, clientVars, told>>
        /\ down' = Append(down, Packet("other"))
    BY <1>2 DEF ServerSends, serverVars
  <2> QED BY <2>1, QuietSentKeeps
<1>3. CASE onPlayerLeave
  <2>1. /\ ~ present' /\ cTurn' = "idle" /\ cFrame' = <<>> /\ down' = <<>>
        /\ told' = <<>> /\ console' = <<>>
    BY <1>3 DEF LinesInv, NothingLeft, onPlayerLeave
  <2> DEFINE e == <<>>
  <2>2. /\ e \in Seq(ClientPacket) /\ e \in Seq(Nat) /\ Joined(e) = <<>>
        /\ e \o e = <<>>
    BY EmptySeq, JoinedType, ConcatEmptySeq
  <2>3. UnderWay' = Joined(e)
    BY <2>1, <2>2 DEF UnderWay, Joined, TextsOf
  <2> QED BY <2>1, <2>2, <2>3 DEF LinesInv, NothingLeft, NoLineForGame, LinesWhole
<1>4. CASE onPlayerJoin
  <2>1. /\ present' /\ cTurn = "idle" /\ cFrame = <<>> /\ down = <<>> /\ told = <<>>
        /\ console = <<>> /\ UNCHANGED <<cFrame, cTurn, cOverran, console, told>>
        /\ down' = <<>> \/ down' = <<Packet("askVersion")>>
    BY <1>4 DEF LinesInv, NothingLeft, onPlayerJoin, clientVars
  <2> DEFINE e == <<>>
             q == <<Packet("askVersion")>>
  <2>2. /\ Packet("askVersion") \in ClientPacket /\ Packet("askVersion").text = <<>>
        /\ q \in Seq(ClientPacket)
    BY ClientPacketType DEF ClientPacketKinds
  <2>3. /\ e \in Seq(ClientPacket) /\ e \in Seq(Nat) /\ Joined(e) = e
        /\ e \o e = e /\ e \o q = q
    BY <2>2, EmptySeq, JoinedType, ConcatEmptySeq
  <2>4. Joined(q) = e
    <3>1. q = Append(e, Packet("askVersion"))
      BY <2>2, <2>3, AppendIsConcat
    <3>2. Joined(Append(e, Packet("askVersion"))) = Joined(e) \o Packet("askVersion").text
      <4> HIDE DEF e
      <4> QED BY <2>2, <2>3, JoinedAppend
    <3> QED BY <2>2, <2>3, <3>1, <3>2
  <2>5. UnderWay' = e
    BY <2>1, <2>3, <2>4 DEF UnderWay, Joined, TextsOf
  <2>6. down' \in Seq(ClientPacket)
    BY <2>1, <2>2, <2>3
  <2> QED BY <2>1, <2>3, <2>5, <2>6 DEF LinesInv, NothingLeft, NoLineForGame, LinesWhole
<1> QED BY <1>1, <1>2, <1>3, <1>4

LEMMA LinesInitInv == PacketsInit => LinesInv
<1> SUFFICES ASSUME PacketsInit PROVE LinesInv
  OBVIOUS
<1>1. /\ ~ present /\ down = <<>> /\ cFrame = <<>> /\ cTurn = "idle"
      /\ told = <<>> /\ console = <<>>
  BY DEF PacketsInit, ServerInit, ClientInit
<1> DEFINE e == <<>>
<1>2. /\ e \in Seq(ClientPacket) /\ e \in Seq(Nat) /\ Joined(e) = <<>> /\ e \o e = <<>>
  BY EmptySeq, JoinedType, ConcatEmptySeq
<1>3. UnderWay = Joined(e)
  BY <1>1, <1>2, UnderWayJoined
<1> QED BY <1>1, <1>2, <1>3 DEF LinesInv, NothingLeft, NoLineForGame, LinesWhole

LEMMA LinesStepInv == PacketsInv /\ LinesInv /\ [PacketsNext]_packetVars => LinesInv'
<1> SUFFICES ASSUME PacketsInv, LinesInv, [PacketsNext]_packetVars PROVE LinesInv'
  OBVIOUS
<1>1. CASE PlayerSends \/ ServerSends \/ onPlayerJoin \/ onPlayerLeave
  BY <1>1, PlayerKeepsLines
<1>2. CASE netOnServ /\ UNCHANGED clientVars
  BY <1>2, ServerKeepsLines
<1>3. CASE Dialogue /\ UNCHANGED clientVars
  BY <1>3 DEF Dialogue, LinesInv, NothingLeft, NoLineForGame, LinesWhole, UnderWay,
              clientVars, linkVars
<1>4. CASE netOnCli /\ UNCHANGED serverVars
  BY <1>4, ClientKeepsLines
<1>5. CASE UNCHANGED packetVars
  BY <1>5 DEF LinesInv, NothingLeft, NoLineForGame, LinesWhole, UnderWay,
              packetVars, serverVars, clientVars, linkVars
<1> QED BY <1>1, <1>2, <1>3, <1>4, <1>5 DEF PacketsNext

(***************************************************************************)
(* However the lines of an answer are spread over frames, and whatever is  *)
(* sent between them, the console has a beginning of the answer and the    *)
(* rest of what can be shown is under way, until the filter takes an old   *)
(* line from behind the end of a frame.                                    *)
(***************************************************************************)
THEOREM AlwaysLinesWhole == PacketsSpec => []LinesWhole
<1>1. PacketsInv /\ LinesInv => LinesWhole
  BY DEF LinesInv
<1> QED BY <1>1, PacketsInitInv, PacketsStepInv, LinesInitInv, LinesStepInv, PTL
        DEF PacketsSpec

-----------------------------------------------------------------------------
(***************************************************************************)
(* The server's question for the client's version, and the answer to it:   *)
(* in no frame yet, or in what is left of one.                             *)
(***************************************************************************)
Asked == "askVersion" \in Kinds(cFrame) \cup Kinds(down)
Answering == "version" \in Kinds(sFrame) \cup Kinds(up)

(* As long as the player stays, neither gets lost on the way: the question *)
(* becomes an answer, and the answer becomes known, or is missed.          *)
VersionNotLost ==
  present /\ present' /\ (Asked \/ Answering) =>
    Asked' \/ Answering' \/ clientsVersions' = Version \/ missed'

(* Where a packet is in parts of a sequence. *)
LEMMA KindOf ==
  ASSUME NEW S, NEW q \in Seq(S), NEW k
  PROVE  k \in Kinds(q) <=> \E j \in 1 .. Len(q) : q[j].kind = k
<1>1. DOMAIN q = 1 .. Len(q)
  BY LenProperties
<1> QED BY <1>1 DEF Kinds

LEMMA KindPassed ==
  ASSUME NEW S, NEW q \in Seq(S), NEW k \in Kinds(q)
  PROVE  q # <<>> /\ (k = Head(q).kind \/ k \in Kinds(Passed(q)))
<1>1. PICK j \in 1 .. Len(q) : q[j].kind = k
  BY KindOf
<1>2. Len(q) \in Nat /\ q # <<>>
  BY <1>1, LenProperties, EmptySeq
<1>3. /\ Passed(q) = Tail(q) /\ Tail(q) \in Seq(S) /\ Len(Tail(q)) = Len(q) - 1
      /\ Head(q) = q[1]
      /\ \A i \in 1 .. Len(Tail(q)) : Tail(q)[i] = q[i + 1]
  BY <1>2, HeadTailProperties DEF Passed
<1>4. CASE j = 1
  BY <1>1, <1>2, <1>3, <1>4
<1>5. CASE j # 1
  <2>1. j - 1 \in 1 .. Len(Tail(q)) /\ (j - 1) + 1 = j
    BY <1>2, <1>3, <1>5
  <2>2. Tail(q)[j - 1].kind = k
    BY <1>1, <1>3, <2>1
  <2> QED BY <1>2, <1>3, <2>1, <2>2, KindOf
<1> QED BY <1>4, <1>5

LEMMA KindCut ==
  ASSUME NEW S, NEW q \in Seq(S), NEW n \in 1 .. Len(q), NEW k \in Kinds(q)
  PROVE  k \in Kinds(SubSeq(q, 1, n)) \/ k \in Kinds(SubSeq(q, n + 1, Len(q)))
<1>1. PICK j \in 1 .. Len(q) : q[j].kind = k
  BY KindOf
<1>2. Len(q) \in Nat /\ \A i \in 1 .. Len(q) : q[i] \in S
  BY LenProperties, ElementOfSeq
<1> DEFINE a == SubSeq(q, 1, n)
           b == SubSeq(q, n + 1, Len(q))
<1>3. a \in Seq(S) /\ Len(a) = n /\ \A i \in 1 .. n : a[i] = q[i]
  <2>1. 1 \in Int /\ n \in Int /\ \A i \in 1 .. n : q[i] \in S
    BY <1>2
  <2>2. /\ a \in Seq(S) /\ Len(a) = IF 1 <= n THEN n - 1 + 1 ELSE 0
        /\ \A i \in 1 .. n - 1 + 1 : a[i] = q[1 + i - 1]
    BY <2>1, SubSeqProperties
  <2> HIDE DEF a
  <2> QED BY <1>2, <2>2
<1>4. b \in Seq(S) /\ Len(b) = Len(q) - n /\ \A i \in 1 .. Len(q) - n : b[i] = q[n + i]
  <2>1. n + 1 \in Int /\ Len(q) \in Int /\ \A i \in n + 1 .. Len(q) : q[i] \in S
    BY <1>2
  <2>2. /\ b \in Seq(S) /\ Len(b) = IF n + 1 <= Len(q) THEN Len(q) - (n + 1) + 1 ELSE 0
        /\ \A i \in 1 .. Len(q) - (n + 1) + 1 : b[i] = q[(n + 1) + i - 1]
    BY <2>1, SubSeqProperties
  <2> HIDE DEF b
  <2> HIDE DEF a, b
  <2>3. Len(q) - (n + 1) + 1 = Len(q) - n
    BY <1>2
  <2>4. Len(b) = Len(q) - n
    <3>1. n \in Nat /\ n <= Len(q) /\ Len(q) \in Nat
      BY <1>2
    <3>2. CASE n + 1 <= Len(q)
      BY <2>2, <2>3, <3>2
    <3>3. CASE ~ (n + 1 <= Len(q))
      <4>1. Len(q) - n = 0
        BY <3>1, <3>3
      <4> QED BY <2>2, <3>3, <4>1
    <3> QED BY <3>2, <3>3
  <2>5. ASSUME NEW i \in 1 .. Len(q) - n PROVE b[i] = q[n + i]
    <3>1. (n + 1) + i - 1 = n + i
      BY <1>2
    <3>2. b[i] = q[(n + 1) + i - 1]
      BY <2>2, <2>3
    <3> QED BY <3>1, <3>2
  <2> QED BY <2>2, <2>4, <2>5
<1> HIDE DEF a, b
<1>5. CASE j <= n
  <2>1. j \in 1 .. Len(a) /\ a[j].kind = k
    BY <1>1, <1>3, <1>5
  <2>2. k \in Kinds(a)
    BY <1>3, <2>1, KindOf
  <2> QED BY <2>2 DEF a
<1>6. CASE ~ (j <= n)
  <2>1. j - n \in 1 .. Len(b) /\ n + (j - n) = j
    BY <1>2, <1>4, <1>6
  <2>2. b[j - n].kind = k
    BY <1>1, <1>4, <2>1
  <2>3. k \in Kinds(b)
    BY <1>4, <2>1, <2>2, KindOf
  <2> QED BY <2>3 DEF b
<1> QED BY <1>5, <1>6

LEMMA KindJoined ==
  ASSUME NEW S, NEW q \in Seq(S), NEW r \in Seq(S), NEW k,
         k \in Kinds(q) \/ k \in Kinds(r)
  PROVE  k \in Kinds(q \o r)
<1> DEFINE c == q \o r
<1>1. /\ c \in Seq(S) /\ Len(c) = Len(q) + Len(r)
      /\ \A i \in 1 .. Len(q) + Len(r) : c[i] = IF i <= Len(q) THEN q[i] ELSE r[i - Len(q)]
      /\ Len(q) \in Nat /\ Len(r) \in Nat
  BY ConcatProperties, LenProperties
<1> HIDE DEF c
<1>2. CASE k \in Kinds(q)
  <2>1. PICK j \in 1 .. Len(q) : q[j].kind = k
    BY <1>2, KindOf
  <2>2. j \in 1 .. Len(c) /\ c[j] = q[j]
    BY <1>1
  <2> QED BY <1>1, <2>1, <2>2, KindOf DEF c
<1>3. CASE k \in Kinds(r)
  <2>1. PICK j \in 1 .. Len(r) : r[j].kind = k
    BY <1>3, KindOf
  <2>2. Len(q) + j \in 1 .. Len(c) /\ ~ (Len(q) + j <= Len(q)) /\ (Len(q) + j) - Len(q) = j
    BY <1>1
  <2>3. c[Len(q) + j] = r[j]
    BY <1>1, <2>2
  <2> QED BY <1>1, <2>1, <2>2, <2>3, KindOf DEF c
<1> QED BY <1>2, <1>3

LEMMA KindAppended ==
  ASSUME NEW S, NEW q \in Seq(S), NEW x \in S
  PROVE  x.kind \in Kinds(Append(q, x)) /\ \A k \in Kinds(q) : k \in Kinds(Append(q, x))
<1> DEFINE c == Append(q, x)
<1>1. /\ c \in Seq(S) /\ Len(c) = Len(q) + 1 /\ c[Len(q) + 1] = x /\ Len(q) \in Nat
      /\ \A i \in 1 .. Len(q) : c[i] = q[i]
  BY AppendProperties, LenProperties
<1> HIDE DEF c
<1>2. x.kind \in Kinds(c)
  <2>1. Len(q) + 1 \in 1 .. Len(c)
    BY <1>1
  <2> QED BY <1>1, <2>1, KindOf
<1>3. ASSUME NEW k \in Kinds(q) PROVE k \in Kinds(c)
  <2>1. PICK j \in 1 .. Len(q) : q[j].kind = k
    BY KindOf
  <2>2. j \in 1 .. Len(c) /\ c[j].kind = k
    BY <1>1, <2>1
  <2> QED BY <1>1, <2>2, KindOf
<1> QED BY <1>2, <1>3 DEF c

(***************************************************************************)
(* Nothing is left of a frame between two, and the client's game takes no  *)
(* question for the version.                                               *)
(***************************************************************************)
AnswerInv ==
  /\ sTurn = "idle" => sFrame = <<>>
  /\ cTurn = "game" /\ cFrame # <<>> => Head(cFrame).kind # "askVersion"

LEMMA LastPassed ==
  ASSUME NEW S, NEW q \in Seq(S)
  PROVE  AfterGame(q) # "game" /\ (AfterGame(q) = "idle" => Passed(q) = <<>>)
<1>1. AfterGame(q) # "game" /\ (AfterGame(q) = "idle" => ~ (Len(q) > 1))
  BY DEF AfterGame
<1>2. ASSUME q # <<>>, ~ (Len(q) > 1) PROVE Tail(q) = <<>>
  <2>1. /\ Len(q) \in Nat \ {0} /\ Tail(q) \in Seq(S) /\ Len(Tail(q)) = Len(q) - 1
    BY <1>2, LenProperties, EmptySeq, HeadTailProperties
  <2>2. Len(Tail(q)) = 0
    BY <1>2, <2>1
  <2> QED BY <2>1, <2>2, EmptySeq
<1> QED BY <1>1, <1>2 DEF Passed

LEMMA AnswerInitInv == PacketsInit => AnswerInv
BY DEF PacketsInit, ServerInit, ClientInit, AnswerInv

LEMMA AnswerStepInv ==
  PacketsInv /\ LinesInv /\ AnswerInv /\ [PacketsNext]_packetVars => AnswerInv'
<1> SUFFICES ASSUME PacketsInv, LinesInv, AnswerInv, [PacketsNext]_packetVars
             PROVE  AnswerInv'
  OBVIOUS
<1>1. CASE PlayerSends \/ ServerSends \/ onPlayerJoin \/ onPlayerLeave
  BY <1>1 DEF AnswerInv, PlayerSends, ServerSends, onPlayerJoin, onPlayerLeave, serverVars,
              filterVars, clientVars
<1>2. CASE netOnServ /\ UNCHANGED clientVars
  <2>1. CASE ServerLooks
    <3>1. sTurn' # "idle"
      BY <2>1 DEF ServerLooks, onNetPacket2, Input, Chat, UniPacket, Found, ToGame
    <3> QED BY <1>2, <3>1 DEF AnswerInv, clientVars
  <2>2. CASE ServerGame
    <3>1. sTurn' = "idle" => sFrame' = <<>>
      BY <2>2, LastPassed DEF ServerGame, PacketsInv
    <3> QED BY <1>2, <3>1 DEF AnswerInv, clientVars
  <2>3. CASE ServerFrame
    BY <1>2, <2>3 DEF ServerFrame, AnswerInv, clientVars
  <2> QED BY <1>2, <2>1, <2>2, <2>3 DEF netOnServ
<1>3. CASE Dialogue /\ UNCHANGED clientVars
  BY <1>3 DEF Dialogue, AnswerInv, filterVars, clientVars
<1>4. CASE netOnCli /\ UNCHANGED serverVars
  <2>1. UNCHANGED <<sTurn, sFrame>>
    BY <1>4 DEF serverVars, filterVars
  <2>2. CASE ClientFrame
    BY <2>1, <2>2 DEF ClientFrame, AnswerInv
  <2>3. CASE ClientLooks
    <3>1. ASSUME NEW p, onNetPacket(p), cFrame # <<>> => p = Head(cFrame)
          PROVE  cTurn' = "game" /\ cFrame' # <<>> => Head(cFrame').kind # "askVersion"
      BY <3>1 DEF onNetPacket
    <3>2. cTurn' = "game" /\ cFrame' # <<>> => Head(cFrame').kind # "askVersion"
      BY <2>3, <3>1 DEF ClientLooks
    <3> QED BY <2>1, <3>2 DEF AnswerInv
  <2>4. CASE ClientGame
    <3>1. cTurn' # "game"
      BY <2>4, LastPassed DEF ClientGame, LinesInv
    <3> QED BY <2>1, <3>1 DEF AnswerInv
  <2> QED BY <1>4, <2>2, <2>3, <2>4 DEF netOnCli
<1>5. CASE UNCHANGED packetVars
  BY <1>5 DEF AnswerInv, packetVars, serverVars, filterVars, clientVars
<1> QED BY <1>1, <1>2, <1>3, <1>4, <1>5 DEF PacketsNext

(* A frame comes in: what it takes from the connection is in it. *)
LEMMA CutKeeps ==
  ASSUME NEW S, NEW q \in Seq(S), NEW k \in Kinds(q), NEW frame, NEW rest,
         \E n \in 1 .. Len(q) : frame = SubSeq(q, 1, n) /\ rest = SubSeq(q, n + 1, Len(q))
  PROVE  k \in Kinds(frame) \cup Kinds(rest)
BY KindCut

(* The server's side loses no answer, and no question that is under way. *)
LEMMA ServerLosesNone ==
  ASSUME PacketsInv, LinesInv, AnswerInv, netOnServ, UNCHANGED clientVars
  PROVE  /\ Asked => Asked'
         /\ Answering => Answering' \/ clientsVersions' = Version \/ missed'
<1>1. /\ up \in Seq(PlayerPacket) /\ sFrame \in Seq(PlayerPacket)
      /\ down \in Seq(ClientPacket) /\ UNCHANGED cFrame
  BY DEF PacketsInv, LinesInv, clientVars
<1>2. Asked => Asked'
  <2>1. CASE UNCHANGED down
    BY <1>1, <2>1 DEF Asked
  <2>2. CASE down' = Append(down, Packet("serverVersion"))
    <3>1. Packet("serverVersion") \in ClientPacket
      BY ClientPacketType DEF ClientPacketKinds
    <3>2. \A k \in Kinds(down) : k \in Kinds(down')
      BY <1>1, <2>2, <3>1, KindAppended
    <3> QED BY <1>1, <3>2 DEF Asked
  <2>3. ASSUME NEW n \in TextLengths, down' = down \o netDoPrintConsole(n)
        PROVE  Asked => Asked'
    <3>1. netDoPrintConsole(n) \in Seq(ClientPacket)
      BY AnswerCutWhole, ServerPacketsAssumption DEF ServerPacketsAssumption
    <3>2. \A k \in Kinds(down) : k \in Kinds(down')
      BY <1>1, <2>3, <3>1, KindJoined
    <3> QED BY <1>1, <3>2 DEF Asked
  <2>4. \/ UNCHANGED down \/ down' = Append(down, Packet("serverVersion"))
        \/ \E n \in TextLengths : down' = down \o netDoPrintConsole(n)
    BY DEF netOnServ, ServerFrame, ServerLooks, ServerGame, onNetPacket2, Input, Chat, UniPacket
  <2> QED BY <2>1, <2>2, <2>3, <2>4
<1>3. CASE ServerFrame
  <2>1. sFrame = <<>>
    BY <1>3 DEF ServerFrame, AnswerInv
  <2>2. "version" \notin Kinds(sFrame)
    BY <1>1, <2>1, KindPassed
  <2>3. \E n \in 1 .. Len(up) : sFrame' = SubSeq(up, 1, n) /\ up' = SubSeq(up, n + 1, Len(up))
    BY <1>3 DEF ServerFrame
  <2>4. "version" \in Kinds(up) => Answering'
    BY <1>1, <2>3, CutKeeps DEF Answering
  <2> QED BY <1>2, <2>2, <2>4 DEF Answering
<1>4. CASE ServerGame
  <2>1. sFrame' = Passed(sFrame) /\ UNCHANGED up
    BY <1>4 DEF ServerGame
  <2>2. ASSUME "version" \in Kinds(sFrame), "version" \notin Kinds(sFrame') PROVE missed'
    <3>1. sFrame # <<>> /\ Head(sFrame).kind = "version"
      BY <1>1, <2>1, <2>2, KindPassed
    <3>2. ~ sLooked
      BY <1>4, <3>1 DEF ServerGame, PacketsInv, GameSpared
    <3> QED BY <1>4, <3>1, <3>2 DEF ServerGame
  <2> QED BY <1>2, <2>1, <2>2 DEF Answering
<1>5. CASE ServerLooks
  <2>1. UNCHANGED up
    BY <1>5 DEF ServerLooks
  <2>2. ASSUME "version" \in Kinds(sFrame), "version" \notin Kinds(sFrame')
        PROVE  clientsVersions' = Version
    <3>1. sFrame # <<>> /\ (Head(sFrame).kind = "version" \/ "version" \in Kinds(Passed(sFrame)))
      BY <1>1, <2>2, KindPassed
    <3>2. onNetPacket2(Head(sFrame).kind, Version)
      BY <1>5, <3>1 DEF ServerLooks
    <3> DEFINE kind == Head(sFrame).kind
    <3>3. CASE Input(kind)
      <4>1. kind # "version" /\ "version" \in Kinds(Passed(sFrame))
        BY <3>1, <3>3 DEF Input
      <4>2. Passed(sFrame) \in Seq(PlayerPacket) /\ <<Packet("still")>> \in Seq(PlayerPacket)
        BY <1>1, PassedType, PacketType DEF PlayerPacketKinds
      <4>3. "version" \in Kinds(<<Packet("still")>> \o Passed(sFrame))
        BY <4>1, <4>2, KindJoined
      <4> QED BY <2>2, <3>3, <4>1, <4>3 DEF Input, ToGame
    <3>4. CASE Chat(kind)
      <4>1. kind # "version" /\ sFrame' = Passed(sFrame)
        BY <3>4 DEF Chat, Found
      <4> QED BY <2>2, <3>1, <4>1
    <3>5. CASE UniPacket(kind, Version)
      <4>1. sFrame' = Passed(sFrame) /\ (kind = "version" => clientsVersions' = Version)
        BY <3>5 DEF UniPacket, Found
      <4> QED BY <2>2, <3>1, <4>1
    <3>6. CASE ToGame(sFrame, TRUE)
      BY <2>2, <3>6 DEF ToGame
    <3> QED BY <3>2, <3>3, <3>4, <3>5, <3>6 DEF onNetPacket2
  <2> QED BY <1>2, <2>1, <2>2 DEF Answering
<1> QED BY <1>3, <1>4, <1>5 DEF netOnServ

(* The client's side answers the question, and takes no answer away. *)
LEMMA ClientLosesNone ==
  ASSUME PacketsInv, LinesInv, AnswerInv, netOnCli, UNCHANGED serverVars
  PROVE  /\ Answering => Answering'
         /\ Asked => Asked' \/ Answering'
<1>1. /\ up \in Seq(PlayerPacket) /\ UNCHANGED sFrame
      /\ down \in Seq(ClientPacket) /\ cFrame \in Seq(ClientPacket)
      /\ Packet("version") \in PlayerPacket /\ Packet("version").kind = "version"
  BY PacketType DEF PacketsInv, LinesInv, serverVars, filterVars, PlayerPacketKinds
<1>2. /\ Answering => Answering'
      /\ up' = Append(up, Packet("version")) => Answering'
  <2>1. up' = up \/ up' = Append(up, Packet("version"))
    BY DEF netOnCli, ClientFrame, ClientLooks, ClientGame, onNetPacket, UniCases, linkVars
  <2>2. up' = Append(up, Packet("version")) => "version" \in Kinds(up')
    BY <1>1, KindAppended
  <2> QED BY <1>1, <2>1, <2>2 DEF Answering
<1>3. CASE ClientFrame
  <2>1. cFrame = <<>>
    BY <1>3 DEF ClientFrame, LinesInv, NothingLeft
  <2>2. "askVersion" \notin Kinds(cFrame)
    BY <1>1, <2>1, KindPassed
  <2>3. \E n \in 1 .. Len(down) :
          cFrame' = SubSeq(down, 1, n) /\ down' = SubSeq(down, n + 1, Len(down))
    BY <1>3 DEF ClientFrame
  <2>4. "askVersion" \in Kinds(down) => Asked'
    BY <1>1, <2>3, CutKeeps DEF Asked
  <2> QED BY <1>2, <2>2, <2>4 DEF Asked
<1>4. CASE ClientGame
  <2>1. cFrame' = Passed(cFrame) /\ UNCHANGED down
    BY <1>4 DEF ClientGame, linkVars
  <2>2. cFrame # <<>> => Head(cFrame).kind # "askVersion"
    BY <1>4 DEF ClientGame, AnswerInv
  <2>3. "askVersion" \in Kinds(cFrame) => "askVersion" \in Kinds(cFrame')
    BY <1>1, <2>1, <2>2, KindPassed
  <2> QED BY <1>2, <2>1, <2>3 DEF Asked
<1>5. CASE ClientLooks
  <2>1. UNCHANGED down
    BY <1>5 DEF ClientLooks
  <2>2. ASSUME "askVersion" \in Kinds(cFrame), "askVersion" \notin Kinds(cFrame')
        PROVE  up' = Append(up, Packet("version"))
    <3>1. /\ cFrame # <<>>
          /\ Head(cFrame).kind = "askVersion" \/ "askVersion" \in Kinds(Passed(cFrame))
      BY <1>1, <2>2, KindPassed
    <3>2. onNetPacket(Head(cFrame))
      BY <1>5, <3>1 DEF ClientLooks
    <3>3. cFrame' = Passed(cFrame) /\ UniCases(Head(cFrame))
      BY <2>2, <3>2 DEF onNetPacket
    <3>4. Head(cFrame).kind = "askVersion"
      BY <2>2, <3>1, <3>3
    <3> QED BY <3>3, <3>4 DEF UniCases
  <2> QED BY <1>2, <2>1, <2>2 DEF Asked
<1> QED BY <1>2, <1>3, <1>4, <1>5 DEF netOnCli

(* What the games send goes behind what is under way. *)
LEMMA SendersLoseNone ==
  ASSUME PacketsInv, LinesInv, PlayerSends \/ ServerSends
  PROVE  (Asked => Asked') /\ (Answering => Answering')
<1>1. /\ up \in Seq(PlayerPacket) /\ down \in Seq(ClientPacket)
      /\ UNCHANGED <<sFrame, cFrame>>
  BY DEF PacketsInv, LinesInv, PlayerSends, ServerSends, serverVars, filterVars, clientVars
<1>2. CASE PlayerSends
  <2>1. UNCHANGED down /\ \E kind \in PlayerKinds : up' = Append(up, Packet(kind))
    BY <1>2 DEF PlayerSends
  <2>2. PICK kind \in PlayerKinds : up' = Append(up, Packet(kind))
    BY <2>1
  <2>3. Packet(kind) \in PlayerPacket
    BY PacketType, PacketsAssumption DEF PacketsAssumption, PlayerPacketKinds
  <2>4. \A k \in Kinds(up) : k \in Kinds(up')
    BY <1>1, <2>2, <2>3, KindAppended
  <2> QED BY <1>1, <2>1, <2>4 DEF Asked, Answering
<1>3. CASE ServerSends
  <2>1. UNCHANGED up /\ down' = Append(down, Packet("other"))
    BY <1>3 DEF ServerSends
  <2>2. Packet("other") \in ClientPacket
    BY ClientPacketType DEF ClientPacketKinds
  <2>3. \A k \in Kinds(down) : k \in Kinds(down')
    BY <1>1, <2>1, <2>2, KindAppended
  <2> QED BY <1>1, <2>1, <2>3 DEF Asked, Answering
<1> QED BY <1>2, <1>3

LEMMA VersionKept ==
  PacketsInv /\ LinesInv /\ AnswerInv /\ [PacketsNext]_packetVars
    => [VersionNotLost]_packetVars
<1> SUFFICES ASSUME PacketsInv, LinesInv, AnswerInv, PacketsNext,
                    present, present', Asked \/ Answering
             PROVE  Asked' \/ Answering' \/ clientsVersions' = Version \/ missed'
  BY DEF VersionNotLost
<1>1. CASE PlayerSends \/ ServerSends
  BY <1>1, SendersLoseNone
<1>2. CASE netOnServ /\ UNCHANGED clientVars
  BY <1>2, ServerLosesNone
<1>3. CASE Dialogue /\ UNCHANGED clientVars
  BY <1>3 DEF Dialogue, Asked, Answering, filterVars, clientVars, linkVars
<1>4. CASE netOnCli /\ UNCHANGED serverVars
  BY <1>4, ClientLosesNone
<1>5. ~onPlayerJoin /\ ~onPlayerLeave
  BY DEF onPlayerJoin, onPlayerLeave
<1> QED BY <1>1, <1>2, <1>3, <1>4, <1>5 DEF PacketsNext

(***************************************************************************)
(* What VersionLearned rests on, for frames of any length and any number   *)
(* of packets: the question for the client's version and the answer to it  *)
(* are in one of the connection's four places at any time, from the join   *)
(* until the version is known, has been missed behind a short input, or    *)
(* the player has left; neither filter, neither game and no frame's end    *)
(* loses them (netOnServ and netOnCli of src/libVer.cpp).                  *)
(***************************************************************************)
THEOREM VersionStaysUnderWay == PacketsSpec => [][VersionNotLost]_packetVars
<1> QED BY PacketsInitInv, PacketsStepInv, LinesInitInv, LinesStepInv, AnswerInitInv,
           AnswerStepInv, VersionKept, PTL DEF PacketsSpec

=============================================================================
