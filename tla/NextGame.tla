------------------------------- MODULE NextGame -------------------------------
(***************************************************************************)
(* Which game comes next (src/admin.cpp): Lua code asks for a game now     *)
(* (formGame) or after this round (formNextGame); when a round ends the    *)
(* game calls hooks to learn the next map, which is the one asked for or   *)
(* the next of the map cycle for the current mode.                         *)
(*                                                                         *)
(* The game is external.  As its two calls of onLoadMapCycle and the flag  *)
(* mapNextSameForced tell, it asks a second time when the answer is the    *)
(* map it is playing.  Everything runs on the game's thread: no Lua code   *)
(* runs between the first hook of a round's end and the last.              *)
(***************************************************************************)
EXTENDS Integers, FiniteSets, SequencesExt

CONSTANTS
  Maps,
  Loadable,    \* the maps mapLoadFromFile loads
  Modes,       \* the bits of 0x1FF0
  Available,   \* mapLoadFlags: the modes of each map
  Preference,  \* the modes the code tries for a map, in its order
  Chat,        \* mode 0x80
  CycleFile,   \* mapcycle.txt: the section of each mode
  Requests,    \* the tables Lua code passes to formGame and formNextGame
  NoMap, NoMode, NoRequest

Request == [map : Maps \cup {NoMap}, mode : Modes \cup {NoMode}, new : BOOLEAN, reload : BOOLEAN]

ASSUME NextGameAssumption ==
  /\ Loadable \subseteq Maps
  /\ Available \in [Maps -> SUBSET Modes]
  /\ Preference \in Seq(Modes)
  /\ Chat \in Modes
  /\ CycleFile \in [Modes -> Seq(Maps)]
  /\ Requests \subseteq Request
  /\ NoMap \notin Maps /\ NoMode \notin Modes /\ NoRequest \notin Request

VARIABLES
  gameMap, gameMode,        \* what the game plays: mapGetName, GameFlags
  cycleEnabled,             \* noxMapCycleEnabledCheck
  settings,                 \* ServerData: the map and mode to start
  formGameTable, needToFormGame,
  formNextGameTable, isNewGame,
  mapNextSameForced, nextMapOverride,
  mapCycleCurrentList, mapCycleLastModeId, mapCycleCurrentPosition,
  pc,                       \* "play", "ask", "again" (the game's calls), "load"
  answer,                   \* what onLoadMapCycle returned
  from,                     \* history: where the answer came from
  asked,                    \* history: the request this round's end has served
  listMode                  \* history: the mode the list was formed for

gameVars  == <<gameMap, gameMode, cycleEnabled>>
nowVars   == <<formGameTable, needToFormGame>>
forceVars == <<mapNextSameForced, nextMapOverride, isNewGame>>
cycleVars == <<mapCycleCurrentList, mapCycleLastModeId, mapCycleCurrentPosition, listMode>>
hostVars  == <<pc, answer, from, asked>>
nextGameVars ==
  <<gameVars, settings, nowVars, formNextGameTable, forceVars, cycleVars, hostVars>>

NextGameTypeOK ==
  /\ gameMap \in Loadable /\ gameMode \in Modes /\ cycleEnabled \in BOOLEAN
  /\ settings \in [map : Maps \cup {NoMap}, mode : Modes]
  /\ formGameTable \in Request \cup {NoRequest} /\ needToFormGame \in BOOLEAN
  /\ formNextGameTable \in Request \cup {NoRequest} /\ isNewGame \in BOOLEAN
  /\ mapNextSameForced \in BOOLEAN /\ nextMapOverride \in Maps \cup {NoMap}
  /\ mapCycleCurrentList \in Seq(Maps)
  /\ mapCycleLastModeId \in Modes /\ mapCycleCurrentPosition \in Nat
  /\ pc \in {"play", "ask", "again", "load"}
  /\ answer \in Maps \cup {NoMap}
  /\ from \in {"request", "forced", "list", "current", "override"}
  /\ asked \in Request \cup {NoRequest}
  /\ listMode \in Modes

(* The first server has started (onServerStart). *)
NextGameInit ==
  /\ gameMap \in Loadable /\ gameMode \in Modes /\ cycleEnabled \in BOOLEAN
  /\ settings = [map |-> gameMap, mode |-> gameMode]
  /\ formGameTable = NoRequest /\ needToFormGame = FALSE
  /\ formNextGameTable = NoRequest /\ isNewGame = FALSE
  /\ mapNextSameForced = FALSE /\ nextMapOverride = NoMap
  /\ mapCycleCurrentList = <<>>
  /\ mapCycleLastModeId = gameMode /\ mapCycleCurrentPosition = 0
  /\ pc = "play" /\ answer = NoMap /\ from = "current" /\ asked = NoRequest
  /\ listMode = gameMode

-----------------------------------------------------------------------------
(* The map cycle. *)

(* Mutant: maps of other modes are listed too. *)
FormAnyMode(mode) ==
  LET section == CycleFile[mode]
      fit     == {j \in 1 .. Len(section) : section[j] \in Loadable}
  IN  {[j \in DOMAIN kept |-> section[kept[j]]] :
         kept \in {k \in [1 .. Cardinality(fit) -> fit] :
                     \A i, j \in DOMAIN k : i < j => k[i] < k[j]}}

(* The one list that keeps, in their order, the maps of the mode's section *)
(* that load and can be played in it.                                      *)
mapCycleFormListMode(mode) ==
  LET section == CycleFile[mode]
      fit     == {j \in 1 .. Len(section) :
                    section[j] \in Loadable /\ mode \in Available[section[j]]}
  IN  {[j \in DOMAIN kept |-> section[kept[j]]] :
         kept \in {k \in [1 .. Cardinality(fit) -> fit] :
                     \A i, j \in DOMAIN k : i < j => k[i] < k[j]}}

(* The list is used up, or is the one of another mode. *)
Renew ==
  \/ gameMode # mapCycleLastModeId
  \/ Len(mapCycleCurrentList) <= mapCycleCurrentPosition + 1

(* Mutant: the position is not noted down. *)
NextUnmoved(map, source) ==
  \E list \in IF Renew THEN mapCycleFormListMode(gameMode) ELSE {mapCycleCurrentList} :
    LET nextPosition == IF Renew THEN 0 ELSE mapCycleCurrentPosition + 1
        found        == nextPosition < Len(list)
    IN  /\ mapCycleCurrentList' = list
        /\ mapCycleLastModeId' = gameMode
        /\ listMode' = IF Renew THEN gameMode ELSE listMode
        /\ mapCycleCurrentPosition' = IF found THEN 0 ELSE mapCycleCurrentPosition
        /\ map = IF found THEN list[nextPosition + 1] ELSE gameMap
        /\ source = IF found THEN "list" ELSE "current"

(* The next map: of the list, formed anew at its end or in another mode,   *)
(* or the current one when the list has none.                              *)
mapCycleNext(map, source) ==
  \E list \in IF Renew THEN mapCycleFormListMode(gameMode) ELSE {mapCycleCurrentList} :
    LET nextPosition == IF Renew THEN 0 ELSE mapCycleCurrentPosition + 1
        found        == nextPosition < Len(list)
    IN  /\ mapCycleCurrentList' = list
        /\ mapCycleLastModeId' = gameMode
        /\ listMode' = IF Renew THEN gameMode ELSE listMode
        /\ mapCycleCurrentPosition' = IF found THEN nextPosition ELSE mapCycleCurrentPosition
        /\ map = IF found THEN list[nextPosition + 1] ELSE gameMap
        /\ source = IF found THEN "list" ELSE "current"

-----------------------------------------------------------------------------
(* The mode for a request. *)

(* The current mode, or the first of the preference the map has. *)
BestMode(map) ==
  LET usable == {i \in DOMAIN Preference : Preference[i] \in Available[map]}
  IN  IF gameMode \in Available[map] \/ usable = {}
        THEN gameMode
        ELSE Preference[CHOOSE i \in usable : \A j \in usable : i <= j]

(* A mode can be asked for by name, except for chat. *)
ModeIsSet(req, map) ==
  req.mode \in Available[map] \cap (ToSet(Preference) \ {Chat})

(* Mutant: the mode asked for is taken whether the map has it or not. *)
ModeAsAsked(req, map) ==
  IF req.new THEN Chat
  ELSE IF req.mode # NoMode THEN req.mode
  ELSE BestMode(map)

ModeFor(req, map) ==
  IF req.new THEN Chat
  ELSE IF ModeIsSet(req, map) THEN req.mode
  ELSE BestMode(map)

MapFor(req) == IF req.map # NoMap THEN req.map ELSE gameMap

(* The settings as both requests leave them, for a map that loads or not. *)
SettingsFor(req) ==
  [map  |-> MapFor(req),
   mode |-> IF MapFor(req) \in Loadable THEN ModeFor(req, MapFor(req)) ELSE gameMode]

(* What makes the current map the one to be loaded again. *)
SameByMode(req) ==
  /\ MapFor(req) = gameMap
  /\ ModeIsSet(req, gameMap) \/ (req.new /\ Chat \in Available[gameMap])

-----------------------------------------------------------------------------
(* A game now. *)

(* The table replaces one that still waits. *)
formGame(req) ==
  /\ pc = "play"
  /\ formGameTable' = req
  /\ needToFormGame' = TRUE
  /\ UNCHANGED <<gameVars, settings, formNextGameTable, forceVars, cycleVars, hostVars>>

(* formGame{mapcycle = true}: the cycle moves on when it is asked. *)
formGameOfCycle(req) ==
  /\ pc = "play"
  /\ \E map \in Maps, source \in {"list", "current"} :
       /\ mapCycleNext(map, source)
       /\ formGameTable' = [req EXCEPT !.map = map]
  /\ needToFormGame' = TRUE
  /\ UNCHANGED <<gameVars, settings, formNextGameTable, forceVars, hostVars>>

(* consoleServerMapLoad and guiServerOptionsStartGameMB are the game's. *)
StartSettings == gameMap' = settings'.map /\ gameMode' = settings'.mode
ReloadMap     == gameMap' = settings'.map /\ gameMode' \in {gameMode, settings'.mode}

(* Called by OnGuiUpdate, which has reset needToFormGame. *)
doFormGame ==
  /\ pc = "play" /\ needToFormGame
  /\ needToFormGame' = FALSE
  /\ IF formGameTable = NoRequest THEN UNCHANGED <<gameVars, settings, formGameTable>>
     ELSE LET req     == formGameTable
              current == MapFor(req) = gameMap
              sameMap == (current /\ req.reload) \/ SameByMode(req)
          IN  /\ settings' = SettingsFor(req)
              /\ UNCHANGED cycleEnabled
              /\ IF MapFor(req) \notin Loadable
                   THEN UNCHANGED <<gameMap, gameMode, formGameTable>>
                   ELSE /\ formGameTable' = NoRequest
                        /\ IF sameMap THEN ReloadMap
                           ELSE IF req.new \/ ~current THEN StartSettings
                           ELSE UNCHANGED <<gameMap, gameMode>>
  /\ UNCHANGED <<formNextGameTable, forceVars, cycleVars, hostVars>>

-----------------------------------------------------------------------------
(* A game after this round. *)

formNextGame(req) ==
  /\ pc = "play"
  /\ formNextGameTable' = req
  /\ UNCHANGED <<gameVars, settings, nowVars, forceVars, cycleVars, hostVars>>

(* formNextGame{disable = true} *)
withdrawNextGame ==
  /\ pc = "play"
  /\ formNextGameTable' = NoRequest
  /\ UNCHANGED <<gameVars, settings, nowVars, forceVars, cycleVars, hostVars>>

(* Mutant: a request counts only where the cycle is on. *)
CheckOnlyCycle ==
  /\ pc = "play"
  /\ pc' = IF cycleEnabled THEN "ask" ELSE "play"
  /\ asked' = NoRequest
  /\ UNCHANGED <<gameVars, settings, nowVars, formNextGameTable, forceVars, cycleVars,
                 answer, from>>

(* The round ends: is there another map to ask for? *)
onMapCycleEnabledCheck ==
  /\ pc = "play"
  /\ pc' = IF formNextGameTable # NoRequest \/ cycleEnabled THEN "ask" ELSE "play"
  /\ asked' = NoRequest
  /\ UNCHANGED <<gameVars, settings, nowVars, formNextGameTable, forceVars, cycleVars,
                 answer, from>>

(* Mutant: the game is not told the same map twice. *)
ServeUnforced(req) ==
  /\ settings' = SettingsFor(req)
  /\ isNewGame' = (isNewGame \/ req.new)
  /\ formNextGameTable' = NoRequest
  /\ nextMapOverride' = MapFor(req)
  /\ answer' = MapFor(req) /\ from' = "request" /\ asked' = req
  /\ UNCHANGED <<mapNextSameForced, cycleVars>>

(* A request whose map loads. *)
ServeRequest(req) ==
  /\ settings' = SettingsFor(req)
  /\ isNewGame' = (isNewGame \/ req.new)
  /\ formNextGameTable' = NoRequest
  /\ nextMapOverride' = MapFor(req)
  /\ mapNextSameForced' = (req.map = gameMap \/ (req.map = NoMap /\ req.reload) \/ SameByMode(req))
  /\ answer' = MapFor(req) /\ from' = "request" /\ asked' = req
  /\ UNCHANGED cycleVars

(* Otherwise the cycle; where it is off, what was last answered. *)
AskCycle ==
  /\ IF cycleEnabled THEN mapCycleNext(answer', from')
     ELSE answer' = nextMapOverride /\ from' = "override" /\ UNCHANGED cycleVars
  /\ UNCHANGED <<forceVars, formNextGameTable, asked>>

(* Mutant: the flag outlives the second answer. *)
ForcedForEver ==
  /\ answer' = nextMapOverride /\ from' = "forced"
  /\ UNCHANGED <<settings, forceVars, formNextGameTable, cycleVars, asked>>

(* The flag of the first answer decides the second. *)
Forced ==
  /\ mapNextSameForced' = FALSE
  /\ answer' = nextMapOverride /\ from' = "forced"
  /\ UNCHANGED <<settings, isNewGame, nextMapOverride, formNextGameTable, cycleVars, asked>>

onLoadMapCycle ==
  /\ pc \in {"ask", "again"}
  /\ \/ mapNextSameForced /\ Forced
     \/ /\ ~mapNextSameForced
        /\ LET req == formNextGameTable
           IN  \/ req # NoRequest /\ MapFor(req) \in Loadable /\ ServeRequest(req)
               \/ /\ req # NoRequest /\ MapFor(req) \notin Loadable /\ AskCycle
                  /\ settings' = SettingsFor(req)
               \/ req = NoRequest /\ AskCycle /\ UNCHANGED settings
  /\ pc' = IF pc = "ask" /\ answer' = gameMap THEN "again" ELSE "load"
  /\ UNCHANGED <<gameVars, nowVars>>

(* The game loads the answer, or starts the settings of a new game.  An    *)
(* empty name is taken to leave it where it is.                            *)
onMapLoadName ==
  /\ pc = "load" /\ pc' = "play"
  /\ isNewGame' = FALSE
  /\ UNCHANGED settings
  /\ IF isNewGame THEN StartSettings
     ELSE /\ gameMap' = IF answer # NoMap THEN answer ELSE gameMap
          /\ gameMode' \in {gameMode, settings.mode}
  /\ answer' = NoMap /\ from' = "current" /\ asked' = NoRequest
  /\ UNCHANGED <<cycleEnabled, nowVars, formNextGameTable, mapNextSameForced, nextMapOverride,
                 cycleVars>>

-----------------------------------------------------------------------------
(* The administrator turns the cycle on or off, or starts a server. *)

ToggleCycle ==
  /\ pc = "play"
  /\ cycleEnabled' = ~cycleEnabled
  /\ UNCHANGED <<gameMap, gameMode, settings, nowVars, formNextGameTable, forceVars, cycleVars,
                 hostVars>>

onServerStart(map, mode) ==
  /\ pc = "play"
  /\ gameMap' = map /\ gameMode' = mode
  /\ settings' = [map |-> map, mode |-> mode]
  /\ mapCycleLastModeId' = mode /\ mapCycleCurrentPosition' = 0
  /\ UNCHANGED <<cycleEnabled, nowVars, formNextGameTable, forceVars, mapCycleCurrentList,
                 listMode, hostVars>>

RoundEnds == onMapCycleEnabledCheck \/ onLoadMapCycle \/ onMapLoadName

NextGameNext ==
  \/ \E req \in Requests : formGame(req) \/ formGameOfCycle(req) \/ formNextGame(req)
  \/ withdrawNextGame
  \/ doFormGame
  \/ RoundEnds
  \/ ToggleCycle
  \/ \E map \in Loadable, mode \in Modes : onServerStart(map, mode)

NextGameSpec == NextGameInit /\ [][NextGameNext]_nextGameVars

(* Rounds end, and the game then makes its calls. *)
NextGameFairSpec == NextGameSpec /\ WF_nextGameVars(RoundEnds)

-----------------------------------------------------------------------------
(***************************************************************************)
(* What the cycle names loads and can be played in the mode its list was   *)
(* formed for.                                                             *)
(***************************************************************************)
CycleMapsFit ==
  pc \in {"again", "load"} /\ from = "list" =>
    answer \in Loadable /\ listMode \in Available[answer]

(***************************************************************************)
(* Asked once or twice, the hooks end up naming the map that was asked     *)
(* for, and no request for a map leaves the choice to the cycle.           *)
(***************************************************************************)
RequestHonoured ==
  pc = "load" /\ asked # NoRequest /\ (asked.map # NoMap \/ asked.reload) =>
    answer = MapFor(asked)

(***************************************************************************)
(* The flags set by the first answer are spent when the round has ended:   *)
(* none decides the end of a later round.                                  *)
(***************************************************************************)
FlagsSpent ==
  /\ mapNextSameForced => pc = "again" /\ nextMapOverride = gameMap
  /\ isNewGame => pc \in {"again", "load"} /\ asked # NoRequest

(***************************************************************************)
(* The mode chosen for a map that was asked for is one it has, if it has   *)
(* any the code knows.  A new game is always a chat.                       *)
(***************************************************************************)
ModeFits ==
  pc = "load" /\ asked # NoRequest =>
    IF asked.new THEN settings.mode = Chat
    ELSE \/ settings.mode \in Available[settings.map]
         \/ Available[settings.map] \cap ToSet(Preference) = {}

NextGameInv == NextGameTypeOK /\ CycleMapsFit /\ RequestHonoured /\ FlagsSpent /\ ModeFits

(***************************************************************************)
(* A request for a map that loads is taken up in the end, cycle or not.    *)
(***************************************************************************)
RequestTaken ==
  \A req \in Requests :
    req.map \in Loadable => (formNextGameTable = req ~> formNextGameTable # req)

(***************************************************************************)
(* Once the cycle is left to itself, on and with nobody asking, it plays   *)
(* each of its maps again and again, whatever was asked for before.        *)
(***************************************************************************)
InCycle(map) == \E list \in mapCycleFormListMode(gameMode) : map \in ToSet(list)

CycleVisitsAll ==
  (<>[]cycleEnabled /\ <>[][RoundEnds]_nextGameVars) =>
    \A map \in Maps : []<>(InCycle(map) => gameMap = map)

(***************************************************************************)
(* The comment at admin.cpp 503: the list is formed anew for the current   *)
(* mode when it is used up or "the game mode has changed".  onServerStart  *)
(* notes the new mode down without forming the list.                       *)
(***************************************************************************)
CycleFollowsMode ==
  pc \in {"again", "load"} /\ from = "list" => listMode = gameMode
=============================================================================
