---------------------------- MODULE NextGameProofs ----------------------------
(***************************************************************************)
(* Proofs about NextGame for every set of maps, modes and requests, every  *)
(* map cycle and every preference of modes.                                *)
(***************************************************************************)
EXTENDS NextGame, WellFoundedInduction, FiniteSetTheorems, SequenceTheorems, TLAPS

(* Every map of the list loads, and has the mode it was formed for. *)
ListFits ==
  \A j \in 1 .. Len(mapCycleCurrentList) :
    /\ mapCycleCurrentList[j] \in Loadable
    /\ listMode \in Available[mapCycleCurrentList[j]]

(* A request that says which map is to be played. *)
NamesMap(req) == req # NoRequest /\ (req.map # NoMap \/ req.reload)

(***************************************************************************)
(* What links the calls the game makes at the end of a round: a request    *)
(* that was served is no longer in the table and has left its settings,    *)
(* and the second question is asked of a request that named the current    *)
(* map only with the flag set.                                             *)
(***************************************************************************)
RoundInv ==
  /\ nextMapOverride \in Loadable \cup {NoMap}
  /\ answer \in Loadable \cup {NoMap}
  /\ pc \in {"play", "ask"} => asked = NoRequest
  /\ asked # NoRequest =>
       /\ formNextGameTable = NoRequest
       /\ settings.map = MapFor(asked)
       /\ settings.map \in Loadable
       /\ settings.mode = ModeFor(asked, settings.map)
  /\ pc = "again" =>
       /\ answer = gameMap
       /\ formNextGameTable = NoRequest \/ MapFor(formNextGameTable) \notin Loadable
       /\ NamesMap(asked) => mapNextSameForced /\ MapFor(asked) = gameMap

NextGameIInv == NextGameInv /\ ListFits /\ RoundInv

-----------------------------------------------------------------------------
(* What the assumption says of maps, modes and requests. *)
LEMMA GameFacts ==
  /\ Loadable \subseteq Maps
  /\ \A map \in Maps : Available[map] \subseteq Modes
  /\ Preference \in Seq(Modes)
  /\ Chat \in Modes
  /\ \A mode \in Modes : CycleFile[mode] \in Seq(Maps)
  /\ Requests \subseteq Request
  /\ NoMap \notin Maps /\ NoMap \notin Loadable /\ NoRequest \notin Request
BY NextGameAssumption DEF NextGameAssumption

(* A preference that has usable modes has a first one. *)
LEMMA FirstUsable ==
  ASSUME NEW S \in SUBSET Nat, S # {}
  PROVE  \E i \in S : \A j \in S : i <= j
<1> DEFINE less == {ss \in Nat \X Nat : ss[1] < ss[2]}
<1>1. IsWellFoundedOn(less, Nat)
  <2>1. less = OpToRel(<, Nat)
    BY DEF OpToRel
  <2> HIDE DEF less
  <2> QED BY <2>1, NatLessThanWellFounded, Zenon
<1>2. PICK i \in S : \A j \in S : <<j, i>> \notin less
  <2> HIDE DEF less
  <2> QED BY <1>1, WFMin
<1>3. ASSUME NEW j \in S PROVE i <= j
  <2>1. i \in Nat /\ j \in Nat
    OBVIOUS
  <2>2. ASSUME j < i PROVE <<j, i>> \in less
    <3>1. <<j, i>> \in Nat \X Nat /\ <<j, i>>[1] = j /\ <<j, i>>[2] = i
      BY <2>1
    <3> QED BY <2>2, <3>1
  <2>3. ~(j < i)
    BY <1>2, <2>2
  <2> QED BY <2>1, <2>3
<1> QED BY <1>3

(* The mode found for a map is one it has, if it has any that is tried. *)
LEMMA BestModeFits ==
  ASSUME NEW map \in Maps, gameMode \in Modes
  PROVE  /\ BestMode(map) \in Modes
         /\ BestMode(map) \in Available[map] \/ Available[map] \cap ToSet(Preference) = {}
<1> DEFINE usable == {i \in DOMAIN Preference : Preference[i] \in Available[map]}
           best   == CHOOSE i \in usable : \A j \in usable : i <= j
<1>1. DOMAIN Preference = 1 .. Len(Preference) /\ Len(Preference) \in Nat
  BY GameFacts, LenProperties
<1>2. CASE gameMode \in Available[map]
  BY <1>2 DEF BestMode
<1>3. CASE gameMode \notin Available[map] /\ usable = {}
  <2>1. Available[map] \cap ToSet(Preference) = {}
    BY <1>3 DEF ToSet
  <2> QED BY <1>3, <2>1 DEF BestMode
<1>4. CASE gameMode \notin Available[map] /\ usable # {}
  <2>1. \E i \in usable : \A j \in usable : i <= j
    <3>1. usable \in SUBSET Nat
      BY <1>1
    <3> HIDE DEF usable
    <3> QED BY <1>4, <3>1, FirstUsable
  <2>2. best \in usable
    BY <2>1
  <2>3. BestMode(map) = Preference[best]
    BY <1>4 DEF BestMode
  <2>4. Preference[best] \in Available[map]
    BY <2>2
  <2> QED BY <2>3, <2>4, GameFacts
<1> QED BY <1>2, <1>3, <1>4

(* So is the mode chosen for a request, unless it is one for a new game. *)
LEMMA ModeForFits ==
  ASSUME NEW map \in Maps, gameMode \in Modes, NEW req \in Request
  PROVE  /\ ModeFor(req, map) \in Modes
         /\ req.new => ModeFor(req, map) = Chat
         /\ ~req.new => \/ ModeFor(req, map) \in Available[map]
                        \/ Available[map] \cap ToSet(Preference) = {}
<1>1. CASE req.new
  BY <1>1, GameFacts DEF ModeFor
<1>2. CASE ~req.new /\ ModeIsSet(req, map)
  BY <1>2, GameFacts DEF ModeFor, ModeIsSet
<1>3. CASE ~req.new /\ ~ModeIsSet(req, map)
  BY <1>3, BestModeFits DEF ModeFor
<1> QED BY <1>1, <1>2, <1>3

(* The list formed for a mode holds maps that fit it. *)
LEMMA FormedListFits ==
  ASSUME NEW mode \in Modes, NEW list \in mapCycleFormListMode(mode)
  PROVE  /\ list \in Seq(Maps)
         /\ \A j \in 1 .. Len(list) : list[j] \in Loadable /\ mode \in Available[list[j]]
<1> DEFINE section == CycleFile[mode]
           fit     == {j \in 1 .. Len(section) :
                         section[j] \in Loadable /\ mode \in Available[section[j]]}
<1>1. PICK kept \in [1 .. Cardinality(fit) -> fit] :
        list = [j \in DOMAIN kept |-> section[kept[j]]]
  BY DEF mapCycleFormListMode
<1>2. Cardinality(fit) \in Nat
  <2>1. section \in Seq(Maps)
    BY GameFacts
  <2>2. Len(section) \in Nat
    BY <2>1, LenProperties
  <2>3. IsFiniteSet(1 .. Len(section))
    BY <2>2, FS_Interval
  <2>4. IsFiniteSet(fit)
    BY <2>3, FS_Subset
  <2> QED BY <2>4, FS_CardinalityType
<1>3. \A j \in 1 .. Cardinality(fit) :
        list[j] \in Loadable /\ mode \in Available[list[j]]
  BY <1>1
<1>4. list \in [1 .. Cardinality(fit) -> Maps]
  BY <1>1, <1>3, GameFacts
<1>5. list \in Seq(Maps)
  BY <1>2, <1>4, SeqDef
<1>6. Len(list) = Cardinality(fit)
  BY <1>2, <1>4, <1>5, LenProperties
<1> QED BY <1>3, <1>5, <1>6

(* What the cycle answers. *)
LEMMA CycleNextFits ==
  ASSUME NextGameTypeOK, ListFits, NEW map, NEW source, mapCycleNext(map, source)
  PROVE  /\ mapCycleCurrentList' \in Seq(Maps)
         /\ mapCycleLastModeId' \in Modes
         /\ mapCycleCurrentPosition' \in Nat
         /\ listMode' \in Modes
         /\ ListFits'
         /\ map \in Loadable
         /\ source \in {"list", "current"}
         /\ source = "list" => listMode' \in Available[map]
<1>1. PICK list \in IF Renew THEN mapCycleFormListMode(gameMode) ELSE {mapCycleCurrentList} :
        LET nextPosition == IF Renew THEN 0 ELSE mapCycleCurrentPosition + 1
            found        == nextPosition < Len(list)
        IN  /\ mapCycleCurrentList' = list
            /\ mapCycleLastModeId' = gameMode
            /\ listMode' = IF Renew THEN gameMode ELSE listMode
            /\ mapCycleCurrentPosition' =
                 IF found THEN nextPosition ELSE mapCycleCurrentPosition
            /\ map = IF found THEN list[nextPosition + 1] ELSE gameMap
            /\ source = IF found THEN "list" ELSE "current"
  BY DEF mapCycleNext
<1>2. /\ list \in Seq(Maps)
      /\ \A j \in 1 .. Len(list) : list[j] \in Loadable /\ listMode' \in Available[list[j]]
  <2>1. CASE Renew
    BY <1>1, <2>1, FormedListFits DEF NextGameTypeOK
  <2>2. CASE ~Renew
    BY <1>1, <2>2 DEF NextGameTypeOK, ListFits
  <2> QED BY <2>1, <2>2
<1>3. ListFits'
  BY <1>1, <1>2 DEF ListFits
<1> DEFINE nextPosition == IF Renew THEN 0 ELSE mapCycleCurrentPosition + 1
<1>4. nextPosition \in Nat /\ Len(list) \in Nat
  BY <1>2, LenProperties DEF NextGameTypeOK
<1>5. CASE nextPosition < Len(list)
  <2>1. nextPosition + 1 \in 1 .. Len(list)
    BY <1>4, <1>5
  <2> QED BY <1>1, <1>2, <1>3, <1>4, <1>5, <2>1 DEF NextGameTypeOK
<1>6. CASE ~(nextPosition < Len(list))
  BY <1>1, <1>2, <1>3, <1>4, <1>6 DEF NextGameTypeOK
<1> QED BY <1>5, <1>6

(* The settings a request leaves. *)
LEMMA SettingsFit ==
  ASSUME NextGameTypeOK, NEW req \in Request
  PROVE  /\ MapFor(req) \in Maps
         /\ SettingsFor(req) \in [map : Maps \cup {NoMap}, mode : Modes]
         /\ SettingsFor(req).map = MapFor(req)
         /\ MapFor(req) \in Loadable => SettingsFor(req).mode = ModeFor(req, MapFor(req))
<1>1. MapFor(req) \in Maps
  BY GameFacts DEF MapFor, NextGameTypeOK, Request
<1>2. ModeFor(req, MapFor(req)) \in Modes /\ gameMode \in Modes
  BY <1>1, ModeForFits DEF NextGameTypeOK
<1> QED BY <1>1, <1>2 DEF SettingsFor

-----------------------------------------------------------------------------
(* What a step between rounds leaves alone of the calls at their end. *)
Between ==
  /\ pc = "play"
  /\ UNCHANGED <<forceVars, hostVars>>
  /\ mapCycleCurrentList' \in Seq(Maps) /\ mapCycleLastModeId' \in Modes
  /\ mapCycleCurrentPosition' \in Nat /\ listMode' \in Modes
  /\ ListFits'
  /\ gameMap' \in Loadable /\ gameMode' \in Modes /\ cycleEnabled' \in BOOLEAN
  /\ settings' \in [map : Maps \cup {NoMap}, mode : Modes]
  /\ formGameTable' \in Request \cup {NoRequest} /\ needToFormGame' \in BOOLEAN
  /\ formNextGameTable' \in Request \cup {NoRequest}

(* Between rounds no flag is set, and nothing is known of an answer. *)
LEMMA BetweenKeeps ==
  ASSUME NextGameIInv, Between
  PROVE  NextGameIInv'
<1>1. NextGameTypeOK'
  BY DEF Between, NextGameIInv, NextGameInv, NextGameTypeOK, forceVars, hostVars
<1>2. asked = NoRequest /\ ~mapNextSameForced /\ ~isNewGame
  BY DEF Between, NextGameIInv, NextGameInv, RoundInv, FlagsSpent, NextGameTypeOK
<1>3. RoundInv'
  BY <1>2 DEF Between, NextGameIInv, RoundInv, forceVars, hostVars
<1>4. CycleMapsFit' /\ RequestHonoured' /\ FlagsSpent' /\ ModeFits'
  BY <1>2 DEF Between, CycleMapsFit, RequestHonoured, FlagsSpent, ModeFits, forceVars, hostVars
<1> QED BY <1>1, <1>3, <1>4 DEF Between, NextGameIInv, NextGameInv

(* Requests, their withdrawal and the option only change what they name. *)
LEMMA AskKeeps ==
  ASSUME NextGameIInv,
         \/ \E req \in Requests : formGame(req) \/ formNextGame(req)
         \/ withdrawNextGame
         \/ ToggleCycle
  PROVE  NextGameIInv'
<1>1. NextGameTypeOK /\ ListFits
  BY DEF NextGameIInv, NextGameInv
<1>2. ListFits'
  BY <1>1 DEF formGame, formNextGame, withdrawNextGame, ToggleCycle, ListFits, cycleVars
<1>3. Between
  BY <1>1, <1>2, GameFacts
     DEF formGame, formNextGame, withdrawNextGame, ToggleCycle, Between, NextGameTypeOK,
         gameVars, nowVars, cycleVars
<1> QED BY <1>3, BetweenKeeps

(* formGame{mapcycle = true} puts a map that loads into the table. *)
LEMMA AskOfCycleKeeps ==
  ASSUME NextGameIInv, NEW req \in Requests, formGameOfCycle(req)
  PROVE  NextGameIInv'
<1>1. NextGameTypeOK /\ ListFits
  BY DEF NextGameIInv, NextGameInv
<1>2. PICK map \in Maps, source \in {"list", "current"} :
        /\ mapCycleNext(map, source)
        /\ formGameTable' = [req EXCEPT !.map = map]
  BY DEF formGameOfCycle
<1>3. /\ mapCycleCurrentList' \in Seq(Maps) /\ mapCycleLastModeId' \in Modes
      /\ mapCycleCurrentPosition' \in Nat /\ listMode' \in Modes
      /\ ListFits'
  BY <1>1, <1>2, CycleNextFits
<1>4. formGameTable' \in Request
  BY <1>2, GameFacts DEF Request
<1>5. /\ pc = "play" /\ needToFormGame' = TRUE
      /\ UNCHANGED <<gameVars, settings, formNextGameTable, forceVars, hostVars>>
  BY DEF formGameOfCycle
<1>6. Between
  BY <1>1, <1>3, <1>4, <1>5 DEF Between, NextGameTypeOK, gameVars
<1> QED BY <1>6, BetweenKeeps

(* A game is formed at once, from a request whose map loads. *)
LEMMA DoFormGameKeeps ==
  ASSUME NextGameIInv, doFormGame
  PROVE  NextGameIInv'
<1>1. NextGameTypeOK /\ ListFits
  BY DEF NextGameIInv, NextGameInv
<1>2. /\ pc = "play" /\ needToFormGame' = FALSE
      /\ UNCHANGED <<formNextGameTable, forceVars, cycleVars, hostVars>>
  BY DEF doFormGame
<1>3. ListFits'
  BY <1>1, <1>2 DEF ListFits, cycleVars
<1>4. CASE formGameTable = NoRequest
  <2>1. UNCHANGED <<gameVars, settings, formGameTable>>
    BY <1>4 DEF doFormGame
  <2>2. Between
    BY <1>1, <1>2, <1>3, <2>1 DEF Between, NextGameTypeOK, gameVars, cycleVars
  <2> QED BY <2>2, BetweenKeeps
<1>5. CASE formGameTable # NoRequest
  <2>1. formGameTable \in Request
    BY <1>1, <1>5 DEF NextGameTypeOK
  <2>2. settings' = SettingsFor(formGameTable) /\ UNCHANGED cycleEnabled
    BY <1>5 DEF doFormGame
  <2>3. /\ settings' \in [map : Maps \cup {NoMap}, mode : Modes]
        /\ settings'.map = MapFor(formGameTable)
        /\ settings'.mode \in Modes
    BY <1>1, <2>1, <2>2, SettingsFit
  <2>4. CASE MapFor(formGameTable) \notin Loadable
    <3>1. UNCHANGED <<gameMap, gameMode, formGameTable>>
      BY <1>5, <2>4 DEF doFormGame
    <3>2. Between
      BY <1>1, <1>2, <1>3, <2>2, <2>3, <3>1 DEF Between, NextGameTypeOK, cycleVars
    <3> QED BY <3>2, BetweenKeeps
  <2>5. CASE MapFor(formGameTable) \in Loadable
    <3>1. /\ formGameTable' = NoRequest
          /\ ReloadMap \/ StartSettings \/ UNCHANGED <<gameMap, gameMode>>
      BY <1>5, <2>5 DEF doFormGame
    <3>2. gameMap' \in Loadable /\ gameMode' \in Modes
      BY <1>1, <2>3, <2>5, <3>1 DEF ReloadMap, StartSettings, NextGameTypeOK
    <3>3. Between
      BY <1>1, <1>2, <1>3, <2>2, <2>3, <3>1, <3>2 DEF Between, NextGameTypeOK, cycleVars
    <3> QED BY <3>3, BetweenKeeps
  <2> QED BY <2>4, <2>5
<1> QED BY <1>4, <1>5

(* A server starts: the list of the server before stays as it was formed. *)
LEMMA StartKeeps ==
  ASSUME NextGameIInv, NEW map \in Loadable, NEW mode \in Modes, onServerStart(map, mode)
  PROVE  NextGameIInv'
<1>1. NextGameTypeOK /\ ListFits
  BY DEF NextGameIInv, NextGameInv
<1>2. ListFits'
  BY <1>1 DEF onServerStart, ListFits
<1>3. Between
  BY <1>1, <1>2, GameFacts DEF onServerStart, Between, NextGameTypeOK, nowVars
<1> QED BY <1>3, BetweenKeeps

-----------------------------------------------------------------------------
(* The settings a served request has left fit it. *)
LEMMA ServedFits == NextGameTypeOK /\ RoundInv => ModeFits
<1>1. SUFFICES ASSUME NextGameTypeOK, RoundInv, asked # NoRequest
               PROVE  IF asked.new THEN settings.mode = Chat
                      ELSE \/ settings.mode \in Available[settings.map]
                           \/ Available[settings.map] \cap ToSet(Preference) = {}
  BY DEF ModeFits
<1>2. asked \in Request /\ settings.map \in Maps /\ gameMode \in Modes
  BY <1>1, GameFacts DEF NextGameTypeOK, RoundInv
<1>3. settings.mode = ModeFor(asked, settings.map)
  BY <1>1 DEF RoundInv
<1> QED BY <1>2, <1>3, ModeForFits

(* The round ends, and no flag or request of an earlier one is left. *)
LEMMA CheckKeeps ==
  ASSUME NextGameIInv, onMapCycleEnabledCheck
  PROVE  NextGameIInv'
<1>1. NextGameTypeOK /\ ListFits /\ RoundInv /\ FlagsSpent
  BY DEF NextGameIInv, NextGameInv
<1>2. /\ pc = "play" /\ pc' \in {"ask", "play"} /\ asked' = NoRequest
      /\ UNCHANGED <<gameVars, settings, nowVars, formNextGameTable, forceVars, cycleVars,
                     answer, from>>
  BY DEF onMapCycleEnabledCheck
<1>3. NextGameTypeOK'
  BY <1>1, <1>2 DEF NextGameTypeOK, gameVars, nowVars, forceVars, cycleVars
<1>4. ListFits'
  BY <1>1, <1>2 DEF ListFits, cycleVars
<1>5. RoundInv'
  BY <1>1, <1>2 DEF RoundInv, forceVars
<1>6. CycleMapsFit' /\ RequestHonoured' /\ FlagsSpent' /\ ModeFits'
  BY <1>1, <1>2 DEF CycleMapsFit, RequestHonoured, FlagsSpent, ModeFits, forceVars
<1> QED BY <1>3, <1>4, <1>5, <1>6 DEF NextGameIInv, NextGameInv

(* The second answer is the first one's, because of its flag. *)
LEMMA ForcedKeeps ==
  ASSUME NextGameIInv, onLoadMapCycle, mapNextSameForced
  PROVE  NextGameIInv'
<1>1. NextGameTypeOK /\ ListFits /\ RoundInv /\ FlagsSpent
  BY DEF NextGameIInv, NextGameInv
<1>2. pc = "again" /\ nextMapOverride = gameMap /\ pc' = "load"
  BY <1>1 DEF FlagsSpent, onLoadMapCycle
<1>3. /\ mapNextSameForced' = FALSE /\ answer' = nextMapOverride /\ from' = "forced"
      /\ UNCHANGED <<settings, isNewGame, nextMapOverride, formNextGameTable, cycleVars, asked,
                     gameVars, nowVars>>
  BY DEF onLoadMapCycle, Forced
<1>4. NextGameTypeOK'
  BY <1>1, <1>2, <1>3 DEF NextGameTypeOK, gameVars, nowVars, cycleVars
<1>5. ListFits'
  BY <1>1, <1>3 DEF ListFits, cycleVars
<1>6. RoundInv'
  BY <1>1, <1>2, <1>3 DEF RoundInv, MapFor, ModeFor, ModeIsSet, BestMode, gameVars
<1>7. ModeFits'
  BY <1>4, <1>6, ServedFits, PTL
<1>8. CycleMapsFit' /\ FlagsSpent'
  BY <1>1, <1>2, <1>3 DEF CycleMapsFit, FlagsSpent
<1>9. RequestHonoured'
  BY <1>1, <1>2, <1>3 DEF RequestHonoured, RoundInv, NamesMap, MapFor, gameVars
<1> QED BY <1>4, <1>5, <1>6, <1>7, <1>8, <1>9 DEF NextGameIInv, NextGameInv

(* A request is served by the first answer only. *)
LEMMA ServeKeeps ==
  ASSUME NextGameIInv, onLoadMapCycle, ~mapNextSameForced,
         formNextGameTable # NoRequest, MapFor(formNextGameTable) \in Loadable
  PROVE  NextGameIInv'
<1> DEFINE req == formNextGameTable
<1>1. NextGameTypeOK /\ ListFits /\ RoundInv /\ FlagsSpent
  BY DEF NextGameIInv, NextGameInv
<1>2. pc = "ask"
  BY <1>1 DEF RoundInv, onLoadMapCycle
<1>3. ServeRequest(req) /\ UNCHANGED <<gameVars, nowVars>>
  BY DEF onLoadMapCycle
<1>4. pc' = IF MapFor(req) = gameMap THEN "again" ELSE "load"
  BY <1>2, <1>3 DEF onLoadMapCycle, ServeRequest
<1>5. /\ req \in Request /\ gameMap # NoMap
      /\ settings' \in [map : Maps \cup {NoMap}, mode : Modes]
      /\ settings'.map = MapFor(req)
      /\ settings'.mode = ModeFor(req, MapFor(req))
  BY <1>1, <1>3, SettingsFit, GameFacts DEF ServeRequest, NextGameTypeOK
<1>6. NextGameTypeOK'
  BY <1>1, <1>3, <1>4, <1>5, GameFacts
     DEF NextGameTypeOK, ServeRequest, gameVars, nowVars, cycleVars
<1>7. ListFits'
  BY <1>1, <1>3 DEF ListFits, ServeRequest, cycleVars
<1>8. /\ UNCHANGED <<gameMap, gameMode>> /\ asked' = req /\ answer' = MapFor(req)
      /\ formNextGameTable' = NoRequest /\ nextMapOverride' = MapFor(req)
      /\ mapNextSameForced' =
           (req.map = gameMap \/ (req.map = NoMap /\ req.reload) \/ SameByMode(req))
      /\ from' = "request" /\ isNewGame' = (isNewGame \/ req.new)
  BY <1>3 DEF ServeRequest, gameVars
<1>9. mapNextSameForced' => MapFor(req) = gameMap
  BY <1>5, <1>8 DEF MapFor, SameByMode
<1>10. MapFor(req) = gameMap /\ NamesMap(req) => mapNextSameForced'
  BY <1>5, <1>8 DEF MapFor, NamesMap
<1>11. MapFor(asked)' = MapFor(req)
  BY <1>8 DEF MapFor
<1>12. ModeFor(asked, settings.map)' = ModeFor(req, MapFor(req))
  BY <1>5, <1>8 DEF ModeFor, ModeIsSet, BestMode
<1>13. NamesMap(asked)' = NamesMap(req)
  BY <1>8 DEF NamesMap
<1>14. RoundInv'
  BY <1>4, <1>5, <1>8, <1>10, <1>11, <1>12, <1>13 DEF RoundInv
<1>15. ModeFits'
  BY <1>6, <1>14, ServedFits, PTL
<1>16. CycleMapsFit' /\ FlagsSpent' /\ RequestHonoured'
  BY <1>4, <1>5, <1>8, <1>9, <1>11, GameFacts
     DEF CycleMapsFit, FlagsSpent, RequestHonoured, Request
<1> QED BY <1>6, <1>7, <1>14, <1>15, <1>16 DEF NextGameIInv, NextGameInv

(* The cycle answers, or the last answer does where the cycle is off. *)
LEMMA CycleAnswers ==
  ASSUME NextGameIInv, AskCycle, UNCHANGED gameVars
  PROVE  /\ mapCycleCurrentList' \in Seq(Maps) /\ mapCycleLastModeId' \in Modes
         /\ mapCycleCurrentPosition' \in Nat /\ listMode' \in Modes
         /\ ListFits'
         /\ answer' \in Loadable \cup {NoMap}
         /\ from' \in {"list", "current", "override"}
         /\ from' = "list" => answer' \in Loadable /\ listMode' \in Available[answer']
<1>1. NextGameTypeOK /\ ListFits /\ RoundInv
  BY DEF NextGameIInv, NextGameInv
<1>2. CASE cycleEnabled
  <2>1. PICK map, source : map = answer' /\ source = from'
    OBVIOUS
  <2>2. mapCycleNext(map, source)
    BY <1>2, <2>1 DEF AskCycle, mapCycleNext
  <2>3. /\ mapCycleCurrentList' \in Seq(Maps) /\ mapCycleLastModeId' \in Modes
        /\ mapCycleCurrentPosition' \in Nat /\ listMode' \in Modes
        /\ ListFits' /\ map \in Loadable /\ source \in {"list", "current"}
        /\ source = "list" => listMode' \in Available[map]
    BY <1>1, <2>2, CycleNextFits
  <2> QED BY <2>1, <2>3
<1>3. CASE ~cycleEnabled
  <2>1. answer' = nextMapOverride /\ from' = "override" /\ UNCHANGED cycleVars
    BY <1>3 DEF AskCycle
  <2>2. ListFits'
    BY <1>1, <2>1 DEF ListFits, cycleVars
  <2> QED BY <1>1, <2>1, <2>2 DEF NextGameTypeOK, RoundInv, cycleVars
<1> QED BY <1>2, <1>3

(* The cycle is asked where no request can be served: such a request was   *)
(* not served before either, or it left the choice of the map open.        *)
LEMMA AskCycleKeeps ==
  ASSUME NextGameIInv, onLoadMapCycle, ~mapNextSameForced,
         formNextGameTable = NoRequest \/ MapFor(formNextGameTable) \notin Loadable
  PROVE  NextGameIInv'
<1>1. NextGameTypeOK /\ RoundInv /\ FlagsSpent
  BY DEF NextGameIInv, NextGameInv
<1>2. /\ AskCycle /\ UNCHANGED <<gameVars, nowVars>>
      /\ \/ formNextGameTable # NoRequest /\ settings' = SettingsFor(formNextGameTable)
         \/ formNextGameTable = NoRequest /\ UNCHANGED settings
  BY DEF onLoadMapCycle
<1>3. /\ pc \in {"ask", "again"}
      /\ pc' = IF pc = "ask" /\ answer' = gameMap THEN "again" ELSE "load"
      /\ UNCHANGED <<gameMap, gameMode, forceVars, formNextGameTable, asked>>
  BY <1>2 DEF onLoadMapCycle, AskCycle, gameVars
<1>4. /\ mapCycleCurrentList' \in Seq(Maps) /\ mapCycleLastModeId' \in Modes
      /\ mapCycleCurrentPosition' \in Nat /\ listMode' \in Modes
      /\ ListFits'
      /\ answer' \in Loadable \cup {NoMap}
      /\ from' \in {"list", "current", "override"}
      /\ from' = "list" => answer' \in Loadable /\ listMode' \in Available[answer']
  BY <1>2, CycleAnswers
<1>5. settings' \in [map : Maps \cup {NoMap}, mode : Modes]
  BY <1>1, <1>2, SettingsFit DEF NextGameTypeOK
<1>6. NextGameTypeOK'
  BY <1>1, <1>2, <1>3, <1>4, <1>5, GameFacts
     DEF NextGameTypeOK, gameVars, nowVars, forceVars
<1>7. asked # NoRequest => UNCHANGED settings
  BY <1>1, <1>2 DEF RoundInv
<1>8. asked # NoRequest => ~NamesMap(asked) /\ pc = "again"
  BY <1>1, <1>3 DEF RoundInv
<1>9. RoundInv'
  <2>1. MapFor(asked)' = MapFor(asked) /\ NamesMap(asked)' = NamesMap(asked)
        /\ MapFor(formNextGameTable)' = MapFor(formNextGameTable)
    BY <1>3 DEF MapFor, NamesMap
  <2>2. asked # NoRequest => ModeFor(asked, settings.map)' = ModeFor(asked, settings.map)
    BY <1>3, <1>7 DEF ModeFor, ModeIsSet, BestMode
  <2>3. nextMapOverride' = nextMapOverride
    BY <1>3 DEF forceVars
  <2> QED BY <1>1, <1>3, <1>4, <1>7, <1>8, <2>1, <2>2, <2>3 DEF RoundInv, NamesMap
<1>10. ModeFits'
  BY <1>6, <1>9, ServedFits, PTL
<1>11. CycleMapsFit'
  BY <1>4 DEF CycleMapsFit
<1>12. FlagsSpent'
  BY <1>1, <1>3 DEF FlagsSpent, forceVars, RoundInv
<1>13. RequestHonoured'
  BY <1>3, <1>8 DEF RequestHonoured, NamesMap
<1> QED BY <1>4, <1>6, <1>9, <1>10, <1>11, <1>12, <1>13 DEF NextGameIInv, NextGameInv

(* The game takes the answer, or starts the settings of a request. *)
LEMMA LoadNameKeeps ==
  ASSUME NextGameIInv, onMapLoadName
  PROVE  NextGameIInv'
<1>1. NextGameTypeOK /\ ListFits /\ RoundInv /\ FlagsSpent
  BY DEF NextGameIInv, NextGameInv
<1>2. /\ pc = "load" /\ pc' = "play" /\ isNewGame' = FALSE /\ asked' = NoRequest
      /\ answer' = NoMap /\ from' = "current"
      /\ UNCHANGED <<settings, cycleEnabled, nowVars, formNextGameTable, mapNextSameForced,
                     nextMapOverride, cycleVars>>
  BY DEF onMapLoadName
<1>3. gameMap' \in Loadable /\ gameMode' \in Modes
  <2>1. CASE isNewGame
    <3>1. StartSettings /\ asked # NoRequest
      BY <1>1, <2>1 DEF onMapLoadName, FlagsSpent
    <3> QED BY <1>1, <1>2, <3>1 DEF StartSettings, RoundInv, NextGameTypeOK
  <2>2. CASE ~isNewGame
    BY <1>1, <2>2 DEF onMapLoadName, RoundInv, NextGameTypeOK
  <2> QED BY <2>1, <2>2
<1>4. ~mapNextSameForced
  BY <1>1, <1>2 DEF FlagsSpent
<1>5. NextGameTypeOK'
  BY <1>1, <1>2, <1>3 DEF NextGameTypeOK, nowVars, cycleVars
<1>6. ListFits'
  BY <1>1, <1>2 DEF ListFits, cycleVars
<1>7. RoundInv'
  BY <1>1, <1>2 DEF RoundInv
<1>8. CycleMapsFit' /\ RequestHonoured' /\ FlagsSpent' /\ ModeFits'
  BY <1>2, <1>4 DEF CycleMapsFit, RequestHonoured, FlagsSpent, ModeFits
<1> QED BY <1>5, <1>6, <1>7, <1>8 DEF NextGameIInv, NextGameInv

-----------------------------------------------------------------------------
LEMMA InitKeeps == NextGameInit => NextGameIInv
<1> SUFFICES ASSUME NextGameInit PROVE NextGameIInv
  OBVIOUS
<1>1. NextGameTypeOK
  <2>1. gameMap \in Maps /\ gameMode \in Modes
    BY GameFacts DEF NextGameInit
  <2>2. settings \in [map : Maps \cup {NoMap}, mode : Modes]
    BY <2>1 DEF NextGameInit
  <2>3. mapCycleCurrentList \in Seq(Maps)
    BY EmptySeq DEF NextGameInit
  <2>4. mapCycleCurrentPosition \in Nat
    BY DEF NextGameInit
  <2> QED BY <2>1, <2>2, <2>3, <2>4, Zenon DEF NextGameInit, NextGameTypeOK
<1>2. ListFits /\ RoundInv
  BY DEF NextGameInit, ListFits, RoundInv
<1>3. CycleMapsFit /\ RequestHonoured /\ FlagsSpent /\ ModeFits
  BY DEF NextGameInit, CycleMapsFit, RequestHonoured, FlagsSpent, ModeFits
<1> QED BY <1>1, <1>2, <1>3 DEF NextGameIInv, NextGameInv

LEMMA StepKeeps == NextGameIInv /\ [NextGameNext]_nextGameVars => NextGameIInv'
<1> SUFFICES ASSUME NextGameIInv, [NextGameNext]_nextGameVars PROVE NextGameIInv'
  OBVIOUS
<1>1. ASSUME NEW req \in Requests, formGame(req) \/ formNextGame(req) PROVE NextGameIInv'
  BY <1>1, AskKeeps
<1>2. ASSUME NEW req \in Requests, formGameOfCycle(req) PROVE NextGameIInv'
  BY <1>2, AskOfCycleKeeps
<1>3. CASE withdrawNextGame \/ ToggleCycle
  BY <1>3, AskKeeps
<1>4. CASE doFormGame
  BY <1>4, DoFormGameKeeps
<1>5. CASE onMapCycleEnabledCheck
  BY <1>5, CheckKeeps
<1>6. CASE onLoadMapCycle
  BY <1>6, ForcedKeeps, ServeKeeps, AskCycleKeeps
<1>7. CASE onMapLoadName
  BY <1>7, LoadNameKeeps
<1>8. ASSUME NEW map \in Loadable, NEW mode \in Modes, onServerStart(map, mode)
      PROVE  NextGameIInv'
  BY <1>8, StartKeeps
<1>9. CASE UNCHANGED nextGameVars
  BY <1>9 DEF nextGameVars, gameVars, nowVars, forceVars, cycleVars, hostVars,
     NextGameIInv, NextGameInv, NextGameTypeOK, ListFits, RoundInv, CycleMapsFit, RequestHonoured,
     FlagsSpent, ModeFits, MapFor, NamesMap, ModeFor, ModeIsSet, BestMode
<1> QED BY <1>1, <1>2, <1>3, <1>4, <1>5, <1>6, <1>7, <1>8, <1>9 DEF NextGameNext, RoundEnds

(***************************************************************************)
(* Whatever is asked for, and wherever rounds end, the invariants the runs *)
(* check hold (formGame to onMapLoadName of src/admin.cpp).                *)
(***************************************************************************)
THEOREM NextGameInvariant == NextGameSpec => []NextGameInv
<1>1. NextGameIInv => NextGameInv
  BY DEF NextGameIInv
<1> QED BY <1>1, InitKeeps, StepKeeps, PTL DEF NextGameSpec

(* A request for a map is answered with it, once or twice asked, by        *)
(* onLoadMapCycle.                                                         *)
THEOREM AlwaysRequestHonoured == NextGameSpec => []RequestHonoured
<1>1. NextGameInv => RequestHonoured
  BY DEF NextGameInv
<1> QED BY <1>1, NextGameInvariant, PTL

(* mapCycleNext names maps that load and have the mode of their list. *)
THEOREM AlwaysCycleMapsFit == NextGameSpec => []CycleMapsFit
<1>1. NextGameInv => CycleMapsFit
  BY DEF NextGameInv
<1> QED BY <1>1, NextGameInvariant, PTL

(* No flag of onLoadMapCycle outlives the end of its round. *)
THEOREM AlwaysFlagsSpent == NextGameSpec => []FlagsSpent
<1>1. NextGameInv => FlagsSpent
  BY DEF NextGameInv
<1> QED BY <1>1, NextGameInvariant, PTL

(* A served request leaves a mode its map has, if the map has one that is  *)
(* tried.                                                                  *)
THEOREM AlwaysModeFits == NextGameSpec => []ModeFits
<1>1. NextGameInv => ModeFits
  BY DEF NextGameInv
<1> QED BY <1>1, NextGameInvariant, PTL

-----------------------------------------------------------------------------
(* The enumerations of a set of positions in their order: what keeps the   *)
(* maps of a section in the order of the file.                             *)
Rising(S) ==
  {f \in [1 .. Cardinality(S) -> S] : \A i, j \in DOMAIN f : i < j => f[i] < f[j]}

(* There is one: the least element first, then those of the others.        *)
LEMMA RisingExists ==
  ASSUME NEW S \in SUBSET Nat, IsFiniteSet(S)
  PROVE  Rising(S) # {}
<1> DEFINE Bad == {n \in Nat : \E T \in SUBSET Nat :
                     IsFiniteSet(T) /\ Cardinality(T) = n /\ Rising(T) = {}}
<1>1. SUFFICES ASSUME Bad # {} PROVE FALSE
  BY FS_CardinalityType
<1>2. PICK n \in Bad : \A k \in Bad : n <= k
  <2> HIDE DEF Bad
  <2>1. Bad \in SUBSET Nat
    BY DEF Bad
  <2> QED BY <1>1, <2>1, FirstUsable
<1>3. PICK T \in SUBSET Nat : IsFiniteSet(T) /\ Cardinality(T) = n /\ Rising(T) = {}
  BY <1>2
<1>4. n \in Nat
  BY <1>2
<1>5. n # 0
  <2>1. SUFFICES ASSUME n = 0 PROVE FALSE
    OBVIOUS
  <2>2. 1 .. Cardinality(T) = {}
    BY <1>3, <2>1
  <2>3. [i \in 1 .. Cardinality(T) |-> 0] \in Rising(T)
    BY <2>2 DEF Rising
  <2> QED BY <1>3, <2>3
<1>6. T # {}
  BY <1>3, <1>4, <1>5, FS_EmptySet
<1>7. PICK m \in T : \A j \in T : m <= j
  BY <1>6, FirstUsable
<1> DEFINE Others == T \ {m}
<1>8. IsFiniteSet(Others) /\ Cardinality(Others) = n - 1 /\ Others \in SUBSET Nat
  BY <1>3, <1>7, FS_RemoveElement
<1>9. Rising(Others) # {}
  <2>1. n - 1 \in Nat /\ ~(n <= n - 1)
    BY <1>4, <1>5
  <2>2. n - 1 \notin Bad
    BY <1>2, <2>1
  <2> QED BY <1>8, <2>1, <2>2
<1>10. PICK g \in [1 .. n - 1 -> Others] :
         \A i, j \in 1 .. n - 1 : i < j => g[i] < g[j]
  BY <1>8, <1>9 DEF Rising
<1> DEFINE f == [i \in 1 .. n |-> IF i = 1 THEN m ELSE g[i - 1]]
<1>11. ASSUME NEW i \in 1 .. n PROVE f[i] \in T /\ (i # 1 => f[i] = g[i - 1] /\ i - 1 \in 1 .. n - 1)
  <2>1. i # 1 => i - 1 \in 1 .. n - 1
    BY <1>4
  <2> QED BY <1>7, <1>10, <2>1
<1>12. ASSUME NEW i \in 1 .. n, NEW j \in 1 .. n, i < j PROVE f[i] < f[j]
  <2>1. j # 1 /\ j - 1 \in 1 .. n - 1 /\ f[j] = g[j - 1] /\ g[j - 1] \in Others
    BY <1>4, <1>10, <1>11, <1>12
  <2>2. CASE i = 1
    <3>1. f[i] = m /\ m \in Nat /\ g[j - 1] \in Nat /\ m <= g[j - 1] /\ m # g[j - 1]
      BY <1>7, <2>1, <2>2
    <3> QED BY <2>1, <3>1
  <2>3. CASE i # 1
    <3>1. i - 1 \in 1 .. n - 1 /\ f[i] = g[i - 1]
      BY <1>11, <2>3
    <3>2. i - 1 < j - 1
      BY <1>12
    <3> QED BY <1>10, <2>1, <3>1, <3>2
  <2> QED BY <2>2, <2>3
<1>13. f \in [1 .. n -> T] /\ DOMAIN f = 1 .. n
  BY <1>11
<1>14. f \in Rising(T)
  <2> HIDE DEF f
  <2> QED BY <1>3, <1>12, <1>13 DEF Rising
<1> QED BY <1>3, <1>14

(* It leaves no element out. *)
LEMMA RisingOnto ==
  ASSUME NEW S \in SUBSET Nat, IsFiniteSet(S), NEW f \in Rising(S), NEW s \in S
  PROVE  \E i \in 1 .. Cardinality(S) : f[i] = s
<1> DEFINE n == Cardinality(S)
<1>1. n \in Nat
  BY FS_CardinalityType
<1>2. f \in [1 .. n -> S] /\ \A i, j \in 1 .. n : i < j => f[i] < f[j]
  BY DEF Rising
<1>3. ASSUME NEW i \in 1 .. n, NEW j \in 1 .. n, f[i] = f[j] PROVE i = j
  <2>1. f[i] \in Nat /\ f[j] \in Nat
    BY <1>2
  <2>2. ~(i < j) /\ ~(j < i)
    BY <1>2, <1>3, <2>1
  <2> QED BY <1>1, <2>2
<1>4. f \in Injection(1 .. n, S)
  BY <1>2, <1>3 DEF Injection, IsInjective
<1>5. Cardinality(1 .. n) = n
  BY <1>1, FS_Interval
<1>6. f \in Surjection(1 .. n, S)
  BY <1>4, <1>5, FS_Injection
<1> QED BY <1>6 DEF Surjection

(* Two of them do not part: neither passes over what the other takes.      *)
LEMMA RisingBelow ==
  ASSUME NEW S \in SUBSET Nat, IsFiniteSet(S), NEW f \in Rising(S), NEW g \in Rising(S),
         NEW i \in 1 .. Cardinality(S),
         \A j \in 1 .. Cardinality(S) : j < i => f[j] = g[j]
  PROVE  ~(f[i] < g[i])
<1> DEFINE n == Cardinality(S)
<1>1. n \in Nat
  BY FS_CardinalityType
<1>2. f \in [1 .. n -> S] /\ \A k, j \in 1 .. n : k < j => f[k] < f[j]
  BY DEF Rising
<1>3. g \in [1 .. n -> S] /\ \A k, j \in 1 .. n : k < j => g[k] < g[j]
  BY DEF Rising
<1>4. PICK j \in 1 .. n : g[j] = f[i]
  BY <1>2, RisingOnto
<1>5. f[i] \in Nat /\ g[i] \in Nat /\ i \in Nat /\ j \in Nat
  <2>1. i \in 1 .. n
    OBVIOUS
  <2>2. f[i] \in S /\ g[i] \in S
    BY <1>2, <1>3, <2>1
  <2>3. i \in Nat /\ j \in Nat
    <3> HIDE DEF n
    <3> QED BY <1>1, <2>1
  <2> QED BY <2>2, <2>3
<1>6. CASE j < i
  BY <1>2, <1>4, <1>5, <1>6
<1>7. CASE i < j
  BY <1>3, <1>4, <1>5, <1>7
<1>8. CASE i = j
  BY <1>4, <1>5, <1>8
<1> QED BY <1>5, <1>6, <1>7, <1>8

LEMMA RisingUnique ==
  ASSUME NEW S \in SUBSET Nat, IsFiniteSet(S), NEW f \in Rising(S), NEW g \in Rising(S)
  PROVE  f = g
<1> DEFINE n == Cardinality(S)
           Differ == {i \in 1 .. n : f[i] # g[i]}
<1>1. n \in Nat
  BY FS_CardinalityType
<1>2. f \in [1 .. n -> S] /\ g \in [1 .. n -> S]
  BY DEF Rising
<1>3. Differ = {}
  <2>1. SUFFICES ASSUME Differ # {} PROVE FALSE
    OBVIOUS
  <2>2. Differ \in SUBSET Nat
    BY <1>1
  <2>3. PICK i \in Differ : \A j \in Differ : i <= j
    <3> HIDE DEF Differ
    <3> QED BY <2>1, <2>2, FirstUsable
  <2>4. i \in 1 .. n /\ f[i] # g[i]
    BY <2>3
  <2>5. \A j \in 1 .. n : j < i => f[j] = g[j] /\ g[j] = f[j]
    BY <1>1, <2>3, <2>4
  <2>6. ~(f[i] < g[i]) /\ ~(g[i] < f[i])
    <3> HIDE DEF n
    <3> QED BY <2>4, <2>5, RisingBelow DEF n
  <2>7. f[i] \in Nat /\ g[i] \in Nat
    BY <1>2, <2>4
  <2> QED BY <2>4, <2>6, <2>7
<1>4. \A i \in 1 .. n : f[i] = g[i]
  BY <1>3
<1>5. f = [i \in 1 .. n |-> f[i]] /\ g = [i \in 1 .. n |-> g[i]]
  BY <1>2
<1>6. [i \in 1 .. n |-> f[i]] = [i \in 1 .. n |-> g[i]]
  BY <1>4
<1> QED BY <1>5, <1>6, Zenon

(***************************************************************************)
(* A mode has one list, and on it is every map of its section that loads   *)
(* and can be played in it, and no other: mapCycleFormListMode chooses     *)
(* nothing and leaves nothing out.                                         *)
(***************************************************************************)
THEOREM ListOfMode ==
  \A mode \in Modes : \E list \in Seq(Maps) :
    /\ mapCycleFormListMode(mode) = {list}
    /\ ToSet(list) = {map \in ToSet(CycleFile[mode]) :
                        map \in Loadable /\ mode \in Available[map]}
<1> SUFFICES ASSUME NEW mode \in Modes
             PROVE  \E list \in Seq(Maps) :
                      /\ mapCycleFormListMode(mode) = {list}
                      /\ ToSet(list) = {map \in ToSet(CycleFile[mode]) :
                                          map \in Loadable /\ mode \in Available[map]}
  OBVIOUS
<1> DEFINE section == CycleFile[mode]
           fit     == {j \in 1 .. Len(section) :
                         section[j] \in Loadable /\ mode \in Available[section[j]]}
<1>1. section \in Seq(Maps) /\ Len(section) \in Nat /\ DOMAIN section = 1 .. Len(section)
  BY GameFacts, LenProperties
<1>2. IsFiniteSet(fit) /\ fit \in SUBSET Nat
  <2>1. IsFiniteSet(1 .. Len(section))
    BY <1>1, FS_Interval
  <2>2. fit \in SUBSET (1 .. Len(section)) /\ fit \in SUBSET Nat
    BY <1>1
  <2> HIDE DEF fit
  <2> QED BY <2>1, <2>2, FS_Subset
<1>3. PICK kept \in Rising(fit) : TRUE
  <2> HIDE DEF fit
  <2> QED BY <1>2, RisingExists
<1> DEFINE list == [j \in DOMAIN kept |-> section[kept[j]]]
<1>4. mapCycleFormListMode(mode) = {[j \in DOMAIN k |-> section[k[j]]] : k \in Rising(fit)}
  BY DEF mapCycleFormListMode, Rising
<1>5. Rising(fit) = {kept}
  <2> HIDE DEF fit
  <2> QED BY <1>2, <1>3, RisingUnique
<1>6. mapCycleFormListMode(mode) = {list}
  <2> HIDE DEF fit, section
  <2> QED BY <1>4, <1>5
<1>7. list \in Seq(Maps)
  <2> HIDE DEF list
  <2> QED BY <1>6, FormedListFits
<1>8. kept \in [1 .. Cardinality(fit) -> fit] /\ DOMAIN list = 1 .. Cardinality(fit)
  BY <1>3 DEF Rising
<1>9. ASSUME NEW map \in ToSet(list)
      PROVE  map \in ToSet(section) /\ map \in Loadable /\ mode \in Available[map]
  <2>1. PICK j \in 1 .. Cardinality(fit) : map = section[kept[j]]
    BY <1>8, <1>9 DEF ToSet
  <2>2. kept[j] \in fit
    BY <1>8
  <2> QED BY <1>1, <2>1, <2>2 DEF ToSet
<1>10. ASSUME NEW map \in ToSet(section), map \in Loadable, mode \in Available[map]
       PROVE  map \in ToSet(list)
  <2>1. PICK p \in 1 .. Len(section) : map = section[p]
    BY <1>1 DEF ToSet
  <2>2. p \in fit
    BY <1>10, <2>1
  <2>3. PICK i \in 1 .. Cardinality(fit) : kept[i] = p
    <3> HIDE DEF fit
    <3> QED BY <1>2, <1>3, <2>2, RisingOnto
  <2> QED BY <1>8, <2>1, <2>3 DEF ToSet
<1>11. ToSet(list) = {map \in ToSet(section) : map \in Loadable /\ mode \in Available[map]}
  <2> HIDE DEF list, section
  <2> QED BY <1>9, <1>10
<1> QED BY <1>6, <1>7, <1>11

-----------------------------------------------------------------------------
(* When a round's end comes to loading, no request it could have served is *)
(* left in the table.                                                      *)
NoneLeft ==
  pc = "load" => formNextGameTable = NoRequest \/ MapFor(formNextGameTable) \notin Loadable

(* A request for a map that loads is asked for at the end of the round and *)
(* taken with the first answer, and nothing comes in between.              *)
RequestGetsNearer ==
  /\ pc # "play" => RoundEnds
  /\ \A req \in Requests : req.map \in Loadable /\ formNextGameTable = req /\ RoundEnds =>
       \/ pc = "play" /\ pc' = "ask" /\ formNextGameTable' = req
       \/ pc = "ask" /\ formNextGameTable' = NoRequest

LEMMA NoneLeftStep ==
  ASSUME NextGameIInv, NoneLeft, [NextGameNext]_nextGameVars
  PROVE  NoneLeft'
<1>1. FlagsSpent /\ RoundInv
  BY DEF NextGameIInv, NextGameInv
<1>2. SUFFICES ASSUME pc' = "load"
               PROVE  \/ formNextGameTable' = NoRequest
                      \/ MapFor(formNextGameTable)' \notin Loadable
  BY DEF NoneLeft
<1>3. CASE onLoadMapCycle
  <2>1. UNCHANGED gameMap /\ pc \in {"ask", "again"}
    BY <1>3 DEF onLoadMapCycle, gameVars
  <2>2. ASSUME UNCHANGED formNextGameTable PROVE MapFor(formNextGameTable)' = MapFor(formNextGameTable)
    BY <2>1, <2>2 DEF MapFor
  <2>3. CASE mapNextSameForced
    BY <1>1, <1>3, <2>2, <2>3 DEF onLoadMapCycle, Forced, FlagsSpent, RoundInv
  <2>4. CASE ~mapNextSameForced
    BY <1>3, <2>2, <2>4 DEF onLoadMapCycle, ServeRequest, AskCycle
  <2> QED BY <2>3, <2>4
<1>4. CASE ~onLoadMapCycle
  <2>1. UNCHANGED nextGameVars
    BY <1>2, <1>4 DEF NextGameNext, RoundEnds, formGame, formGameOfCycle, formNextGame,
       withdrawNextGame, doFormGame, onMapCycleEnabledCheck, onMapLoadName, ToggleCycle,
       onServerStart, hostVars
  <2> QED BY <1>2, <2>1 DEF NoneLeft, nextGameVars, hostVars, gameVars, MapFor
<1> QED BY <1>3, <1>4

LEMMA RequestStep ==
  ASSUME NextGameIInv, NoneLeft, NextGameNext
  PROVE  RequestGetsNearer
<1>1. FlagsSpent /\ RoundInv
  BY DEF NextGameIInv, NextGameInv
<1>2. pc # "play" => RoundEnds
  BY DEF NextGameNext, formGame, formGameOfCycle, formNextGame, withdrawNextGame, doFormGame,
         ToggleCycle, onServerStart
<1>3. ASSUME NEW req \in Requests, req.map \in Loadable, formNextGameTable = req, RoundEnds
      PROVE  \/ pc = "play" /\ pc' = "ask" /\ formNextGameTable' = req
             \/ pc = "ask" /\ formNextGameTable' = NoRequest
  <2>1. formNextGameTable # NoRequest /\ MapFor(formNextGameTable) \in Loadable
    BY <1>3, NextGameAssumption DEF NextGameAssumption, MapFor
  <2>2. CASE onMapCycleEnabledCheck
    BY <1>3, <2>1, <2>2 DEF onMapCycleEnabledCheck
  <2>3. CASE onLoadMapCycle
    BY <1>1, <2>1, <2>3 DEF onLoadMapCycle, FlagsSpent, RoundInv, ServeRequest
  <2>4. CASE onMapLoadName
    BY <2>1, <2>4 DEF onMapLoadName, NoneLeft
  <2> QED BY <1>3, <2>2, <2>3, <2>4 DEF RoundEnds
<1> QED BY <1>2, <1>3 DEF RequestGetsNearer

(***************************************************************************)
(* Two steps of a round's end take up a request for a map that loads, the  *)
(* cycle on or off and whatever was asked for before: no Lua code runs     *)
(* between them, and no flag left over answers in its place.               *)
(***************************************************************************)
THEOREM RequestsProgress == NextGameSpec => [][RequestGetsNearer]_nextGameVars
<1>1. NextGameInit => NoneLeft
  BY DEF NextGameInit, NoneLeft
<1>2. NextGameIInv /\ NoneLeft /\ [NextGameNext]_nextGameVars =>
        NoneLeft' /\ [RequestGetsNearer]_nextGameVars
  BY NoneLeftStep, RequestStep
<1> QED BY <1>1, <1>2, InitKeeps, StepKeeps, PTL DEF NextGameSpec

-----------------------------------------------------------------------------
(***************************************************************************)
(* How many answers of the cycle a map of the current mode's list is away: *)
(* the rest of the list in use, which may be an old one, and its place in  *)
(* the one that is formed then; unless it is still to come in this one.    *)
(***************************************************************************)
Formed == CHOOSE list \in mapCycleFormListMode(gameMode) : TRUE

LeftOfList ==
  IF Renew THEN 0 ELSE Len(mapCycleCurrentList) - (mapCycleCurrentPosition + 1)

Turns(j) ==
  IF ~Renew /\ mapCycleCurrentList = Formed /\ j > mapCycleCurrentPosition + 1
    THEN j - (mapCycleCurrentPosition + 1)
    ELSE LeftOfList + j

TurnsCounted == \A j \in 1 .. Len(Formed) : Turns(j) \in Nat

(* The cycle is asked, and answers with the j-th map of the list. *)
AsksCycle ==
  /\ onLoadMapCycle /\ cycleEnabled /\ ~mapNextSameForced
  /\ formNextGameTable = NoRequest \/ MapFor(formNextGameTable) \notin Loadable

Names(j) == AsksCycle /\ from' = "list" /\ answer' = Formed[j]

(* As long as rounds end in the same mode, each answer brings every map    *)
(* nearer or is that map, nothing else puts one back, and the map named is *)
(* the one that is played or will be loaded next.                          *)
CycleGetsNearer ==
  RoundEnds /\ gameMode' = gameMode =>
    \A j \in 1 .. Len(Formed) :
      /\ Turns(j)' <= Turns(j) \/ Names(j)
      /\ AsksCycle => Turns(j)' < Turns(j) \/ Names(j)
      /\ Names(j) /\ asked = NoRequest =>
           gameMap = Formed[j] \/ (pc' = "load" /\ ~isNewGame')

LEMMA FormedList ==
  ASSUME gameMode \in Modes
  PROVE  /\ mapCycleFormListMode(gameMode) = {Formed}
         /\ Formed \in Seq(Maps) /\ Len(Formed) \in Nat
<1>1. PICK list \in Seq(Maps) : mapCycleFormListMode(gameMode) = {list}
  BY ListOfMode
<1>2. Formed = list
  BY <1>1 DEF Formed
<1> QED BY <1>1, <1>2, LenProperties

LEMMA TurnsAreCounted == NextGameTypeOK => TurnsCounted
<1> SUFFICES ASSUME NextGameTypeOK, NEW j \in 1 .. Len(Formed) PROVE Turns(j) \in Nat
  BY DEF TurnsCounted
<1>1. /\ Len(Formed) \in Nat /\ mapCycleCurrentPosition \in Nat
      /\ Len(mapCycleCurrentList) \in Nat
  BY FormedList, LenProperties DEF NextGameTypeOK
<1>2. LeftOfList \in Nat
  BY <1>1 DEF LeftOfList, Renew
<1> QED BY <1>1, <1>2 DEF Turns

(* The cycle goes on in the list it has. *)
LEMMA TurnsGoOn ==
  ASSUME NextGameTypeOK, gameMode' = gameMode, ~Renew,
         mapCycleNext(answer', from'), NEW j \in 1 .. Len(Formed)
  PROVE  Turns(j)' < Turns(j) \/ (from' = "list" /\ answer' = Formed[j])
<1> DEFINE pos == mapCycleCurrentPosition
           len == Len(mapCycleCurrentList)
<1>1. Len(Formed) \in Nat /\ pos \in Nat /\ len \in Nat /\ pos + 1 < len
  BY FormedList, LenProperties DEF NextGameTypeOK, Renew
<1>2. /\ mapCycleCurrentList' = mapCycleCurrentList /\ mapCycleLastModeId' = gameMode
      /\ mapCycleCurrentPosition' = pos + 1
      /\ from' = "list" /\ answer' = mapCycleCurrentList[pos + 2]
  <2>1. (pos + 1) + 1 = pos + 2
    BY <1>1
  <2> QED BY <1>1, <2>1 DEF mapCycleNext
<1>3. Formed' = Formed
  BY DEF Formed, mapCycleFormListMode
<1>4. Renew' <=> len <= pos + 2
  BY <1>1, <1>2 DEF Renew
<1>5. /\ LeftOfList = len - (pos + 1)
      /\ LeftOfList' = IF len <= pos + 2 THEN 0 ELSE len - (pos + 2)
  BY <1>1, <1>2, <1>4 DEF LeftOfList
<1>6. /\ Turns(j) = IF mapCycleCurrentList = Formed /\ j > pos + 1
                      THEN j - (pos + 1) ELSE len - (pos + 1) + j
      /\ Turns(j)' = IF ~ (len <= pos + 2) /\ mapCycleCurrentList = Formed /\ j > pos + 2
                       THEN j - (pos + 2) ELSE LeftOfList' + j
  <2>1. (pos + 1) + 1 = pos + 2
    BY <1>1
  <2> QED BY <1>2, <1>3, <1>4, <1>5, <2>1 DEF Turns
<1>7. CASE mapCycleCurrentList = Formed /\ j > pos + 1
  <2>1. CASE j = pos + 2
    BY <1>2, <1>7, <2>1
  <2>2. CASE j # pos + 2
    <3>1. j > pos + 2 /\ j <= len
      BY <1>1, <1>7, <2>2
    <3> HIDE DEF pos, len
    <3> QED BY <1>1, <1>6, <1>7, <3>1
  <2> QED BY <2>1, <2>2
<1>8. CASE ~ (mapCycleCurrentList = Formed /\ j > pos + 1)
  <2>1. Turns(j) = len - (pos + 1) + j /\ Turns(j)' = LeftOfList' + j
    BY <1>1, <1>6, <1>8
  <2>2. LeftOfList' < len - (pos + 1) /\ LeftOfList' \in Int
    BY <1>1, <1>5
  <2> DEFINE new == LeftOfList'
             old == len - (pos + 1)
  <2>3. new \in Int /\ old \in Int /\ new < old /\ j \in Int
    BY <1>1, <2>2
  <2> HIDE DEF new, old
  <2>4. new + j < old + j
    BY <2>3
  <2> QED BY <2>1, <2>4 DEF new, old
<1> QED BY <1>7, <1>8

(* The cycle begins with a list formed anew. *)
LEMMA TurnsBegin ==
  ASSUME NextGameTypeOK, gameMode' = gameMode, Renew,
         mapCycleNext(answer', from'), NEW j \in 1 .. Len(Formed)
  PROVE  Turns(j)' < Turns(j) \/ (from' = "list" /\ answer' = Formed[j])
<1>1. /\ mapCycleFormListMode(gameMode) = {Formed}
      /\ Formed \in Seq(Maps) /\ Len(Formed) \in Nat /\ 0 < Len(Formed)
  BY FormedList DEF NextGameTypeOK
<1>2. /\ mapCycleCurrentList' = Formed /\ mapCycleLastModeId' = gameMode
      /\ mapCycleCurrentPosition' = 0
      /\ from' = "list" /\ answer' = Formed[1]
  <2>1. 0 + 1 = 1
    OBVIOUS
  <2> QED BY <1>1, <2>1 DEF mapCycleNext
<1>3. Formed' = Formed
  BY DEF Formed, mapCycleFormListMode
<1>4. Renew' <=> Len(Formed) <= 1
  BY <1>2 DEF Renew
<1>5. Turns(j) = j
  BY DEF Turns, LeftOfList
<1>6. CASE j = 1
  BY <1>2, <1>6
<1>7. CASE j # 1
  <2>1. j > 0 + 1 /\ ~ (Len(Formed) <= 1)
    BY <1>1, <1>7
  <2>2. Turns(j)' = j - (0 + 1)
    BY <1>2, <1>3, <1>4, <2>1 DEF Turns
  <2> QED BY <1>1, <1>5, <2>2
<1> QED BY <1>6, <1>7

LEMMA TurnsStep ==
  ASSUME NextGameIInv, RoundEnds, gameMode' = gameMode, NEW j \in 1 .. Len(Formed)
  PROVE  /\ Turns(j)' <= Turns(j) \/ Names(j)
         /\ AsksCycle => Turns(j)' < Turns(j) \/ Names(j)
         /\ Names(j) /\ asked = NoRequest =>
              gameMap = Formed[j] \/ (pc' = "load" /\ ~isNewGame')
<1>1. NextGameTypeOK /\ FlagsSpent
  BY DEF NextGameIInv, NextGameInv
<1>2. Turns(j) \in Nat
  BY <1>1, TurnsAreCounted DEF TurnsCounted
<1>3. AsksCycle => mapCycleNext(answer', from') /\ UNCHANGED isNewGame
  BY DEF AsksCycle, onLoadMapCycle, AskCycle, forceVars
<1>4. AsksCycle => Turns(j)' < Turns(j) \/ Names(j)
  BY <1>1, <1>3, TurnsGoOn, TurnsBegin DEF Names
<1>5. ~AsksCycle => Turns(j)' = Turns(j)
  <2> SUFFICES ASSUME ~AsksCycle PROVE Turns(j)' = Turns(j)
    OBVIOUS
  <2>1. UNCHANGED cycleVars
    BY DEF AsksCycle, RoundEnds, onMapCycleEnabledCheck, onMapLoadName, onLoadMapCycle,
           ServeRequest, AskCycle, Forced
  <2>2. Formed' = Formed
    BY DEF Formed, mapCycleFormListMode
  <2> QED BY <2>1, <2>2 DEF Turns, LeftOfList, Renew, cycleVars
<1>6. AsksCycle => Turns(j)' \in Int
  <2> SUFFICES ASSUME AsksCycle PROVE Turns(j)' \in Int
    OBVIOUS
  <2>1. Len(Formed) \in Nat /\ Formed' = Formed
    BY <1>1, FormedList DEF Formed, mapCycleFormListMode, NextGameTypeOK
  <2>2. NextGameTypeOK'
    BY StepKeeps DEF NextGameNext, NextGameIInv, NextGameInv
  <2>3. TurnsCounted'
    BY <2>2, TurnsAreCounted, PTL
  <2> QED BY <2>1, <2>3 DEF TurnsCounted
<1>7. Names(j) /\ asked = NoRequest => gameMap = Formed[j] \/ (pc' = "load" /\ ~isNewGame')
  BY <1>1, <1>3 DEF Names, AsksCycle, onLoadMapCycle, FlagsSpent
<1>8. Turns(j)' <= Turns(j) \/ Names(j)
  BY <1>2, <1>4, <1>5, <1>6
<1> QED BY <1>4, <1>7, <1>8

(***************************************************************************)
(* What CycleVisitsAll rests on, for every map cycle: whatever list is in  *)
(* use, of an older mode too, and wherever a server start or formGame has  *)
(* left the position, each answer of the cycle brings every map of the     *)
(* mode nearer or is that map, and the map that is named is played next    *)
(* unless it is the one being played (mapCycleNext and onLoadMapCycle of   *)
(* src/admin.cpp).                                                         *)
(***************************************************************************)
THEOREM CycleProgress ==
  NextGameSpec => []TurnsCounted /\ [][CycleGetsNearer]_nextGameVars
<1>1. NextGameIInv => TurnsCounted
  BY TurnsAreCounted DEF NextGameIInv, NextGameInv
<1>2. NextGameIInv /\ [NextGameNext]_nextGameVars => [CycleGetsNearer]_nextGameVars
  BY TurnsStep DEF CycleGetsNearer
<1> QED BY <1>1, <1>2, InitKeeps, StepKeeps, PTL DEF NextGameSpec

=============================================================================
