---------------------------- MODULE ServerTimeouts ----------------------------
(***************************************************************************)
(* The server's timeouts (src/util.cpp): setTimeoutL keeps a sorted list   *)
(* and, in the Lua registry, a function for each record; onEachFrame walks *)
(* the list with an iterator and calls what is due; mapUnloadUtil drops    *)
(* what was not set to persist.                                            *)
(*                                                                         *)
(* Everything runs on one thread, but a function that is being called may  *)
(* set further ones: the list changes under the iterator.  While it runs,  *)
(* conOutput, the function print sends its text to, is taken out of the    *)
(* environment of that function and put back afterwards.  The environment  *)
(* of the server inherits from the client's, which inherits from _G (1222- *)
(* 1237); a line of the console is run by delayedCon, whose own is _G      *)
(* (libVer.cpp 148, 336), in the one of the server or the client.          *)
(***************************************************************************)
EXTENDS TimeoutList

CONSTANTS
  Outputs,    \* functions conOutput may be set to
  NoOutput,   \* nil
  SetIn       \* the environments it is set in

Envs == {"server", "client", "global"}

ASSUME OutputsAssumption == NoOutput \notin Outputs /\ SetIn \subseteq Envs

VARIABLES
  frameCounter,   \* of the game
  passMade,       \* onEachFrame was called on this frame
  timeoutNextId,
  timeoutList,
  functions,      \* the Ids that have a function in the registry
  pc,             \* "idle", "scan" (at the head of the loop), "call" (in pcall)
  it,             \* position of the iterator, Len + 1 for end()
  conOutput,      \* of each environment
  env,            \* on the Lua stack: the environment of the function called
  saved,          \* and the conOutput found there
  fault,          \* what has ended the process ("stack", "error"), or "none"
  passFrom,       \* history: timeoutNextId when the pass began
  outputSet,      \* history: what each conOutput was last set to, but by functions
                  \* that are called in its own environment
  bared,          \* history: environments where one was called that cleared a
                  \* conOutput they inherit
  dropped         \* history: Ids whose records a map took with it

timeVars == <<frameCounter, passMade>>
listVars == <<timeoutNextId, timeoutList, functions, dropped>>
passVars == <<pc, it, passFrom, fault>>
outVars  == <<conOutput, env, saved, outputSet, bared>>
serverVars == <<timeVars, listVars, passVars, outVars>>

TimeoutListRec == [Id : 1 .. MaxId, Frame : 0 .. FrameMod - 1, Persist : BOOLEAN]
AnyOutput == Outputs \cup {NoOutput}

NoEnv == "none"
crashed == fault # "none"

TimeoutsTypeOK ==
  /\ frameCounter \in 0 .. FrameMod - 1
  /\ passMade \in BOOLEAN
  /\ timeoutNextId \in 1 .. MaxId + 1
  /\ timeoutList \in Seq(TimeoutListRec)
  /\ functions \in SUBSET (1 .. MaxId)
  /\ pc \in {"idle", "scan", "call"}
  /\ it \in 1 .. Len(timeoutList) + 1
  /\ conOutput \in [Envs -> AnyOutput]
  /\ env \in Envs \cup {NoEnv}
  /\ pc = "call" => env \in Envs
  /\ saved \in AnyOutput
  /\ fault \in {"none", "stack", "error"}
  /\ passFrom \in 1 .. MaxId + 1
  /\ outputSet \in [Envs -> AnyOutput]
  /\ bared \in SUBSET Envs
  /\ dropped \in SUBSET (1 .. MaxId)

TimeoutsInit ==
  /\ frameCounter \in 0 .. FrameMod - 1
  /\ passMade = FALSE
  /\ timeoutNextId = 1
  /\ timeoutList = <<>>
  /\ functions = {}
  /\ pc = "idle"
  /\ it = 1
  /\ passFrom = 1
  /\ conOutput = [e \in Envs |-> NoOutput]
  /\ env = NoEnv
  /\ saved = NoOutput
  /\ fault = "none"
  /\ outputSet = [e \in Envs |-> NoOutput]
  /\ bared = {}
  /\ dropped = {}

-----------------------------------------------------------------------------
(* Mutant: the record goes before one of the same frame. *)
SetBeforeEqual(delay, persist) ==
  LET Time == (frameCounter + delay) % FrameMod
      rec  == [Id |-> timeoutNextId, Frame |-> Time, Persist |-> persist]
  IN  /\ pc \in {"idle", "call"}
      /\ timeoutNextId <= MaxId
      /\ \E p \in 1 .. Len(timeoutList) + 1 :
           /\ StopsAt(timeoutList, p, Time - 1)
           /\ timeoutList' = InsertAt(timeoutList, p, rec)
           /\ it' = IF pc = "call" /\ p <= it THEN it + 1 ELSE it
      /\ timeoutNextId' = timeoutNextId + 1
      /\ functions' = functions \cup {timeoutNextId}
      /\ UNCHANGED <<timeVars, pc, passFrom, fault, outVars, dropped>>

(***************************************************************************)
(* setTimeout(fn, delay, arg, persist), from any Lua code: between passes, *)
(* or from the function being called.  A negative delay is a large DWORD.  *)
(* std::list iterators stay on their element: one that stands at or behind *)
(* the insertion point moves one position on.                              *)
(***************************************************************************)
setTimeout(delay, persist) ==
  LET Time == (frameCounter + delay) % FrameMod
      rec  == [Id |-> timeoutNextId, Frame |-> Time, Persist |-> persist]
  IN  /\ pc \in {"idle", "call"}
      /\ timeoutNextId <= MaxId
      /\ \E p \in 1 .. Len(timeoutList) + 1 :
           /\ StopsAt(timeoutList, p, Time)
           /\ timeoutList' = InsertAt(timeoutList, p, rec)
           /\ it' = IF pc = "call" /\ p <= it THEN it + 1 ELSE it
      /\ timeoutNextId' = timeoutNextId + 1
      /\ functions' = functions \cup {timeoutNextId}
      /\ UNCHANGED <<timeVars, pc, passFrom, fault, outVars, dropped>>

(* Where a name that an environment does not have is looked for.           *)
Above(e) ==
  IF e = "server" THEN {"client", "global"} ELSE IF e = "client" THEN {"global"} ELSE {}

(* lua_getfield(L, env, "conOutput") *)
FoundOutput(e) ==
  IF conOutput[e] # NoOutput THEN conOutput[e]
  ELSE IF e = "server" /\ conOutput["client"] # NoOutput THEN conOutput["client"]
  ELSE conOutput["global"]

(* conOutput = o, in the environment e. *)
SetOutput(e, o) ==
  /\ pc = "idle"
  /\ conOutput' = [conOutput EXCEPT ![e] = o]
  /\ outputSet' = [outputSet EXCEPT ![e] = o]
  /\ bared' = bared \ {e}
  /\ UNCHANGED <<timeVars, listVars, passVars, env, saved>>

(***************************************************************************)
(* The same from a function that is being called: in its own environment   *)
(* or, as a line of the console does, in another one.                      *)
(***************************************************************************)
CallbackSetsOutput(e, o) ==
  /\ pc = "call"
  /\ conOutput' = [conOutput EXCEPT ![e] = o]
  /\ IF e = env
       THEN UNCHANGED <<outputSet, bared>>
       ELSE /\ outputSet' = [outputSet EXCEPT ![e] = o]
            /\ bared' = (bared \ {e}) \cup
                          IF o = NoOutput /\ e \in Above(env) THEN {env} ELSE {}
  /\ UNCHANGED <<timeVars, listVars, passVars, env, saved>>

-----------------------------------------------------------------------------
(* onEachFrame, once a frame. *)

BeginPass ==
  /\ pc = "idle" /\ ~passMade
  /\ passMade' = TRUE
  /\ pc' = "scan"
  /\ it' = 1
  /\ passFrom' = timeoutNextId
  /\ UNCHANGED <<frameCounter, listVars, fault, outVars>>

(* Time < I->Frame *)
SkipRecord ==
  /\ pc = "scan" /\ it <= Len(timeoutList)
  /\ frameCounter < timeoutList[it].Frame
  /\ it' = it + 1
  /\ UNCHANGED <<timeVars, listVars, pc, passFrom, fault, outVars>>

(***************************************************************************)
(* Up to lua_pcall; the function has one environment or another.  Without  *)
(* a function for the Id the code would clean up a stack one short:        *)
(* FunctionOfEachRecord says that this never happens.                      *)
(***************************************************************************)
CallRecord ==
  /\ pc = "scan" /\ it <= Len(timeoutList)
  /\ frameCounter >= timeoutList[it].Frame
  /\ timeoutList[it].Id \in functions
  /\ \E e \in Envs :
       /\ env' = e
       /\ saved' = FoundOutput(e)
       /\ conOutput' = [conOutput EXCEPT ![e] = NoOutput]
  /\ pc' = "call"
  /\ UNCHANGED <<timeVars, listVars, it, passFrom, fault, outputSet, bared>>

CallFaults(f) == fault' = f /\ UNCHANGED <<listVars, outVars, pc, it, passFrom>>

(* lua_pop(L, 3) leaves the function on the stack where the table is       *)
(* expected: lua_settable raises an error that no pcall catches.           *)
OutputFound == CallFaults("stack")

(* The function fails with a value that is not a string: strncat of NULL.  *)
ErrorUntold == CallFaults("error")

DoneUnchanged ==
  /\ pc' = "scan"
  /\ env' = NoEnv
  /\ saved' = NoOutput
  /\ UNCHANGED <<timeoutNextId, dropped, passFrom, fault, outputSet, bared>>

(* Mutant: the loop moves on after erase. *)
DoneMovesOn ==
  /\ functions' = functions \ {timeoutList[it].Id}
  /\ timeoutList' = RemoveAt(timeoutList, it)
  /\ it' = IF it < Len(timeoutList) THEN it + 1 ELSE it
  /\ conOutput' = [conOutput EXCEPT ![env] = saved]
  /\ DoneUnchanged

(* Mutant: the function stays in the registry. *)
DoneKeepsFunction ==
  /\ timeoutList' = RemoveAt(timeoutList, it)
  /\ conOutput' = [conOutput EXCEPT ![env] = saved]
  /\ DoneUnchanged
  /\ UNCHANGED <<functions, it>>

(* Mutant: the console stays as the function found it. *)
DoneUnrestored ==
  /\ functions' = functions \ {timeoutList[it].Id}
  /\ timeoutList' = RemoveAt(timeoutList, it)
  /\ DoneUnchanged
  /\ UNCHANGED <<conOutput, it>>

(* Mutant: the record stays in the list. *)
DoneKeepsRecord ==
  /\ functions' = functions \ {timeoutList[it].Id}
  /\ conOutput' = [conOutput EXCEPT ![env] = saved]
  /\ DoneUnchanged
  /\ UNCHANGED <<timeoutList, it>>

(* Function and record are erased, conOutput is put back. *)
RecordDone ==
  /\ functions' = functions \ {timeoutList[it].Id}
  /\ timeoutList' = RemoveAt(timeoutList, it)
  /\ conOutput' = [conOutput EXCEPT ![env] = saved]
  /\ DoneUnchanged
  /\ UNCHANGED it

(* From lua_pcall to erase. *)
ReturnFromCall ==
  /\ pc = "call"
  /\ \/ ErrorUntold
     \/ FoundOutput(env) # NoOutput /\ OutputFound
     \/ FoundOutput(env) = NoOutput /\ RecordDone
  /\ UNCHANGED timeVars

EndPass ==
  /\ pc = "scan" /\ it > Len(timeoutList)
  /\ pc' = "idle"
  /\ it' = 1
  /\ UNCHANGED <<timeVars, listVars, passFrom, fault, outVars>>

(* The game comes to its next frame. *)
NextFrame ==
  /\ pc = "idle" /\ passMade
  /\ frameCounter' = (frameCounter + 1) % FrameMod
  /\ passMade' = FALSE
  /\ UNCHANGED <<listVars, passVars, outVars>>

(* Mutant: nothing survives a change of maps. *)
UnloadAll ==
  /\ pc = "idle"
  /\ timeoutList' = <<>>
  /\ dropped' = dropped \cup Ids(timeoutList)
  /\ UNCHANGED <<timeVars, timeoutNextId, functions, passVars, outVars>>

(* Called by onLoadLevel (map.cpp 420) when a map replaces another one. *)
mapUnloadUtil ==
  /\ pc = "idle"
  /\ \E kept \in Positions(timeoutList) :
       /\ IsKept(kept, timeoutList)
       /\ timeoutList' = [j \in DOMAIN kept |-> timeoutList[kept[j]]]
  /\ dropped' = dropped \cup (Ids(timeoutList) \ Ids(timeoutList'))
  /\ UNCHANGED <<timeVars, timeoutNextId, functions, passVars, outVars>>

-----------------------------------------------------------------------------
onEachFrame == BeginPass \/ SkipRecord \/ CallRecord \/ ReturnFromCall \/ EndPass

TimeoutsNext ==
  /\ ~crashed
  /\ \/ \E delay \in 0 .. FrameMod - 1, persist \in BOOLEAN : setTimeout(delay, persist)
     \/ \E e \in SetIn, o \in AnyOutput : SetOutput(e, o) \/ CallbackSetsOutput(e, o)
     \/ onEachFrame
     \/ NextFrame
     \/ mapUnloadUtil

TimeoutsSpec == TimeoutsInit /\ [][TimeoutsNext]_serverVars

(* The game makes its frames, and the functions called come to an end. *)
FrameGoesOn == ~crashed /\ (onEachFrame \/ NextFrame)

TimeoutsFairSpec == TimeoutsSpec /\ WF_serverVars(FrameGoesOn)

-----------------------------------------------------------------------------
(***************************************************************************)
(* The list is in order, so that the first record of a later frame is      *)
(* where a new one belongs, and no Id is in it twice.                      *)
(***************************************************************************)
ListInOrder ==
  /\ InOrder(timeoutList)
  /\ NoIdTwice(timeoutList)

(***************************************************************************)
(* Whatever the functions called insert around it, the iterator stands on  *)
(* the record whose function is running, and leaves nothing behind that    *)
(* is due: what is due before it was set in this very pass, by a function  *)
(* of a later frame.                                                       *)
(***************************************************************************)
NoneMissed ==
  /\ pc = "idle" => it = 1
  /\ passFrom <= timeoutNextId
  /\ pc = "call" =>
       it <= Len(timeoutList) /\ timeoutList[it].Frame <= frameCounter
  /\ \A j \in 1 .. it - 1 : timeoutList[j].Frame <= frameCounter =>
       timeoutList[j].Id >= passFrom

(***************************************************************************)
(* Every record has its function in the registry, so that the branch of    *)
(* onEachFrame that finds none, and leaves the Lua stack one short, is     *)
(* never taken; functions without a record are those whose record was      *)
(* dropped with its map, which nothing removes.                            *)
(***************************************************************************)
FunctionOfEachRecord ==
  /\ Ids(timeoutList) \cap dropped = {}
  /\ functions = Ids(timeoutList) \cup dropped
  /\ \A id \in functions : id < timeoutNextId

(***************************************************************************)
(* Calls of timeout functions leave every conOutput as it was last set     *)
(* from elsewhere, also if that was a function called in another           *)
(* environment, such as a line of the console: what a function's own       *)
(* environment had is on the Lua stack, to come back.  It is an inherited  *)
(* one only if that is there still, for which the process ends; unless a   *)
(* function cleared the one its environment inherits (util.cpp 1027, 1046).*)
(***************************************************************************)
OutputRestored ==
  \A e \in Envs \ bared :
    IF pc = "call" /\ e = env
      THEN \/ saved = outputSet[e]
           \/ outputSet[e] = NoOutput /\ \E a \in Above(e) : conOutput[a] # NoOutput
      ELSE conOutput[e] = outputSet[e]

(***************************************************************************)
(* The comment at util.cpp 1047: if the function has set another conOutput *)
(* "we leave it so".  The stack is cleaned up wrongly in that branch and   *)
(* the process ends.                                                       *)
(***************************************************************************)
RedirectLeftSo ==
  pc = "call" /\ conOutput[env] # NoOutput => fault # "stack"

TimeoutsInv ==
  /\ TimeoutsTypeOK
  /\ ListInOrder
  /\ NoneMissed
  /\ FunctionOfEachRecord
  /\ OutputRestored

(***************************************************************************)
(* Every function set is called in the end, unless its map took it along.  *)
(***************************************************************************)
EventuallyCalled ==
  \A id \in 1 .. MaxId : id \in Ids(timeoutList) ~> (crashed \/ id \notin Ids(timeoutList))

(***************************************************************************)
(* The list and its iterator implement the abstract timeouts: what the     *)
(* pass has still to call is what lies at or behind the iterator and has   *)
(* come due.                                                               *)
(***************************************************************************)
Ahead == IF pc = "call" THEN it + 1 .. Len(timeoutList) ELSE it .. Len(timeoutList)

DueAhead ==
  IF pc = "idle" THEN {}
  ELSE {r \in {timeoutList[j] : j \in Ahead} : r.Frame <= frameCounter}

T == INSTANCE Timeouts WITH
  frame   <- frameCounter,
  passing <- pc # "idle",
  nextId  <- timeoutNextId,
  pending <- ToSet(timeoutList),
  due     <- DueAhead,
  current <- IF pc = "call" THEN timeoutList[it] ELSE NoTimeout

ImplementsTimeouts == T!TSpec
=============================================================================
