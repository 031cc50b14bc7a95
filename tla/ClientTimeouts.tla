---------------------------- MODULE ClientTimeouts ----------------------------
(***************************************************************************)
(* The client's timeouts (src/cliUtil.cpp): the same list as the server's, *)
(* but no record survives or is dropped on account of a map, conOutput is  *)
(* left alone, and cliOnEachFrame stops at the first record that is not    *)
(* due: that the list is in order is what makes this right.                *)
(***************************************************************************)
EXTENDS TimeoutList

VARIABLES
  cliFrameCounter,    \* frameCounter of the game
  cliPassMade,        \* cliOnEachFrame was called on this frame
  cliTimeoutNextId,
  cliTimeoutList,
  cliFunctions,       \* the Ids that have a function in the registry
  cliPc,              \* "idle", "scan" (at the head of the loop), "call" (in pcall)
  cliIt,              \* position of the iterator
  cliCrashed          \* the error of a function has ended the process

clientVars ==
  <<cliFrameCounter, cliPassMade, cliTimeoutNextId, cliTimeoutList, cliFunctions, cliPc,
    cliIt, cliCrashed>>

cliTimeoutListRec == [Id : 1 .. MaxId, Frame : 0 .. FrameMod - 1]

ClientTypeOK ==
  /\ cliFrameCounter \in 0 .. FrameMod - 1
  /\ cliPassMade \in BOOLEAN
  /\ cliTimeoutNextId \in 1 .. MaxId + 1
  /\ cliTimeoutList \in Seq(cliTimeoutListRec)
  /\ cliFunctions \in SUBSET (1 .. MaxId)
  /\ cliPc \in {"idle", "scan", "call"}
  /\ cliIt \in 1 .. Len(cliTimeoutList) + 1
  /\ cliCrashed \in BOOLEAN

ClientInit ==
  /\ cliFrameCounter \in 0 .. FrameMod - 1
  /\ cliPassMade = FALSE
  /\ cliTimeoutNextId = 1
  /\ cliTimeoutList = <<>>
  /\ cliFunctions = {}
  /\ cliPc = "idle"
  /\ cliIt = 1
  /\ cliCrashed = FALSE

(* Mutant: the record goes to the end of the list. *)
ClientSetAtEnd(delay) ==
  LET Time == (cliFrameCounter + delay) % FrameMod
      rec  == [Id |-> cliTimeoutNextId, Frame |-> Time]
  IN  /\ cliPc \in {"idle", "call"}
      /\ cliTimeoutNextId <= MaxId
      /\ cliTimeoutList' = Append(cliTimeoutList, rec)
      /\ cliTimeoutNextId' = cliTimeoutNextId + 1
      /\ cliFunctions' = cliFunctions \cup {cliTimeoutNextId}
      /\ UNCHANGED <<cliFrameCounter, cliPassMade, cliPc, cliIt, cliCrashed>>

(* cliSetTimeout(fn, delay, arg), between passes or from a called function. *)
cliSetTimeout(delay) ==
  LET Time == (cliFrameCounter + delay) % FrameMod
      rec  == [Id |-> cliTimeoutNextId, Frame |-> Time]
  IN  /\ cliPc \in {"idle", "call"}
      /\ cliTimeoutNextId <= MaxId
      /\ \E p \in 1 .. Len(cliTimeoutList) + 1 :
           /\ StopsAt(cliTimeoutList, p, Time)
           /\ cliTimeoutList' = InsertAt(cliTimeoutList, p, rec)
           /\ cliIt' = IF cliPc = "call" /\ p <= cliIt THEN cliIt + 1 ELSE cliIt
      /\ cliTimeoutNextId' = cliTimeoutNextId + 1
      /\ cliFunctions' = cliFunctions \cup {cliTimeoutNextId}
      /\ UNCHANGED <<cliFrameCounter, cliPassMade, cliPc, cliCrashed>>

ClientBeginPass ==
  /\ cliPc = "idle" /\ ~cliPassMade
  /\ cliPassMade' = TRUE
  /\ cliPc' = "scan"
  /\ UNCHANGED <<cliFrameCounter, cliTimeoutNextId, cliTimeoutList, cliFunctions,
                 cliIt, cliCrashed>>

ClientDueAt(p) == p <= Len(cliTimeoutList) /\ cliTimeoutList[p].Frame <= cliFrameCounter

(* Up to lua_pcall. *)
ClientCallRecord ==
  /\ cliPc = "scan" /\ ClientDueAt(cliIt)
  /\ cliTimeoutList[cliIt].Id \in cliFunctions
  /\ cliPc' = "call"
  /\ UNCHANGED <<cliFrameCounter, cliPassMade, cliTimeoutNextId, cliTimeoutList, cliFunctions,
                 cliIt, cliCrashed>>

(* The function fails with a value that is not a string: strncat of NULL.  *)
ClientErrorUntold ==
  /\ cliCrashed' = TRUE
  /\ UNCHANGED <<cliFrameCounter, cliPassMade, cliTimeoutNextId, cliTimeoutList, cliFunctions,
                 cliPc, cliIt>>

(* Mutant: the record stays in the list, its function does not. *)
ClientReturnUnerased ==
  /\ cliFunctions' = cliFunctions \ {cliTimeoutList[cliIt].Id}
  /\ cliIt' = cliIt + 1
  /\ cliPc' = "scan"
  /\ UNCHANGED <<cliFrameCounter, cliPassMade, cliTimeoutNextId, cliTimeoutList, cliCrashed>>

(* Function and record are erased. *)
ClientRecordDone ==
  /\ cliFunctions' = cliFunctions \ {cliTimeoutList[cliIt].Id}
  /\ cliTimeoutList' = RemoveAt(cliTimeoutList, cliIt)
  /\ cliPc' = "scan"
  /\ UNCHANGED <<cliFrameCounter, cliPassMade, cliTimeoutNextId, cliIt, cliCrashed>>

(* From lua_pcall to erase. *)
ClientReturnFromCall == cliPc = "call" /\ (ClientErrorUntold \/ ClientRecordDone)

(* Time < I->Frame, or the end of the list. *)
ClientEndPass ==
  /\ cliPc = "scan" /\ ~ClientDueAt(cliIt)
  /\ cliPc' = "idle"
  /\ cliIt' = 1
  /\ UNCHANGED <<cliFrameCounter, cliPassMade, cliTimeoutNextId, cliTimeoutList, cliFunctions,
                 cliCrashed>>

(* The game comes to its next frame. *)
ClientNextFrame ==
  /\ cliPc = "idle" /\ cliPassMade
  /\ cliFrameCounter' = (cliFrameCounter + 1) % FrameMod
  /\ cliPassMade' = FALSE
  /\ UNCHANGED <<cliTimeoutNextId, cliTimeoutList, cliFunctions, cliPc, cliIt, cliCrashed>>

cliOnEachFrame == ClientBeginPass \/ ClientCallRecord \/ ClientReturnFromCall \/ ClientEndPass

ClientNext ==
  /\ ~cliCrashed
  /\ \/ \E delay \in 0 .. FrameMod - 1 : cliSetTimeout(delay)
     \/ cliOnEachFrame
     \/ ClientNextFrame

ClientSpec == ClientInit /\ [][ClientNext]_clientVars

(* The game makes its frames, and the functions called come to an end. *)
ClientFrameGoesOn == ~cliCrashed /\ (cliOnEachFrame \/ ClientNextFrame)

ClientFairSpec == ClientSpec /\ WF_clientVars(ClientFrameGoesOn)

-----------------------------------------------------------------------------
(***************************************************************************)
(* The list is in order: what lies behind a record that is not due is not  *)
(* due either, and cliOnEachFrame may stop there.                          *)
(***************************************************************************)
ClientListInOrder ==
  /\ InOrder(cliTimeoutList)
  /\ \A id \in Ids(cliTimeoutList) : id < cliTimeoutNextId

(***************************************************************************)
(* The functions of the registry are those of the records: none is lost    *)
(* before it was called, and none is kept afterwards.                      *)
(***************************************************************************)
ClientFunctions ==
  /\ cliFunctions = Ids(cliTimeoutList)
  /\ NoIdTwice(cliTimeoutList)
  /\ cliPc = "call" => cliIt <= Len(cliTimeoutList)

ClientInv == ClientTypeOK /\ ClientListInOrder /\ ClientFunctions

(***************************************************************************)
(* Every function set is called in the end, unless the process ends.       *)
(***************************************************************************)
ClientEventuallyCalled ==
  \A id \in 1 .. MaxId :
    id \in Ids(cliTimeoutList) ~> (cliCrashed \/ id \notin Ids(cliTimeoutList))

(***************************************************************************)
(* The client's list implements the abstract timeouts, all of which        *)
(* persist.                                                                *)
(***************************************************************************)
Persisting(r) == [Id |-> r.Id, Frame |-> r.Frame, Persist |-> TRUE]

ClientAhead ==
  IF cliPc = "call" THEN cliIt + 1 .. Len(cliTimeoutList) ELSE cliIt .. Len(cliTimeoutList)

ClientDueAhead ==
  IF cliPc = "idle" THEN {}
  ELSE {r \in {Persisting(cliTimeoutList[j]) : j \in ClientAhead} : r.Frame <= cliFrameCounter}

ClientT == INSTANCE Timeouts WITH
  frame   <- cliFrameCounter,
  passing <- cliPc # "idle",
  nextId  <- cliTimeoutNextId,
  pending <- {Persisting(r) : r \in ToSet(cliTimeoutList)},
  due     <- ClientDueAhead,
  current <- IF cliPc = "call" THEN Persisting(cliTimeoutList[cliIt]) ELSE NoTimeout

ClientImplementsTimeouts == ClientT!TSpec
=============================================================================
