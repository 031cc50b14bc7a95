----------------------------- MODULE TimeoutList -----------------------------
(***************************************************************************)
(* The list both setTimeoutL (src/util.cpp) and cliSetTimeoutL             *)
(* (src/cliUtil.cpp) keep: records with an Id and a Frame, in the order in *)
(* which the frames come.                                                  *)
(***************************************************************************)
EXTENDS Integers, FiniteSets, SequencesExt

CONSTANTS
  FrameMod,   \* 2^32 in the code: frames are DWORDs
  MaxId,      \* bound on the Ids given out
  NoTimeout   \* nothing is being called

ASSUME ListAssumption ==
  /\ FrameMod \in Nat \ {0}
  /\ MaxId \in Nat
  /\ NoTimeout \notin [Id : 1 .. MaxId, Frame : 0 .. FrameMod - 1, Persist : BOOLEAN]

(* The loop of setTimeoutL stops at position p: at the first record of a   *)
(* later frame, or past the end.                                           *)
StopsAt(list, p, f) ==
  /\ \A j \in 1 .. p - 1 : list[j].Frame <= f
  /\ p <= Len(list) => list[p].Frame > f

(* By frame and, on one frame, in the order of setting. *)
InOrder(list) ==
  \A i, j \in 1 .. Len(list) : i < j =>
    \/ list[i].Frame < list[j].Frame
    \/ list[i].Frame = list[j].Frame /\ list[i].Id < list[j].Id

(* The loop of mapUnloadUtil leaves of list, in their order, the records   *)
(* that persist: kept are their positions.                                 *)
Survivors(list) == {j \in 1 .. Len(list) : list[j].Persist}

IsKept(kept, list) ==
  /\ \A i, j \in DOMAIN kept : i < j => kept[i] < kept[j]
  /\ \A s \in Survivors(list) : \E i \in DOMAIN kept : kept[i] = s

Positions(list) == [1 .. Cardinality(Survivors(list)) -> Survivors(list)]

(* The Ids of the records. *)
Ids(list) == {r.Id : r \in ToSet(list)}

NoIdTwice(list) ==
  \A i, j \in 1 .. Len(list) : list[i].Id = list[j].Id => i = j
=============================================================================
