----------------------------- MODULE HttpRequests -----------------------------
(***************************************************************************)
(* What httpGet promises to Lua code: the pages of the tables it is given  *)
(* are fetched one at a time, in the order they were asked for, and each   *)
(* table is given to the callback at most once.  A table whose uri is no   *)
(* string is passed over.                                                  *)
(***************************************************************************)
EXTENDS Sequences

CONSTANTS
  Tables,
  NoTable

VARIABLES
  waiting,     \* the tables whose turn has not come
  fetching,    \* the table whose page is being fetched
  answering    \* the table whose callback is being called

hVars == <<waiting, fetching, answering>>

HInit ==
  /\ waiting = <<>>
  /\ fetching = NoTable
  /\ answering = NoTable

(* A callback may ask too. *)
Ask(t) ==
  /\ waiting' = Append(waiting, t)
  /\ UNCHANGED <<fetching, answering>>

Take ==
  /\ fetching = NoTable /\ answering = NoTable
  /\ waiting # <<>>
  /\ fetching' = Head(waiting)
  /\ waiting' = Tail(waiting)
  /\ UNCHANGED answering

PassOver ==
  /\ fetching = NoTable /\ answering = NoTable
  /\ waiting # <<>>
  /\ waiting' = Tail(waiting)
  /\ UNCHANGED <<fetching, answering>>

(* There may be nobody to call. *)
Answer ==
  /\ fetching # NoTable
  /\ fetching' = NoTable
  /\ answering' \in {fetching, NoTable}
  /\ UNCHANGED waiting

Return ==
  /\ answering # NoTable
  /\ answering' = NoTable
  /\ UNCHANGED <<waiting, fetching>>

HNext ==
  \/ \E t \in Tables : Ask(t)
  \/ Take
  \/ PassOver
  \/ Answer
  \/ Return

HSpec == HInit /\ [][HNext]_hVars
=============================================================================
