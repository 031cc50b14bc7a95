----------------------------- MODULE AccountTable -----------------------------
(***************************************************************************)
(* What the account database promises: a table in memory that changes one  *)
(* record at a time, and a file that equals it whenever the database is    *)
(* settled.  While it is not, the file may hold anything; a restart brings *)
(* back what the file holds.  AuthStore implements this.                   *)
(***************************************************************************)
CONSTANTS Keys, Records, NoRecord

VARIABLES table, saved, settled

tableVars == <<table, saved, settled>>

Tables == [Keys -> Records \cup {NoRecord}]

Init ==
  /\ table \in Tables
  /\ saved = table
  /\ settled = TRUE

Change(k, r) ==
  /\ table' = [table EXCEPT ![k] = r]
  /\ settled' = FALSE
  /\ UNCHANGED saved

Save ==
  /\ ~settled
  /\ saved' \in Tables
  /\ settled' \in BOOLEAN
  /\ settled' => saved' = table
  /\ UNCHANGED table

Restart ==
  /\ table' = saved
  /\ settled' = TRUE
  /\ UNCHANGED saved

Next ==
  \/ \E k \in Keys, r \in Records \cup {NoRecord} : Change(k, r)
  \/ Save
  \/ Restart

Spec == Init /\ [][Next]_tableVars
=============================================================================
