------------------------------ MODULE MCNextGame ------------------------------
(***************************************************************************)
(* Three maps and two modes besides chat.  Each map lacks a mode, lost     *)
(* does not load.                                                          *)
(***************************************************************************)
EXTENDS NextGame

CONSTANTS estate, manamine, lost, arena, ctf, chat

MCModes == {arena, ctf, chat}

MCAvailable ==
  (estate :> {arena, ctf}) @@ (manamine :> {arena, chat}) @@ (lost :> {arena})

MCPreference == <<arena, ctf, chat>>

(* A map that does not load, one not in the mode, one listed twice, and a  *)
(* mode without maps. *)
MCCycleFile ==
  (arena :> <<lost, estate, manamine, manamine>>) @@ (ctf :> <<manamine, estate>>) @@ (chat :> <<>>)

Ask(map, mode, new, reload) == [map |-> map, mode |-> mode, new |-> new, reload |-> reload]

(* A map, a mode the current map may lack, a new game, a map that is not   *)
(* there. *)
MCRequests ==
  { Ask(estate, NoMode, FALSE, FALSE),
    Ask(NoMap, ctf, FALSE, TRUE),
    Ask(NoMap, NoMode, TRUE, FALSE),
    Ask(lost, NoMode, FALSE, FALSE) }
=============================================================================
