---------------------------- MODULE RemoteCommands ----------------------------
(***************************************************************************)
(* What the account functions promise while another server keeps the       *)
(* accounts: the commands are executed one at a time, in the order they    *)
(* were given, and the console says of each, once, how it came out.        *)
(***************************************************************************)
EXTENDS Sequences

CONSTANTS
  Given,      \* the commands
  Nothing     \* none is being executed, nothing is known or was said

VARIABLES
  waiting,    \* commands not yet reported
  running,    \* the one being executed
  outcome,    \* how it came out: TRUE for success
  said        \* the last report: a command and its outcome

rVars == <<waiting, running, outcome, said>>

RInit ==
  /\ waiting = <<>>
  /\ running = Nothing
  /\ outcome = Nothing
  /\ said = Nothing

Give(c) ==
  /\ waiting' = Append(waiting, c)
  /\ UNCHANGED <<running, outcome, said>>

Begin ==
  /\ running = Nothing
  /\ waiting # <<>>
  /\ running' = Head(waiting)
  /\ UNCHANGED <<waiting, outcome, said>>

Finish ==
  /\ running # Nothing
  /\ outcome = Nothing
  /\ outcome' \in BOOLEAN
  /\ UNCHANGED <<waiting, running, said>>

Report ==
  /\ outcome # Nothing
  /\ said' = <<running, outcome>>
  /\ waiting' = Tail(waiting)
  /\ running' = Nothing
  /\ outcome' = Nothing

RNext ==
  \/ \E c \in Given : Give(c)
  \/ Begin
  \/ Finish
  \/ Report

RSpec == RInit /\ [][RNext]_rVars
=============================================================================
