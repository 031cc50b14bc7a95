----------------------------- MODULE MCAuthRemote -----------------------------
(***************************************************************************)
(* Two servers, one with a longer address, and two commands: one may be a  *)
(* login's, and one may wait while the other is executed.                  *)
(***************************************************************************)
EXTENDS AuthRemote

CONSTANTS near, far

MCUrlLength == [s \in Servers |-> IF s = near THEN 1 ELSE 2]
=============================================================================
