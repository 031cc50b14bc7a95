----------------------------- MODULE MCAuthStore -----------------------------
(***************************************************************************)
(* Two keys and three logins, two of which share a key; two passwords.     *)
(* Freed memory reads as no account at all; as another record it can be    *)
(* any of the table's.                                                     *)
(***************************************************************************)
EXTENDS AuthStore

MCLoginHash == [l \in Logins |-> IF l = "bob" THEN 2 ELSE 1]
MCPassHash == [p \in Passwords |-> p]
MCDebris == {[login |-> TornLogin, phash |-> TornHash, isActive |-> FALSE]}
=============================================================================
