------------------------------ MODULE MCHttpGet -------------------------------
(* Two tables and two strings: one table may be asked for twice, rewritten *)
(* while it is fetched, or made for a string; three references.            *)
EXTENDS HttpGet
=============================================================================
