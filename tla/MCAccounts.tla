----------------------------- MODULE MCAccounts -----------------------------
(* Two registrations, three spellings of two addresses. *)
EXTENDS Accounts

\* "Ann" and "ann" stand for one address typed with two spellings of its domain.
MCNormalised == [a \in {"agent", "ann", "Ann"} |-> IF a = "Ann" THEN "ann" ELSE a]
===============================================================================
