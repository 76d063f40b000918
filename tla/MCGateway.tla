----------------------------- MODULE MCGateway -----------------------------
(* Instances of Gateway for TLC. *)
EXTENDS Gateway

\* A client that asks for nothing, and one that asks for every hook.
PlainAndFull == {{}, {"docs", "success", "dependency"}}

AllOutcomes == {"ok", "retry", "fatal"}
=============================================================================
