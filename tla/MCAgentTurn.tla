----------------------------- MODULE MCAgentTurn -----------------------------
(* A primary provider that streams, with fallbacks that do and do not.      *)
EXTENDS AgentTurn

MCChain == <<"anthropic", "custom">>
=============================================================================
