-------------------------- MODULE MCPreparedCache --------------------------
(* A cache with room for two payloads, small and large ones, and a clock   *)
(* that outlives a token.                                                  *)
EXTENDS PreparedCache

TwoSizes == {1, 2}
=============================================================================
