--------------------------- MODULE MCPrefixClients --------------------------
(* Model checking PrefixClients with prompts that share their first block.  *)
EXTENDS PrefixClients

CONSTANTS s1, s2

MCSeqIds == {s1, s2}
MCMinNodeRefs == -1
MCPaths  == {<<"a">>, <<"a", "b">>, <<"a", "c">>}
MCPrompt == [s \in MCSeqIds |-> IF s = s1 THEN <<"a", "b">> ELSE <<"a", "c">>]

=============================================================================
