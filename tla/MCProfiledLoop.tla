--------------------------- MODULE MCProfiledLoop ---------------------------
(* Model checking ProfiledLoop: two concurrent requests that do not fit     *)
(* together, so that one is preempted and recomputed, a third one after     *)
(* them, and a trace buffer of a few events.                                *)
EXTENDS ProfiledLoop

MCRequests  == 0 .. NumRequests - 1
MCPromptLen == [r \in MCRequests |-> 1 + (r % 2)]
MCMaxTokens == [r \in MCRequests |-> IF r = 2 THEN 1 ELSE 2]
MCPriority  == [r \in MCRequests |-> 0]
MCConfigs   == {[policy |-> "FCFS", preemption_mode |-> "RECOMPUTE",
                 max_num_seqs |-> 2, max_num_batched_tokens |-> 4]}
MCLatencies == {1, 3, 4, 9}
MCThreads   == {"engine", "helper"}
MCNames     == {"begin", "mark", "end", "usage", "completed", "span", "prefill", "decode"}

=============================================================================
