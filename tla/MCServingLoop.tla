--------------------------- MODULE MCServingLoop ----------------------------
(* Model checking ServingLoop with two to four requests that differ in      *)
(* prompt length, output length and priority.                               *)
EXTENDS ServingLoop, TLC

CONSTANTS r1, r2, r3, r4

Two   == {r1, r2}
Three == {r1, r2, r3}
Four  == {r1, r2, r3, r4}

(* Outputs long enough to run out of blocks in the middle of decoding. *)
Prompts3      == r1 :> 1 @@ r2 :> 1 @@ r3 :> 2
Outputs3      == r1 :> 3 @@ r2 :> 2 @@ r3 :> 2
ShortOutputs3 == r1 :> 2 @@ r2 :> 1 @@ r3 :> 1
Priorities3   == r1 :> 0 @@ r2 :> 1 @@ r3 :> 2

OneToken(S) == [r \in S |-> 1]
OneToken4   == OneToken(Four)
Outputs4    == r1 :> 3 @@ r2 :> 2 @@ r3 :> 4 @@ r4 :> 3

(* Scheduler configurations: policy, preemption, sequences and tokens a step. *)
Config(policy, mode, seqs, tokens) ==
    [policy |-> policy, preemption_mode |-> mode,
     max_num_seqs |-> seqs, max_num_batched_tokens |-> tokens]

ServingConfigs == {Config("FCFS", "RECOMPUTE", 3, 4),
                   Config("PRIORITY", "RECOMPUTE", 2, 2),
                   Config("SHORTEST_REMAINING", "SWAP", 3, 4)}
TightFcfs      == {Config("FCFS", "RECOMPUTE", 2, 2)}
FcfsRecompute2 == {Config("FCFS", "RECOMPUTE", 2, 4)}
FcfsSwap4      == {Config("FCFS", "SWAP", 4, 4)}

(* Two requests, for blocks of two tokens. *)
TwoTokens2 == [r \in Two |-> 2]
OneToken2  == OneToken(Two)

=============================================================================
