--------------------------- MODULE PagedAttention ---------------------------
(***************************************************************************)
(* Attention of one (sequence, head) over its cache: execute_attention     *)
(* picks the kernel, cuda/paged_attention.cu computes it with warps that   *)
(* meet at __syncthreads, execute_attention_cpu without CUDA.  Scores      *)
(* (q.k * scale) are the input, and a value vector is known by its         *)
(* position, so that an output is the weight of every position.            *)
(* The lanes of a warp run in lockstep; the 1e-8 added to a sum is left    *)
(* out.                                                                    *)
(***************************************************************************)
EXTENDS Softmax, Sequences, FiniteSets, FiniteSetsExt, SequencesExt

CONSTANTS
    BLOCK_SIZE, WARP_SIZE, NUM_WARPS, PARTITION_SIZE,
    V1Limit,        \* 8192: up to this context V1 is launched
    Contexts,       \* <<ctx_len, max_ctx>>: a context, and the longest of its batch
    Scores          \* scores of a position

NUM_THREADS == WARP_SIZE * NUM_WARPS

(* A partition holds whole blocks, as 512 and 16 do. *)
ASSUME AttentionConstants ==
    /\ \A n \in {BLOCK_SIZE, WARP_SIZE, NUM_WARPS, PARTITION_SIZE} : n \in Nat \ {0}
    /\ PARTITION_SIZE % BLOCK_SIZE = 0
    /\ \A c \in Contexts : {c[1], c[2]} \subseteq Nat \ {0} /\ c[1] <= c[2]
    /\ \A s1, s2 \in Scores : s1 - s2 \in -Bits .. Bits

VARIABLES
    kernel,         \* "none", "cpu", "v1", "v2", then "done" or "undefined"
    ctx_len, max_ctx, score,    \* the input
    barriers,       \* warp <<partition, warp_idx>> -> barriers it has reached
    visited,        \* warp -> positions its loop has visited
    max,            \* warp -> qk_max, local_max
    sum,            \* warp -> exp_sum, local_sum
    local_out,      \* warp -> position -> weight
    smem_qk,        \* position -> score, then weight (V1)
    smem_max, smem_sum,         \* warp -> shared memory of its thread block
    acc,            \* partition -> smem_out (V1), tmp_output (V2)
    max_logits, exp_sums,       \* partition -> V2's partial results
    output          \* the weight of position t is output.num[t] / output.den

work == <<visited, max, sum, local_out, smem_qk, smem_max, smem_sum, acc, max_logits, exp_sums>>
input == <<ctx_len, max_ctx, score>>
attentionVars == <<kernel, input, barriers, work, output>>

Positions == 0 .. ctx_len - 1

MaxOf(S) == Max(S \cup {-FLT_MAX})

NoWeight == [t \in Positions |-> 0]

(* The grid has partitions for the longest context of the batch. *)
num_partitions == (max_ctx + PARTITION_SIZE - 1) \div PARTITION_SIZE

Grid == IF kernel = "v1" THEN {0} ELSE 0 .. num_partitions - 1

num_parts == (ctx_len + PARTITION_SIZE - 1) \div PARTITION_SIZE

(* The thread blocks that do not return at once: V1 has one, for the whole *)
(* context, V2 one for each partition that starts inside the context.      *)
Partitions == IF kernel = "v1" THEN {0} ELSE {p \in Grid : p * PARTITION_SIZE < ctx_len}

Warps == Partitions \X (0 .. NUM_WARPS - 1)

start_tok(p) == p * PARTITION_SIZE

end_tok(p) == IF kernel = "v1" THEN ctx_len ELSE Min({start_tok(p) + PARTITION_SIZE, ctx_len})

(* The positions a warp's loops visit, in order: block_idx starts at the   *)
(* partition's first block plus warp_idx and advances by NUM_WARPS.        *)
Visit(w) ==
    LET start_block == start_tok(w[1]) \div BLOCK_SIZE
    IN SetToSortSeq({t \in start_tok(w[1]) .. end_tok(w[1]) - 1 :
                        (t \div BLOCK_SIZE - start_block) % NUM_WARPS = w[2]}, <)

AttentionInit ==
    /\ kernel = "none"
    /\ ctx_len = 0 /\ max_ctx = 0 /\ score = <<>> /\ barriers = <<>> /\ output = <<>>
    /\ visited = <<>> /\ max = <<>> /\ sum = <<>> /\ local_out = <<>> /\ smem_qk = <<>>
    /\ smem_max = <<>> /\ smem_sum = <<>> /\ acc = <<>>
    /\ max_logits = <<>> /\ exp_sums = <<>>

Input ==
    \E c \in Contexts : \E s \in [0 .. c[1] - 1 -> Scores] :
        ctx_len' = c[1] /\ max_ctx' = c[2] /\ score' = s

(* execute_attention: V1, or V2 with zeroed partial results. *)
LaunchAttention ==
    /\ kernel = "none"
    /\ Input
    /\ kernel' = IF max_ctx' <= V1Limit THEN "v1" ELSE "v2"
    /\ barriers' = [w \in Warps' |-> 0]
    /\ visited' = [w \in Warps' |-> 0]
    /\ max' = [w \in Warps' |-> -FLT_MAX]
    /\ sum' = [w \in Warps' |-> 0]
    /\ local_out' = [w \in Warps' |-> NoWeight']
    /\ smem_qk' = [t \in 0 .. NUM_THREADS - 1 |-> 0]
    /\ smem_max' = [w \in Warps' |-> 0]
    /\ smem_sum' = [w \in Warps' |-> 0]
    /\ acc' = [p \in Grid' |-> NoWeight']
    /\ max_logits' = [p \in Grid' |-> 0]
    /\ exp_sums' = [p \in Grid' |-> 0]
    /\ UNCHANGED output

(* execute_attention_cpu, with cache memory and a block table that covers  *)
(* the context: the return without memory and the skip of positions past   *)
(* the end of the table are not taken.                                     *)
execute_attention_cpu ==
    /\ kernel = "none"
    /\ Input
    /\ LET max_score == Max({score'[t] : t \in Positions'})
           scores    == [t \in Positions' |-> Exp(score'[t] - max_score)]
       IN output' = [num |-> scores, den |-> MapThenSumSet(LAMBDA t : scores[t], Positions')]
    /\ kernel' = "done"
    /\ UNCHANGED <<barriers, work>>

-----------------------------------------------------------------------------
(* Mutant: the __syncthreads between sharing and reducing the sums is missing. *)
NoBarrier(w, k) ==
    /\ barriers[w] = k
    /\ k # 3 => \A u \in DOMAIN barriers : u[1] = w[1] => barriers[u] >= k

(* The warp is in the segment after its k-th __syncthreads: every warp of  *)
(* its thread block has reached that barrier.                              *)
Segment(w, k) ==
    /\ barriers[w] = k
    /\ \A u \in DOMAIN barriers : u[1] = w[1] => barriers[u] >= k

More(w) == visited[w] < Len(Visit(w))

tok(w) == Visit(w)[visited[w] + 1]

Step(w) ==
    /\ visited' = [visited EXCEPT ![w] = @ + 1]
    /\ UNCHANGED <<kernel, input, barriers, output>>

Reach(w) ==
    /\ ~More(w)
    /\ visited' = [visited EXCEPT ![w] = 0]
    /\ barriers' = [barriers EXCEPT ![w] = @ + 1]
    /\ UNCHANGED <<kernel, input, output>>

leader(w) == <<w[1], 0>>

Mates(w) == {u \in DOMAIN barriers : u[1] = w[1]}

(* V1: a score goes to smem_qk[tok_pos], an array of NUM_THREADS. *)
V1Score(w) ==
    /\ kernel = "v1" /\ Segment(w, 0) /\ More(w)
    /\ IF tok(w) < NUM_THREADS
       THEN /\ smem_qk' = [smem_qk EXCEPT ![tok(w)] = score[tok(w)]]
            /\ max' = [max EXCEPT ![w] = MaxOf({@, score[tok(w)]})]
            /\ Step(w)
            /\ UNCHANGED <<sum, local_out, smem_max, smem_sum, acc, max_logits, exp_sums>>
       ELSE /\ kernel' = "undefined"
            /\ UNCHANGED <<input, barriers, work, output>>

(* Mutant: local_out is not rescaled when the running maximum grows. *)
OnlineKeepsOut(w) ==
    LET dot == score[tok(w)]
        new == MaxOf({max[w], dot})
    IN /\ max' = [max EXCEPT ![w] = new]
       /\ sum' = [sum EXCEPT ![w] = Times(@, Exp(max[w] - new)) + Exp(dot - new)]
       /\ local_out' = [local_out EXCEPT ![w][tok(w)] = Exp(dot - new)]

(* V2: the online softmax over one position. *)
Online(w) ==
    LET dot == score[tok(w)]
        new == MaxOf({max[w], dot})
        correction == Exp(max[w] - new)
    IN /\ max' = [max EXCEPT ![w] = new]
       /\ sum' = [sum EXCEPT ![w] = Times(@, correction) + Exp(dot - new)]
       /\ local_out' = [local_out EXCEPT ![w] =
              [t \in Positions |-> Times(@[t], correction)
                                    + IF t = tok(w) THEN Exp(dot - new) ELSE 0]]

V2Online(w) ==
    /\ kernel = "v2" /\ Segment(w, 0) /\ More(w)
    /\ Online(w)
    /\ Step(w)
    /\ UNCHANGED <<smem_qk, smem_max, smem_sum, acc, max_logits, exp_sums>>

(* smem_max[warp_idx] = qk_max *)
ShareMax(w) ==
    /\ Segment(w, 0) /\ Reach(w)
    /\ smem_max' = [smem_max EXCEPT ![w] = max[w]]
    /\ UNCHANGED <<max, sum, local_out, smem_qk, smem_sum, acc, max_logits, exp_sums>>

(* Warp 0 reduces the maxima into smem_max[0]; the others just wait. *)
ReduceMax(w) ==
    /\ Segment(w, 1)
    /\ barriers' = [barriers EXCEPT ![w] = @ + 1]
    /\ smem_max' = IF w = leader(w)
                   THEN [smem_max EXCEPT ![w] = MaxOf({smem_max[u] : u \in Mates(w)})]
                   ELSE smem_max
    /\ UNCHANGED <<kernel, input, output, visited, max, sum, local_out, smem_qk, smem_sum,
                   acc, max_logits, exp_sums>>

(* V1: smem_qk becomes the weight relative to smem_max[0]; exp_sum adds it up. *)
V1Exp(w) ==
    LET wt == Exp(smem_qk[tok(w)] - smem_max[leader(w)])
    IN /\ kernel = "v1" /\ Segment(w, 2) /\ More(w)
       /\ smem_qk' = [smem_qk EXCEPT ![tok(w)] = wt]
       /\ sum' = [sum EXCEPT ![w] = @ + wt]
       /\ Step(w)
       /\ UNCHANGED <<max, local_out, smem_max, smem_sum, acc, max_logits, exp_sums>>

V1ShareSum(w) ==
    /\ kernel = "v1" /\ Segment(w, 2) /\ Reach(w)
    /\ smem_sum' = [smem_sum EXCEPT ![w] = sum[w]]
    /\ UNCHANGED <<max, sum, local_out, smem_qk, smem_max, acc, max_logits, exp_sums>>

(* V2: rescale to the partition's maximum.  Every lane holds local_sum, so *)
(* warp_reduce_sum multiplies it by WARP_SIZE.                             *)
V2ShareSum(w) ==
    LET correction == Exp(max[w] - smem_max[leader(w)])
    IN /\ kernel = "v2" /\ Segment(w, 2)
       /\ barriers' = [barriers EXCEPT ![w] = @ + 1]
       /\ smem_sum' = [smem_sum EXCEPT ![w] = WARP_SIZE * Times(sum[w], correction)]
       /\ local_out' = [local_out EXCEPT ![w] =
              [t \in Positions |-> Times(@[t], correction)]]
       /\ UNCHANGED <<kernel, input, output, visited, max, sum, smem_qk, smem_max, acc,
                      max_logits, exp_sums>>

ReduceSum(w) ==
    /\ Segment(w, 3)
    /\ barriers' = [barriers EXCEPT ![w] = @ + 1]
    /\ smem_sum' = IF w = leader(w)
                   THEN [smem_sum EXCEPT ![w] = MapThenSumSet(LAMBDA u : smem_sum[u], Mates(w))]
                   ELSE smem_sum
    /\ UNCHANGED <<kernel, input, output, visited, max, sum, local_out, smem_qk, smem_max,
                   acc, max_logits, exp_sums>>

(* V1: the weighted values of the warp's own positions; 1 / smem_sum[0] is *)
(* applied when the output is written.                                     *)
V1Out(w) ==
    /\ kernel = "v1" /\ Segment(w, 4) /\ More(w)
    /\ local_out' = [local_out EXCEPT ![w][tok(w)] = @ + smem_qk[tok(w)]]
    /\ Step(w)
    /\ UNCHANGED <<max, sum, smem_qk, smem_max, smem_sum, acc, max_logits, exp_sums>>

AddOut(w) == acc' = [acc EXCEPT ![w[1]] = [t \in Positions |-> @[t] + local_out[w][t]]]

V1AddOut(w) ==
    /\ kernel = "v1" /\ Segment(w, 4) /\ Reach(w)
    /\ AddOut(w)
    /\ UNCHANGED <<max, sum, local_out, smem_qk, smem_max, smem_sum, max_logits, exp_sums>>

(* V2: thread 0 publishes the partition's maximum and sum, every warp adds *)
(* its unnormalised output.                                                *)
V2AddOut(w) ==
    /\ kernel = "v2" /\ Segment(w, 4)
    /\ barriers' = [barriers EXCEPT ![w] = @ + 1]
    /\ AddOut(w)
    /\ IF w = leader(w)
       THEN /\ max_logits' = [max_logits EXCEPT ![w[1]] = smem_max[w]]
            /\ exp_sums' = [exp_sums EXCEPT ![w[1]] = smem_sum[w]]
       ELSE UNCHANGED <<max_logits, exp_sums>>
    /\ UNCHANGED <<kernel, input, output, visited, max, sum, local_out, smem_qk, smem_max,
                   smem_sum>>

Finished == \A w \in DOMAIN barriers : barriers[w] = 5

V1Write ==
    /\ kernel = "v1" /\ Finished
    /\ output' = [num |-> acc[0], den |-> smem_sum[<<0, 0>>]]
    /\ kernel' = "done"
    /\ UNCHANGED <<input, barriers, work>>

(* paged_attention_v2_reduce, launched behind V2 on the same stream. *)
V2Reduce ==
    LET parts      == 0 .. num_parts - 1
        global_max == MaxOf({max_logits[p] : p \in parts})
        weight(p)  == Times(exp_sums[p], Exp(max_logits[p] - global_max))
    IN /\ kernel = "v2" /\ Finished
       /\ output' = [num |-> [t \in Positions |->
                                 MapThenSumSet(LAMBDA p : weight(p) * acc[p][t], parts)],
                     den |-> MapThenSumSet(weight, parts) * One]
       /\ kernel' = "done"
       /\ UNCHANGED <<input, barriers, work>>

WarpStep(w) ==
    \/ V1Score(w) \/ V2Online(w) \/ ShareMax(w) \/ ReduceMax(w) \/ V1Exp(w) \/ V1ShareSum(w)
    \/ V2ShareSum(w) \/ ReduceSum(w) \/ V1Out(w) \/ V1AddOut(w) \/ V2AddOut(w)

-----------------------------------------------------------------------------
Exact(num, den) ==
    LET Weight(t) == Exp(score[t] - Max({score[u] : u \in Positions}))
    IN \A t \in Positions : num[t] * MapThenSumSet(Weight, Positions) = Weight(t) * den

(* Attention is softmax attention: when V1 or the CPU path is done, the    *)
(* weight of every position of the context is exp(score) over the sum of   *)
(* all exp(score), whatever the order in which the warps ran.              *)
AttentionExact ==
    (kernel = "done" /\ (max_ctx <= V1Limit \/ barriers = <<>>)) =>
        Exact(output.num, output.den)

(* When all thread blocks of V2 have finished, the partitions can be       *)
(* merged by the log-sum-exp correction: each has the maximum and the      *)
(* unnormalised weights of its own positions, and the stored sums are to   *)
(* one another as the sums of those weights, also for warps without        *)
(* positions.  A factor common to all stored sums would cancel in a merge. *)
PartitionsMergeable ==
    (kernel = "v2" /\ Finished) =>
        LET Part(p)   == {t \in Positions : t \div PARTITION_SIZE = p}
            ExpSum(p) == MapThenSumSet(LAMBDA t : acc[p][t], Part(p))
        IN \A p \in Partitions :
               /\ max_logits[p] = Max({score[t] : t \in Part(p)})
               /\ \A t \in Positions :
                     acc[p][t] = IF t \in Part(p) THEN Exp(score[t] - max_logits[p]) ELSE 0
               /\ exp_sums[p] > 0
               /\ \A q \in Partitions : exp_sums[p] * ExpSum(q) = exp_sums[q] * ExpSum(p)

(* The comment above the V2 kernel: the reduce kernel "merges partitions   *)
(* using the log-sum-exp correction", so that the merged output is the     *)
(* softmax over the whole context.                                         *)
MergedExact == (kernel = "done" /\ max_ctx > V1Limit) => Exact(output.num, output.den)

(* The comment above the V1 kernel: "Suited for short-to-medium contexts   *)
(* (< 8K tokens)".  V1 stays inside its shared arrays for every context it *)
(* is launched for.                                                        *)
SharedInBounds == kernel # "undefined"

=============================================================================
