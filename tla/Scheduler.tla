----------------------------- MODULE Scheduler ------------------------------
(***************************************************************************)
(* The continuous-batching scheduler (scheduler/scheduler.cpp) on top of   *)
(* the block manager.  A request has one sequence whose id is the request  *)
(* id, as SequenceGroup's constructor makes it, so one set SeqIds names    *)
(* both.                                                                   *)
(*                                                                         *)
(* Every public operation holds Scheduler::mu_ throughout, and calls into  *)
(* the block manager one call at a time, each under the block manager's    *)
(* own mutex.  So a step here is one iteration of a loop of the code, with *)
(* at most one block-manager call; `pc` is the position of the thread that *)
(* holds mu_ and "unlocked" when nobody does.  No step is optional: with   *)
(* mu_ held, exactly the step that comes next in the code is enabled.      *)
(***************************************************************************)
EXTENDS BlockManager

CONSTANTS
    PromptLen,          \* prompt_tokens.size() of each request
    MaxTokens,          \* SamplingParams::max_tokens of each request
    Priority,           \* SequenceGroup::priority of each request
    BlockSize,          \* CacheConfig::block_size
    Configs             \* the SchedulerConfigs the scheduler may be built with

ASSUME SchedulerConstants ==
    /\ PromptLen \in [SeqIds -> Nat \ {0}]
    /\ MaxTokens \in [SeqIds -> Nat]
    /\ Priority \in [SeqIds -> Int]
    /\ BlockSize \in Nat \ {0}
    /\ \A c \in Configs :
          /\ c.policy \in {"FCFS", "SHORTEST_REMAINING", "PRIORITY"}
          /\ c.preemption_mode \in {"SWAP", "RECOMPUTE"}
          /\ c.max_num_seqs \in Nat
          /\ c.max_num_batched_tokens \in Nat

VARIABLES
    config,                     \* config_, chosen when the scheduler is built
    waiting, running, swapped,  \* the three queues of groups
    request_map,                \* the keys of request_map_
    status,                     \* SequenceData::status
    output_tokens,              \* SequenceData::output_tokens
    logical_blocks,             \* SequenceData::logical_blocks
    pc,                         \* where the holder of mu_ is
    it,                         \* the iterator of the loop it is in
    left,                       \* iterations left of the inner loop it is in
    cpu_bid,                    \* preempt's local of that name
    budget_tokens, budget_seqs, \* schedule()'s two budgets
    scheduled, preempted, swapped_in    \* the lists of SchedulerOutput

queueVars  == <<waiting, running, swapped, request_map>>
seqVars    == <<status, output_tokens, logical_blocks>>
budgetVars == <<budget_tokens, budget_seqs>>
outputVars == <<scheduled, preempted, swapped_in>>
innerVars  == <<left, cpu_bid>>
schedVars  == <<queueVars, seqVars, pc, it, innerVars, budgetVars, outputVars>>

Policy           == config.policy
PreemptionMode   == config.preemption_mode
MaxNumSeqs       == config.max_num_seqs
MaxBatchedTokens == config.max_num_batched_tokens

(* A request not yet submitted is "NEW", one whose group is destroyed "GONE". *)
Status == {"NEW", "WAITING", "RUNNING", "PREEMPTED", "SWAPPED",
           "FINISHED_LENGTH", "FINISHED_ABORT", "GONE"}

Finished(r) == status[r] \in {"FINISHED_LENGTH", "FINISHED_ABORT"}

TotalLen(r) == PromptLen[r] + Len(output_tokens[r])

(* Mutant: the output tokens are forgotten. *)
BlocksForPrompt(r) == (PromptLen[r] + BlockSize - 1) \div BlockSize

BlocksNeeded(r) == (TotalLen(r) + BlockSize - 1) \div BlockSize

(* Mutant: a decode is not charged to the token budget. *)
DecodeIsFree(r) == 0 * PromptLen[r]

(* num_unfinished() of the one-sequence group: estimate_tokens of a decode. *)
DecodeTokens(r) == IF Finished(r) THEN 0 ELSE 1

SchedInit ==
    /\ BMInit
    /\ config \in Configs
    /\ waiting = <<>> /\ running = <<>> /\ swapped = <<>>
    /\ request_map = {}
    /\ status = [r \in SeqIds |-> "NEW"]
    /\ output_tokens = [r \in SeqIds |-> <<>>]
    /\ logical_blocks = [r \in SeqIds |-> <<>>]
    /\ pc = "unlocked" /\ it = 1 /\ left = 0 /\ cpu_bid = INVALID_BLOCK
    /\ budget_tokens = 0 /\ budget_seqs = 0
    /\ scheduled = <<>> /\ preempted = <<>> /\ swapped_in = <<>>

(* The steps of the thread that holds mu_ outside free_blocks: while it is *)
(* inside, only the loop of free_blocks moves.                             *)
At(label) == pc = label /\ freeing = NoSeq

-----------------------------------------------------------------------------
(* add_request, called by clients. *)
add_request(r) ==
    /\ At("unlocked")
    /\ status[r] = "NEW"
    /\ status' = [status EXCEPT ![r] = "WAITING"]
    /\ request_map' = request_map \cup {r}
    /\ waiting' = Append(waiting, r)
    /\ UNCHANGED <<bmVars, running, swapped, output_tokens, logical_blocks,
                   pc, it, innerVars, budgetVars, outputVars>>

(* Mutant: the aborted group is destroyed at once. *)
AbortErases(r) ==
    /\ At("unlocked")
    /\ r \in request_map
    /\ request_map' = request_map \ {r}
    /\ status' = [status EXCEPT ![r] = "GONE"]
    /\ EnterFreeBlocks(r)
    /\ running' = SelectSeq(running, LAMBDA q : q # r)
    /\ waiting' = SelectSeq(waiting, LAMBDA q : q # r)
    /\ UNCHANGED <<ref_count, free_list, seq_block_map, swapped, output_tokens,
                   logical_blocks, pc, it, innerVars, budgetVars, outputVars>>

(* abort_request, called by clients: the group stays in its queue, with its *)
(* table of logical blocks.                                                *)
abort_request(r) ==
    /\ At("unlocked")
    /\ r \in request_map
    /\ request_map' = request_map \ {r}
    /\ IF Finished(r)
       THEN UNCHANGED <<status, freeing>>
       ELSE /\ status' = [status EXCEPT ![r] = "FINISHED_ABORT"]
            /\ EnterFreeBlocks(r)
    /\ UNCHANGED <<ref_count, free_list, seq_block_map, waiting, running,
                   swapped, output_tokens, logical_blocks, pc, it, innerVars,
                   budgetVars, outputVars>>

-----------------------------------------------------------------------------
(* schedule() and schedule_decodes *)

ScheduleEnter ==
    /\ At("unlocked")
    /\ pc' = "decode" /\ it' = 1
    /\ budget_tokens' = MaxBatchedTokens /\ budget_seqs' = MaxNumSeqs
    /\ scheduled' = <<>> /\ preempted' = <<>> /\ swapped_in' = <<>>
    /\ UNCHANGED <<bmVars, queueVars, seqVars, innerVars>>

DecodeSkip ==
    /\ At("decode") /\ it <= Len(running)
    /\ Finished(running[it])
    /\ it' = it + 1
    /\ UNCHANGED <<bmVars, queueVars, seqVars, pc, innerVars, budgetVars, outputVars>>

OverBudget(r) == DecodeTokens(r) > budget_tokens \/ budget_seqs = 0

CanAppend(r) ==
    \/ BlocksNeeded(r) <= Len(logical_blocks[r])
    \/ can_allocate(BlocksNeeded(r) - Len(logical_blocks[r]))

DecodeCheck ==
    /\ At("decode") /\ it <= Len(running)
    /\ ~Finished(running[it])
    /\ pc' = IF OverBudget(running[it]) \/ ~CanAppend(running[it])
             THEN "preempt" ELSE "decodeAlloc"
    /\ UNCHANGED <<bmVars, queueVars, seqVars, it, innerVars, budgetVars, outputVars>>

(* push_back what allocate_block returned, INVALID_BLOCK included. *)
AllocateLogical(r) ==
    /\ allocate_block(r, "CUDA")
    /\ logical_blocks' = [logical_blocks EXCEPT ![r] = Append(@, PoppedBlock("CUDA"))]

DecodeAllocate ==
    /\ At("decodeAlloc")
    /\ Len(logical_blocks[running[it]]) < BlocksNeeded(running[it])
    /\ AllocateLogical(running[it])
    /\ UNCHANGED <<queueVars, status, output_tokens, pc, it, innerVars, budgetVars,
                   outputVars>>

DecodeSchedule ==
    /\ At("decodeAlloc")
    /\ Len(logical_blocks[running[it]]) >= BlocksNeeded(running[it])
    /\ scheduled' = Append(scheduled, running[it])
    /\ budget_tokens' = budget_tokens - DecodeTokens(running[it])
    /\ budget_seqs' = budget_seqs - 1
    /\ it' = it + 1
    /\ pc' = "decode"
    /\ UNCHANGED <<bmVars, queueVars, seqVars, innerVars, preempted, swapped_in>>

DecodeEnd ==
    /\ At("decode") /\ it > Len(running)
    /\ pc' = "sort"
    /\ UNCHANGED <<bmVars, queueVars, seqVars, it, innerVars, budgetVars, outputVars>>

-----------------------------------------------------------------------------
(* preempt: the victim is the group at the back of running_.  After it,    *)
(* schedule_decodes breaks out of its loop.                                *)

Victim == Back(running)

(* Mutant: the victim goes to the back of the waiting queue. *)
RequeueAtBack == Append(waiting, Victim)

(* Mutant: the victim is dropped. *)
RequeueLost == waiting

RequeueVictim == <<Victim>> \o waiting

PreemptRecompute ==
    /\ At("preempt") /\ PreemptionMode = "RECOMPUTE"
    /\ IF Finished(Victim)
       THEN UNCHANGED <<seqVars, freeing>>
       ELSE /\ status' = [status EXCEPT ![Victim] = "PREEMPTED"]
            /\ logical_blocks' = [logical_blocks EXCEPT ![Victim] = <<>>]
            /\ output_tokens' = [output_tokens EXCEPT ![Victim] = <<>>]
            /\ EnterFreeBlocks(Victim)
    /\ waiting' = RequeueVictim
    /\ preempted' = Append(preempted, Victim)
    /\ running' = PopBack(running)
    /\ pc' = "sort"
    /\ UNCHANGED <<ref_count, free_list, seq_block_map, swapped, request_map,
                   it, innerVars, budgetVars, scheduled, swapped_in>>

(* SWAP: for each logical block, allocate a CPU block (the result is not   *)
(* checked), then free_block the GPU block, which stays recorded.          *)
PreemptSwap ==
    /\ At("preempt") /\ PreemptionMode = "SWAP"
    /\ IF Finished(Victim)
       THEN left' = 0 /\ UNCHANGED status
       ELSE /\ left' = Len(logical_blocks[Victim])
            /\ status' = [status EXCEPT ![Victim] = "SWAPPED"]
    /\ pc' = "swapOut"
    /\ UNCHANGED <<bmVars, queueVars, output_tokens, logical_blocks, it,
                   cpu_bid, budgetVars, outputVars>>

(* The logical block an inner loop over r's table has come to. *)
Cursor(r) == Len(logical_blocks[r]) - left + 1

SwapOutAllocate ==
    /\ At("swapOut") /\ left > 0
    /\ allocate_block(Victim, "CPU")
    /\ cpu_bid' = PoppedBlock("CPU")
    /\ pc' = "swapOutFree"
    /\ UNCHANGED <<queueVars, seqVars, it, left, budgetVars, outputVars>>

SwapOutFree ==
    /\ At("swapOutFree")
    /\ free_block(logical_blocks[Victim][Cursor(Victim)])
    /\ logical_blocks' = [logical_blocks EXCEPT ![Victim][Cursor(Victim)] = cpu_bid]
    /\ left' = left - 1
    /\ pc' = "swapOut"
    /\ UNCHANGED <<queueVars, status, output_tokens, it, cpu_bid, budgetVars,
                   outputVars>>

SwapOutEnd ==
    /\ At("swapOut") /\ left = 0
    /\ swapped' = Append(swapped, Victim)
    /\ preempted' = Append(preempted, Victim)
    /\ running' = PopBack(running)
    /\ pc' = "sort"
    /\ UNCHANGED <<bmVars, waiting, request_map, seqVars, it, innerVars,
                   budgetVars, scheduled, swapped_in>>

-----------------------------------------------------------------------------
(* sort_waiting_queue and schedule_prefills *)

(* Mutant: the priority comparator is the wrong way round. *)
BeforeReversed(r, q) ==
    \/ Policy = "SHORTEST_REMAINING" /\ MaxTokens[r] < MaxTokens[q]
    \/ Policy = "PRIORITY" /\ Priority[r] < Priority[q]

(* Whether the comparator of the policy's stable_sort puts r before q. *)
Before(r, q) ==
    \/ Policy = "SHORTEST_REMAINING" /\ MaxTokens[r] < MaxTokens[q]
    \/ Policy = "PRIORITY" /\ Priority[r] > Priority[q]

(* p lists the positions of the queue q in stably sorted order. *)
StableOrder(q, p) ==
    \A i, j \in DOMAIN q :
        i < j => \/ Before(q[p[i]], q[p[j]])
                 \/ ~Before(q[p[j]], q[p[i]]) /\ p[i] < p[j]

SortWaiting ==
    /\ At("sort")
    /\ \E p \in Bijection(DOMAIN waiting, DOMAIN waiting) :
           /\ StableOrder(waiting, p)
           /\ waiting' = [i \in DOMAIN waiting |-> waiting[p[i]]]
    /\ pc' = "prefill"
    /\ UNCHANGED <<bmVars, running, swapped, request_map, seqVars, it,
                   innerVars, budgetVars, outputVars>>

(* Mutant: the token budget is not looked at. *)
PrefillIgnoresTokens ==
    /\ waiting # <<>>
    /\ budget_seqs > 0
    /\ can_allocate(BlocksNeeded(Head(waiting)))

(* Mutant: a prompt that uses up the token budget is not admitted. *)
PrefillStrictTokens ==
    /\ waiting # <<>>
    /\ budget_seqs > 0
    /\ PromptLen[Head(waiting)] < budget_tokens
    /\ can_allocate(BlocksNeeded(Head(waiting)))

CanPrefill ==
    /\ waiting # <<>>
    /\ budget_seqs > 0
    /\ PromptLen[Head(waiting)] <= budget_tokens
    /\ can_allocate(BlocksNeeded(Head(waiting)))

(* The head becomes RUNNING whatever its status was. *)
PrefillAdmit ==
    /\ At("prefill") /\ CanPrefill
    /\ status' = [status EXCEPT ![Head(waiting)] = "RUNNING"]
    /\ left' = BlocksNeeded(Head(waiting))
    /\ pc' = "prefillAlloc"
    /\ UNCHANGED <<bmVars, queueVars, output_tokens, logical_blocks, it,
                   cpu_bid, budgetVars, outputVars>>

PrefillAllocate ==
    /\ At("prefillAlloc") /\ left > 0
    /\ AllocateLogical(Head(waiting))
    /\ left' = left - 1
    /\ UNCHANGED <<queueVars, status, output_tokens, pc, it, cpu_bid,
                   budgetVars, outputVars>>

PrefillSchedule ==
    /\ At("prefillAlloc") /\ left = 0
    /\ scheduled' = Append(scheduled, Head(waiting))
    /\ budget_tokens' = budget_tokens - PromptLen[Head(waiting)]
    /\ budget_seqs' = budget_seqs - 1
    /\ running' = Append(running, Head(waiting))
    /\ waiting' = Tail(waiting)
    /\ pc' = "prefill"
    /\ UNCHANGED <<bmVars, swapped, request_map, seqVars, it, innerVars,
                   preempted, swapped_in>>

(* schedule() then calls try_swap_in only with both budgets left. *)
PrefillEnd ==
    /\ At("prefill") /\ ~CanPrefill
    /\ pc' = IF budget_tokens > 0 /\ budget_seqs > 0 THEN "swapIn" ELSE "scheduleEnd"
    /\ UNCHANGED <<bmVars, queueVars, seqVars, it, innerVars, budgetVars,
                   outputVars>>

-----------------------------------------------------------------------------
(* try_swap_in and the end of schedule() *)

SwapInBlocks(r) == IF Finished(r) THEN 0 ELSE Len(logical_blocks[r])

CanSwapIn ==
    /\ swapped # <<>>
    /\ budget_seqs > 0
    /\ DecodeTokens(Head(swapped)) <= budget_tokens
    /\ can_allocate(SwapInBlocks(Head(swapped)))

SwapInAdmit ==
    /\ At("swapIn") /\ CanSwapIn
    /\ left' = SwapInBlocks(Head(swapped))
    /\ status' = IF Finished(Head(swapped)) THEN status
                 ELSE [status EXCEPT ![Head(swapped)] = "RUNNING"]
    /\ pc' = "swapInAlloc"
    /\ UNCHANGED <<bmVars, queueVars, output_tokens, logical_blocks, it,
                   cpu_bid, budgetVars, outputVars>>

(* Mutant: the new block is not written to the table. *)
SwapInKeepsTable ==
    /\ At("swapInAlloc") /\ left > 0
    /\ LET r == Head(swapped) IN
       /\ allocate_block(r, "CUDA")
       /\ UNCHANGED logical_blocks
    /\ left' = left - 1
    /\ UNCHANGED <<queueVars, status, output_tokens, pc, it, cpu_bid,
                   budgetVars, outputVars>>

(* The CPU block is replaced in the table, and stays allocated. *)
SwapInAllocate ==
    /\ At("swapInAlloc") /\ left > 0
    /\ LET r == Head(swapped) IN
       /\ allocate_block(r, "CUDA")
       /\ logical_blocks' =
              [logical_blocks EXCEPT ![r][Cursor(r)] = PoppedBlock("CUDA")]
    /\ left' = left - 1
    /\ UNCHANGED <<queueVars, status, output_tokens, pc, it, cpu_bid,
                   budgetVars, outputVars>>

SwapInEnd ==
    /\ At("swapInAlloc") /\ left = 0
    /\ swapped_in' = Append(swapped_in, Head(swapped))
    /\ budget_tokens' = budget_tokens - DecodeTokens(Head(swapped))
    /\ budget_seqs' = budget_seqs - 1
    /\ running' = Append(running, Head(swapped))
    /\ swapped' = Tail(swapped)
    /\ pc' = "swapIn"
    /\ UNCHANGED <<bmVars, waiting, request_map, seqVars, it, innerVars,
                   scheduled, preempted>>

SwapInStop ==
    /\ At("swapIn") /\ ~CanSwapIn
    /\ pc' = "scheduleEnd"
    /\ UNCHANGED <<bmVars, queueVars, seqVars, it, innerVars, budgetVars,
                   outputVars>>

ScheduleReturn ==
    /\ At("scheduleEnd")
    /\ pc' = "unlocked"
    /\ UNCHANGED <<bmVars, queueVars, seqVars, it, innerVars, budgetVars,
                   outputVars>>

ScheduleStep ==
    \/ DecodeSkip \/ DecodeCheck \/ DecodeAllocate \/ DecodeSchedule \/ DecodeEnd
    \/ PreemptRecompute
    \/ PreemptSwap \/ SwapOutAllocate \/ SwapOutFree \/ SwapOutEnd
    \/ SortWaiting
    \/ PrefillAdmit \/ PrefillAllocate \/ PrefillSchedule \/ PrefillEnd
    \/ SwapInAdmit \/ SwapInAllocate \/ SwapInEnd \/ SwapInStop

-----------------------------------------------------------------------------
(* free_finished_requests: running_ first, then waiting_; not swapped_. *)

FreeFinishedEnter ==
    /\ At("unlocked")
    /\ pc' = "freeRunning" /\ it' = 1
    /\ UNCHANGED <<bmVars, queueVars, seqVars, innerVars, budgetVars, outputVars>>

FreeFinishedQueue == IF pc = "freeRunning" THEN running ELSE waiting

InFreeFinished == At("freeRunning") \/ At("freeWaiting")

FreeFinishedSkip ==
    /\ InFreeFinished
    /\ it <= Len(FreeFinishedQueue)
    /\ ~Finished(FreeFinishedQueue[it])
    /\ it' = it + 1
    /\ UNCHANGED <<bmVars, queueVars, seqVars, pc, innerVars, budgetVars,
                   outputVars>>

(* A queue's erase of the element at i. *)
Erase(s, i) == SubSeq(s, 1, i - 1) \o SubSeq(s, i + 1, Len(s))

(* The group is destroyed: free_blocks, unregister, erase from the queue. *)
FreeFinishedErase ==
    /\ InFreeFinished
    /\ it <= Len(FreeFinishedQueue)
    /\ LET r == FreeFinishedQueue[it] IN
       /\ Finished(r)
       /\ EnterFreeBlocks(r)
       /\ request_map' = request_map \ {r}
       /\ status' = [status EXCEPT ![r] = "GONE"]
       /\ logical_blocks' = [logical_blocks EXCEPT ![r] = <<>>]
    /\ IF pc = "freeRunning"
       THEN running' = Erase(running, it) /\ UNCHANGED waiting
       ELSE waiting' = Erase(waiting, it) /\ UNCHANGED running
    /\ UNCHANGED <<ref_count, free_list, seq_block_map, swapped, output_tokens,
                   pc, it, innerVars, budgetVars, outputVars>>

(* Mutant: only the running queue is cleaned. *)
FreeRunningOnly ==
    /\ InFreeFinished
    /\ it > Len(FreeFinishedQueue)
    /\ it' = 1
    /\ pc' = "freeEnd"
    /\ UNCHANGED <<bmVars, queueVars, seqVars, innerVars, budgetVars, outputVars>>

FreeFinishedEnd ==
    /\ InFreeFinished
    /\ it > Len(FreeFinishedQueue)
    /\ it' = 1
    /\ pc' = IF pc = "freeRunning" THEN "freeWaiting" ELSE "freeEnd"
    /\ UNCHANGED <<bmVars, queueVars, seqVars, innerVars, budgetVars, outputVars>>

FreeFinishedReturn ==
    /\ At("freeEnd")
    /\ pc' = "unlocked"
    /\ UNCHANGED <<bmVars, queueVars, seqVars, it, innerVars, budgetVars,
                   outputVars>>

FreeFinishedStep == FreeFinishedSkip \/ FreeFinishedErase \/ FreeFinishedEnd

(* The loop inside the block manager that one of the calls above entered. *)
FreeBlocksStep ==
    /\ FreeBlocksNext \/ FreeBlocksReturn
    /\ UNCHANGED schedVars

=============================================================================
