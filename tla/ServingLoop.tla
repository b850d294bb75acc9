---------------------------- MODULE ServingLoop -----------------------------
(***************************************************************************)
(* The serving loop of the benchmarks' drivers: one engine thread calls    *)
(*   schedule - build_batch - step - update_after_decode -                 *)
(*   free_finished_requests                                                *)
(* over and over, while clients call add_request and abort_request.  The   *)
(* scheduler's mutex orders clients against schedule() and                 *)
(* free_finished_requests(); BatchManager takes no lock, so a client may   *)
(* run between any two iterations of its loops.                            *)
(*                                                                         *)
(* A batch entry is <<sequence, position>>, and the token sampled for an   *)
(* entry is named by that entry: token values do not matter, where a token *)
(* was sampled does.  The forward pass computes no state modelled here.    *)
(***************************************************************************)
EXTENDS Scheduler

CONSTANT ClientsAbort   \* whether clients call abort_request

ASSUME LoopConstants == ClientsAbort \in BOOLEAN

VARIABLES
    arrivals,   \* the submitted requests in order of arrival_time
    phase,      \* the engine thread's place in the loop
    group,      \* index of the scheduled group a BatchManager loop is at
    batch,      \* BatchManager::current_batch_
    new_tokens, \* StepResult::new_tokens
    tok_idx     \* update_after_decode's local of that name

batchVars == <<group, batch, new_tokens, tok_idx>>
vars == <<config, bmVars, schedVars, arrivals, phase, batchVars>>

Init ==
    /\ SchedInit
    /\ arrivals = <<>>
    /\ phase = "schedule"
    /\ group = 1 /\ batch = <<>> /\ new_tokens = <<>> /\ tok_idx = 1

HasPending == waiting # <<>> \/ running # <<>> \/ swapped # <<>>

-----------------------------------------------------------------------------
(* Clients.  A driver that left its loop enters it again with its next     *)
(* request (bench_latency).                                                *)
Submit(r) ==
    /\ add_request(r)
    /\ arrivals' = Append(arrivals, r)
    /\ phase' = IF phase = "stopped" THEN "schedule" ELSE phase
    /\ UNCHANGED <<config, batchVars>>

Abort(r) ==
    /\ ClientsAbort
    /\ abort_request(r)
    /\ UNCHANGED <<config, arrivals, phase, batchVars>>

-----------------------------------------------------------------------------
(* The engine thread. *)
CallSchedule ==
    /\ phase = "schedule" /\ HasPending
    /\ ScheduleEnter
    /\ phase' = "scheduling"
    /\ UNCHANGED <<config, arrivals, batchVars>>

InSchedule == ScheduleStep /\ UNCHANGED <<config, arrivals, phase, batchVars>>

(* if (sched_out.is_empty()) break; *)
AfterSchedule ==
    /\ phase = "scheduling"
    /\ ScheduleReturn
    /\ phase' = IF scheduled = <<>> THEN "stopped" ELSE "build"
    /\ group' = 1 /\ batch' = <<>>
    /\ UNCHANGED <<config, arrivals, new_tokens, tok_idx>>

(* The entries build_batch adds for one sequence. *)
EntriesOf(r) ==
    CASE Finished(r) -> <<>>
      [] ~Finished(r) /\ output_tokens[r] = <<>> ->
            [i \in 1 .. PromptLen[r] |-> <<r, i - 1>>]
      [] OTHER -> << <<r, TotalLen(r) - 1>> >>

BuildNext ==
    /\ phase = "build" /\ group <= Len(scheduled)
    /\ batch' = batch \o EntriesOf(scheduled[group])
    /\ group' = group + 1
    /\ UNCHANGED <<bmVars, schedVars, config, arrivals, phase, new_tokens, tok_idx>>

BuildReturn ==
    /\ phase = "build" /\ group > Len(scheduled)
    /\ phase' = "step"
    /\ UNCHANGED <<bmVars, schedVars, config, arrivals, batchVars>>

(* sample returns one token per entry of the batch. *)
Step ==
    /\ phase = "step"
    /\ new_tokens' = batch
    /\ batch' = <<>>
    /\ group' = 1 /\ tok_idx' = 1
    /\ phase' = "update"
    /\ UNCHANGED <<bmVars, schedVars, config, arrivals>>

(* update_after_decode takes one token per unfinished sequence.  The test   *)
(* of the status and the writes are separate steps: no lock is held, and   *)
(* an abort may fall in between.                                           *)
UpdateSkip ==
    /\ phase = "update" /\ group <= Len(scheduled)
    /\ Finished(scheduled[group]) \/ tok_idx > Len(new_tokens)
    /\ group' = group + 1
    /\ UNCHANGED <<bmVars, schedVars, config, arrivals, phase, batch, new_tokens, tok_idx>>

UpdateCheck ==
    /\ phase = "update" /\ group <= Len(scheduled)
    /\ ~Finished(scheduled[group]) /\ tok_idx <= Len(new_tokens)
    /\ phase' = "append"
    /\ UNCHANGED <<bmVars, schedVars, config, arrivals, batchVars>>

UpdateAppend ==
    /\ phase = "append"
    /\ LET r == scheduled[group] IN
       /\ output_tokens' = [output_tokens EXCEPT ![r] = Append(@, new_tokens[tok_idx])]
       /\ status' = IF Len(output_tokens[r]) + 1 >= MaxTokens[r]
                    THEN [status EXCEPT ![r] = "FINISHED_LENGTH"]
                    ELSE status
    /\ tok_idx' = tok_idx + 1
    /\ group' = group + 1
    /\ phase' = "update"
    /\ UNCHANGED <<bmVars, queueVars, logical_blocks, pc, it, innerVars,
                   budgetVars, outputVars, config, arrivals, batch, new_tokens>>

UpdateReturn ==
    /\ phase = "update" /\ group > Len(scheduled)
    /\ phase' = "free"
    /\ new_tokens' = <<>>
    /\ UNCHANGED <<bmVars, schedVars, config, arrivals, group, batch, tok_idx>>

CallFreeFinished ==
    /\ phase = "free"
    /\ FreeFinishedEnter
    /\ phase' = "freeing"
    /\ UNCHANGED <<config, arrivals, batchVars>>

InFreeFinishedLoop == FreeFinishedStep /\ UNCHANGED <<config, arrivals, phase, batchVars>>

AfterFreeFinished ==
    /\ phase = "freeing"
    /\ FreeFinishedReturn
    /\ phase' = "schedule"
    /\ UNCHANGED <<config, arrivals, batchVars>>

(* free_blocks, entered by the engine or by an aborting client. *)
InFreeBlocks == FreeBlocksStep /\ UNCHANGED <<config, arrivals, phase, batchVars>>

Engine ==
    \/ CallSchedule \/ InSchedule \/ AfterSchedule
    \/ BuildNext \/ BuildReturn \/ Step \/ UpdateSkip \/ UpdateCheck \/ UpdateAppend
    \/ UpdateReturn
    \/ CallFreeFinished \/ InFreeFinishedLoop \/ AfterFreeFinished
    \/ InFreeBlocks

(* Nothing left to submit, and the loop is over or has nothing to do. *)
Terminated ==
    /\ \A r \in SeqIds : status[r] # "NEW"
    /\ phase = "stopped" \/ (phase = "schedule" /\ ~HasPending)
    /\ freeing = NoSeq
    /\ UNCHANGED vars

Next ==
    \/ \E r \in SeqIds : Submit(r) \/ Abort(r)
    \/ Engine
    \/ Terminated

Spec == Init /\ [][Next]_vars

(* The engine thread is scheduled by the operating system, and a call to   *)
(* free_blocks that was entered returns.  Clients need not do anything.    *)
FairSpec == Spec /\ WF_vars(Engine)

-----------------------------------------------------------------------------
(* Types of the scheduler's, the loop's and the block manager's state.     *)
TypeOK ==
    /\ ref_count \in [Blocks -> Nat]
    /\ free_list \in [Device -> Seq(Blocks)]
    /\ seq_block_map \in [SeqIds -> Seq(Blocks)]
    /\ freeing \in SeqIds \cup {NoSeq}
    /\ {waiting, running, swapped, arrivals} \subseteq Seq(SeqIds)
    /\ {scheduled, preempted, swapped_in} \subseteq Seq(SeqIds)
    /\ request_map \in SUBSET SeqIds
    /\ status \in [SeqIds -> Status]
    /\ output_tokens \in [SeqIds -> Seq(SeqIds \X Nat)]
    /\ logical_blocks \in [SeqIds -> Seq(Blocks \cup {INVALID_BLOCK})]
    /\ cpu_bid \in Blocks \cup {INVALID_BLOCK}
    /\ {it, group, tok_idx} \subseteq Nat \ {0}
    /\ {left, budget_tokens, budget_seqs} \subseteq Nat
    /\ {batch, new_tokens} \subseteq Seq(SeqIds \X Nat)

Unlocked == At("unlocked")

(* Outside the scheduler's critical sections the block table of a running  *)
(* sequence names GPU blocks that are recorded under it, are not free, and *)
(* are in no other running sequence's table: attention never reads another *)
(* sequence's keys and values.  (SWAP preemption does not keep this.)      *)
TablesExclusive ==
    PreemptionMode = "RECOMPUTE" /\ Unlocked =>
        \A r, t \in {q \in SeqIds : status[q] = "RUNNING"} :
            \A i \in DOMAIN logical_blocks[r], j \in DOMAIN logical_blocks[t] :
                LET b == logical_blocks[r][i] IN
                /\ b \in Range(seq_block_map[r]) \ Range(free_list["CUDA"])
                /\ b[1] = "CUDA"
                /\ b = logical_blocks[t][j] => r = t /\ i = j

(* While a sequence runs its table names GPU blocks only, enough for every *)
(* position whose keys and values are written, also after it was swapped   *)
(* out and in again.                                                       *)
RunningOnGpu ==
    Unlocked =>
        \A r \in {q \in SeqIds : status[q] = "RUNNING"} :
            /\ \A b \in Range(logical_blocks[r]) : b[1] = "CUDA"
            /\ Len(logical_blocks[r]) * BlockSize >= TotalLen(r) - 1

(* test_basic_alloc_free: two allocations give two different blocks.  So   *)
(* no block is in the tables of two running sequences.                     *)
BlocksNotShared ==
    Unlocked =>
        \A r, t \in {q \in SeqIds : status[q] = "RUNNING"} :
            r # t => Range(logical_blocks[r]) \cap Range(logical_blocks[t]) = {}

(* Outside the critical sections every block is in the free list exactly   *)
(* once or recorded under a request that still needs it: nothing leaks by  *)
(* RECOMPUTE preemption, abort or completion, and nothing is freed twice.  *)
NoBlockLost ==
    PreemptionMode = "RECOMPUTE" /\ Unlocked =>
        \A b \in Blocks :
            LET free == {i \in DOMAIN free_list[b[1]] : free_list[b[1]][i] = b}
                owners == {r \in SeqIds : b \in Range(seq_block_map[r])}
            IN  \/ owners = {} /\ \E i \in free : free = {i}
                \/ free = {} /\ \E r \in owners :
                       /\ owners = {r}
                       /\ status[r] \in {"RUNNING", "FINISHED_LENGTH"}

(* The KV slot of a batch entry, as prepare_kv_cache_inputs computes it. *)
SlotBlock(e) == logical_blocks[e[1]][(e[2] \div BlockSize) + 1]

(* When the step runs, every entry has a block for its position (otherwise *)
(* its slot is an uninitialised read), no two entries share a slot, and no *)
(* slot lies in a block recorded under another sequence, even when the     *)
(* entry's own request was aborted after the batch was built.  (SWAP       *)
(* preemption does not keep this.)                                         *)
SlotsOwned ==
    PreemptionMode = "RECOMPUTE" /\ phase = "step" =>
        \A i, j \in DOMAIN batch :
            LET e == batch[i] IN
            /\ e[2] \div BlockSize < Len(logical_blocks[e[1]])
            /\ SlotBlock(e) \in Blocks
            /\ \A r \in SeqIds \ {e[1]} : SlotBlock(e) \notin Range(seq_block_map[r])
            /\ SlotBlock(e) = SlotBlock(batch[j])
                 /\ e[2] % BlockSize = batch[j][2] % BlockSize => i = j

(* The batch built from schedule()'s output respects both configured       *)
(* limits, although decodes, re-admitted victims and swapped-in groups     *)
(* draw on them in different ways.                                         *)
WithinBudget ==
    phase = "step" =>
        /\ Len(batch) <= MaxBatchedTokens
        /\ Len(scheduled) <= MaxNumSeqs

(* The raw pointers in SchedulerOutput::scheduled_groups stay valid until  *)
(* update_after_decode is done with them, and no group is listed twice.    *)
ScheduledAlive ==
    phase \in {"build", "step", "update", "append"} =>
        /\ IsInjective(scheduled)
        /\ Range(scheduled) \subseteq Range(running)

(* Outside the critical sections a request is in exactly one queue, once,  *)
(* from submission until it is destroyed.                                  *)
OneQueue ==
    Unlocked =>
        LET all == waiting \o running \o swapped IN
        /\ IsInjective(all)
        /\ Range(all) = {r \in SeqIds : status[r] \notin {"NEW", "GONE"}}

(* FCFS with recomputation never lets a request overtake one submitted     *)
(* earlier, preemption included: the victim is the youngest running one,   *)
(* and goes back to the head of the waiting queue.                         *)
FcfsOrder ==
    LET line == running \o waiting
        Position(r) == CHOOSE i \in DOMAIN arrivals : arrivals[i] = r
    IN  Policy = "FCFS" /\ PreemptionMode = "RECOMPUTE" /\ pc # "prefillAlloc" =>
          \A i, j \in DOMAIN line : i < j => Position(line[i]) < Position(line[j])

(* An aborted request is revived only when it was still waiting for its    *)
(* first admission (schedule_prefills does not look at the status): never  *)
(* with tokens or a block table of its earlier life.                       *)
AbortedOnlyRestarts ==
    [][\A r \in SeqIds :
          status[r] = "FINISHED_ABORT" /\ status'[r] = "RUNNING"
            => output_tokens[r] = <<>> /\ logical_blocks[r] = <<>>]_vars

(* With the PRIORITY policy no request is admitted while one of higher     *)
(* priority waits, although a victim joins the queue in the same schedule(). *)
AdmissionByPriority ==
    [][Policy = "PRIORITY" /\ pc = "prefill" /\ pc' = "prefillAlloc" =>
          \A r \in Range(waiting) : Priority[r] <= Priority[Head(waiting)]]_vars

(* With FCFS and recomputation the driver's loop gives up (schedule()      *)
(* returned no groups) only when every request in the queues is finished.  *)
(* With PRIORITY and SHORTEST_REMAINING it also gives up when a request    *)
(* that does not fit is sorted before the victim that would, and with SWAP *)
(* when a victim is swapped in by the schedule() that swapped it out.      *)
StopsOnlyWhenDone ==
    Policy = "FCFS" /\ PreemptionMode = "RECOMPUTE" /\ phase = "stopped" =>
        \A r \in Range(waiting \o running \o swapped) : Finished(r)

(* Each output token was sampled at its own sequence's last position.      *)
TokensOwn ==
    \A r \in SeqIds : \A i \in DOMAIN output_tokens[r] :
        output_tokens[r][i] = <<r, PromptLen[r] + i - 2>>

(* Every submitted request eventually finishes.                            *)
AllFinish ==
    \A r \in SeqIds : status[r] = "WAITING" ~> Finished(r) \/ status[r] = "GONE"

=============================================================================
