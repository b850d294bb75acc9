------------------------ MODULE ServingOwnersProofs -------------------------
(***************************************************************************)
(* Proofs about who owns a block when PreemptionMode is RECOMPUTE, for     *)
(* every set of requests, pool and block size: running sequences' tables   *)
(* are exclusive, and an aborted or preempted request only restarts from   *)
(* nothing.  Two inductive invariants build on those of the modules below: *)
(*   DoneInv  what a finished and what an unstarted request looks like;    *)
(*   RoomInv  tables equal records, and nothing fits after a preemption.   *)
(***************************************************************************)
EXTENDS ServingLoopProofs

-----------------------------------------------------------------------------
(* Finished and unstarted requests.  FINISHED_LENGTH is set by             *)
(* update_after_decode on a running sequence and is gone before the next   *)
(* schedule() (LengthDone), because free_finished_requests leaves no       *)
(* finished request behind its cursor (Swept).  A request that waits has   *)
(* neither tokens nor a table, unless it is a finished victim (NotStarted).*)

LengthPhases == {"update", "append", "free", "freeing"}

LengthDone ==
    \A r \in SeqIds : status[r] = "FINISHED_LENGTH" => r \in Range(running) /\ phase \in LengthPhases

Swept ==
    /\ pc = "freeRunning" => \A i \in DOMAIN running : i < it => ~Finished(running[i])
    /\ pc \in {"freeWaiting", "freeEnd"} => \A r \in Range(running) : ~Finished(r)
    /\ pc = "freeWaiting" => \A i \in DOMAIN waiting : i < it => ~Finished(waiting[i])
    /\ pc = "freeEnd" => \A r \in Range(waiting) : ~Finished(r)

Fresh(r) == output_tokens[r] = <<>> /\ logical_blocks[r] = <<>>

Unstarted == {"NEW", "WAITING", "PREEMPTED"}

NotStarted ==
    /\ \A r \in SeqIds : status[r] \in Unstarted => Fresh(r)
    /\ PreemptionMode # "RECOMPUTE" =>
          \A r \in Range(waiting) : status[r] # "RUNNING" => Fresh(r)

(* The inductive invariant of finished and unstarted requests. *)
DoneInv == LengthDone /\ Swept /\ NotStarted

(* What NotStarted asks of a step. *)
LEMMA FreshStay ==
    ASSUME NotStarted, config' = config,
           \A r \in SeqIds : status'[r] \in Unstarted =>
               \/ Fresh(r)'
               \/ status[r] \in Unstarted /\ UNCHANGED <<output_tokens[r], logical_blocks[r]>>,
           PreemptionMode # "RECOMPUTE" =>
               \A r \in Range(waiting') : status'[r] # "RUNNING" =>
                   \/ Fresh(r)'
                   \/ /\ r \in Range(waiting) /\ status[r] # "RUNNING"
                      /\ UNCHANGED <<output_tokens[r], logical_blocks[r]>>
    PROVE  NotStarted'
  <1>1. PreemptionMode' = PreemptionMode
    BY Zenon DEF PreemptionMode
  <1>2. ASSUME NEW r \in SeqIds, status'[r] \in Unstarted PROVE Fresh(r)'
    BY <1>2, Zenon DEF NotStarted, Fresh
  <1>3. ASSUME NEW r \in Range(waiting'), PreemptionMode # "RECOMPUTE", status'[r] # "RUNNING"
        PROVE  Fresh(r)'
    BY <1>3, Zenon DEF NotStarted, Fresh
  <1> QED BY <1>1, <1>2, <1>3, Zenon DEF NotStarted

LEMMA SchedulingPhase ==
    ASSUME QueueInv, InSchedule
    PROVE  phase = "scheduling" /\ phase' = "scheduling"
  <1>1. pc \in ScheduleLabels
    BY Zenon DEF InSchedule, ScheduleStep, DecodeSkip, DecodeCheck, DecodeAllocate, DecodeSchedule,
         DecodeEnd, PreemptRecompute, PreemptSwap, SwapOutAllocate, SwapOutFree, SwapOutEnd,
         SortWaiting, PrefillAdmit, PrefillAllocate, PrefillSchedule, PrefillEnd, SwapInAdmit,
         SwapInAllocate, SwapInEnd, SwapInStop, At, ScheduleLabels, DecodeLabels
  <1> QED BY <1>1, Zenon DEF InSchedule, QueueInv, Control

(* Within schedule() no sequence has reached its length. *)
LEMMA DoneSchedule ==
    ASSUME QueueInv, QueueInv', DoneInv, InSchedule
    PROVE  LengthDone' /\ Swept'
  <1> USE DEF bmVars, seqVars
  <1>2. phase = "scheduling" /\ phase' = "scheduling"
    BY SchedulingPhase, Zenon
  <1>3. Swept'
    BY <1>2, Zenon DEF QueueInv, Control, FreeLabels, Swept
  <1>4. \/ status' = status
        \/ \E q : \E v \in {"PREEMPTED", "SWAPPED", "RUNNING"} : status' = [status EXCEPT ![q] = v]
    <2>1. CASE PreemptRecompute \/ PreemptSwap
      BY <2>1, Zenon DEF PreemptRecompute, PreemptSwap
    <2>2. CASE PrefillAdmit \/ SwapInAdmit
      BY <2>2, Zenon DEF PrefillAdmit, SwapInAdmit
    <2>3. CASE ~(PreemptRecompute \/ PreemptSwap \/ PrefillAdmit \/ SwapInAdmit)
      BY <2>3, Zenon DEF InSchedule, ScheduleStep, DecodeSkip, DecodeCheck, DecodeAllocate, DecodeSchedule,
         DecodeEnd, SwapOutAllocate, SwapOutFree, SwapOutEnd,
         SortWaiting, PrefillAllocate, PrefillSchedule, PrefillEnd, SwapInAllocate, SwapInEnd, SwapInStop
    <2> QED BY <2>1, <2>2, <2>3, Zenon
  <1>5. \A r \in SeqIds : status[r] # "FINISHED_LENGTH"
    BY <1>2, Zenon DEF DoneInv, LengthDone, LengthPhases
  <1>6. \A r \in SeqIds : status'[r] # "FINISHED_LENGTH"
    <2>1. status \in [SeqIds -> Status]
      BY Zenon DEF QueueInv, QueueTypes
    <2> QED BY <1>4, <1>5, <2>1, Zenon
  <1> QED BY <1>3, <1>6, Zenon DEF LengthDone

(* The engine's steps that change no request and no queue. *)
LEMMA DoneEngine ==
    ASSUME QueueInv, QueueInv', DoneInv,
           \/ CallSchedule \/ AfterSchedule
           \/ BuildNext \/ BuildReturn \/ Step \/ UpdateSkip \/ UpdateCheck \/ UpdateReturn
           \/ CallFreeFinished \/ AfterFreeFinished
           \/ InFreeFinishedLoop /\ (FreeFinishedSkip \/ FreeFinishedEnd)
           \/ InFreeBlocks \/ UNCHANGED vars
    PROVE  DoneInv'
  <1> USE DEF bmVars, seqVars, schedVars, queueVars
  <1>1. UNCHANGED <<waiting, running, status, output_tokens, logical_blocks, config>>
    BY Zenon DEF CallSchedule, ScheduleEnter, AfterSchedule, ScheduleReturn, BuildNext, BuildReturn, Step,
         UpdateSkip, UpdateCheck, UpdateReturn, CallFreeFinished, FreeFinishedEnter,
         AfterFreeFinished, FreeFinishedReturn, InFreeFinishedLoop, FreeFinishedSkip, FreeFinishedEnd,
         InFreeBlocks, FreeBlocksStep, vars
  <1>2. NotStarted'
    BY <1>1, Zenon DEF DoneInv, NotStarted, Fresh, PreemptionMode
  <1>3. \A r : Finished(r)' <=> Finished(r)
    BY <1>1, Zenon DEF Finished
  <1>4. LengthDone'
    <2>1. CASE AfterFreeFinished
      <3>1. \A r \in Range(running) : ~Finished(r)
        BY <2>1, Zenon DEF AfterFreeFinished, FreeFinishedReturn, At, DoneInv, Swept
      <3> QED BY <1>1, <3>1, Zenon DEF DoneInv, LengthDone, Finished
    <2>2. CASE ~AfterFreeFinished
      <3>1. phase \in LengthPhases => phase' \in LengthPhases
        BY <2>2, Zenon DEF LengthPhases, CallSchedule, AfterSchedule, BuildNext, BuildReturn, Step,
             UpdateSkip, UpdateCheck, UpdateReturn, CallFreeFinished, InFreeFinishedLoop,
             InFreeBlocks, vars
      <3> QED BY <1>1, <3>1, Zenon DEF DoneInv, LengthDone
    <2> QED BY <2>1, <2>2, Zenon
  <1>5. Swept'
    <2>1. CASE CallFreeFinished
      <3>1. pc' = "freeRunning" /\ it' = 1
        BY <2>1, Zenon DEF CallFreeFinished, FreeFinishedEnter
      <3>2. DOMAIN running = 1 .. Len(running) /\ Len(running) \in Nat
        BY Places, Zenon DEF QueueInv, QueueTypes
      <3>3. \A i \in DOMAIN running : ~(i < 1)
        BY <3>2
      <3> QED BY <1>1, <3>1, <3>3, Zenon DEF Swept
    <2>2. CASE InFreeFinishedLoop /\ FreeFinishedSkip
      <3>1. /\ pc \in {"freeRunning", "freeWaiting"} /\ pc' = pc /\ it' = it + 1
            /\ pc = "freeRunning" => ~Finished(running[it])
            /\ pc = "freeWaiting" => ~Finished(waiting[it])
        BY <2>2, Zenon DEF InFreeFinishedLoop, FreeFinishedSkip, InFreeFinished, At, FreeFinishedQueue
      <3>2. /\ it \in Nat
            /\ DOMAIN running = 1 .. Len(running) /\ DOMAIN waiting = 1 .. Len(waiting)
        BY Places, Zenon DEF QueueInv, QueueTypes
      <3>3. /\ \A i \in DOMAIN running : i < it + 1 => i < it \/ i = it
            /\ \A i \in DOMAIN waiting : i < it + 1 => i < it \/ i = it
        BY <3>2
      <3>4. pc = "freeRunning" => \A i \in DOMAIN running : i < it + 1 => ~Finished(running[i])
        BY <3>1, <3>3, Zenon DEF DoneInv, Swept
      <3>5. pc = "freeWaiting" => \A i \in DOMAIN waiting : i < it + 1 => ~Finished(waiting[i])
        BY <3>1, <3>3, Zenon DEF DoneInv, Swept
      <3> QED BY <1>1, <1>3, <3>1, <3>4, <3>5, Zenon DEF DoneInv, Swept
    <2>3. CASE InFreeFinishedLoop /\ FreeFinishedEnd
      <3>1. /\ pc = "freeRunning" => it > Len(running) /\ pc' = "freeWaiting"
            /\ pc = "freeWaiting" => it > Len(waiting) /\ pc' = "freeEnd"
            /\ pc \in {"freeRunning", "freeWaiting"} /\ it' = 1
        BY <2>3, Zenon DEF InFreeFinishedLoop, FreeFinishedEnd, InFreeFinished, At, FreeFinishedQueue
      <3>2. /\ it \in Nat /\ Len(running) \in Nat /\ Len(waiting) \in Nat
            /\ DOMAIN running = 1 .. Len(running) /\ DOMAIN waiting = 1 .. Len(waiting)
        BY Places, Zenon DEF QueueInv, QueueTypes
      <3>3. /\ it > Len(running) => \A i \in DOMAIN running : i < it
            /\ it > Len(waiting) => \A i \in DOMAIN waiting : i < it
            /\ \A i \in DOMAIN waiting : ~(i < 1)
        BY <3>2
      <3>4. \A r \in Range(running) : ~Finished(r)
        BY <3>1, <3>3, Zenon DEF DoneInv, Swept, Range
      <3>5. pc = "freeWaiting" => \A r \in Range(waiting) : ~Finished(r)
        BY <3>1, <3>3, Zenon DEF DoneInv, Swept, Range
      <3> QED BY <1>1, <1>3, <3>1, <3>3, <3>4, <3>5, Zenon DEF Swept
    <2>4. CASE \/ CallSchedule \/ AfterSchedule
               \/ BuildNext \/ BuildReturn \/ Step \/ UpdateSkip \/ UpdateCheck \/ UpdateReturn
               \/ AfterFreeFinished \/ InFreeBlocks \/ UNCHANGED vars
      <3>1. UNCHANGED <<pc, it>> \/ pc' \in {"decode", "unlocked"}
        BY <2>4, Zenon DEF CallSchedule, ScheduleEnter, AfterSchedule, ScheduleReturn, BuildNext, BuildReturn,
             Step, UpdateSkip, UpdateCheck, UpdateReturn, AfterFreeFinished, FreeFinishedReturn,
             InFreeBlocks, FreeBlocksStep, vars
      <3> QED BY <1>1, <1>3, <3>1, Zenon DEF DoneInv, Swept
    <2> QED BY <2>1, <2>2, <2>3, <2>4, Zenon
  <1> QED BY <1>2, <1>4, <1>5, Zenon DEF DoneInv

(* A step that touches one started sequence. *)
LEMMA FreshTouch ==
    ASSUME NotStarted, config' = config, Range(waiting) \subseteq SeqIds,
           Range(waiting') \subseteq Range(waiting), NEW r \in SeqIds,
           \A q \in SeqIds \ {r} : UNCHANGED <<status[q], output_tokens[q], logical_blocks[q]>>,
           status'[r] \notin Unstarted, r \in Range(waiting') => status'[r] = "RUNNING"
    PROVE  NotStarted'
  <1>1. ASSUME NEW q \in SeqIds, status'[q] \in Unstarted
        PROVE  status[q] \in Unstarted /\ UNCHANGED <<output_tokens[q], logical_blocks[q]>>
    BY <1>1, Zenon
  <1>2. ASSUME NEW q \in Range(waiting'), status'[q] # "RUNNING"
        PROVE  /\ q \in Range(waiting) /\ status[q] # "RUNNING"
               /\ UNCHANGED <<output_tokens[q], logical_blocks[q]>>
    <2>1. q # r /\ q \in SeqIds
      BY <1>2, Zenon
    <2> QED BY <1>2, <2>1, Zenon
  <1> QED BY <1>1, <1>2, FreshStay, Zenon

(* A block is pushed on the table of a running sequence: of the one at the *)
(* iterator, or of the head of the waiting queue.                          *)
LEMMA AllocatesFor ==
    ASSUME QueueInv, InSchedule, DecodeAllocate \/ PrefillAllocate
    PROVE  \E r \in SeqIds :
              /\ status[r] = "RUNNING" /\ AllocateLogical(r)
              /\ r = IF pc = "decodeAlloc" THEN running[it] ELSE Head(waiting)
              /\ pc \in {"decodeAlloc", "prefillAlloc"}
              /\ UNCHANGED <<waiting, running, swapped, status, output_tokens, pc, scheduled,
                             budget_tokens, budget_seqs, phase, config>>
  <1>1. CASE DecodeAllocate
    <2>1. /\ pc = "decodeAlloc" /\ AllocateLogical(running[it])
          /\ UNCHANGED <<waiting, running, swapped, status, output_tokens, pc, scheduled,
                         budget_tokens, budget_seqs, phase, config>>
      BY <1>1, Zenon DEF InSchedule, DecodeAllocate, At, queueVars, budgetVars, outputVars
    <2>2. it \in 1 .. Len(running) /\ ~Finished(running[it])
      <3>1. it <= Len(running) /\ ~Finished(running[it]) /\ it \in Nat \ {0}
        BY <2>1, Zenon DEF QueueInv, Cursors, QueueTypes
      <3>2. Len(running) \in Nat
        BY LenProperties, Zenon DEF QueueInv, QueueTypes
      <3> QED BY <3>1, <3>2
    <2>3. running[it] \in SeqIds /\ running[it] \in Range(running)
      BY <2>2, Places, Zenon DEF QueueInv, QueueTypes
    <2>4. status[running[it]] = "RUNNING"
      BY <2>1, <2>2, <2>3, Zenon DEF QueueInv, Statuses, Finished, Done
    <2> QED BY <2>1, <2>3, <2>4, Zenon
  <1>2. CASE PrefillAllocate
    <2>1. /\ pc = "prefillAlloc" /\ AllocateLogical(Head(waiting))
          /\ UNCHANGED <<waiting, running, swapped, status, output_tokens, pc, scheduled,
                         budget_tokens, budget_seqs, phase, config>>
      BY <1>2, Zenon DEF InSchedule, PrefillAllocate, At, queueVars, budgetVars, outputVars
    <2>2. waiting # <<>> /\ status[Head(waiting)] = "RUNNING"
      BY <2>1, Zenon DEF QueueInv, Cursors
    <2>3. Head(waiting) \in SeqIds
      BY <2>2, QueueHead, Zenon
    <2> QED BY <2>1, <2>2, <2>3, Zenon
  <1> QED BY <1>1, <1>2, Zenon

LEMMA FreshSchedule ==
    ASSUME QueueInv, MemInv, DoneInv, InSchedule
    PROVE  NotStarted'
  <1> USE DEF bmVars, seqVars, queueVars
  <1>1. /\ NotStarted /\ config' = config
        /\ Range(waiting) \subseteq SeqIds
        /\ status \in [SeqIds -> Status]
        /\ output_tokens \in [SeqIds -> Seq(Tokens)]
        /\ logical_blocks \in [SeqIds -> Seq(Blocks \cup {INVALID_BLOCK})]
    BY RangeInSet, Zenon DEF DoneInv, InSchedule, QueueInv, QueueTypes, MemInv, LoopTypes
  <1>2. ASSUME UNCHANGED <<status, output_tokens, logical_blocks>>, Range(waiting') \subseteq Range(waiting)
        PROVE  NotStarted'
    BY <1>1, <1>2, FreshStay, Zenon
  <1>3. CASE \/ DecodeSkip \/ DecodeCheck \/ DecodeSchedule \/ DecodeEnd \/ SwapOutAllocate
             \/ SwapOutEnd \/ PrefillEnd \/ SwapInEnd \/ SwapInStop
    BY <1>2, <1>3, Zenon DEF DecodeSkip, DecodeCheck, DecodeSchedule, DecodeEnd, SwapOutAllocate, SwapOutEnd,
         PrefillEnd, SwapInEnd, SwapInStop
  <1>4. CASE SortWaiting
    <2>1. UNCHANGED <<status, output_tokens, logical_blocks>>
      BY <1>4, Zenon DEF SortWaiting
    <2>2. Range(waiting') = Range(waiting)
      <3>1. PICK p \in Bijection(DOMAIN waiting, DOMAIN waiting) :
                   waiting' = [i \in DOMAIN waiting |-> waiting[p[i]]]
        BY <1>4, Zenon DEF SortWaiting
      <3>2. waiting \in Seq(SeqIds)
        BY Zenon DEF QueueInv, QueueTypes
      <3> QED BY <3>1, <3>2, PermuteElements, Zenon
    <2> QED BY <1>2, <2>1, <2>2, Zenon
  <1>5. CASE PrefillSchedule
    <2>1. UNCHANGED <<status, output_tokens, logical_blocks>> /\ waiting' = Tail(waiting) /\ pc = "prefillAlloc"
      BY <1>5, Zenon DEF PrefillSchedule, At
    <2>2. Range(waiting') \subseteq Range(waiting)
      BY <2>1, QueueHead, Zenon DEF QueueInv, Cursors
    <2> QED BY <1>2, <2>1, <2>2, Zenon
  <1>6. CASE DecodeAllocate \/ PrefillAllocate
    <2>1. PICK r \in SeqIds : /\ status[r] = "RUNNING" /\ AllocateLogical(r)
                              /\ UNCHANGED <<waiting, status, output_tokens>>
      BY <1>6, AllocatesFor, Zenon
    <2>2. \A q \in SeqIds \ {r} : UNCHANGED <<status[q], output_tokens[q], logical_blocks[q]>>
      BY <1>1, <2>1, Zenon DEF AllocateLogical
    <2>3. status'[r] \notin Unstarted /\ status'[r] = "RUNNING" /\ Range(waiting') \subseteq Range(waiting)
      BY <2>1, Zenon DEF Unstarted
    <2> QED BY <1>1, <2>2, <2>3, FreshTouch, Zenon
  <1>7. CASE PreemptSwap \/ SwapOutFree
    <2>1. PICK r \in SeqIds : r = Victim
      BY <1>7, QueueVictim, Zenon DEF PreemptSwap, SwapOutFree, At
    <2>2. r \notin Range(waiting) /\ status[r] \in {"RUNNING", "SWAPPED"} \cup Done
      BY <1>7, <2>1, QueueVictim, Zenon DEF PreemptSwap, SwapOutFree, At
    <2>3. /\ UNCHANGED <<waiting, output_tokens>>
          /\ status' \in {status, [status EXCEPT ![r] = "SWAPPED"]}
          /\ \/ logical_blocks' = logical_blocks
             \/ logical_blocks' = [logical_blocks EXCEPT ![r][Cursor(r)] = cpu_bid]
      BY <1>7, <2>1, Zenon DEF PreemptSwap, SwapOutFree
    <2>4. \A q \in SeqIds \ {r} : UNCHANGED <<status[q], output_tokens[q], logical_blocks[q]>>
      BY <1>1, <2>3, Zenon
    <2>5. status'[r] \notin Unstarted /\ Range(waiting') \subseteq Range(waiting) /\ r \notin Range(waiting')
      BY <1>1, <2>2, <2>3, Zenon DEF Unstarted, Done
    <2> QED BY <1>1, <2>4, <2>5, FreshTouch, Zenon
  <1>8. CASE SwapInAdmit \/ SwapInAllocate
    <2>1. swapped # <<>>
      BY <1>8, Zenon DEF SwapInAdmit, CanSwapIn, SwapInAllocate, At, QueueInv, Cursors
    <2>2. PICK r \in SeqIds : r = Head(swapped) /\ r \in Range(swapped)
      BY <2>1, Places, Zenon DEF QueueInv, QueueTypes
    <2>3. r \notin Range(waiting) /\ status[r] \in {"RUNNING", "SWAPPED"} \cup Done
      BY <2>2, Zenon DEF QueueInv, Lines, Statuses
    <2>4. /\ UNCHANGED <<waiting, output_tokens>>
          /\ status' \in {status, [status EXCEPT ![r] = "RUNNING"]}
          /\ \/ logical_blocks' = logical_blocks
             \/ logical_blocks' = [logical_blocks EXCEPT ![r][Cursor(r)] = PoppedBlock("CUDA")]
      BY <1>8, <2>2, Zenon DEF SwapInAdmit, SwapInAllocate
    <2>5. \A q \in SeqIds \ {r} : UNCHANGED <<status[q], output_tokens[q], logical_blocks[q]>>
      BY <1>1, <2>4, Zenon
    <2>6. status'[r] \notin Unstarted /\ Range(waiting') \subseteq Range(waiting) /\ r \notin Range(waiting')
      BY <1>1, <2>3, <2>4, Zenon DEF Unstarted, Done
    <2> QED BY <1>1, <2>5, <2>6, FreshTouch, Zenon
  <1>9. CASE PrefillAdmit
    <2>1. PICK r \in SeqIds : r = Head(waiting)
      BY <1>9, QueueHead, Zenon DEF PrefillAdmit, CanPrefill
    <2>2. UNCHANGED <<waiting, output_tokens, logical_blocks>> /\ status' = [status EXCEPT ![r] = "RUNNING"]
      BY <1>9, <2>1, Zenon DEF PrefillAdmit
    <2>3. \A q \in SeqIds \ {r} : UNCHANGED <<status[q], output_tokens[q], logical_blocks[q]>>
      BY <1>1, <2>2, Zenon
    <2>4. status'[r] \notin Unstarted /\ Range(waiting') \subseteq Range(waiting) /\ status'[r] = "RUNNING"
      BY <1>1, <2>2, Zenon DEF Unstarted
    <2> QED BY <1>1, <2>3, <2>4, FreshTouch, Zenon
  <1>10. CASE PreemptRecompute
    <2>1. PICK r \in SeqIds : r = Victim
      BY <1>10, QueueVictim, Zenon DEF PreemptRecompute, At
    <2>2. /\ PreemptionMode = "RECOMPUTE"
          /\ \/ UNCHANGED <<status, output_tokens, logical_blocks>>
             \/ /\ status' = [status EXCEPT ![r] = "PREEMPTED"]
                /\ logical_blocks' = [logical_blocks EXCEPT ![r] = <<>>]
                /\ output_tokens' = [output_tokens EXCEPT ![r] = <<>>]
      BY <1>10, <2>1, Zenon DEF PreemptRecompute
    <2>3. ASSUME NEW q \in SeqIds, status'[q] \in Unstarted
          PROVE  \/ Fresh(q)'
                 \/ status[q] \in Unstarted /\ UNCHANGED <<output_tokens[q], logical_blocks[q]>>
      <3>1. CASE q = r
        BY <1>1, <2>2, <2>3, <3>1, Zenon DEF Fresh
      <3>2. CASE q # r
        BY <1>1, <2>2, <2>3, <3>2, Zenon
      <3> QED BY <3>1, <3>2, Zenon
    <2> QED BY <1>1, <2>2, <2>3, FreshStay, Zenon
  <1> QED BY <1>3, <1>4, <1>5, <1>6, <1>7, <1>8, <1>9, <1>10, Zenon DEF InSchedule, ScheduleStep

(* add_request and abort_request. *)
LEMMA DoneClient ==
    ASSUME QueueInv, QueueInv', MemInv, DoneInv, NEW r \in SeqIds, Submit(r) \/ Abort(r)
    PROVE  DoneInv'
  <1>1. /\ pc = "unlocked" /\ pc' = "unlocked" /\ config' = config
        /\ UNCHANGED <<running, output_tokens, logical_blocks>>
        /\ phase' = phase \/ (phase = "stopped" /\ phase' = "schedule")
        /\ \/ status[r] = "NEW" /\ waiting' = Append(waiting, r) /\ status' = [status EXCEPT ![r] = "WAITING"]
           \/ /\ waiting' = waiting /\ r \in request_map
              /\ status' \in {status, [status EXCEPT ![r] = "FINISHED_ABORT"]}
    BY Zenon DEF Submit, add_request, Abort, abort_request, At
  <1>2. status \in [SeqIds -> Status] /\ waiting \in Seq(SeqIds)
    BY Zenon DEF QueueInv, QueueTypes
  <1>3. Swept'
    BY <1>1, Zenon DEF Swept
  <1>4. LengthDone'
    <2>1. \A q \in SeqIds : status'[q] = "FINISHED_LENGTH" => status[q] = "FINISHED_LENGTH"
      BY <1>1, <1>2, Zenon
    <2>2. phase \in LengthPhases => phase' \in LengthPhases
      BY <1>1, Zenon DEF LengthPhases
    <2> QED BY <1>1, <2>1, <2>2, Zenon DEF DoneInv, LengthDone
  <1>5. NotStarted'
    <2>1. ASSUME NEW q \in SeqIds, status'[q] \in Unstarted PROVE status[q] \in Unstarted
      BY <1>1, <1>2, <2>1, Zenon DEF Unstarted
    <2>2. ASSUME NEW q \in Range(waiting'), status'[q] # "RUNNING"
          PROVE  Fresh(q)' \/ (q \in Range(waiting) /\ status[q] # "RUNNING")
      <3>1. CASE q = r /\ status[r] = "NEW"
        BY <1>1, <3>1, Zenon DEF DoneInv, NotStarted, Unstarted, Fresh
      <3>2. CASE ~(q = r /\ status[r] = "NEW")
        <4>1. q \in Range(waiting)
          <5>1. waiting' = Append(waiting, r) => Range(waiting') = Range(waiting) \cup {r}
            BY <1>2, AppendElements
          <5> QED BY <1>1, <2>2, <3>2, <5>1, Zenon
        <4>2. status[q] # "RUNNING"
          BY <1>1, <4>1, Zenon DEF QueueInv, Statuses, Done
        <4> QED BY <4>1, <4>2, Zenon
      <3> QED BY <3>1, <3>2, Zenon
    <2> QED BY <1>1, <2>1, <2>2, FreshStay, Zenon DEF DoneInv
  <1> QED BY <1>3, <1>4, <1>5, Zenon DEF DoneInv

(* update_after_decode appends to a running sequence. *)
LEMMA DoneAppend ==
    ASSUME QueueInv, QueueInv', MemInv, DoneInv, UpdateAppend
    PROVE  DoneInv'
  <1>1. PICK r : r = scheduled[group]
    BY Zenon
  <1>2. /\ phase = "append" /\ phase' = "update"
        /\ status' \in {status, [status EXCEPT ![r] = "FINISHED_LENGTH"]}
        /\ output_tokens' = [output_tokens EXCEPT ![r] = Append(@, new_tokens[tok_idx])]
        /\ UNCHANGED <<waiting, running, logical_blocks, config, pc>>
    BY <1>1, Zenon DEF UpdateAppend, queueVars
  <1>3. r \in SeqIds /\ r \in Range(running)
    <2>1. group \in Nat \ {0} /\ group <= Len(scheduled) /\ Len(scheduled) \in Nat
      BY <1>2, Places, Zenon DEF QueueInv, QueueTypes, Cursors
    <2>2. group \in 1 .. Len(scheduled)
      BY <2>1
    <2>3. r \in SeqIds /\ r \in Range(scheduled)
      BY <1>1, <2>2, Places, Zenon DEF QueueInv, QueueTypes
    <2> QED BY <1>2, <2>3, Zenon DEF QueueInv, ScheduledRun, UsesScheduled
  <1>4. /\ status \in [SeqIds -> Status] /\ output_tokens \in [SeqIds -> Seq(Tokens)]
        /\ Range(waiting) \subseteq SeqIds
    BY RangeInSet, Zenon DEF QueueInv, QueueTypes, MemInv, LoopTypes
  <1>5. pc \notin ScheduleLabels /\ pc \notin FreeLabels
    BY <1>2, Zenon DEF QueueInv, Control
  <1>6. Swept'
    BY <1>2, <1>5, Zenon DEF Swept, FreeLabels
  <1>7. LengthDone'
    <2>1. \A q \in SeqIds : status'[q] = "FINISHED_LENGTH" => status[q] = "FINISHED_LENGTH" \/ q = r
      BY <1>2, <1>4, Zenon
    <2> QED BY <1>2, <1>3, <2>1, Zenon DEF DoneInv, LengthDone, LengthPhases
  <1>8. NotStarted'
    <2>1. r \notin Range(waiting) /\ status[r] \in {"RUNNING"} \cup Done
      BY <1>3, <1>5, Zenon DEF QueueInv, Lines, Statuses, ScheduleLabels, DecodeLabels
    <2>2. \A q \in SeqIds \ {r} : UNCHANGED <<status[q], output_tokens[q], logical_blocks[q]>>
      BY <1>2, <1>4, Zenon
    <2>3. status'[r] \notin Unstarted
      BY <1>2, <1>3, <1>4, <2>1, Zenon DEF Unstarted, Done
    <2> QED BY <1>2, <1>3, <1>4, <2>1, <2>2, <2>3, FreshTouch, Zenon DEF DoneInv
  <1> QED BY <1>6, <1>7, <1>8, Zenon DEF DoneInv

(* free_finished_requests erases a finished request at its cursor. *)
LEMMA DoneErase ==
    ASSUME QueueInv, QueueInv', MemInv, DoneInv, InFreeFinishedLoop, FreeFinishedErase
    PROVE  DoneInv'
  <1>1. PICK r : r = FreeFinishedQueue[it]
    BY Zenon
  <1>2. /\ pc \in {"freeRunning", "freeWaiting"} /\ UNCHANGED <<pc, it, phase, config, output_tokens>>
        /\ status' = [status EXCEPT ![r] = "GONE"]
        /\ logical_blocks' = [logical_blocks EXCEPT ![r] = <<>>]
        /\ it <= Len(FreeFinishedQueue)
        /\ pc = "freeRunning" => running' = Erase(running, it) /\ waiting' = waiting
        /\ pc # "freeRunning" => waiting' = Erase(waiting, it) /\ running' = running
    BY <1>1, Zenon DEF InFreeFinishedLoop, FreeFinishedErase, InFreeFinished, At
  <1>3. PICK s \in Seq(SeqIds) : /\ s = FreeFinishedQueue /\ IsInjective(s)
                                 /\ s = IF pc = "freeRunning" THEN running ELSE waiting
    BY Zenon DEF FreeFinishedQueue, QueueInv, QueueTypes, Lines
  <1>4. it \in DOMAIN s
    <2>1. it \in Nat \ {0} /\ it <= Len(s) /\ Len(s) \in Nat /\ DOMAIN s = 1 .. Len(s)
      BY <1>2, <1>3, Places, Zenon DEF QueueInv, QueueTypes
    <2> QED BY <2>1
  <1>5. /\ Range(Erase(s, it)) = Range(s) \ {r}
        /\ \A i \in DOMAIN Erase(s, it) : i \in DOMAIN s /\ (i < it => Erase(s, it)[i] = s[i])
    <2>1. /\ Range(Erase(s, it)) = Range(s) \ {s[it]}
          /\ \A i \in DOMAIN Erase(s, it) :
                i \in DOMAIN s /\ Erase(s, it)[i] = IF i < it THEN s[i] ELSE s[i + 1]
      <3>0. s \in Seq(SeqIds) /\ IsInjective(s)
        BY <1>3, Zenon
      <3>1. Range(Erase(s, it)) = Range(s) \ {s[it]}
        BY <1>4, <3>0, EraseElements, ZenonT(30)
      <3>2. \A i \in DOMAIN Erase(s, it) :
                i \in DOMAIN s /\ Erase(s, it)[i] = IF i < it THEN s[i] ELSE s[i + 1]
        BY <1>4, <3>0, EraseElements, Zenon
      <3> QED BY <3>1, <3>2, Zenon
    <2>2. r = s[it]
      BY <1>1, <1>3, Zenon
    <2> QED BY <2>1, <2>2, Zenon
  <1>6. /\ status \in [SeqIds -> Status] /\ logical_blocks \in [SeqIds -> Seq(Blocks \cup {INVALID_BLOCK})]
        /\ Range(waiting) \subseteq SeqIds /\ Range(running) \subseteq SeqIds /\ r \in SeqIds
    <2>1. s[it] \in SeqIds
      BY <1>4, ElementOfSeq, LenProperties, Zenon
    <2> QED BY <1>1, <1>3, <2>1, RangeInSet, Zenon DEF QueueInv, QueueTypes, MemInv, LoopTypes
  <1>7. \A q \in SeqIds : Finished(q)' => Finished(q) /\ q # r
    BY <1>2, <1>6, Zenon DEF Finished
  <1>8. LengthDone'
    <2>1. ASSUME NEW q \in SeqIds, status'[q] = "FINISHED_LENGTH"
          PROVE  q # r /\ status[q] = "FINISHED_LENGTH"
      BY <1>2, <1>6, <2>1, Zenon
    <2>2. ASSUME NEW q \in Range(running), q # r PROVE q \in Range(running')
      BY <1>2, <1>3, <1>5, <2>2, Zenon
    <2> QED BY <1>2, <2>1, <2>2, Zenon DEF DoneInv, LengthDone
  <1>9. Swept'
    <2>1. CASE pc = "freeRunning"
      <3>1. \A i \in DOMAIN running' : i < it => ~Finished(running[i]) /\ running'[i] = running[i]
        BY <1>2, <1>3, <1>5, <2>1, Zenon DEF DoneInv, Swept
      <3>2. \A i \in DOMAIN running' : i < it => running[i] \in SeqIds
        BY <1>2, <1>3, <1>5, <1>6, <2>1, Zenon DEF Range
      <3> QED BY <1>2, <1>7, <2>1, <3>1, <3>2, Zenon DEF Swept
    <2>2. CASE pc = "freeWaiting"
      <3>1. \A i \in DOMAIN waiting' : i < it => ~Finished(waiting[i]) /\ waiting'[i] = waiting[i]
        BY <1>2, <1>3, <1>5, <2>2, Zenon DEF DoneInv, Swept
      <3>2. \A i \in DOMAIN waiting' : i < it => waiting[i] \in SeqIds
        BY <1>2, <1>3, <1>5, <1>6, <2>2, Zenon DEF Range
      <3>3. \A q \in Range(running) : ~Finished(q)'
        BY <1>6, <1>7, <2>2, Zenon DEF DoneInv, Swept
      <3> QED BY <1>2, <1>7, <2>2, <3>1, <3>2, <3>3, Zenon DEF Swept
    <2> QED BY <1>2, <2>1, <2>2, Zenon
  <1>10. NotStarted'
    <2>1. \A q \in SeqIds \ {r} : UNCHANGED <<status[q], output_tokens[q], logical_blocks[q]>>
      BY <1>2, <1>6, Zenon
    <2>2. status'[r] \notin Unstarted
      BY <1>2, <1>6, Zenon DEF Unstarted
    <2>3. Range(waiting') \subseteq Range(waiting) /\ r \notin Range(waiting')
      <3>1. CASE pc = "freeRunning"
        <4>1. r \in Range(running)
          BY <1>1, <1>3, <1>4, <3>1, Zenon DEF Range
        <4> QED BY <1>2, <3>1, <4>1, Zenon DEF QueueInv, Lines
      <3>2. CASE pc # "freeRunning"
        BY <1>2, <1>3, <1>5, <3>2, Zenon
      <3> QED BY <3>1, <3>2, Zenon
    <2> QED BY <1>2, <1>6, <2>1, <2>2, <2>3, FreshTouch, Zenon DEF DoneInv
  <1> QED BY <1>8, <1>9, <1>10, Zenon DEF DoneInv

(* Finished requests are swept, and requests that wait are fresh.          *)
THEOREM DoneAlways == Spec => []DoneInv
  <1>1. Init => DoneInv
    <2> SUFFICES ASSUME Init PROVE DoneInv
      BY Zenon
    <2>1. /\ status = [r \in SeqIds |-> "NEW"] /\ pc = "unlocked" /\ waiting = <<>>
          /\ output_tokens = [r \in SeqIds |-> <<>>] /\ logical_blocks = [r \in SeqIds |-> <<>>]
      BY Zenon DEF Init, SchedInit
    <2>2. Range(waiting) = {}
      BY <2>1 DEF Range
    <2> QED BY <2>1, <2>2, Zenon DEF DoneInv, LengthDone, Swept, NotStarted, Fresh
  <1>2. ASSUME QueueInv, QueueInv', MemInv, DoneInv, [Next]_vars PROVE DoneInv'
    <2>1. CASE \E r \in SeqIds : Submit(r) \/ Abort(r)
      BY <1>2, <2>1, DoneClient, Zenon
    <2>2. CASE InSchedule
      BY <1>2, <2>2, DoneSchedule, FreshSchedule, Zenon DEF DoneInv
    <2>3. CASE UpdateAppend
      BY <1>2, <2>3, DoneAppend, Zenon
    <2>4. CASE InFreeFinishedLoop
      BY <1>2, <2>4, DoneErase, DoneEngine, Zenon DEF InFreeFinishedLoop, FreeFinishedStep
    <2>5. CASE (Engine /\ ~InSchedule /\ ~UpdateAppend /\ ~InFreeFinishedLoop) \/ UNCHANGED vars \/ Terminated
      BY <1>2, <2>5, DoneEngine, Zenon DEF Engine, Terminated
    <2> QED BY <1>2, <2>1, <2>2, <2>3, <2>4, <2>5, Zenon DEF Next
  <1> QED BY <1>1, <1>2, QueuesAlways, MemAlways, PTL DEF Spec

-----------------------------------------------------------------------------
(* Block tables with RECOMPUTE.  A running sequence's table lists exactly   *)
(* the blocks recorded under it (Tables).  schedule_prefills keeps whatever *)
(* table its head has, so this needs that no finished victim, which keeps  *)
(* its stale table, is admitted: a victim is finished only if something    *)
(* was scheduled before it, and then preempt was called because nothing    *)
(* fits any more (Preempting, StaleShut), until free_finished_requests     *)
(* destroys it.                                                            *)

Tables ==
    \A r \in SeqIds : status[r] = "RUNNING" =>
        /\ freeing # r
        /\ logical_blocks[r] = seq_block_map[r]
        /\ logical_blocks[r] # <<>> \/ (pc = "prefillAlloc" /\ r = Head(waiting))

MapsOnGpu == \A r \in SeqIds : \A i \in DOMAIN seq_block_map[r] : seq_block_map[r][i][1] = "CUDA"

FinishedRunning == \E r \in Range(running) : Finished(r)

(* A finished victim went back to the waiting queue with its old table. *)
Stale == \E r \in Range(waiting) : Finished(r) /\ ~Fresh(r)

(* schedule_prefills can admit nothing. *)
NoRoom == freeing = NoSeq /\ (budget_seqs = 0 \/ budget_tokens = 0 \/ free_list["CUDA"] = <<>>)

AfterDecode == {"sort", "prefill", "swapIn", "scheduleEnd"}

StalePhases == {"build", "step", "update", "append", "free"}

StaleShut ==
    Stale => \/ phase \in StalePhases
             \/ pc \in {"freeRunning", "freeWaiting"}
             \/ pc \in AfterDecode /\ scheduled # <<>> /\ NoRoom

Preempting == pc = "preempt" => NoRoom /\ (FinishedRunning => scheduled # <<>>)

(* An abort of a running sequence leaves a free block before the next      *)
(* schedule() gets at the lists.                                           *)
FreedBlocks ==
    /\ pc \in {"decode"} \cup AfterDecode /\ scheduled = <<>> /\ FinishedRunning =>
          free_list["CUDA"] # <<>>
    /\ phase \in {"schedule", "stopped"} /\ FinishedRunning =>
          free_list["CUDA"] # <<>> \/ (freeing # NoSeq /\ seq_block_map[freeing] # <<>>)

(* Something runs only if the configured limits let something run. *)
Limits ==
    /\ phase = "scheduling" => budget_seqs <= MaxNumSeqs /\ budget_tokens <= MaxBatchedTokens
    /\ running # <<>> => MaxNumSeqs > 0 /\ MaxBatchedTokens > 0
    /\ pc = "decode" /\ scheduled = <<>> /\ running # <<>> => budget_seqs > 0 /\ budget_tokens > 0

Shut == Limits /\ StaleShut /\ Preempting /\ FreedBlocks

(* The inductive invariant of the tables under RECOMPUTE. *)
RoomInv == PreemptionMode = "RECOMPUTE" => Tables /\ MapsOnGpu /\ Shut

-----------------------------------------------------------------------------
(* A sequence needs a block, and one more token at most one more block.    *)
LEMMA OneMoreBlock ==
    ASSUME NEW t \in Nat \ {0}, NEW B \in Nat \ {0}, NEW n \in Nat, n * B >= t - 1
    PROVE  /\ (t + B - 1) \div B <= n + 1
           /\ (t + B - 1) \div B >= 1
  <1> DEFINE s == t + B - 1
             q == s \div B
  <1>1. s \in Nat /\ s >= B /\ s <= n * B + B
    <2>1. n * B \in Nat
      OBVIOUS
    <2> QED BY <2>1
  <1> HIDE DEF s
  <1>2. q \in Int /\ q * B <= s /\ s < q * B + B
    BY <1>1, SMTT(30)
  <1> HIDE DEF q
  <1>3. q * B \in Int /\ n * B \in Int
    BY <1>2
  <1>4. q <= n + 1
    <2> SUFFICES ASSUME q >= n + 2 PROVE FALSE
      BY <1>2
    <2>1. q * B >= (n + 2) * B
      BY <1>2, SMTT(30)
    <2>2. (n + 2) * B = n * B + B + B
      BY SMTT(30)
    <2> QED BY <1>1, <1>2, <1>3, <2>1, <2>2
  <1>5. q >= 1
    <2> SUFFICES ASSUME q <= 0 PROVE FALSE
      BY <1>2
    <2>1. q * B <= 0
      BY <1>2, SMTT(30)
    <2> QED BY <1>1, <1>2, <1>3, <2>1
  <1> QED BY <1>4, <1>5 DEF q, s

LEMMA NeedsBlocks ==
    ASSUME LoopTypes, NEW r \in SeqIds
    PROVE  /\ BlocksNeeded(r) >= 1 /\ BlocksNeeded(r) \in Nat
           /\ Covers(r, TotalLen(r) - 1) => BlocksNeeded(r) <= Len(logical_blocks[r]) + 1
  <1>1. /\ TotalLen(r) \in Nat \ {0} /\ Len(logical_blocks[r]) \in Nat /\ BlocksNeeded(r) \in Nat
    BY Lengths, Zenon
  <1>2. BlockSize \in Nat \ {0}
    BY SchedulerConstants, Zenon
  <1>3. ASSUME NEW n \in Nat, n * BlockSize >= TotalLen(r) - 1
        PROVE  BlocksNeeded(r) <= n + 1 /\ BlocksNeeded(r) >= 1
    BY <1>1, <1>2, <1>3, OneMoreBlock, Zenon DEF BlocksNeeded
  <1>4. \E n \in Nat : n * BlockSize >= TotalLen(r) - 1
    <2>1. TotalLen(r) * BlockSize >= TotalLen(r) - 1
      <3> HIDE DEF TotalLen
      <3> QED BY <1>1, <1>2, SMTT(30)
    <2> QED BY <1>1, <2>1
  <1> QED BY <1>1, <1>3, <1>4, Zenon DEF Covers

(* The head that schedule_prefills admits has no tokens and no table. *)
LEMMA AdmitFresh ==
    ASSUME QueueInv, MemInv, DoneInv, RoomInv, PrefillAdmit
    PROVE  /\ Head(waiting) \in SeqIds /\ Fresh(Head(waiting)) /\ status[Head(waiting)] # "RUNNING"
           /\ PreemptionMode = "RECOMPUTE" => ~Stale
  <1>1. /\ pc = "prefill" /\ freeing = NoSeq /\ waiting # <<>> /\ budget_seqs > 0
        /\ PromptLen[Head(waiting)] <= budget_tokens
        /\ Len(free_list["CUDA"]) >= BlocksNeeded(Head(waiting))
    BY Zenon DEF PrefillAdmit, At, CanPrefill, can_allocate
  <1>2. PICK h \in SeqIds : h = Head(waiting) /\ h \in Range(waiting)
    BY <1>1, QueueHead, Zenon
  <1>3. status[h] \in {"WAITING", "PREEMPTED"} \cup Done
    BY <1>1, <1>2, Zenon DEF QueueInv, Statuses
  <1>4. ~NoRoom
    <2>1. BlocksNeeded(h) >= 1 /\ BlocksNeeded(h) \in Nat
      BY NeedsBlocks, Zenon DEF MemInv
    <2>2. PromptLen[h] \in Nat \ {0} /\ budget_tokens \in Nat /\ budget_seqs \in Nat
      BY SchedulerConstants, Zenon DEF MemInv, LoopTypes
    <2>3. free_list["CUDA"] = <<>> => Len(free_list["CUDA"]) = 0
      OBVIOUS
    <2> QED BY <1>1, <1>2, <2>1, <2>2, <2>3 DEF NoRoom
  <1>5. PreemptionMode = "RECOMPUTE" => ~Stale
    <2>1. phase = "scheduling"
      BY <1>1, Zenon DEF QueueInv, Control, ScheduleLabels
    <2> QED BY <1>1, <1>4, <2>1, Zenon DEF RoomInv, Shut, StaleShut, StalePhases
  <1>6. Fresh(h)
    <2>1. CASE status[h] \in {"WAITING", "PREEMPTED"}
      BY <2>1, Zenon DEF DoneInv, NotStarted, Unstarted
    <2>2. CASE status[h] \in Done /\ PreemptionMode = "RECOMPUTE"
      BY <1>2, <1>5, <2>2, Zenon DEF Stale, Done, Finished
    <2>3. CASE status[h] \in Done /\ PreemptionMode # "RECOMPUTE"
      BY <1>2, <2>3, Zenon DEF DoneInv, NotStarted, Done
    <2> QED BY <1>3, <2>1, <2>2, <2>3, Zenon
  <1> QED BY <1>2, <1>3, <1>5, <1>6, Zenon DEF Done

-----------------------------------------------------------------------------
(* Tables and records *)

(* A step that admits nobody and leaves the records and the tables of the  *)
(* running sequences alone.                                                *)
LEMMA TablesKept ==
    ASSUME QueueInv, Tables, MapsOnGpu, seq_block_map' = seq_block_map,
           \A r \in SeqIds : status'[r] = "RUNNING" =>
               status[r] = "RUNNING" /\ logical_blocks'[r] = logical_blocks[r] /\ freeing' # r,
           pc # "prefillAlloc" \/ UNCHANGED <<pc, waiting>>
    PROVE  Tables' /\ MapsOnGpu'
  <1>1. MapsOnGpu'
    BY DEF MapsOnGpu
  <1> SUFFICES ASSUME NEW r \in SeqIds, status'[r] = "RUNNING"
               PROVE  /\ freeing' # r /\ logical_blocks'[r] = seq_block_map'[r]
                      /\ logical_blocks'[r] # <<>> \/ (pc' = "prefillAlloc" /\ r = Head(waiting'))
    BY <1>1, Zenon DEF Tables
  <1> QED BY Zenon DEF Tables

(* The blocks that allocate_block hands to a running sequence. *)
LEMMA TablesAllocate ==
    ASSUME QueueInv, MemInv, Tables, MapsOnGpu, InSchedule, DecodeAllocate \/ PrefillAllocate
    PROVE  Tables' /\ MapsOnGpu'
  <1>1. PICK r \in SeqIds :
              /\ status[r] = "RUNNING" /\ AllocateLogical(r)
              /\ r = IF pc = "decodeAlloc" THEN running[it] ELSE Head(waiting)
              /\ UNCHANGED <<waiting, status, pc>>
    BY AllocatesFor, Zenon
  <1>2. free_list["CUDA"] # <<>>
    <2>1. Len(free_list["CUDA"]) \in Nat /\ left \in Nat /\ BlocksNeeded(r) \in Nat /\ Len(logical_blocks[r]) \in Nat
      BY Lengths, LenProperties, Zenon DEF MemInv, LoopTypes, BMTypeOK, Device
    <2>4. free_list["CUDA"] = <<>> => Len(free_list["CUDA"]) = 0
      OBVIOUS
    <2>2. CASE DecodeAllocate
      <3>1. /\ Len(logical_blocks[r]) < BlocksNeeded(r)
            /\ BlocksNeeded(r) <= Len(logical_blocks[r]) + Len(free_list["CUDA"])
        BY <1>1, <2>2, Zenon DEF DecodeAllocate, At, MemInv, Inner
      <3>2. \A k, n, f \in Nat : k < n /\ n <= k + f => f # 0
        OBVIOUS
      <3> QED BY <2>1, <2>4, <3>1, <3>2, Zenon
    <2>3. CASE PrefillAllocate
      <3>1. left > 0 /\ left <= Len(free_list["CUDA"])
        BY <2>3, Zenon DEF PrefillAllocate, At, MemInv, Inner
      <3> QED BY <2>1, <3>1
    <2> QED BY <2>2, <2>3, Zenon
  <1>3. PICK b \in Blocks : b = PoppedBlock("CUDA") /\ b[1] = "CUDA"
    BY <1>1, <1>2, AllocateTypes, Zenon DEF AllocateLogical, MemInv, LoopTypes, Device
  <1>4. /\ seq_block_map' = [seq_block_map EXCEPT ![r] = Append(@, b)]
        /\ logical_blocks' = [logical_blocks EXCEPT ![r] = Append(@, b)]
        /\ freeing' = freeing
    BY <1>1, <1>2, <1>3, Zenon DEF AllocateLogical, allocate_block, TakeBack
  <1>5. /\ seq_block_map \in [SeqIds -> Seq(Blocks)]
        /\ logical_blocks \in [SeqIds -> Seq(Blocks \cup {INVALID_BLOCK})]
    BY Zenon DEF MemInv, LoopTypes, BMTypeOK
  <1>6. /\ seq_block_map'[r] = Append(seq_block_map[r], b)
        /\ logical_blocks'[r] = Append(logical_blocks[r], b)
        /\ \A q \in SeqIds \ {r} : UNCHANGED <<seq_block_map[q], logical_blocks[q]>>
    BY <1>4, <1>5, Zenon
  <1>7. Tables'
    <2> SUFFICES ASSUME NEW q \in SeqIds, status[q] = "RUNNING"
                 PROVE  /\ freeing # q /\ logical_blocks'[q] = seq_block_map'[q]
                        /\ logical_blocks'[q] # <<>> \/ (pc = "prefillAlloc" /\ q = Head(waiting))
      BY <1>1, <1>4, Zenon DEF Tables
    <2>1. CASE q = r
      <3>1. Append(logical_blocks[r], b) # <<>>
        <4>1. logical_blocks[r] \in Seq(Blocks \cup {INVALID_BLOCK})
          BY <1>5, Zenon
        <4> QED BY <1>3, <4>1, AppendProperties, LenProperties, EmptySeq
      <3> QED BY <1>1, <1>6, <2>1, <3>1, Zenon DEF Tables
    <2>2. CASE q # r
      BY <1>6, <2>2, Zenon DEF Tables
    <2> QED BY <2>1, <2>2, Zenon
  <1>8. MapsOnGpu'
    <2> SUFFICES ASSUME NEW q \in SeqIds, NEW i \in DOMAIN seq_block_map'[q]
                 PROVE  seq_block_map'[q][i][1] = "CUDA"
      BY Zenon DEF MapsOnGpu
    <2>1. CASE q = r
      <3>1. PICK m \in Seq(Blocks) : m = seq_block_map[r]
        BY <1>5, Zenon
      <3>2. \A j \in DOMAIN Append(m, b) : (j \in DOMAIN m /\ Append(m, b)[j] = m[j]) \/ Append(m, b)[j] = b
        BY <1>3, AppendProperties, LenProperties
      <3>3. \A j \in DOMAIN m : m[j][1] = "CUDA"
        BY <3>1, Zenon DEF MapsOnGpu
      <3>4. seq_block_map'[q] = Append(m, b)
        BY <1>6, <2>1, <3>1, Zenon
      <3> QED BY <1>3, <3>2, <3>3, <3>4
    <2>2. CASE q # r
      <3>1. seq_block_map'[q] = seq_block_map[q]
        BY <1>6, <2>2, Zenon
      <3> QED BY <3>1 DEF MapsOnGpu
    <2> QED BY <2>1, <2>2, Zenon
  <1> QED BY <1>7, <1>8, Zenon

(* schedule_prefills admits a sequence without a table and without records, *)
(* and is done with it when its table is long enough.                      *)
LEMMA TablesPrefill ==
    ASSUME QueueInv, MemInv, OwnInv, DoneInv, RoomInv, PreemptionMode = "RECOMPUTE", InSchedule,
           PrefillAdmit \/ PrefillSchedule
    PROVE  Tables' /\ MapsOnGpu'
  <1>1. Tables /\ MapsOnGpu /\ Holders
    BY Zenon DEF RoomInv, OwnInv
  <1>2. CASE PrefillAdmit
    <2>1. PICK h \in SeqIds : h = Head(waiting) /\ Fresh(h) /\ status[h] # "RUNNING"
      BY <1>2, AdmitFresh, Zenon
    <2>2. /\ UNCHANGED <<waiting, logical_blocks, seq_block_map, freeing>>
          /\ freeing = NoSeq /\ pc' = "prefillAlloc" /\ pc = "prefill"
          /\ status' = [status EXCEPT ![h] = "RUNNING"]
      BY <1>2, <2>1, Zenon DEF PrefillAdmit, At, bmVars, queueVars
    <2>3. seq_block_map[h] = <<>>
      <3>1. status[h] # "FINISHED_LENGTH"
        <4>1. phase = "scheduling"
          BY <2>2, Zenon DEF QueueInv, Control, ScheduleLabels
        <4> QED BY <4>1, Zenon DEF DoneInv, LengthDone, LengthPhases
      <3> QED BY <1>1, <2>1, <2>2, <3>1, BlockConstants, Zenon DEF Holders, Holding
    <2>4. status \in [SeqIds -> Status]
      BY Zenon DEF QueueInv, QueueTypes
    <2>5. Tables'
      <3> SUFFICES ASSUME NEW q \in SeqIds, status'[q] = "RUNNING"
                   PROVE  /\ freeing # q /\ logical_blocks[q] = seq_block_map[q]
                          /\ logical_blocks[q] # <<>> \/ q = h
        BY <2>1, <2>2, Zenon DEF Tables
      <3>1. CASE q = h
        BY <2>1, <2>2, <2>3, <3>1, BlockConstants, Zenon DEF Fresh
      <3>2. CASE q # h
        BY <1>1, <2>2, <2>4, <3>2, Zenon DEF Tables
      <3> QED BY <3>1, <3>2, Zenon
    <2>6. MapsOnGpu'
      BY <1>1, <2>2 DEF MapsOnGpu
    <2> QED BY <2>5, <2>6, Zenon
  <1>3. CASE PrefillSchedule
    <2>1. /\ UNCHANGED <<status, logical_blocks, seq_block_map, freeing>>
          /\ pc = "prefillAlloc" /\ left = 0 /\ waiting # <<>>
      BY <1>3, Zenon DEF PrefillSchedule, At, bmVars, seqVars, QueueInv, Cursors
    <2>2. PICK h \in SeqIds : h = Head(waiting)
      BY <2>1, QueueHead, Zenon
    <2>3. logical_blocks[h] # <<>>
      <3>1. /\ Len(logical_blocks[h]) + left >= BlocksNeeded(h) /\ Len(logical_blocks[h]) \in Nat
            /\ BlocksNeeded(h) \in Nat /\ BlocksNeeded(h) >= 1
        BY <2>1, <2>2, Lengths, NeedsBlocks, Zenon DEF MemInv, Inner
      <3>2. logical_blocks[h] = <<>> => Len(logical_blocks[h]) = 0
        OBVIOUS
      <3> QED BY <2>1, <3>1, <3>2
    <2>4. Tables'
      BY <1>1, <2>1, <2>2, <2>3, Zenon DEF Tables
    <2>5. MapsOnGpu'
      BY <1>1, <2>1 DEF MapsOnGpu
    <2> QED BY <2>4, <2>5, Zenon
  <1> QED BY <1>2, <1>3, Zenon

(* free_blocks drops records of a sequence that no longer runs. *)
LEMMA TablesFree ==
    ASSUME QueueInv, MemInv, Tables, MapsOnGpu, InFreeBlocks
    PROVE  Tables' /\ MapsOnGpu'
  <1>1. /\ UNCHANGED <<status, logical_blocks, pc, waiting>> /\ freeing' \in {freeing, NoSeq}
        /\ freeing # NoSeq
    BY Zenon DEF InFreeBlocks, FreeBlocksStep, FreeBlocksNext, FreeBlocksReturn, schedVars, seqVars, queueVars
  <1>2. PICK f \in SeqIds : f = freeing
    BY <1>1, Zenon DEF QueueInv, Control
  <1>3. seq_block_map \in [SeqIds -> Seq(Blocks)]
    BY Zenon DEF MemInv, LoopTypes, BMTypeOK
  <1>4. \/ seq_block_map' = seq_block_map
        \/ seq_block_map[f] # <<>> /\ seq_block_map' = [seq_block_map EXCEPT ![f] = Tail(@)]
    BY <1>2, Zenon DEF InFreeBlocks, FreeBlocksStep, FreeBlocksNext, FreeBlocksReturn
  <1>5. \A q \in SeqIds \ {f} : seq_block_map'[q] = seq_block_map[q]
    BY <1>3, <1>4, Zenon
  <1>6. Tables'
    BY <1>1, <1>2, <1>5, BlockConstants, Zenon DEF Tables
  <1>7. MapsOnGpu'
    <2> SUFFICES ASSUME NEW q \in SeqIds, NEW i \in DOMAIN seq_block_map'[q]
                 PROVE  seq_block_map'[q][i][1] = "CUDA"
      BY Zenon DEF MapsOnGpu
    <2>1. CASE seq_block_map'[q] = seq_block_map[q]
      BY <2>1, Zenon DEF MapsOnGpu
    <2>2. CASE seq_block_map'[q] # seq_block_map[q]
      <3>1. PICK m \in Seq(Blocks) : m = seq_block_map[q] /\ m # <<>> /\ seq_block_map'[q] = Tail(m)
        BY <1>2, <1>3, <1>4, <1>5, <2>2, Zenon
      <3>2. \A j \in DOMAIN Tail(m) : j + 1 \in DOMAIN m /\ Tail(m)[j] = m[j + 1]
        BY <3>1, HeadTailProperties, LenProperties, EmptySeq
      <3>3. \A j \in DOMAIN m : m[j][1] = "CUDA"
        BY <3>1, Zenon DEF MapsOnGpu
      <3> QED BY <3>1, <3>2, <3>3
    <2> QED BY <2>1, <2>2, Zenon
  <1> QED BY <1>6, <1>7, Zenon

-----------------------------------------------------------------------------
(* Room for the next admission *)

(* Finished sequences do not appear out of nothing. *)
LEMMA StaysUnfinished ==
    ASSUME QueueInv, \A r \in SeqIds : Finished(r)' => Finished(r)
    PROVE  /\ Range(running') \subseteq Range(running) => (FinishedRunning' => FinishedRunning)
           /\ /\ Range(waiting') \subseteq Range(waiting)
              /\ \A r \in SeqIds : Finished(r)' => UNCHANGED <<output_tokens[r], logical_blocks[r]>>
              => (Stale' => Stale)
  <1>1. Range(running) \subseteq SeqIds /\ Range(waiting) \subseteq SeqIds
    BY RangeInSet, Zenon DEF QueueInv, QueueTypes
  <1>2. ASSUME Range(running') \subseteq Range(running), FinishedRunning' PROVE FinishedRunning
    BY <1>1, <1>2, Zenon DEF FinishedRunning
  <1>3. ASSUME Range(waiting') \subseteq Range(waiting),
               \A r \in SeqIds : Finished(r)' => UNCHANGED <<output_tokens[r], logical_blocks[r]>>,
               Stale'
        PROVE  Stale
    BY <1>1, <1>3, Zenon DEF Stale, Fresh
  <1> QED BY <1>2, <1>3, Zenon

(* The steps of schedule() that only move on to the next part. *)
LEMMA ShutLoop ==
    ASSUME QueueInv, Shut, InSchedule,
           DecodeSkip \/ DecodeEnd \/ SortWaiting \/ PrefillEnd \/ SwapInStop
    PROVE  Shut'
  <1>1. /\ pc \in {"decode"} \cup AfterDecode /\ pc' \in {"decode"} \cup AfterDecode
        /\ pc' = "decode" => pc = "decode"
        /\ UNCHANGED <<running, status, output_tokens, logical_blocks, free_list, freeing,
                       budget_tokens, budget_seqs, scheduled, phase, config>>
    <2> USE DEF AfterDecode, At, bmVars, seqVars, queueVars, budgetVars, outputVars
    <2>1. CASE DecodeSkip \/ DecodeEnd
      BY <2>1, Zenon DEF InSchedule, DecodeSkip, DecodeEnd
    <2>2. CASE SortWaiting \/ PrefillEnd \/ SwapInStop
      BY <2>2, Zenon DEF InSchedule, SortWaiting, PrefillEnd, SwapInStop
    <2> QED BY <2>1, <2>2, Zenon
  <1>2. Range(waiting') = Range(waiting)
    <2>1. CASE SortWaiting
      <3>1. PICK p \in Bijection(DOMAIN waiting, DOMAIN waiting) :
                   waiting' = [i \in DOMAIN waiting |-> waiting[p[i]]]
        BY <2>1, Zenon DEF SortWaiting
      <3>2. waiting \in Seq(SeqIds)
        BY Zenon DEF QueueInv, QueueTypes
      <3> QED BY <3>1, <3>2, PermuteElements, Zenon
    <2>2. CASE ~SortWaiting
      BY <2>2, Zenon DEF DecodeSkip, DecodeEnd, PrefillEnd, SwapInStop, queueVars
    <2> QED BY <2>1, <2>2, Zenon
  <1>3. phase = "scheduling"
    BY <1>1, Zenon DEF QueueInv, Control, ScheduleLabels, DecodeLabels, AfterDecode
  <1>4. (FinishedRunning' => FinishedRunning) /\ (Stale' => Stale)
    <2>1. \A r \in SeqIds : Finished(r)' => Finished(r)
      BY <1>1, Zenon DEF Finished
    <2> QED BY <1>1, <1>2, <2>1, StaysUnfinished, Zenon
  <1>5. StaleShut'
    <2>1. Stale => pc \in AfterDecode /\ scheduled # <<>> /\ NoRoom
      BY <1>1, <1>3, Zenon DEF Shut, StaleShut, StalePhases, AfterDecode
    <2>2. Stale => pc' \in AfterDecode
      BY <1>1, <2>1, Zenon DEF AfterDecode
    <2> QED BY <1>1, <1>4, <2>1, <2>2, Zenon DEF StaleShut, NoRoom
  <1>6. Preempting'
    BY <1>1, Zenon DEF Preempting, AfterDecode
  <1>7. FreedBlocks'
    BY <1>1, <1>3, <1>4, Zenon DEF Shut, FreedBlocks
  <1>8. Limits'
    BY <1>1, Zenon DEF Shut, Limits, MaxNumSeqs, MaxBatchedTokens
  <1> QED BY <1>5, <1>6, <1>7, <1>8, Zenon DEF Shut

(* A decode that does not fit finds a budget or the free list used up.     *)
LEMMA NoRoomLeft ==
    ASSUME QueueInv, MemInv, DecodeCheck, pc' = "preempt"
    PROVE  NoRoom
  <1>1. /\ pc = "decode" /\ freeing = NoSeq /\ it <= Len(running) /\ ~Finished(running[it])
        /\ OverBudget(running[it]) \/ ~CanAppend(running[it])
    BY Zenon DEF DecodeCheck, At
  <1>2. PICK r \in SeqIds : r = running[it] /\ r \in Range(running)
    <2>1. it \in 1 .. Len(running)
      BY <1>1, Places DEF QueueInv, QueueTypes
    <2> QED BY <2>1, Places, Zenon DEF QueueInv, QueueTypes
  <1>3. status[r] = "RUNNING" /\ DecodeTokens(r) = 1
    BY <1>1, <1>2, Zenon DEF QueueInv, Statuses, Finished, Done, DecodeTokens
  <1>4. budget_tokens \in Nat /\ budget_seqs \in Nat
    BY Zenon DEF MemInv, LoopTypes
  <1>5. CASE OverBudget(r)
    BY <1>1, <1>3, <1>4, <1>5 DEF OverBudget, NoRoom
  <1>6. CASE ~CanAppend(r)
    <2>1. /\ BlocksNeeded(r) \in Nat /\ Len(logical_blocks[r]) \in Nat
          /\ BlocksNeeded(r) <= Len(logical_blocks[r]) + 1
      <3>1. Covers(r, TotalLen(r) - 1)
        BY <1>1, <1>3, Zenon DEF MemInv, TablesLong
      <3> QED BY <3>1, Lengths, NeedsBlocks, Zenon DEF MemInv
    <2>2. free_list["CUDA"] \in Seq(Blocks)
      BY Zenon DEF MemInv, LoopTypes, BMTypeOK, Device
    <2>3. Len(free_list["CUDA"]) \in Nat /\ (Len(free_list["CUDA"]) = 0 => free_list["CUDA"] = <<>>)
      BY <2>2, LenProperties, EmptySeq
    <2>4. ~(BlocksNeeded(r) <= Len(logical_blocks[r]))
          /\ ~(Len(free_list["CUDA"]) >= BlocksNeeded(r) - Len(logical_blocks[r]))
      BY <1>6, Zenon DEF CanAppend, can_allocate
    <2>5. \A n, k, f \in Nat : n <= k + 1 /\ ~(n <= k) /\ ~(f >= n - k) => f = 0
      OBVIOUS
    <2> QED BY <1>1, <2>1, <2>3, <2>4, <2>5, Zenon DEF NoRoom
  <1> QED BY <1>1, <1>2, <1>5, <1>6, Zenon

(* schedule_decodes *)
LEMMA ShutDecode ==
    ASSUME QueueInv, MemInv, Shut, InSchedule, DecodeCheck \/ DecodeSchedule
    PROVE  Shut'
  <1>1. /\ pc \in {"decode", "decodeAlloc"}
        /\ UNCHANGED <<running, waiting, status, output_tokens, logical_blocks, free_list, freeing,
                       phase, config>>
    BY Zenon DEF InSchedule, DecodeCheck, DecodeSchedule, At, bmVars, seqVars, queueVars
  <1>2. phase = "scheduling"
    BY <1>1, Zenon DEF QueueInv, Control, ScheduleLabels, DecodeLabels
  <1>3. (FinishedRunning' => FinishedRunning) /\ (Stale' => Stale)
    <2>1. \A r \in SeqIds : Finished(r)' => Finished(r)
      BY <1>1, Zenon DEF Finished
    <2> QED BY <1>1, <2>1, StaysUnfinished, Zenon
  <1>4. StaleShut'
    <2>1. ~Stale
      BY <1>1, <1>2, Zenon DEF Shut, StaleShut, StalePhases, AfterDecode
    <2> QED BY <1>3, <2>1, Zenon DEF StaleShut
  <1>5. CASE DecodeCheck
    <2>1. /\ pc = "decode" /\ pc' \in {"preempt", "decodeAlloc"} /\ freeing = NoSeq
          /\ UNCHANGED <<budget_tokens, budget_seqs, scheduled>>
      BY <1>5, Zenon DEF DecodeCheck, At, budgetVars, outputVars
    <2>2. Preempting'
      <3> SUFFICES ASSUME pc' = "preempt" PROVE NoRoom /\ (FinishedRunning => scheduled # <<>>)
        BY <1>1, <1>3, <2>1, Zenon DEF Preempting, NoRoom
      <3>1. NoRoom
        BY <1>5, NoRoomLeft, Zenon
      <3>2. ASSUME FinishedRunning, scheduled = <<>> PROVE FALSE
        <4>1. running # <<>>
          BY <3>2 DEF FinishedRunning, Range
        <4>2. budget_seqs > 0 /\ budget_tokens > 0 /\ free_list["CUDA"] # <<>>
          BY <2>1, <3>2, <4>1, Zenon DEF Shut, Limits, FreedBlocks
        <4> QED BY <3>1, <4>2 DEF NoRoom
      <3> QED BY <3>1, <3>2, Zenon
    <2>3. FreedBlocks'
      BY <1>1, <1>2, <2>1, Zenon DEF FreedBlocks, AfterDecode
    <2>4. Limits'
      BY <1>1, <2>1, Zenon DEF Shut, Limits, MaxNumSeqs, MaxBatchedTokens
    <2> QED BY <1>4, <2>2, <2>3, <2>4, Zenon DEF Shut
  <1>6. CASE DecodeSchedule
    <2>1. PICK r \in SeqIds : r = running[it] /\ ~Finished(r)
      <3>1. pc = "decodeAlloc"
        BY <1>6, Zenon DEF DecodeSchedule, At
      <3>2. it \in 1 .. Len(running) /\ ~Finished(running[it])
        BY <3>1, Places DEF QueueInv, QueueTypes, Cursors
      <3> QED BY <3>2, Places, Zenon DEF QueueInv, QueueTypes
    <2>2. /\ pc' = "decode" /\ pc = "decodeAlloc" /\ scheduled' = Append(scheduled, r)
          /\ budget_tokens' = budget_tokens - 1 /\ budget_seqs' = budget_seqs - 1
      BY <1>6, <2>1, Zenon DEF DecodeSchedule, At, DecodeTokens
    <2>3. scheduled' # <<>>
      <3>1. scheduled \in Seq(SeqIds)
        BY Zenon DEF QueueInv, QueueTypes
      <3> QED BY <2>2, <3>1, AppendProperties, LenProperties, EmptySeq
    <2>4. Preempting' /\ FreedBlocks'
      BY <1>1, <1>2, <2>2, <2>3, Zenon DEF Preempting, FreedBlocks
    <2>5. Limits'
      <3>1. /\ budget_seqs \in Nat /\ budget_tokens \in Nat
            /\ budget_seqs <= MaxNumSeqs /\ budget_tokens <= MaxBatchedTokens
            /\ MaxNumSeqs \in Nat /\ MaxBatchedTokens \in Nat
        BY <1>2, SchedulerConstants, Zenon
           DEF MemInv, LoopTypes, Shut, Limits, QueueInv, Control, MaxNumSeqs, MaxBatchedTokens
      <3>2. MaxNumSeqs' = MaxNumSeqs /\ MaxBatchedTokens' = MaxBatchedTokens
        BY <1>1, Zenon DEF MaxNumSeqs, MaxBatchedTokens
      <3>3. budget_seqs' <= MaxNumSeqs /\ budget_tokens' <= MaxBatchedTokens
        <4> HIDE DEF MaxNumSeqs, MaxBatchedTokens
        <4> QED BY <2>2, <3>1
      <3> QED BY <1>1, <2>3, <3>2, <3>3, Zenon DEF Shut, Limits
    <2> QED BY <1>4, <2>4, <2>5, Zenon DEF Shut
  <1> QED BY <1>5, <1>6, Zenon

(* The allocating loops of schedule_decodes and schedule_prefills. *)
LEMMA ShutAllocate ==
    ASSUME QueueInv, Shut, InSchedule, DecodeAllocate \/ PrefillAllocate
    PROVE  Shut'
  <1>1. PICK r \in SeqIds :
              /\ status[r] = "RUNNING" /\ AllocateLogical(r) /\ pc \in {"decodeAlloc", "prefillAlloc"}
              /\ UNCHANGED <<waiting, running, status, output_tokens, pc, scheduled,
                             budget_tokens, budget_seqs, phase, config>>
    BY AllocatesFor, Zenon
  <1>2. phase = "scheduling"
    BY <1>1, Zenon DEF QueueInv, Control, ScheduleLabels, DecodeLabels
  <1>3. StaleShut'
    <2>1. ~Stale
      BY <1>1, <1>2, Zenon DEF Shut, StaleShut, StalePhases, AfterDecode
    <2>2. \A q \in SeqIds : Finished(q)' => Finished(q)
      BY <1>1, Zenon DEF Finished
    <2>3. \A q \in SeqIds : Finished(q)' => UNCHANGED <<output_tokens[q], logical_blocks[q]>>
      <3> SUFFICES ASSUME NEW q \in SeqIds, Finished(q)' PROVE logical_blocks'[q] = logical_blocks[q]
        BY <1>1, Zenon
      <3>1. q # r
        BY <1>1, Zenon DEF Finished
      <3>2. logical_blocks' = [logical_blocks EXCEPT ![r] = Append(@, PoppedBlock("CUDA"))]
        BY <1>1, Zenon DEF AllocateLogical
      <3> QED BY <3>1, <3>2
    <2>4. Stale' => Stale
      BY <1>1, <2>2, <2>3, StaysUnfinished, Zenon
    <2> QED BY <2>1, <2>4, Zenon DEF StaleShut
  <1>4. Preempting' /\ FreedBlocks'
    BY <1>1, <1>2, Zenon DEF Preempting, FreedBlocks, AfterDecode
  <1>5. Limits'
    BY <1>1, Zenon DEF Shut, Limits, MaxNumSeqs, MaxBatchedTokens
  <1> QED BY <1>3, <1>4, <1>5, Zenon DEF Shut

(* preempt: a finished victim keeps its table, and finds no room. *)
LEMMA ShutPreempt ==
    ASSUME QueueInv, Shut, InSchedule, PreemptRecompute
    PROVE  Shut'
  <1>1. PICK v \in SeqIds : v = Victim /\ v \in Range(running)
    BY QueueVictim, Zenon DEF PreemptRecompute, At
  <1>2. /\ pc = "preempt" /\ pc' = "sort" /\ freeing = NoSeq
        /\ waiting' = <<v>> \o waiting /\ running' = PopBack(running)
        /\ UNCHANGED <<free_list, budget_tokens, budget_seqs, scheduled, phase, config>>
        /\ \/ Finished(v) /\ UNCHANGED <<status, output_tokens, logical_blocks, freeing>>
           \/ /\ ~Finished(v) /\ status' = [status EXCEPT ![v] = "PREEMPTED"]
              /\ output_tokens' = [output_tokens EXCEPT ![v] = <<>>]
              /\ logical_blocks' = [logical_blocks EXCEPT ![v] = <<>>]
    BY <1>1, Zenon
       DEF InSchedule, PreemptRecompute, At, seqVars, budgetVars, RequeueVictim
  <1>3. phase = "scheduling"
    BY <1>2, Zenon DEF QueueInv, Control, ScheduleLabels, DecodeLabels
  <1>4. NoRoom /\ (FinishedRunning => scheduled # <<>>) /\ ~Stale
    BY <1>2, <1>3, Zenon DEF Shut, Preempting, StaleShut, StalePhases, AfterDecode
  <1>5. /\ Range(running') \subseteq Range(running) /\ running # <<>>
        /\ Range(waiting') = Range(waiting) \cup {v}
        /\ Range(waiting) \subseteq SeqIds
    <2>1. waiting \in Seq(SeqIds)
      BY Zenon DEF QueueInv, QueueTypes
    <2>2. Range(<<v>> \o waiting) = Range(waiting) \cup {v} /\ Range(waiting) \subseteq SeqIds
      BY <2>1, PrependElements, RangeInSet, ZenonT(30)
    <2>3. running # <<>> /\ Range(PopBack(running)) = Range(running) \ {Victim}
      BY <1>2, QueueVictim, Zenon
    <2> QED BY <1>2, <2>2, <2>3, Zenon
  <1>6. \A q \in SeqIds : Finished(q)' => Finished(q)
    <2>1. status \in [SeqIds -> Status]
      BY Zenon DEF QueueInv, QueueTypes
    <2> QED BY <1>2, <2>1, Zenon DEF Finished
  <1>7. FinishedRunning' => FinishedRunning
    BY <1>5, <1>6, StaysUnfinished, Zenon
  <1>8. StaleShut'
    <2>1. CASE Finished(v) /\ UNCHANGED <<status, output_tokens, logical_blocks, freeing>>
      <3>1. scheduled' # <<>> /\ NoRoom' /\ pc' \in AfterDecode
        BY <1>1, <1>2, <1>4, <2>1, Zenon DEF FinishedRunning, NoRoom, AfterDecode
      <3> QED BY <3>1, Zenon DEF StaleShut
    <2>2. CASE ~Finished(v)
      <3>1. /\ status' = [status EXCEPT ![v] = "PREEMPTED"]
            /\ output_tokens' = [output_tokens EXCEPT ![v] = <<>>]
            /\ logical_blocks' = [logical_blocks EXCEPT ![v] = <<>>]
        BY <1>2, <2>2, Zenon
      <3>2. ASSUME NEW q \in Range(waiting'), Finished(q)', ~Fresh(q)' PROVE FALSE
        <4>1. q \in SeqIds
          BY <1>1, <1>5, Zenon
        <4>2. q # v
          BY <1>6, <2>2, <3>2, <4>1, Zenon
        <4>3. UNCHANGED <<output_tokens[q], logical_blocks[q]>>
          BY <3>1, <4>2
        <4>4. q \in Range(waiting) /\ Finished(q) /\ ~Fresh(q)
          BY <1>5, <1>6, <3>2, <4>1, <4>2, <4>3, Zenon DEF Fresh
        <4> QED BY <1>4, <4>4, Zenon DEF Stale
      <3> QED BY <3>2, Zenon DEF StaleShut, Stale
    <2> QED BY <1>2, <2>1, <2>2, Zenon
  <1>9. Preempting' /\ FreedBlocks'
    BY <1>2, <1>3, <1>4, <1>7, Zenon DEF Preempting, FreedBlocks
  <1>10. Limits'
    BY <1>2, <1>5, Zenon DEF Shut, Limits, MaxNumSeqs, MaxBatchedTokens
  <1> QED BY <1>8, <1>9, <1>10, Zenon DEF Shut

(* schedule_prefills *)
LEMMA ShutPrefill ==
    ASSUME QueueInv, MemInv, DoneInv, RoomInv, PreemptionMode = "RECOMPUTE", InSchedule,
           PrefillAdmit \/ PrefillSchedule
    PROVE  Shut'
  <1>0. Shut
    BY Zenon DEF RoomInv
  <1>1. PICK h \in SeqIds : h = Head(waiting) /\ waiting # <<>>
    <2>1. waiting # <<>>
      BY Zenon DEF PrefillAdmit, CanPrefill, PrefillSchedule, At, QueueInv, Cursors
    <2> QED BY <2>1, QueueHead, Zenon
  <1>2. /\ pc \in {"prefill", "prefillAlloc"} /\ pc' \in {"prefill", "prefillAlloc"}
        /\ UNCHANGED <<output_tokens, logical_blocks, free_list, freeing, phase, config>>
        /\ status' \in {status, [status EXCEPT ![h] = "RUNNING"]}
    BY <1>1, Zenon DEF PrefillAdmit, PrefillSchedule, InSchedule, At, bmVars, seqVars
  <1>3. phase = "scheduling"
    BY <1>2, Zenon DEF QueueInv, Control, ScheduleLabels
  <1>4. Range(waiting') \subseteq Range(waiting)
    BY <1>1, QueueHead, Zenon DEF PrefillAdmit, PrefillSchedule, queueVars
  <1>5. \A q \in SeqIds : Finished(q)' => Finished(q)
    <2>1. status \in [SeqIds -> Status]
      BY Zenon DEF QueueInv, QueueTypes
    <2> QED BY <1>2, <2>1, Zenon DEF Finished
  <1>6. StaleShut'
    <2>1. ~Stale
      <3>1. CASE PrefillAdmit
        BY <3>1, AdmitFresh, Zenon
      <3>2. CASE PrefillSchedule
        <4>1. pc = "prefillAlloc"
          BY <3>2, Zenon DEF PrefillSchedule, At
        <4> QED BY <1>0, <1>3, <4>1, Zenon DEF Shut, StaleShut, StalePhases, AfterDecode
      <3> QED BY <3>1, <3>2, Zenon
    <2>2. Stale' => Stale
      BY <1>2, <1>4, <1>5, StaysUnfinished, Zenon
    <2> QED BY <2>1, <2>2, Zenon DEF StaleShut
  <1>7. MaxNumSeqs' = MaxNumSeqs /\ MaxBatchedTokens' = MaxBatchedTokens
    BY <1>2, Zenon DEF MaxNumSeqs, MaxBatchedTokens
  <1>8. CASE PrefillAdmit
    <2>1. pc' = "prefillAlloc" /\ UNCHANGED <<running, budget_tokens, budget_seqs>>
      BY <1>8, Zenon DEF PrefillAdmit, queueVars, budgetVars
    <2>2. Preempting' /\ FreedBlocks' /\ Limits'
      BY <1>0, <1>2, <1>3, <1>7, <2>1, Zenon DEF Preempting, FreedBlocks, AfterDecode, Shut, Limits
    <2> QED BY <1>6, <2>2, Zenon DEF Shut
  <1>9. CASE PrefillSchedule
    <2>1. /\ pc = "prefillAlloc" /\ pc' = "prefill" /\ scheduled' = Append(scheduled, h)
          /\ budget_tokens' = budget_tokens - PromptLen[h] /\ budget_seqs' = budget_seqs - 1
      BY <1>1, <1>9, Zenon DEF PrefillSchedule, At
    <2>2. scheduled' # <<>>
      <3>1. scheduled \in Seq(SeqIds)
        BY Zenon DEF QueueInv, QueueTypes
      <3> QED BY <2>1, <3>1, AppendProperties, LenProperties, EmptySeq
    <2>3. Preempting' /\ FreedBlocks'
      BY <1>2, <1>3, <2>1, <2>2, Zenon DEF Preempting, FreedBlocks
    <2>4. /\ budget_seqs' <= MaxNumSeqs /\ budget_tokens' <= MaxBatchedTokens
          /\ MaxNumSeqs > 0 /\ MaxBatchedTokens > 0
      <3>1. /\ budget_seqs \in Nat /\ budget_tokens \in Nat /\ PromptLen[h] \in Nat \ {0}
            /\ budget_seqs <= MaxNumSeqs /\ budget_tokens <= MaxBatchedTokens
            /\ MaxNumSeqs \in Nat /\ MaxBatchedTokens \in Nat
            /\ PromptLen[h] <= budget_tokens /\ budget_seqs >= 1
        BY <1>0, <1>1, <1>3, <2>1, SchedulerConstants, Zenon
           DEF MemInv, LoopTypes, Budgets, Shut, Limits, QueueInv, Control, MaxNumSeqs, MaxBatchedTokens
      <3> HIDE DEF MaxNumSeqs, MaxBatchedTokens
      <3> QED BY <2>1, <3>1
    <2>5. Limits'
      BY <1>7, <2>1, <2>4, Zenon DEF Limits
    <2> QED BY <1>6, <2>3, <2>5, Zenon DEF Shut
  <1> QED BY <1>8, <1>9, Zenon

(* What is left to show of a step outside schedule(). *)
LEMMA ShutOutside ==
    ASSUME QueueInv', Shut, phase' # "scheduling", config' = config,
           running' # <<>> => running # <<>>, StaleShut',
           phase' \in {"schedule", "stopped"} /\ FinishedRunning' =>
               free_list'["CUDA"] # <<>> \/ (freeing' # NoSeq /\ seq_block_map'[freeing'] # <<>>)
    PROVE  Shut'
  <1>1. pc' \notin ScheduleLabels
    BY Zenon DEF QueueInv, Control
  <1>2. Preempting' /\ FreedBlocks'
    BY <1>1, Zenon DEF Preempting, FreedBlocks, ScheduleLabels, DecodeLabels, AfterDecode
  <1>3. Limits'
    <2>1. MaxNumSeqs' = MaxNumSeqs /\ MaxBatchedTokens' = MaxBatchedTokens
      BY Zenon DEF MaxNumSeqs, MaxBatchedTokens
    <2> QED BY <1>1, <2>1, Zenon DEF Shut, Limits, ScheduleLabels, DecodeLabels
  <1> QED BY <1>2, <1>3, Zenon DEF Shut

(* The engine's steps that change no request and no queue. *)
LEMMA ShutEngine ==
    ASSUME QueueInv, QueueInv', DoneInv, DoneInv', Shut,
           \/ CallSchedule \/ AfterSchedule
           \/ BuildNext \/ BuildReturn \/ Step \/ UpdateSkip \/ UpdateCheck \/ UpdateReturn
           \/ CallFreeFinished \/ AfterFreeFinished
           \/ InFreeFinishedLoop /\ (FreeFinishedSkip \/ FreeFinishedEnd)
    PROVE  Shut'
  <1> USE DEF bmVars, seqVars, schedVars, queueVars
  <1>1. UNCHANGED <<waiting, running, status, output_tokens, logical_blocks, config,
                    free_list, seq_block_map, freeing>>
    <2>1. CASE CallSchedule \/ AfterSchedule \/ CallFreeFinished \/ AfterFreeFinished
      BY <2>1, Zenon DEF CallSchedule, ScheduleEnter, AfterSchedule, ScheduleReturn,
           CallFreeFinished, FreeFinishedEnter, AfterFreeFinished, FreeFinishedReturn
    <2>2. CASE BuildNext \/ BuildReturn \/ Step \/ UpdateSkip \/ UpdateCheck \/ UpdateReturn
      BY <2>2, Zenon DEF BuildNext, BuildReturn, Step, UpdateSkip, UpdateCheck, UpdateReturn
    <2>3. CASE InFreeFinishedLoop /\ (FreeFinishedSkip \/ FreeFinishedEnd)
      BY <2>3, Zenon DEF InFreeFinishedLoop, FreeFinishedSkip, FreeFinishedEnd
    <2> QED BY <2>1, <2>2, <2>3, Zenon
  <1>2. (FinishedRunning' => FinishedRunning) /\ (Stale' => Stale)
    <2>1. \A r \in SeqIds : Finished(r)' => Finished(r)
      BY <1>1, Zenon DEF Finished
    <2> QED BY <1>1, <2>1, StaysUnfinished, Zenon
  <1>3. CASE CallSchedule
    <2>1. /\ phase = "schedule" /\ phase' = "scheduling" /\ pc = "unlocked" /\ pc' = "decode"
          /\ freeing = NoSeq /\ scheduled' = <<>>
          /\ budget_tokens' = MaxBatchedTokens /\ budget_seqs' = MaxNumSeqs
      BY <1>3, Zenon DEF CallSchedule, ScheduleEnter, At
    <2>2. StaleShut'
      BY <1>2, <2>1, Zenon DEF Shut, StaleShut, StalePhases, AfterDecode
    <2>3. Preempting' /\ FreedBlocks'
      BY <1>1, <1>2, <2>1, Zenon DEF Shut, Preempting, FreedBlocks
    <2>4. Limits'
      <3>1. MaxNumSeqs' = MaxNumSeqs /\ MaxBatchedTokens' = MaxBatchedTokens
        BY <1>1, Zenon DEF MaxNumSeqs, MaxBatchedTokens
      <3>2. MaxNumSeqs \in Nat /\ MaxBatchedTokens \in Nat
        BY SchedulerConstants, Zenon DEF QueueInv, Control, MaxNumSeqs, MaxBatchedTokens
      <3> HIDE DEF MaxNumSeqs, MaxBatchedTokens
      <3>3. MaxNumSeqs <= MaxNumSeqs /\ MaxBatchedTokens <= MaxBatchedTokens
        BY <3>2
      <3> QED BY <1>1, <2>1, <3>1, <3>3, Zenon DEF Shut, Limits
    <2> QED BY <2>2, <2>3, <2>4, Zenon DEF Shut
  <1>4. CASE AfterSchedule
    <2>1. /\ pc = "scheduleEnd" /\ phase = "scheduling"
          /\ phase' = IF scheduled = <<>> THEN "stopped" ELSE "build"
      BY <1>4, Zenon DEF AfterSchedule, ScheduleReturn, At
    <2>2. StaleShut'
      BY <1>2, <2>1, Zenon DEF Shut, StaleShut, StalePhases, AfterDecode
    <2>3. phase' = "stopped" /\ FinishedRunning => free_list["CUDA"] # <<>>
      BY <2>1, Zenon DEF Shut, FreedBlocks, AfterDecode
    <2> QED BY <1>1, <1>2, <2>1, <2>2, <2>3, ShutOutside, Zenon
  <1>5. CASE BuildNext \/ BuildReturn \/ Step \/ UpdateSkip \/ UpdateCheck \/ UpdateReturn
    <2>1. phase' \in StalePhases
      BY <1>5, Zenon DEF BuildNext, BuildReturn, Step, UpdateSkip, UpdateCheck, UpdateReturn, StalePhases
    <2>2. StaleShut' /\ phase' # "scheduling" /\ phase' \notin {"schedule", "stopped"}
      BY <2>1, Zenon DEF StaleShut, StalePhases
    <2> QED BY <1>1, <2>2, ShutOutside, Zenon
  <1>6. CASE CallFreeFinished \/ (InFreeFinishedLoop /\ (FreeFinishedSkip \/ FreeFinishedEnd))
    <2>1. pc' \in {"freeRunning", "freeWaiting", "freeEnd"}
      BY <1>6, Zenon DEF CallFreeFinished, FreeFinishedEnter, FreeFinishedSkip, FreeFinishedEnd,
                         InFreeFinished, At
    <2>2. phase' = "freeing"
      BY <2>1, Zenon DEF QueueInv, Control, FreeLabels
    <2>3. StaleShut'
      <3>1. pc' = "freeEnd" => ~Stale'
        BY Zenon DEF DoneInv, Swept, Stale
      <3> QED BY <2>1, <3>1, Zenon DEF StaleShut
    <2> QED BY <1>1, <2>2, <2>3, ShutOutside, Zenon
  <1>7. CASE AfterFreeFinished
    <2>1. pc = "freeEnd" /\ phase' = "schedule"
      BY <1>7, Zenon DEF AfterFreeFinished, FreeFinishedReturn, At
    <2>2. ~Stale /\ ~FinishedRunning
      BY <2>1, Zenon DEF DoneInv, Swept, Stale, FinishedRunning
    <2>3. StaleShut'
      BY <1>2, <2>2, Zenon DEF StaleShut
    <2> QED BY <1>1, <1>2, <2>1, <2>2, <2>3, ShutOutside, Zenon
  <1> QED BY <1>3, <1>4, <1>5, <1>6, <1>7, Zenon

(* Clients.  An aborted request is either still waiting, without tokens and *)
(* a table, or running, and then its blocks go to the free list.           *)
LEMMA ShutClient ==
    ASSUME QueueInv, QueueInv', DoneInv, RoomInv, PreemptionMode = "RECOMPUTE", OrderInv,
           NEW r \in SeqIds, Submit(r) \/ Abort(r)
    PROVE  Shut'
  <1>0. Shut /\ Tables
    BY Zenon DEF RoomInv
  <1>1. /\ pc = "unlocked" /\ freeing = NoSeq
        /\ UNCHANGED <<running, output_tokens, logical_blocks, seq_block_map, free_list, config, pc>>
        /\ phase' = phase \/ (phase = "stopped" /\ phase' = "schedule")
        /\ \/ /\ status[r] = "NEW" /\ waiting' = Append(waiting, r) /\ freeing' = freeing
              /\ status' = [status EXCEPT ![r] = "WAITING"]
           \/ /\ waiting' = waiting /\ status' = status /\ freeing' = freeing
           \/ /\ waiting' = waiting /\ ~Finished(r) /\ r \in request_map
              /\ status' = [status EXCEPT ![r] = "FINISHED_ABORT"] /\ freeing' = r
    BY Zenon DEF Submit, add_request, Abort, abort_request, EnterFreeBlocks, At, bmVars
  <1>2. phase # "scheduling" /\ phase' # "scheduling"
    BY <1>1, Zenon DEF QueueInv, Control, ScheduleLabels, DecodeLabels
  <1>3. /\ status \in [SeqIds -> Status] /\ waiting \in Seq(SeqIds)
        /\ Range(waiting) \subseteq SeqIds /\ Range(running) \subseteq SeqIds
    BY RangeInSet, Zenon DEF QueueInv, QueueTypes
  <1>4. CASE status[r] = "NEW" /\ waiting' = Append(waiting, r) /\ status' = [status EXCEPT ![r] = "WAITING"]
    <2>1. \A q \in SeqIds : Finished(q)' => Finished(q) /\ q # r
      BY <1>3, <1>4, Zenon DEF Finished
    <2>2. Range(waiting') = Range(waiting) \cup {r}
      <3>1. Range(Append(waiting, r)) = Range(waiting) \cup {r}
        BY <1>3, AppendElements
      <3> QED BY <1>4, <3>1, Zenon
    <2>3. Stale' => Stale
      BY <1>1, <1>3, <2>1, <2>2, Zenon DEF Stale, Fresh
    <2>4. FinishedRunning' => FinishedRunning
      BY <1>1, <2>1, StaysUnfinished, Zenon
    <2>5. freeing' = freeing
      BY <1>1, <1>4, BlockConstants, Zenon DEF Finished, QueueInv, Lines
    <2>6. StaleShut'
      BY <1>0, <1>1, <2>3, Zenon DEF Shut, StaleShut, StalePhases, AfterDecode
    <2>7. phase' \in {"schedule", "stopped"} => phase \in {"schedule", "stopped"}
      BY <1>1, Zenon
    <2> QED BY <1>0, <1>1, <1>2, <2>4, <2>5, <2>6, <2>7, ShutOutside, Zenon DEF Shut, FreedBlocks
  <1>5. CASE waiting' = waiting /\ status' = status /\ freeing' = freeing
    <2>1. (Stale' => Stale) /\ (FinishedRunning' => FinishedRunning)
      <3>1. \A q \in SeqIds : Finished(q)' => Finished(q)
        BY <1>5, Zenon DEF Finished
      <3> QED BY <1>1, <1>5, <3>1, StaysUnfinished, Zenon
    <2>2. StaleShut'
      BY <1>0, <1>1, <2>1, Zenon DEF Shut, StaleShut, StalePhases, AfterDecode
    <2>3. phase' \in {"schedule", "stopped"} => phase \in {"schedule", "stopped"}
      BY <1>1, Zenon
    <2> QED BY <1>0, <1>1, <1>2, <1>5, <2>1, <2>2, <2>3, ShutOutside, Zenon DEF Shut, FreedBlocks
  <1>6. CASE /\ waiting' = waiting /\ ~Finished(r) /\ r \in request_map
             /\ status' = [status EXCEPT ![r] = "FINISHED_ABORT"] /\ freeing' = r
    <2>1. \A q \in SeqIds \ {r} : Finished(q)' => Finished(q)
      BY <1>3, <1>6, Zenon DEF Finished
    <2>2. r \in Range(waiting) => Fresh(r)
      <3>1. r \in Range(waiting) => status[r] \in {"WAITING", "PREEMPTED"}
        BY <1>1, <1>6, Zenon DEF QueueInv, Statuses, Finished, Done
      <3> QED BY <3>1, Zenon DEF DoneInv, NotStarted, Unstarted
    <2>3. Stale' => Stale
      BY <1>1, <1>3, <1>6, <2>1, <2>2, Zenon DEF Stale, Fresh
    <2>4. StaleShut'
      BY <1>0, <1>1, <2>3, Zenon DEF Shut, StaleShut, StalePhases, AfterDecode
    <2>5. CASE r \in Range(running)
      <3>1. status[r] = "RUNNING"
        BY <1>1, <1>6, <2>5, Zenon DEF QueueInv, Statuses, Finished, Done
      <3>2. seq_block_map[r] # <<>>
        BY <1>0, <1>1, <3>1, Zenon DEF Tables
      <3>3. freeing' # NoSeq /\ seq_block_map'[freeing'] # <<>>
        BY <1>1, <1>6, <3>2, BlockConstants, Zenon
      <3> QED BY <1>0, <1>1, <1>2, <2>4, <3>3, ShutOutside, Zenon
    <2>6. CASE r \notin Range(running)
      <3>1. FinishedRunning' => FinishedRunning
        BY <1>1, <1>3, <2>1, <2>6, Zenon DEF FinishedRunning
      <3>2. phase' \in {"schedule", "stopped"} => phase \in {"schedule", "stopped"}
        BY <1>1, Zenon
      <3>3. phase' \in {"schedule", "stopped"} /\ FinishedRunning' => free_list'["CUDA"] # <<>>
        BY <1>0, <1>1, <3>1, <3>2, Zenon DEF Shut, FreedBlocks
      <3> QED BY <1>0, <1>1, <1>2, <2>4, <3>3, ShutOutside, Zenon
    <2> QED BY <2>5, <2>6, Zenon
  <1> QED BY <1>1, <1>4, <1>5, <1>6, Zenon

(* update_after_decode. *)
LEMMA ShutAppend ==
    ASSUME QueueInv', Shut, UpdateAppend
    PROVE  Shut'
  <1>1. phase' = "update" /\ UNCHANGED <<running, config>>
    BY Zenon DEF UpdateAppend, queueVars
  <1>2. StaleShut'
    BY <1>1, Zenon DEF StaleShut, StalePhases
  <1> QED BY <1>1, <1>2, ShutOutside, Zenon

(* free_finished_requests. *)
LEMMA ShutErase ==
    ASSUME QueueInv, QueueInv', Shut, InFreeFinishedLoop, FreeFinishedErase
    PROVE  Shut'
  <1>1. /\ pc \in {"freeRunning", "freeWaiting"} /\ UNCHANGED <<pc, phase, config>>
        /\ running' = running \/ (pc = "freeRunning" /\ it <= Len(running))
    BY Zenon DEF InFreeFinishedLoop, FreeFinishedErase, InFreeFinished, FreeFinishedQueue, At
  <1>2. phase = "freeing"
    BY <1>1, Zenon DEF QueueInv, Control, FreeLabels
  <1>3. StaleShut'
    BY <1>1, Zenon DEF StaleShut
  <1>4. running' # <<>> => running # <<>>
    <2>1. it \in Nat \ {0} /\ (running = <<>> => Len(running) = 0)
      BY Places, Zenon DEF QueueInv, QueueTypes
    <2>2. it <= Len(running) => running # <<>>
      BY <2>1
    <2> QED BY <1>1, <2>2, Zenon
  <1> QED BY <1>1, <1>2, <1>3, <1>4, ShutOutside, Zenon

(* free_blocks: the blocks of an aborted sequence go to the free list.     *)
LEMMA ShutFree ==
    ASSUME QueueInv, MemInv, OwnInv, RoomInv, PreemptionMode = "RECOMPUTE", InFreeBlocks
    PROVE  Shut'
  <1>0. Shut /\ MapsOnGpu /\ Counts
    BY Zenon DEF RoomInv, OwnInv, Records
  <1>1. /\ UNCHANGED <<waiting, running, status, output_tokens, logical_blocks, pc, scheduled,
                       budget_tokens, budget_seqs, phase, config>>
        /\ freeing # NoSeq /\ freeing' \in {freeing, NoSeq}
    BY Zenon
       DEF InFreeBlocks, FreeBlocksStep, FreeBlocksNext, FreeBlocksReturn, schedVars, queueVars, seqVars,
           budgetVars, outputVars
  <1>2. free_list["CUDA"] # <<>> => free_list'["CUDA"] # <<>>
    <2>1. /\ free_list["CUDA"] \in Seq(Blocks) /\ free_list'["CUDA"] \in Seq(Blocks)
          /\ Len(free_list'["CUDA"]) >= Len(free_list["CUDA"])
      BY FreeBlocksTypes, Zenon DEF InFreeBlocks, FreeBlocksStep, MemInv, LoopTypes, BMTypeOK, Device
    <2> QED BY <2>1, LenProperties, EmptySeq
  <1>3. (Stale' => Stale) /\ (FinishedRunning' => FinishedRunning)
    <2>1. \A q \in SeqIds : Finished(q)' => Finished(q)
      BY <1>1, Zenon DEF Finished
    <2> QED BY <1>1, <2>1, StaysUnfinished, Zenon
  <1>4. StaleShut'
    BY <1>0, <1>1, <1>3, Zenon DEF Shut, StaleShut, NoRoom
  <1>5. Preempting'
    BY <1>0, <1>1, Zenon DEF Shut, Preempting, NoRoom
  <1>6. seq_block_map[freeing] # <<>> => free_list'["CUDA"] # <<>>
    <2> SUFFICES ASSUME seq_block_map[freeing] # <<>> PROVE free_list'["CUDA"] # <<>>
      BY Zenon
    <2>1. PICK f \in SeqIds : f = freeing
      BY <1>1, Zenon DEF QueueInv, Control
    <2>2. PICK m \in Seq(Blocks) : m = seq_block_map[f] /\ m # <<>>
      BY <2>1, Zenon DEF MemInv, LoopTypes, BMTypeOK
    <2>3. PICK b \in Blocks : b = Head(m) /\ b \in Range(m) /\ b[1] = "CUDA"
      <3>1. Head(m) \in Blocks /\ Head(m) \in Range(m)
        BY <2>2, Places, Zenon
      <3>2. Head(m)[1] = "CUDA"
        BY <1>0, <2>2, <3>1, Zenon DEF MapsOnGpu, Range
      <3> QED BY <3>1, <3>2, Zenon
    <2>4. ref_count[b] = 1
      BY <1>0, <2>2, <2>3, Zenon DEF Counts, Recorded
    <2>5. DropRef(b)
      BY <2>1, <2>2, <2>3, Zenon DEF InFreeBlocks, FreeBlocksStep, FreeBlocksNext, FreeBlocksReturn
    <2>6. free_list' = [free_list EXCEPT !["CUDA"] = Append(@, b)]
      BY <2>3, <2>4, <2>5 DEF DropRef
    <2>7. free_list \in [Device -> Seq(Blocks)] /\ "CUDA" \in Device
      BY Zenon DEF MemInv, LoopTypes, BMTypeOK, Device
    <2>8. free_list'["CUDA"] = Append(free_list["CUDA"], b) /\ free_list["CUDA"] \in Seq(Blocks)
      BY <2>6, <2>7, Zenon
    <2> QED BY <2>3, <2>8, AppendProperties, LenProperties, EmptySeq
  <1>7. FreedBlocks'
    BY <1>0, <1>1, <1>2, <1>3, <1>6, Zenon DEF Shut, FreedBlocks
  <1>8. Limits'
    BY <1>0, <1>1, Zenon DEF Shut, Limits, MaxNumSeqs, MaxBatchedTokens
  <1> QED BY <1>4, <1>5, <1>7, <1>8, Zenon DEF Shut

-----------------------------------------------------------------------------
LEMMA ShutStutter ==
    ASSUME RoomInv, UNCHANGED vars
    PROVE  RoomInv'
  <1> USE DEF vars, bmVars, schedVars, queueVars, seqVars, budgetVars, outputVars
  <1>1. UNCHANGED <<waiting, running, status, output_tokens, logical_blocks, seq_block_map, free_list,
                    freeing, pc, scheduled, budget_tokens, budget_seqs, phase, config>>
    BY Zenon
  <1>2. (Stale' <=> Stale) /\ (FinishedRunning' <=> FinishedRunning)
    BY <1>1, Zenon DEF Stale, FinishedRunning, Finished, Fresh
  <1>3. Tables => Tables'
    BY <1>1, Zenon DEF Tables
  <1>4. MapsOnGpu => MapsOnGpu'
    BY <1>1 DEF MapsOnGpu
  <1>5. Shut => Shut'
    BY <1>1, <1>2, Zenon
       DEF Shut, Limits, StaleShut, Preempting, FreedBlocks, NoRoom, MaxNumSeqs, MaxBatchedTokens
  <1> QED BY <1>1, <1>3, <1>4, <1>5, Zenon DEF RoomInv, PreemptionMode

(* The steps that allocate nothing, free nothing and admit nobody.         *)
LEMMA TablesOther ==
    ASSUME QueueInv, MemInv, Tables, MapsOnGpu,
           \/ \E r \in SeqIds : Submit(r) \/ Abort(r)
           \/ /\ InSchedule
              /\ \/ DecodeSkip \/ DecodeCheck \/ DecodeSchedule \/ DecodeEnd \/ PreemptRecompute
                 \/ SortWaiting \/ PrefillEnd \/ SwapInStop
           \/ CallSchedule \/ AfterSchedule
           \/ BuildNext \/ BuildReturn \/ Step \/ UpdateSkip \/ UpdateCheck \/ UpdateAppend \/ UpdateReturn
           \/ CallFreeFinished \/ InFreeFinishedLoop \/ AfterFreeFinished
    PROVE  Tables' /\ MapsOnGpu'
  <1> USE DEF bmVars, seqVars, schedVars, queueVars, At
  <1>0. /\ status \in [SeqIds -> Status]
        /\ logical_blocks \in [SeqIds -> Seq(Blocks \cup {INVALID_BLOCK})]
    BY Zenon DEF QueueInv, QueueTypes, MemInv, LoopTypes
  <1>1. ASSUME UNCHANGED <<status, logical_blocks, seq_block_map, freeing>>,
               pc # "prefillAlloc" \/ UNCHANGED <<pc, waiting>>
        PROVE  Tables' /\ MapsOnGpu'
    <2>1. \A q \in SeqIds : status'[q] = "RUNNING" =>
             status[q] = "RUNNING" /\ logical_blocks'[q] = logical_blocks[q] /\ freeing' # q
      BY <1>1, Zenon DEF Tables
    <2> QED BY <1>1, <2>1, TablesKept, Zenon
  <1>2. ASSUME NEW r, NEW v \in {"WAITING", "FINISHED_ABORT", "PREEMPTED", "FINISHED_LENGTH", "GONE"},
               status' = [status EXCEPT ![r] = v],
               logical_blocks' \in {logical_blocks, [logical_blocks EXCEPT ![r] = <<>>]},
               seq_block_map' = seq_block_map, freeing' \in {freeing, r},
               pc # "prefillAlloc" \/ UNCHANGED <<pc, waiting>>
        PROVE  Tables' /\ MapsOnGpu'
    <2>1. ASSUME NEW q \in SeqIds, status'[q] = "RUNNING"
          PROVE  status[q] = "RUNNING" /\ logical_blocks'[q] = logical_blocks[q] /\ freeing' # q
      <3>1. q # r /\ status[q] = "RUNNING"
        BY <1>0, <1>2, <2>1, Zenon
      <3> QED BY <1>0, <1>2, <3>1, Zenon DEF Tables
    <2> QED BY <1>2, <2>1, TablesKept, Zenon
  <1>3. ASSUME NEW r \in SeqIds, Submit(r) \/ Abort(r) PROVE Tables' /\ MapsOnGpu'
    <2>1. /\ UNCHANGED <<logical_blocks, seq_block_map>> /\ pc = "unlocked"
          /\ \/ status' = [status EXCEPT ![r] = "WAITING"] /\ freeing' = freeing
             \/ UNCHANGED <<status, freeing>>
             \/ status' = [status EXCEPT ![r] = "FINISHED_ABORT"] /\ freeing' = r
      BY <1>3, Zenon DEF Submit, add_request, Abort, abort_request, EnterFreeBlocks
    <2> QED BY <1>1, <1>2, <2>1, Zenon
  <1>4. CASE InSchedule /\ PreemptRecompute
    <2>1. /\ seq_block_map' = seq_block_map /\ pc = "preempt"
          /\ \/ UNCHANGED <<status, logical_blocks, freeing>>
             \/ /\ status' = [status EXCEPT ![Victim] = "PREEMPTED"]
                /\ logical_blocks' = [logical_blocks EXCEPT ![Victim] = <<>>]
                /\ freeing' = Victim
      BY <1>4, Zenon DEF PreemptRecompute, EnterFreeBlocks
    <2> QED BY <1>1, <1>2, <2>1, Zenon
  <1>5. CASE UpdateAppend
    <2>1. /\ UNCHANGED <<logical_blocks, seq_block_map, freeing, pc, waiting>>
          /\ status' \in {status, [status EXCEPT ![scheduled[group]] = "FINISHED_LENGTH"]}
      BY <1>5, Zenon DEF UpdateAppend
    <2> QED BY <1>1, <1>2, <2>1, Zenon
  <1>6. CASE InFreeFinishedLoop /\ FreeFinishedErase
    <2>1. /\ seq_block_map' = seq_block_map /\ pc \in {"freeRunning", "freeWaiting"}
          /\ status' = [status EXCEPT ![FreeFinishedQueue[it]] = "GONE"]
          /\ logical_blocks' = [logical_blocks EXCEPT ![FreeFinishedQueue[it]] = <<>>]
          /\ freeing' = FreeFinishedQueue[it]
      BY <1>6, Zenon DEF FreeFinishedErase, EnterFreeBlocks, InFreeFinished
    <2> QED BY <1>2, <2>1, Zenon
  <1>7. CASE InFreeFinishedLoop /\ (FreeFinishedSkip \/ FreeFinishedEnd)
    BY <1>1, <1>7, Zenon DEF FreeFinishedSkip, FreeFinishedEnd, InFreeFinished
  <1>8. CASE InSchedule /\ (DecodeSkip \/ DecodeCheck \/ DecodeSchedule \/ DecodeEnd)
    BY <1>1, <1>8, Zenon DEF DecodeSkip, DecodeCheck, DecodeSchedule, DecodeEnd
  <1>9. CASE InSchedule /\ (SortWaiting \/ PrefillEnd \/ SwapInStop)
    BY <1>1, <1>9, Zenon DEF SortWaiting, PrefillEnd, SwapInStop
  <1>10. CASE CallSchedule \/ AfterSchedule \/ CallFreeFinished \/ AfterFreeFinished
    BY <1>1, <1>10, Zenon DEF CallSchedule, ScheduleEnter, AfterSchedule, ScheduleReturn,
         CallFreeFinished, FreeFinishedEnter, AfterFreeFinished, FreeFinishedReturn
  <1>11. CASE BuildNext \/ BuildReturn \/ Step \/ UpdateSkip \/ UpdateCheck \/ UpdateReturn
    BY <1>1, <1>11, Zenon DEF BuildNext, BuildReturn, Step, UpdateSkip, UpdateCheck, UpdateReturn
  <1> QED BY <1>3, <1>4, <1>5, <1>6, <1>7, <1>8, <1>9, <1>10, <1>11, Zenon
          DEF InFreeFinishedLoop, FreeFinishedStep

LEMMA RoomStep ==
    ASSUME QueueInv, QueueInv', OrderInv, MemInv, OwnInv, DoneInv, DoneInv', RoomInv, [Next]_vars
    PROVE  RoomInv'
  <1>1. CASE UNCHANGED vars \/ Terminated
    BY <1>1, ShutStutter, Zenon DEF Terminated
  <1>2. CASE Next /\ ~Terminated
    <2>1. config' = config
      BY <1>2, Zenon
         DEF Next, Engine, Submit, Abort, CallSchedule, InSchedule, AfterSchedule, BuildNext, BuildReturn,
             Step, UpdateSkip, UpdateCheck, UpdateAppend, UpdateReturn, CallFreeFinished,
             InFreeFinishedLoop, AfterFreeFinished, InFreeBlocks
    <2> SUFFICES ASSUME PreemptionMode = "RECOMPUTE" PROVE Tables' /\ MapsOnGpu' /\ Shut'
      BY <2>1, Zenon DEF RoomInv, PreemptionMode
    <2>2. Tables /\ MapsOnGpu /\ Shut
      BY Zenon DEF RoomInv
    <2>3. CASE \E r \in SeqIds : Submit(r) \/ Abort(r)
      BY <2>2, <2>3, TablesOther, ShutClient, Zenon
    <2>4. CASE InSchedule
      <3>1. CASE \/ DecodeSkip \/ DecodeEnd \/ SortWaiting \/ PrefillEnd \/ SwapInStop
        BY <2>2, <2>4, <3>1, TablesOther, ShutLoop, Zenon
      <3>2. CASE DecodeCheck \/ DecodeSchedule
        BY <2>2, <2>4, <3>2, TablesOther, ShutDecode, Zenon
      <3>3. CASE PreemptRecompute
        BY <2>2, <2>4, <3>3, TablesOther, ShutPreempt, Zenon
      <3>4. CASE DecodeAllocate \/ PrefillAllocate
        BY <2>2, <2>4, <3>4, TablesAllocate, ShutAllocate, Zenon
      <3>5. CASE PrefillAdmit \/ PrefillSchedule
        BY <2>4, <3>5, TablesPrefill, ShutPrefill, Zenon
      <3>6. CASE PreemptSwap \/ SwapOutAllocate \/ SwapOutFree \/ SwapInAdmit \/ SwapInAllocate
        BY <2>4, <3>6, OwnNoSwap, Zenon
      <3>7. CASE SwapOutEnd \/ SwapInEnd
        BY <3>7, Zenon DEF SwapOutEnd, SwapInEnd, At, OrderInv
      <3> QED BY <2>4, <3>1, <3>2, <3>3, <3>4, <3>5, <3>6, <3>7, Zenon DEF InSchedule, ScheduleStep
    <2>5. CASE UpdateAppend
      BY <2>2, <2>5, TablesOther, ShutAppend, Zenon
    <2>6. CASE InFreeFinishedLoop
      BY <2>2, <2>6, TablesOther, ShutErase, ShutEngine, Zenon DEF InFreeFinishedLoop, FreeFinishedStep
    <2>7. CASE InFreeBlocks
      BY <2>2, <2>7, TablesFree, ShutFree, Zenon
    <2>8. CASE \/ CallSchedule \/ AfterSchedule
               \/ BuildNext \/ BuildReturn \/ Step \/ UpdateSkip \/ UpdateCheck \/ UpdateReturn
               \/ CallFreeFinished \/ AfterFreeFinished
      BY <2>2, <2>8, TablesOther, ShutEngine, Zenon
    <2> QED BY <1>2, <2>3, <2>4, <2>5, <2>6, <2>7, <2>8, Zenon DEF Next, Engine
  <1> QED BY <1>1, <1>2, Zenon

LEMMA RoomInit == Init => RoomInv
  <1> SUFFICES ASSUME Init PROVE Tables /\ MapsOnGpu /\ Shut
    BY Zenon DEF RoomInv
  <1>1. /\ status = [r \in SeqIds |-> "NEW"] /\ seq_block_map = [r \in SeqIds |-> <<>>]
        /\ pc = "unlocked" /\ phase = "schedule" /\ waiting = <<>> /\ running = <<>>
    BY Zenon DEF Init, SchedInit, BMInit
  <1>2. Tables
    BY <1>1, Zenon DEF Tables
  <1>3. MapsOnGpu
    BY <1>1 DEF MapsOnGpu
  <1>4. Range(waiting) = {} /\ Range(running) = {}
    BY <1>1 DEF Range
  <1>5. Shut
    BY <1>1, <1>4, Zenon
       DEF Shut, Limits, StaleShut, Stale, Preempting, FreedBlocks, FinishedRunning, AfterDecode
  <1> QED BY <1>2, <1>3, <1>5, Zenon

(* With RECOMPUTE a running sequence's table lists the blocks recorded     *)
(* under it, and a finished victim with a stale table is never admitted.   *)
THEOREM RoomAlways == Spec => []RoomInv
  BY RoomInit, RoomStep, QueuesAlways, OrderAlways, MemAlways, OwnAlways, DoneAlways, PTL DEF Spec

(* Whatever mode, policy, pool and limits are configured, and whenever     *)
(* clients abort: schedule() revives an aborted request only if it has no  *)
(* tokens and no table of an earlier life.                                 *)
THEOREM AbortedOnlyRestartsAlways == Spec => AbortedOnlyRestarts
  <1>1. ASSUME QueueInv, MemInv, DoneInv, RoomInv, [Next]_vars
        PROVE  [\A r \in SeqIds :
                    status[r] = "FINISHED_ABORT" /\ status'[r] = "RUNNING"
                      => output_tokens[r] = <<>> /\ logical_blocks[r] = <<>>]_vars
    <2>0. status \in [SeqIds -> Status]
      BY <1>1, Zenon DEF QueueInv, QueueTypes
    <2> SUFFICES ASSUME NEW r \in SeqIds, status[r] = "FINISHED_ABORT", status'[r] = "RUNNING", Next
                 PROVE  Fresh(r)
      BY <1>1, Zenon DEF Fresh
    <2>1. CASE InSchedule /\ PrefillAdmit
      <3>1. status' = [status EXCEPT ![Head(waiting)] = "RUNNING"]
        BY <2>1, Zenon DEF PrefillAdmit
      <3>2. r = Head(waiting)
        BY <2>0, <3>1, Zenon
      <3> QED BY <1>1, <2>1, <3>2, AdmitFresh, Zenon
    <2>2. CASE ~(InSchedule /\ PrefillAdmit)
      <3> USE DEF seqVars, schedVars
      <3>1. \/ status' = status
            \/ \E q : \E v \in Status \ {"RUNNING"} : status' = [status EXCEPT ![q] = v]
            \/ \E q : ~Finished(q) /\ status' = [status EXCEPT ![q] = "RUNNING"]
        <4> USE DEF Status
        <4>1. CASE \E q \in SeqIds : Submit(q) \/ Abort(q)
          <5>1. ASSUME NEW q \in SeqIds, Submit(q) PROVE status' = [status EXCEPT ![q] = "WAITING"]
            BY <5>1, Zenon DEF Submit, add_request
          <5>2. ASSUME NEW q \in SeqIds, Abort(q)
                PROVE  status' = status \/ status' = [status EXCEPT ![q] = "FINISHED_ABORT"]
            BY <5>2, Zenon DEF Abort, abort_request
          <5>3. {"WAITING", "FINISHED_ABORT"} \subseteq Status \ {"RUNNING"}
            OBVIOUS
          <5> QED BY <4>1, <5>1, <5>2, <5>3, Zenon
        <4>2. CASE InSchedule
          <5>1. CASE \/ DecodeSkip \/ DecodeCheck \/ DecodeAllocate \/ DecodeSchedule \/ DecodeEnd
                     \/ SwapOutAllocate \/ SwapOutFree \/ SwapOutEnd
            BY <5>1, Zenon DEF DecodeSkip, DecodeCheck, DecodeAllocate, DecodeSchedule, DecodeEnd,
                 SwapOutAllocate, SwapOutFree, SwapOutEnd
          <5>2. CASE \/ SortWaiting \/ PrefillAllocate \/ PrefillSchedule \/ PrefillEnd
                     \/ SwapInAllocate \/ SwapInEnd \/ SwapInStop
            BY <5>2, Zenon DEF SortWaiting, PrefillAllocate, PrefillSchedule, PrefillEnd,
                 SwapInAllocate, SwapInEnd, SwapInStop
          <5>3. CASE PreemptRecompute \/ PreemptSwap \/ SwapInAdmit
            BY <5>3, Zenon DEF PreemptRecompute, PreemptSwap, SwapInAdmit
          <5> QED BY <2>2, <4>2, <5>1, <5>2, <5>3, Zenon DEF InSchedule, ScheduleStep
        <4>3. CASE CallSchedule \/ AfterSchedule \/ CallFreeFinished \/ AfterFreeFinished \/ InFreeBlocks
          BY <4>3, Zenon DEF CallSchedule, ScheduleEnter, AfterSchedule, ScheduleReturn, CallFreeFinished,
               FreeFinishedEnter, AfterFreeFinished, FreeFinishedReturn, InFreeBlocks, FreeBlocksStep
        <4>4. CASE BuildNext \/ BuildReturn \/ Step \/ UpdateSkip \/ UpdateCheck \/ UpdateAppend \/ UpdateReturn
          <5>1. CASE UpdateAppend
            <6>1. "FINISHED_LENGTH" \in Status \ {"RUNNING"}
              OBVIOUS
            <6> QED BY <5>1, <6>1, Zenon DEF UpdateAppend
          <5>2. CASE BuildNext \/ BuildReturn \/ Step \/ UpdateSkip \/ UpdateCheck \/ UpdateReturn
            BY <5>2, Zenon DEF BuildNext, BuildReturn, Step, UpdateSkip, UpdateCheck, UpdateReturn
          <5> QED BY <4>4, <5>1, <5>2, Zenon
        <4>5. CASE InFreeFinishedLoop
          BY <4>5, Zenon DEF InFreeFinishedLoop, FreeFinishedStep, FreeFinishedSkip, FreeFinishedErase,
               FreeFinishedEnd
        <4>6. CASE Terminated
          BY <4>6, Zenon DEF Terminated, vars
        <4> QED BY <4>1, <4>2, <4>3, <4>4, <4>5, <4>6, Zenon DEF Next, Engine
      <3>2. FALSE
        BY <2>0, <3>1, Zenon DEF Finished
      <3> QED BY <3>2, Zenon
    <2> QED BY <2>1, <2>2, Zenon
  <1> QED BY <1>1, QueuesAlways, MemAlways, DoneAlways, RoomAlways, PTL DEF Spec, AbortedOnlyRestarts

-----------------------------------------------------------------------------
(* With RECOMPUTE and outside the critical sections a running sequence's   *)
(* table names GPU blocks that are recorded under it alone and are not     *)
(* free, for any requests and any pool: attention never reads another      *)
(* sequence's keys and values.                                             *)
THEOREM TablesExclusiveAlways == Spec => []TablesExclusive
  <1>1. ASSUME OwnInv, RoomInv PROVE TablesExclusive
    <2> SUFFICES ASSUME PreemptionMode = "RECOMPUTE",
                        NEW r \in SeqIds, NEW t \in SeqIds, status[r] = "RUNNING", status[t] = "RUNNING",
                        NEW i \in DOMAIN logical_blocks[r], NEW j \in DOMAIN logical_blocks[t]
                 PROVE  /\ logical_blocks[r][i] \in Range(seq_block_map[r]) \ Range(free_list["CUDA"])
                        /\ logical_blocks[r][i][1] = "CUDA"
                        /\ logical_blocks[r][i] = logical_blocks[t][j] => r = t /\ i = j
      BY DEF TablesExclusive
    <2>0. PICK b : b = logical_blocks[r][i]
      BY Zenon
    <2>1. /\ Tables /\ MapsOnGpu /\ FreeListExact /\ RecordedOnce /\ Counts
      BY <1>1, Zenon DEF OwnInv, RoomInv, Records
    <2>2. logical_blocks[r] = seq_block_map[r] /\ logical_blocks[t] = seq_block_map[t]
      BY <2>1, Zenon DEF Tables
    <2>3. b \in Range(seq_block_map[r])
      BY <2>0, <2>2 DEF Range
    <2>4. b[1] = "CUDA"
      BY <2>0, <2>1, <2>2 DEF MapsOnGpu
    <2>5. b \notin Range(free_list["CUDA"])
      <3> SUFFICES ASSUME b \in Range(free_list["CUDA"]) PROVE FALSE
        BY Zenon
      <3>1. b \in Blocks /\ ref_count[b] = 0
        BY <2>1, Zenon DEF FreeListExact, Device
      <3>2. ref_count[b] = 1
        BY <2>1, <2>3, <3>1, Zenon DEF Counts, Recorded
      <3> QED BY <3>1, <3>2
    <2>6. b = logical_blocks[t][j] => r = t /\ i = j
      <3>1. i \in DOMAIN seq_block_map[r] /\ j \in DOMAIN seq_block_map[t]
        BY <2>2
      <3> QED BY <2>0, <2>1, <2>2, <3>1 DEF RecordedOnce
    <2> QED BY <2>0, <2>3, <2>4, <2>5, <2>6, Zenon
  <1> QED BY <1>1, OwnAlways, RoomAlways, PTL

=============================================================================
