------------------------- MODULE ServingWorkProofs --------------------------
(***************************************************************************)
(* The batch keeps within both configured limits, for every set of         *)
(* requests, pool and configuration: what schedule() charges bounds what   *)
(* build_batch will find to do (WorkInv).                                  *)
(***************************************************************************)
EXTENDS ServingLoopProofs

-----------------------------------------------------------------------------
(* Budgets.  A prefill is charged its prompt and a decode one token, when  *)
(* schedule() runs; what the batch then holds for a group is decided later *)
(* by whether it has output tokens.  The two agree because a sequence that *)
(* runs without output tokens is always one whose prompt was charged in    *)
(* this very pass (Started), which in turn holds because                   *)
(* update_after_decode never runs out of tokens for an unfinished group    *)
(* (Draw): each had an entry of its own in the batch.                      *)

AdmitLabels == {"prefill", "prefillAlloc", "swapIn", "swapInAlloc", "scheduleEnd"}

Starting(r) == status[r] \in {"RUNNING", "SWAPPED"} /\ output_tokens[r] = <<>>

(* The current pass of the loop will give r its first token. *)
Awaited(r) ==
    \/ pc = "prefillAlloc" /\ r = Head(waiting)
    \/ r \in Range(scheduled) /\ (pc \in AdmitLabels \/ phase \in {"build", "step"})
    \/ phase \in {"update", "append"} /\ \E i \in group .. Len(scheduled) : scheduled[i] = r

Started == \A r \in SeqIds : Starting(r) => Awaited(r)

SeqsCharged ==
    /\ phase = "scheduling" => Len(scheduled) + budget_seqs <= MaxNumSeqs
    /\ phase \in UsesScheduled => Len(scheduled) <= MaxNumSeqs

(* c[i] bounds the entries of the first i groups of the output. *)
Charged(c) ==
    /\ c[0] = 0
    /\ phase \in {"scheduling", "build"} =>
          \A i \in 1 .. Len(scheduled) : c[i - 1] + Len(EntriesOf(scheduled[i])) <= c[i]
    /\ phase = "scheduling" => \A i \in 0 .. Len(scheduled) : c[i] + budget_tokens <= MaxBatchedTokens
    /\ phase = "build" => /\ \A i \in 0 .. Len(scheduled) : c[i] <= MaxBatchedTokens
                          /\ group <= Len(scheduled) + 1 /\ Len(batch) <= c[group - 1]
    /\ phase = "step" => Len(batch) <= MaxBatchedTokens

Charge == \E c \in [0 .. Len(scheduled) -> Nat] : Charged(c)

(* c[i] of the tokens are for the first i groups, at least one for a group *)
(* from place m to n that is still unfinished; there are k tokens.         *)
Ladder(c, m, n, k) ==
    /\ \A i \in 1 .. n : c[i - 1] <= c[i] /\ (i >= m /\ ~Finished(scheduled[i]) => c[i - 1] < c[i])
    /\ \A i \in 0 .. n : c[i] <= k

Drawn(c) ==
    /\ phase = "build" => Ladder(c, 1, group - 1, Len(batch)) /\ group <= Len(scheduled) + 1
    /\ phase = "step" => Ladder(c, 1, Len(scheduled), Len(batch))
    /\ phase \in {"update", "append"} =>
          /\ Ladder(c, group, Len(scheduled), Len(new_tokens))
          /\ group <= Len(scheduled) + 1 /\ tok_idx - 1 <= c[group - 1]
    /\ phase = "append" => c[group - 1] < c[group]

Draw == \E c \in [0 .. Len(scheduled) -> Nat] : Drawn(c)

(* The inductive invariant of the budgets. *)
WorkInv == Started /\ SeqsCharged /\ Charge /\ Draw

(* What build_batch adds for a sequence. *)
LEMMA EntriesLen ==
    ASSUME LoopTypes, NEW r \in SeqIds
    PROVE  /\ Len(EntriesOf(r)) \in Nat
           /\ Finished(r) => Len(EntriesOf(r)) = 0
           /\ ~Finished(r) => Len(EntriesOf(r)) >= 1
           /\ output_tokens[r] # <<>> => Len(EntriesOf(r)) <= 1
           /\ Len(EntriesOf(r)) <= PromptLen[r]
  <1>1. PromptLen[r] \in Nat \ {0}
    BY SchedulerConstants
  <1>2. Len([i \in 1 .. PromptLen[r] |-> <<r, i - 1>>]) = PromptLen[r]
    BY <1>1
  <1>3. Finished(r) => EntriesOf(r) = <<>>
    BY DEF EntriesOf
  <1>4. ~Finished(r) /\ output_tokens[r] = <<>> =>
            EntriesOf(r) = [i \in 1 .. PromptLen[r] |-> <<r, i - 1>>]
    BY DEF EntriesOf
  <1>5. ~Finished(r) /\ output_tokens[r] # <<>> => EntriesOf(r) = << <<r, TotalLen(r) - 1>> >>
    BY DEF EntriesOf
  <1>6. Len(<<>>) = 0 /\ Len(<< <<r, TotalLen(r) - 1>> >>) = 1
    OBVIOUS
  <1>7. /\ Finished(r) => Len(EntriesOf(r)) = 0
        /\ ~Finished(r) /\ output_tokens[r] = <<>> => Len(EntriesOf(r)) = PromptLen[r]
        /\ ~Finished(r) /\ output_tokens[r] # <<>> => Len(EntriesOf(r)) = 1
    BY <1>2, <1>3, <1>4, <1>5, <1>6, Zenon
  <1> DEFINE n == Len(EntriesOf(r))
             q == PromptLen[r]
             f == Finished(r)
             e == output_tokens[r] = <<>>
  <1> HIDE DEF n
  <1>8. (f => n = 0) /\ (~f /\ e => n = q) /\ (~f /\ ~e => n = 1) /\ q \in Nat \ {0}
    BY <1>1, <1>7, Zenon DEF n
  <1> HIDE DEF q, f, e
  <1>9. n \in Nat /\ n <= q /\ (f => n = 0) /\ (~f => n >= 1) /\ (~e => n <= 1)
    BY <1>8
  <1> QED BY <1>9, Zenon DEF n, q, f, e

(* Steps that neither charge nor draw.  A group of the output may become   *)
(* finished meanwhile, which only shortens what build_batch adds for it.   *)
LEMMA WorkStay ==
    ASSUME QueueInv, MemInv, WorkInv, Started',
           UNCHANGED <<scheduled, group, batch, new_tokens, tok_idx, config>>,
           phase' = phase \/ phase' \notin UsesScheduled,
           budget_tokens' = budget_tokens, budget_seqs' = budget_seqs,
           \A r \in Range(scheduled) : phase \in UsesScheduled =>
               output_tokens'[r] = output_tokens[r] /\ (Finished(r) => Finished(r)')
    PROVE  WorkInv'
  <1>1. SeqsCharged'
    BY DEF WorkInv, SeqsCharged, UsesScheduled, MaxNumSeqs
  <1>2. \A i \in 1 .. Len(scheduled) : scheduled[i] \in SeqIds /\ scheduled[i] \in Range(scheduled)
    BY Places DEF QueueInv, QueueTypes
  <1>3. phase \in UsesScheduled => \A i \in 1 .. Len(scheduled) :
            /\ Len(EntriesOf(scheduled[i])) \in Nat
            /\ EntriesOf(scheduled[i])' = EntriesOf(scheduled[i]) \/ Len(EntriesOf(scheduled[i])') = 0
            /\ ~Finished(scheduled[i])' => ~Finished(scheduled[i])
    <2> SUFFICES ASSUME phase \in UsesScheduled, NEW r \in Range(scheduled), r \in SeqIds
                 PROVE  /\ Len(EntriesOf(r)) \in Nat
                        /\ EntriesOf(r)' = EntriesOf(r) \/ Len(EntriesOf(r)') = 0
                        /\ ~Finished(r)' => ~Finished(r)
      BY <1>2
    <2>1. Len(EntriesOf(r)) \in Nat
      BY EntriesLen DEF MemInv
    <2>2. Finished(r)' => EntriesOf(r)' = <<>>
      BY DEF EntriesOf
    <2>3. ~Finished(r)' => ~Finished(r) /\ EntriesOf(r)' = EntriesOf(r)
      BY DEF EntriesOf, TotalLen
    <2> QED BY <2>1, <2>2, <2>3
  <1>4. Charge'
    <2>1. PICK c \in [0 .. Len(scheduled) -> Nat] : Charged(c)
      BY DEF WorkInv, Charge
    <2>2. Charged(c)'
      <3>1. phase' \in {"scheduling", "build"} => \A i \in 1 .. Len(scheduled) :
                c[i - 1] + Len(EntriesOf(scheduled[i])') <= c[i]
        <4> SUFFICES ASSUME phase' \in {"scheduling", "build"}, NEW i \in 1 .. Len(scheduled)
                     PROVE  c[i - 1] + Len(EntriesOf(scheduled[i])') <= c[i]
          OBVIOUS
        <4>1. phase \in {"scheduling", "build"} /\ phase \in UsesScheduled
          BY DEF UsesScheduled
        <4>2. c[i - 1] + Len(EntriesOf(scheduled[i])) <= c[i]
          BY <2>1, <4>1 DEF Charged
        <4>3. c[i - 1] \in Nat /\ c[i] \in Nat
          <5>1. Len(scheduled) \in Nat
            BY LenProperties DEF QueueInv, QueueTypes
          <5>2. i - 1 \in 0 .. Len(scheduled) /\ i \in 0 .. Len(scheduled)
            BY <5>1
          <5> QED BY <2>1, <5>2
        <4>4. Len(EntriesOf(scheduled[i])') \in {Len(EntriesOf(scheduled[i])), 0}
              /\ Len(EntriesOf(scheduled[i])) \in Nat
          BY <1>3, <4>1
        <4> QED BY <4>2, <4>3, <4>4
      <3>2. phase' \in {"scheduling", "build"} => \A i \in 1 .. Len(scheduled)' :
                c[i - 1] + Len(EntriesOf(scheduled[i]))' <= c[i]
        BY <3>1, Zenon DEF EntriesOf
      <3> QED BY <2>1, <3>2 DEF Charged, MaxBatchedTokens, UsesScheduled
    <2> QED BY <2>1, <2>2 DEF Charge
  <1>5. Draw'
    <2>1. PICK c \in [0 .. Len(scheduled) -> Nat] : Drawn(c)
      BY DEF WorkInv, Draw
    <2>2. ASSUME phase \in UsesScheduled, NEW m, NEW n \in 0 .. Len(scheduled), NEW k, Ladder(c, m, n, k)
          PROVE  Ladder(c, m, n, k)'
      <3>1. \A i \in 1 .. n : ~Finished(scheduled[i])' => ~Finished(scheduled[i])
        BY <1>3, <2>2
      <3> QED BY <2>2, <3>1, Zenon DEF Ladder, Finished
    <2>3. Drawn(c)'
      BY <2>1, <2>2 DEF Drawn, UsesScheduled
    <2> QED BY <2>1, <2>3 DEF Draw
  <1> QED BY <1>1, <1>4, <1>5 DEF WorkInv

(* Nobody new starts, and the pass goes on or has nobody to wait for. *)
LEMMA StartedStay ==
    ASSUME Started, UNCHANGED <<scheduled, group>>,
           \A r \in SeqIds : Starting(r)' => Starting(r),
           \/ pc' = pc /\ phase' = phase /\ (pc = "prefillAlloc" => waiting' = waiting)
           \/ pc \notin AdmitLabels /\ phase \notin {"build", "step", "update", "append"}
           \/ pc \in AdmitLabels \ {"prefillAlloc"} /\ pc' \in AdmitLabels /\ phase' = phase
    PROVE  Started'
  <1> SUFFICES ASSUME NEW r \in SeqIds, Starting(r)' PROVE Awaited(r)'
    BY DEF Started
  <1>1. Awaited(r)
    BY DEF Started
  <1>2. CASE pc' = pc /\ phase' = phase /\ (pc = "prefillAlloc" => waiting' = waiting)
    BY <1>1, <1>2 DEF Awaited
  <1>3. CASE pc \notin AdmitLabels /\ phase \notin {"build", "step", "update", "append"}
    BY <1>1, <1>3 DEF Awaited, AdmitLabels
  <1>4. CASE pc \in AdmitLabels \ {"prefillAlloc"} /\ pc' \in AdmitLabels /\ phase' = phase
    BY <1>1, <1>4 DEF Awaited
  <1> QED BY <1>2, <1>3, <1>4

(* The steps of schedule() that leave its output alone. *)
LEMMA WorkQuiet ==
    ASSUME QueueInv, MemInv, WorkInv, InSchedule,
           \/ DecodeSkip \/ DecodeCheck \/ DecodeAllocate \/ DecodeEnd
           \/ SwapOutAllocate \/ SwapOutFree \/ SwapOutEnd \/ SortWaiting
           \/ PrefillAllocate \/ PrefillEnd \/ SwapInAllocate \/ SwapInStop
    PROVE  WorkInv'
  <1> USE DEF bmVars, queueVars, seqVars, innerVars, budgetVars, outputVars, batchVars, At
  <1>1. UNCHANGED <<scheduled, group, batch, new_tokens, tok_idx, config, phase, status, output_tokens,
                    budget_tokens, budget_seqs>>
    BY Zenon DEF InSchedule, DecodeSkip, DecodeCheck, DecodeAllocate, DecodeEnd, SwapOutAllocate, SwapOutFree,
           SwapOutEnd, SortWaiting, PrefillAllocate, PrefillEnd, SwapInAllocate, SwapInStop
  <1>2. phase = "scheduling"
    <2>1. pc \in ScheduleLabels
      BY Zenon DEF DecodeSkip, DecodeCheck, DecodeAllocate, DecodeEnd, SwapOutAllocate, SwapOutFree, SwapOutEnd,
             SortWaiting, PrefillAllocate, PrefillEnd, SwapInAllocate, SwapInStop, ScheduleLabels, DecodeLabels
    <2> QED BY <2>1, Zenon DEF QueueInv, Control
  <1>3. \/ pc \notin AdmitLabels
        \/ pc' = pc /\ waiting' = waiting
        \/ pc \in AdmitLabels \ {"prefillAlloc"} /\ pc' \in AdmitLabels
    BY Zenon DEF DecodeSkip, DecodeCheck, DecodeAllocate, DecodeEnd, SwapOutAllocate, SwapOutFree, SwapOutEnd,
           SortWaiting, PrefillAllocate, PrefillEnd, SwapInAllocate, SwapInStop, AdmitLabels
  <1>4. Started'
    BY <1>1, <1>2, <1>3, StartedStay DEF WorkInv, Starting
  <1> QED BY <1>1, <1>4, WorkStay, Zenon DEF Finished

(* The steps of schedule() that change a status, or take back the tokens   *)
(* of a victim, which is not in the output.                                *)
LEMMA WorkStatus ==
    ASSUME QueueInv, MemInv, WorkInv, InSchedule,
           PreemptRecompute \/ PreemptSwap \/ PrefillAdmit \/ SwapInAdmit
    PROVE  WorkInv'
  <1> USE DEF bmVars, queueVars, seqVars, innerVars, budgetVars, outputVars, batchVars, At
  <1>1. /\ UNCHANGED <<scheduled, group, batch, new_tokens, tok_idx, config, phase, budget_tokens, budget_seqs>>
        /\ pc \in {"preempt", "prefill", "swapIn"} /\ pc' \in {"sort", "swapOut", "prefillAlloc", "swapInAlloc"}
    BY DEF InSchedule, PreemptRecompute, PreemptSwap, PrefillAdmit, SwapInAdmit
  <1>2. phase = "scheduling" /\ status \in [SeqIds -> Status] /\ output_tokens \in [SeqIds -> Seq(Tokens)]
    BY <1>1 DEF QueueInv, Control, ScheduleLabels, DecodeLabels, QueueTypes, MemInv, LoopTypes
  <1>3. CASE PreemptRecompute \/ PreemptSwap
    <2>1. /\ pc = "preempt" /\ Victim \in SeqIds /\ Victim \notin Range(scheduled)
          /\ status[Victim] \in {"RUNNING"} \cup Done
      <3>1. pc = "preempt"
        BY <1>3 DEF PreemptRecompute, PreemptSwap
      <3> QED BY <3>1, QueueVictim
    <2>2. /\ \A q \in SeqIds \ {Victim} : status'[q] = status[q] /\ output_tokens'[q] = output_tokens[q]
          /\ \/ status'[Victim] = "PREEMPTED"
             \/ UNCHANGED <<status, output_tokens>>
             \/ status'[Victim] = "SWAPPED" /\ ~Finished(Victim) /\ UNCHANGED output_tokens
      BY <1>2, <1>3, <2>1 DEF PreemptRecompute, PreemptSwap
    <2>3. \A r \in SeqIds : Starting(r)' => Starting(r)
      BY <2>1, <2>2 DEF Starting, Finished, Done
    <2>4. Started'
      BY <1>1, <1>2, <2>1, <2>3, StartedStay DEF WorkInv, AdmitLabels
    <2>5. Range(scheduled) \subseteq SeqIds \ {Victim}
      BY <2>1, RangeInSet DEF QueueInv, QueueTypes
    <2> QED BY <1>1, <2>2, <2>4, <2>5, WorkStay DEF Finished
  <1>4. CASE PrefillAdmit
    <2>1. /\ pc = "prefill" /\ pc' = "prefillAlloc" /\ UNCHANGED <<waiting, output_tokens>>
          /\ status' = [status EXCEPT ![Head(waiting)] = "RUNNING"] /\ waiting # <<>>
      BY <1>4 DEF PrefillAdmit, CanPrefill
    <2>2. Head(waiting) \in SeqIds /\ Head(waiting) \notin Range(scheduled) /\ Range(scheduled) \subseteq SeqIds
      BY <1>2, <2>1, QueueHead, RangeInSet DEF UsesScheduled, QueueInv, QueueTypes
    <2>3. /\ \A r \in SeqIds \ {Head(waiting)} : status'[r] = status[r]
          /\ \A r \in Range(scheduled) : status'[r] = status[r]
      BY <1>2, <2>1, <2>2
    <2>4. ASSUME NEW r \in SeqIds, Starting(r)' PROVE Awaited(r)'
      <3>1. CASE r = Head(waiting)
        BY <2>1, <3>1 DEF Awaited
      <3>2. CASE r # Head(waiting)
        <4>1. Starting(r)
          BY <2>1, <2>3, <2>4, <3>2 DEF Starting
        <4>2. r \in Range(scheduled)
          BY <1>2, <2>1, <4>1 DEF WorkInv, Started, Awaited
        <4> QED BY <1>1, <2>1, <4>2 DEF Awaited, AdmitLabels
      <3> QED BY <3>1, <3>2
    <2>5. Started'
      BY <2>4 DEF Started
    <2> QED BY <1>1, <2>1, <2>3, <2>5, WorkStay DEF Finished
  <1>5. CASE SwapInAdmit
    <2> DEFINE h == Head(swapped)
    <2>1. /\ pc = "swapIn" /\ pc' = "swapInAlloc" /\ UNCHANGED <<waiting, output_tokens>> /\ swapped # <<>>
          /\ IF Finished(h) THEN status' = status ELSE status' = [status EXCEPT ![h] = "RUNNING"]
      BY <1>5 DEF SwapInAdmit, CanSwapIn
    <2>2. h \in SeqIds /\ h \in Range(swapped) /\ Range(scheduled) \subseteq SeqIds
      BY <2>1, Places, RangeInSet DEF QueueInv, QueueTypes
    <2>3. status[h] \in {"SWAPPED"} \cup Done
      BY <2>1, <2>2 DEF QueueInv, Statuses
    <2> HIDE DEF h
    <2>4. /\ \A r \in SeqIds \ {h} : status'[r] = status[r]
          /\ Finished(h) => status'[h] = status[h]
          /\ ~Finished(h) => status[h] = "SWAPPED"
      BY <1>2, <2>1, <2>2, <2>3 DEF Finished, Done
    <2>5. \A r \in SeqIds : Starting(r)' => Starting(r)
      BY <2>1, <2>4 DEF Starting, Finished
    <2>6. Started'
      BY <1>1, <2>1, <2>5, StartedStay DEF WorkInv, AdmitLabels
    <2>7. \A r \in SeqIds : Finished(r) => Finished(r)'
      BY <2>4 DEF Finished
    <2> QED BY <1>1, <2>1, <2>2, <2>6, <2>7, WorkStay
  <1> QED BY <1>3, <1>4, <1>5, Zenon

(* Clients, the cleanup and free_blocks: requests only get finished. *)
LEMMA WorkOutside ==
    ASSUME QueueInv, MemInv, WorkInv,
           \/ \E r \in SeqIds : Submit(r) \/ Abort(r)
           \/ CallFreeFinished \/ InFreeFinishedLoop \/ AfterFreeFinished
           \/ InFreeBlocks \/ UNCHANGED vars
    PROVE  WorkInv'
  <1> USE DEF vars, bmVars, schedVars, queueVars, seqVars, innerVars, budgetVars, outputVars, batchVars, At
  <1>1. UNCHANGED <<scheduled, group, batch, new_tokens, tok_idx, config, output_tokens, budget_tokens,
                    budget_seqs>>
    BY Zenon DEF Submit, add_request, Abort, abort_request, CallFreeFinished, FreeFinishedEnter,
           InFreeFinishedLoop, FreeFinishedStep, FreeFinishedSkip, FreeFinishedErase, FreeFinishedEnd,
           AfterFreeFinished, FreeFinishedReturn, InFreeBlocks, FreeBlocksStep
  <1>2. status \in [SeqIds -> Status] /\ Range(scheduled) \subseteq SeqIds
    BY RangeInSet DEF QueueInv, QueueTypes
  <1>3. ASSUME NEW r \in SeqIds, Submit(r)
        PROVE  WorkInv'
    <2>1. /\ status[r] = "NEW" /\ status' = [status EXCEPT ![r] = "WAITING"] /\ pc' = pc /\ pc = "unlocked"
          /\ phase' = phase \/ (phase = "stopped" /\ phase' = "schedule")
      BY <1>3, Zenon DEF Submit, add_request
    <2>2. \A q \in SeqIds : /\ Starting(q)' => Starting(q)
                            /\ Finished(q) => Finished(q)'
      BY <1>1, <1>2, <2>1, Zenon DEF Starting, Finished
    <2>3. Started'
      BY <1>1, <2>1, <2>2, StartedStay DEF WorkInv, AdmitLabels
    <2> QED BY <1>1, <1>2, <2>1, <2>2, <2>3, WorkStay DEF UsesScheduled
  <1>4. ASSUME NEW r \in SeqIds, Abort(r)
        PROVE  WorkInv'
    <2>1. /\ status' = status \/ status' = [status EXCEPT ![r] = "FINISHED_ABORT"]
          /\ pc' = pc /\ phase' = phase /\ waiting' = waiting
      BY <1>4, Zenon DEF Abort, abort_request
    <2>2. \A q \in SeqIds : /\ Starting(q)' => Starting(q)
                            /\ Finished(q) => Finished(q)'
      BY <1>1, <1>2, <2>1, Zenon DEF Starting, Finished
    <2>3. Started'
      BY <1>1, <2>1, <2>2, StartedStay DEF WorkInv
    <2> QED BY <1>1, <1>2, <2>1, <2>2, <2>3, WorkStay
  <1>5. CASE CallFreeFinished \/ InFreeFinishedLoop \/ AfterFreeFinished
    <2>1. phase \in {"free", "freeing"} /\ phase' \in {"free", "freeing", "schedule"}
      <3>1. CASE CallFreeFinished \/ AfterFreeFinished
        BY <3>1 DEF CallFreeFinished, AfterFreeFinished
      <3>2. CASE InFreeFinishedLoop
        <4>1. pc \in FreeLabels /\ phase' = phase
          BY <3>2, Zenon DEF InFreeFinishedLoop, FreeFinishedStep, FreeFinishedSkip, FreeFinishedErase,
                      FreeFinishedEnd, InFreeFinished, FreeLabels
        <4> QED BY <4>1, Zenon DEF QueueInv, Control
      <3> QED BY <1>5, <3>1, <3>2
    <2>2. status' = status \/ \E q \in SeqIds : status' = [status EXCEPT ![q] = "GONE"]
      <3>1. CASE InFreeFinishedLoop /\ FreeFinishedErase
        <4>1. PICK q : q = FreeFinishedQueue[it]
          OBVIOUS
        <4>2. status' = [status EXCEPT ![q] = "GONE"] /\ it <= Len(FreeFinishedQueue)
          BY <3>1, <4>1 DEF FreeFinishedErase
        <4>3. q \in SeqIds
          BY <4>1, <4>2, Places DEF QueueInv, QueueTypes, FreeFinishedQueue
        <4> QED BY <4>2, <4>3, Zenon
      <3>2. CASE ~(InFreeFinishedLoop /\ FreeFinishedErase)
        BY <1>5, <3>2, Zenon DEF CallFreeFinished, FreeFinishedEnter, InFreeFinishedLoop, FreeFinishedStep,
                          FreeFinishedSkip, FreeFinishedEnd, AfterFreeFinished, FreeFinishedReturn
      <3> QED BY <3>1, <3>2
    <2>3. \A q \in SeqIds : Starting(q)' => Starting(q)
      BY <1>1, <1>2, <2>2, Zenon DEF Starting
    <2>4. pc \notin AdmitLabels
      BY <2>1 DEF QueueInv, Control, ScheduleLabels, AdmitLabels
    <2>5. Started'
      BY <1>1, <2>1, <2>3, <2>4, StartedStay DEF WorkInv
    <2>6. phase \notin UsesScheduled /\ phase' \notin UsesScheduled
      BY <2>1 DEF UsesScheduled
    <2> QED BY <1>1, <2>5, <2>6, WorkStay
  <1>6. CASE InFreeBlocks \/ UNCHANGED vars
    <2>1. UNCHANGED <<status, pc, phase, waiting>>
      BY <1>6, Zenon DEF InFreeBlocks, FreeBlocksStep
    <2>2. Started'
      BY <1>1, <2>1, StartedStay, Zenon DEF WorkInv, Starting
    <2> QED BY <1>1, <2>1, <2>2, WorkStay DEF Finished
  <1> QED BY <1>3, <1>4, <1>5, <1>6, Zenon

(* A place of a sequence one longer is the last one or an old place. *)
LEMMA LastPlace ==
    ASSUME NEW n \in Nat, NEW i \in 1 .. n + 1
    PROVE  /\ i = n + 1 => i - 1 = n /\ n \in 0 .. n
           /\ i # n + 1 => i \in 1 .. n /\ i - 1 \in 0 .. n /\ i \in 0 .. n
  OBVIOUS

(* A group that enters the output is charged at least what build_batch     *)
(* will add for it.                                                        *)
LEMMA ChargeAppend ==
    ASSUME QueueInv, MemInv, WorkInv, phase = "scheduling", phase' = phase, config' = config,
           NEW r \in SeqIds, NEW k \in Nat, scheduled' = Append(scheduled, r),
           UNCHANGED <<status, output_tokens>>,
           k <= budget_tokens, Len(EntriesOf(r)) <= k, budget_tokens' = budget_tokens - k,
           budget_seqs >= 1, budget_seqs' = budget_seqs - 1
    PROVE  SeqsCharged' /\ Charge' /\ Draw'
  <1> DEFINE n == Len(scheduled)
  <1>1. /\ n \in Nat /\ Len(scheduled') = n + 1 /\ scheduled'[n + 1] = r
        /\ \A i \in 1 .. n : scheduled'[i] = scheduled[i] /\ scheduled[i] \in SeqIds
    BY AppendProperties, Places DEF QueueInv, QueueTypes
  <1>2. budget_tokens \in Nat /\ budget_seqs \in Nat /\ Len(EntriesOf(r)) \in Nat
    BY EntriesLen DEF MemInv, LoopTypes
  <1>3. MaxNumSeqs \in Nat /\ MaxBatchedTokens \in Nat /\ MaxNumSeqs' = MaxNumSeqs
        /\ MaxBatchedTokens' = MaxBatchedTokens
    BY SchedulerConstants DEF QueueInv, Control, MaxNumSeqs, MaxBatchedTokens
  <1> HIDE DEF n
  <1>4. SeqsCharged'
    <2>1. n + budget_seqs <= MaxNumSeqs
      BY DEF WorkInv, SeqsCharged, n
    <2>2. (n + 1) + (budget_seqs - 1) <= MaxNumSeqs /\ n + 1 <= MaxNumSeqs
      BY <1>1, <1>2, <1>3, <2>1
    <2> QED BY <1>1, <1>3, <2>2 DEF SeqsCharged
  <1>5. Charge'
    <2>1. PICK c \in [0 .. n -> Nat] : Charged(c)
      BY DEF WorkInv, Charge, n
    <2>2. c[n] \in Nat /\ c[n] + budget_tokens <= MaxBatchedTokens /\ c[n] + k \in Nat
      BY <1>1, <2>1 DEF Charged, n
    <2>3. PICK e \in [0 .. n + 1 -> Nat] : e[n + 1] = c[n] + k /\ \A i \in 0 .. n : e[i] = c[i]
      <3> DEFINE f == [i \in 0 .. n + 1 |-> IF i = n + 1 THEN c[n] + k ELSE c[i]]
      <3>1. f \in [0 .. n + 1 -> Nat] /\ f[n + 1] = c[n] + k /\ \A i \in 0 .. n : f[i] = c[i]
        BY <1>1, <2>1, <2>2
      <3> HIDE DEF f
      <3> QED BY <3>1, Zenon
    <2>4. \A q \in SeqIds : EntriesOf(q)' = EntriesOf(q)
      BY DEF EntriesOf, TotalLen, Finished
    <2>5. \A i \in 1 .. n + 1 : e[i - 1] + Len(EntriesOf(scheduled'[i])) <= e[i]
      <3> SUFFICES ASSUME NEW i \in 1 .. n + 1 PROVE e[i - 1] + Len(EntriesOf(scheduled'[i])) <= e[i]
        BY Zenon
      <3>1. CASE i = n + 1
        <4>1. i - 1 = n /\ n \in 0 .. n
          BY <1>1, <3>1, LastPlace, Zenon
        <4>2. e[i - 1] = c[n] /\ e[i] = c[n] + k /\ scheduled'[i] = r
          BY <1>1, <2>3, <3>1, <4>1, Zenon
        <4>3. c[n] + Len(EntriesOf(r)) <= c[n] + k
          BY <1>2, <2>2
        <4> QED BY <4>2, <4>3, Zenon
      <3>2. CASE i # n + 1
        <4>1. i \in 1 .. n /\ i - 1 \in 0 .. n /\ i \in 0 .. n
          BY <1>1, <3>2, LastPlace, Zenon
        <4>2. c[i - 1] + Len(EntriesOf(scheduled[i])) <= c[i]
          BY <2>1, <4>1 DEF Charged, n
        <4>3. scheduled'[i] = scheduled[i] /\ e[i - 1] = c[i - 1] /\ e[i] = c[i]
          BY <1>1, <2>3, <4>1
        <4> QED BY <4>2, <4>3
      <3> QED BY <3>1, <3>2, Zenon
    <2>6. \A i \in 0 .. n + 1 : e[i] + (budget_tokens - k) <= MaxBatchedTokens
      <3>1. \A i \in 0 .. n : c[i] \in Nat /\ c[i] + budget_tokens <= MaxBatchedTokens
        BY <2>1 DEF Charged, n
      <3>2. \A i \in 0 .. n : e[i] + (budget_tokens - k) <= MaxBatchedTokens
        BY <1>2, <1>3, <2>3, <3>1
      <3>3. e[n + 1] + (budget_tokens - k) <= MaxBatchedTokens
        BY <1>2, <1>3, <2>2, <2>3
      <3>4. \A i \in 0 .. n + 1 : i \in 0 .. n \/ i = n + 1
        BY <1>1
      <3> QED BY <3>2, <3>3, <3>4, Zenon
    <2>7. e[0] = 0
      BY <1>1, <2>1, <2>3 DEF Charged
    <2>8. \A i \in 1 .. n + 1 : scheduled'[i] \in SeqIds
      <3>1. \A i \in 1 .. n + 1 : i \in 1 .. n \/ i = n + 1
        BY <1>1
      <3> QED BY <1>1, <3>1, Zenon
    <2>9. \A i \in 1 .. Len(scheduled)' : e[i - 1] + Len(EntriesOf(scheduled[i]))' <= e[i]
      BY <1>1, <2>4, <2>5, <2>8, Zenon DEF EntriesOf, TotalLen, Finished
    <2>10. Charged(e)'
      BY <1>1, <1>3, <2>6, <2>7, <2>9, Zenon DEF Charged
    <2>11. e \in [0 .. Len(scheduled') -> Nat]
      BY <1>1, <2>3
    <2> QED BY <2>10, <2>11 DEF Charge
  <1>6. Draw'
    <2>1. PICK e : e = [i \in 0 .. n + 1 |-> 0]
      BY Zenon
    <2>2. e \in [0 .. Len(scheduled') -> Nat] /\ Drawn(e)'
      BY <1>1, <2>1 DEF Drawn
    <2> QED BY <2>2 DEF Draw
  <1> QED BY <1>4, <1>5, <1>6, Zenon

(* The three steps of schedule() that draw on the budgets. *)
LEMMA WorkCharge ==
    ASSUME QueueInv, MemInv, WorkInv, InSchedule, DecodeSchedule \/ PrefillSchedule \/ SwapInEnd
    PROVE  WorkInv'
  <1> USE DEF bmVars, queueVars, seqVars, innerVars, budgetVars, outputVars, batchVars, At
  <1>1. /\ UNCHANGED <<group, batch, new_tokens, tok_idx, config, phase, status, output_tokens>>
        /\ pc \in {"decodeAlloc", "prefillAlloc", "swapInAlloc"}
    BY Zenon DEF InSchedule, DecodeSchedule, PrefillSchedule, SwapInEnd
  <1>2. phase = "scheduling" /\ scheduled \in Seq(SeqIds)
    BY <1>1 DEF QueueInv, Control, ScheduleLabels, DecodeLabels, QueueTypes
  <1>3. CASE DecodeSchedule
    <2>1. /\ pc = "decodeAlloc" /\ pc' = "decode" /\ scheduled' = Append(scheduled, running[it])
          /\ budget_tokens' = budget_tokens - DecodeTokens(running[it])
          /\ budget_seqs' = budget_seqs - 1
      BY <1>3 DEF DecodeSchedule
    <2>2. PICK r \in SeqIds : r = running[it] /\ r \in Range(running) /\ ~Finished(r)
      BY <2>1, Places DEF QueueInv, QueueTypes, Cursors
    <2>3. budget_tokens >= 1 /\ budget_seqs >= 1
      BY <2>1 DEF MemInv, Budgets
    <2>4. \A q \in SeqIds : ~Starting(q)
      BY <1>2, <2>1, Zenon DEF WorkInv, Started, Awaited, AdmitLabels
    <2>5. status[r] = "RUNNING"
      BY <2>1, <2>2, Zenon DEF QueueInv, Statuses, Finished, Done
    <2>6. Len(EntriesOf(r)) <= 1
      BY <2>4, <2>5, EntriesLen DEF Starting, MemInv
    <2>7. DecodeTokens(r) = 1
      BY <2>2 DEF DecodeTokens
    <2>8. SeqsCharged' /\ Charge' /\ Draw'
      BY <1>1, <1>2, <2>1, <2>2, <2>3, <2>6, <2>7, ChargeAppend
    <2>9. Started'
      BY <1>1, <2>4, Zenon DEF Started, Starting
    <2> QED BY <2>8, <2>9 DEF WorkInv
  <1>4. CASE PrefillSchedule
    <2>1. /\ pc = "prefillAlloc" /\ pc' = "prefill" /\ scheduled' = Append(scheduled, Head(waiting))
          /\ budget_tokens' = budget_tokens - PromptLen[Head(waiting)] /\ budget_seqs' = budget_seqs - 1
      BY <1>4 DEF PrefillSchedule
    <2>2. Head(waiting) \in SeqIds
      BY <2>1, QueueHead DEF QueueInv, Cursors
    <2>3. PICK r \in SeqIds : r = Head(waiting)
      BY <2>2
    <2>4. PromptLen[r] <= budget_tokens /\ budget_seqs >= 1
      BY <2>1, <2>3 DEF MemInv, Budgets
    <2>5. PromptLen[r] \in Nat /\ Len(EntriesOf(r)) <= PromptLen[r]
      BY EntriesLen, SchedulerConstants DEF MemInv
    <2>6. SeqsCharged' /\ Charge' /\ Draw'
      BY <1>1, <1>2, <2>1, <2>3, <2>4, <2>5, ChargeAppend
    <2>7. Range(scheduled') = Range(scheduled) \cup {r}
      BY <1>2, <2>1, <2>3, AppendElements
    <2>8. ASSUME NEW q \in SeqIds, Starting(q)' PROVE Awaited(q)'
      <3>1. Starting(q)
        BY <1>1, <2>8 DEF Starting
      <3>2. q = r \/ q \in Range(scheduled)
        BY <1>2, <2>3, <3>1 DEF WorkInv, Started, Awaited
      <3> QED BY <2>1, <2>7, <3>2 DEF Awaited, AdmitLabels
    <2>9. Started'
      BY <2>8 DEF Started
    <2> QED BY <2>6, <2>9 DEF WorkInv
  <1>5. CASE SwapInEnd
    <2> DEFINE d == DecodeTokens(Head(swapped))
    <2>1. /\ pc = "swapInAlloc" /\ pc' = "swapIn" /\ UNCHANGED <<scheduled, waiting>>
          /\ budget_tokens' = budget_tokens - d /\ budget_seqs' = budget_seqs - 1
      BY <1>5 DEF SwapInEnd
    <2>2. d \in Nat /\ d <= budget_tokens /\ budget_seqs >= 1
      BY <2>1, Zenon DEF MemInv, Budgets, DecodeTokens
    <2> HIDE DEF d
    <2>3. /\ budget_tokens \in Nat /\ budget_seqs \in Nat /\ Len(scheduled) \in Nat
          /\ MaxNumSeqs \in Nat /\ MaxNumSeqs' = MaxNumSeqs
          /\ MaxBatchedTokens \in Nat /\ MaxBatchedTokens' = MaxBatchedTokens
      BY <1>1, <1>2, LenProperties, SchedulerConstants
         DEF MemInv, LoopTypes, QueueInv, Control, MaxNumSeqs, MaxBatchedTokens
    <2>4. SeqsCharged'
      <3>1. Len(scheduled) + budget_seqs <= MaxNumSeqs
        BY <1>2 DEF WorkInv, SeqsCharged
      <3>2. Len(scheduled) + (budget_seqs - 1) <= MaxNumSeqs /\ Len(scheduled) <= MaxNumSeqs
        BY <2>2, <2>3, <3>1
      <3> QED BY <1>1, <1>2, <2>1, <2>3, <3>2 DEF SeqsCharged
    <2>5. \A q \in SeqIds : EntriesOf(q)' = EntriesOf(q)
      BY <1>1 DEF EntriesOf, TotalLen, Finished
    <2>6. Charge'
      <3>1. PICK c \in [0 .. Len(scheduled) -> Nat] : Charged(c)
        BY DEF WorkInv, Charge
      <3>2. \A i \in 0 .. Len(scheduled) : c[i] + (budget_tokens - d) <= MaxBatchedTokens
        <4>1. \A i \in 0 .. Len(scheduled) : c[i] \in Nat /\ c[i] + budget_tokens <= MaxBatchedTokens
          BY <1>2, <3>1 DEF Charged
        <4> QED BY <2>2, <2>3, <4>1
      <3>3. \A i \in 1 .. Len(scheduled) : c[i - 1] + Len(EntriesOf(scheduled[i])) <= c[i]
        BY <1>2, <3>1 DEF Charged
      <3>4. \A i \in 1 .. Len(scheduled) : EntriesOf(scheduled[i])' = EntriesOf(scheduled[i])
        BY <1>1, <2>1, Zenon DEF EntriesOf, TotalLen, Finished
      <3>5. Charged(c)'
        BY <1>1, <1>2, <2>1, <2>3, <3>1, <3>2, <3>3, <3>4 DEF Charged
      <3> QED BY <2>1, <3>1, <3>5 DEF Charge
    <2>7. Draw'
      BY <1>1, <1>2, <2>1 DEF WorkInv, Draw, Drawn
    <2>8. Started'
      <3> SUFFICES ASSUME NEW q \in SeqIds, Starting(q)' PROVE Awaited(q)'
        BY DEF Started
      <3>1. q \in Range(scheduled)
        BY <1>1, <1>2, <2>1 DEF WorkInv, Started, Starting, Awaited
      <3> QED BY <2>1, <3>1 DEF Awaited, AdmitLabels
    <2> QED BY <2>4, <2>6, <2>7, <2>8 DEF WorkInv
  <1> QED BY <1>3, <1>4, <1>5

(* schedule() starts with the configured budgets and an empty output. *)
LEMMA WorkEnter ==
    ASSUME QueueInv, MemInv, WorkInv, CallSchedule
    PROVE  WorkInv'
  <1>1. /\ phase = "schedule" /\ phase' = "scheduling" /\ pc = "unlocked" /\ scheduled' = <<>>
        /\ budget_tokens' = MaxBatchedTokens /\ budget_seqs' = MaxNumSeqs
        /\ UNCHANGED <<status, output_tokens, config>>
    BY DEF CallSchedule, ScheduleEnter, At, seqVars
  <1>2. MaxNumSeqs \in Nat /\ MaxBatchedTokens \in Nat /\ Len(scheduled') = 0
        /\ MaxNumSeqs' = MaxNumSeqs /\ MaxBatchedTokens' = MaxBatchedTokens
    BY <1>1, SchedulerConstants DEF QueueInv, Control, MaxNumSeqs, MaxBatchedTokens
  <1>3. Started'
    BY <1>1 DEF WorkInv, Started, Starting, Awaited, AdmitLabels
  <1>4. SeqsCharged'
    BY <1>1, <1>2 DEF SeqsCharged
  <1>5. PICK c : c = [i \in 0 .. 0 |-> 0]
    BY Zenon
  <1>6. c \in [0 .. Len(scheduled)' -> Nat] /\ c[0] = 0
    BY <1>2, <1>5
  <1>7. Charged(c)' /\ Drawn(c)'
    BY <1>1, <1>2, <1>5 DEF Charged, Drawn
  <1>8. Charge' /\ Draw'
    BY <1>6, <1>7 DEF Charge, Draw
  <1> QED BY <1>3, <1>4, <1>8 DEF WorkInv

(* build_batch adds no more than was charged, and at least one entry for   *)
(* an unfinished group.                                                    *)
LEMMA WorkBuild ==
    ASSUME QueueInv, MemInv, WorkInv, AfterSchedule \/ BuildNext \/ BuildReturn \/ Step
    PROVE  WorkInv'
  <1> USE DEF bmVars, schedVars, queueVars, seqVars, innerVars, budgetVars, outputVars, batchVars, At
  <1> DEFINE n == Len(scheduled)
  <1>1. /\ UNCHANGED <<scheduled, status, output_tokens, config, tok_idx>> \/ Step
        /\ UNCHANGED <<scheduled, status, output_tokens, config>>
    BY Zenon DEF AfterSchedule, ScheduleReturn, BuildNext, BuildReturn, Step
  <1>2. /\ n \in Nat /\ group \in Nat \ {0} /\ DOMAIN scheduled = 1 .. n
        /\ \A i \in 1 .. n : scheduled[i] \in SeqIds
        /\ MaxBatchedTokens \in Nat /\ MaxBatchedTokens' = MaxBatchedTokens /\ MaxNumSeqs' = MaxNumSeqs
    BY <1>1, Places, SchedulerConstants DEF QueueInv, QueueTypes, Control, MaxBatchedTokens, MaxNumSeqs
  <1>3. PICK c \in [0 .. n -> Nat] : Charged(c)
    BY DEF WorkInv, Charge
  <1>4. PICK d \in [0 .. n -> Nat] : Drawn(d)
    BY DEF WorkInv, Draw
  <1>5. \A r \in SeqIds : EntriesOf(r)' = EntriesOf(r) /\ Finished(r)' = Finished(r)
    BY <1>1, Zenon DEF EntriesOf, TotalLen, Finished
  <1>6. \A r \in SeqIds : Starting(r)' = Starting(r)
    BY <1>1, Zenon DEF Starting
  <1>7. SeqsCharged'
    <2>1. phase \in UsesScheduled /\ phase' # "scheduling"
      BY Zenon DEF AfterSchedule, BuildNext, BuildReturn, Step, UsesScheduled
    <2> QED BY <1>1, <1>2, <2>1 DEF WorkInv, SeqsCharged
  <1>8. CASE AfterSchedule
    <2>1. /\ phase = "scheduling" /\ pc = "scheduleEnd" /\ group' = 1 /\ batch' = <<>>
          /\ phase' = IF scheduled = <<>> THEN "stopped" ELSE "build"
      BY <1>8 DEF AfterSchedule, ScheduleReturn
    <2>2. Started'
      <3> SUFFICES ASSUME NEW r \in SeqIds, Starting(r)' PROVE Awaited(r)'
        BY DEF Started
      <3>1. r \in Range(scheduled)
        BY <1>6, <2>1 DEF WorkInv, Started, Awaited
      <3>2. scheduled # <<>>
        BY <3>1 DEF Range
      <3> QED BY <1>1, <2>1, <3>1, <3>2, Zenon DEF Awaited
    <2>3. Charged(c)'
      <3>1. \A i \in 0 .. n : c[i] <= MaxBatchedTokens
        <4>1. budget_tokens \in Nat /\ \A i \in 0 .. n : c[i] \in Nat /\ c[i] + budget_tokens <= MaxBatchedTokens
          BY <1>3, <2>1, Zenon DEF Charged, MemInv, LoopTypes
        <4> QED BY <1>2, <4>1
      <3>2. /\ c[0] = 0
            /\ \A i \in 1 .. n : c[i - 1] + Len(EntriesOf(scheduled[i])) <= c[i]
        BY <1>3, <2>1 DEF Charged
      <3>3. \A i \in 1 .. n : EntriesOf(scheduled[i])' = EntriesOf(scheduled[i])
        BY <1>1 DEF EntriesOf, TotalLen, Finished
      <3>4. \A i \in 1 .. Len(scheduled)' : c[i - 1] + Len(EntriesOf(scheduled[i]))' <= c[i]
        BY <1>1, <3>2, <3>3
      <3>5. Len(batch') = 0 /\ c[group' - 1] = 0 /\ group' <= n + 1
        BY <1>2, <2>1, <3>2
      <3> QED BY <1>1, <1>2, <2>1, <3>1, <3>2, <3>4, <3>5 DEF Charged
    <2>4. PICK e : e = [i \in 0 .. n |-> 0]
      BY Zenon
    <2>5. e \in [0 .. n -> Nat] /\ Drawn(e)'
      <3>1. e \in [0 .. n -> Nat] /\ \A i \in 0 .. n : e[i] = 0
        BY <1>2, <2>4
      <3>2. Len(batch') = 0 /\ group' <= n + 1 /\ group' - 1 = 0 /\ phase' \in {"stopped", "build"}
        BY <1>2, <2>1
      <3>3. Ladder(e, 1, group - 1, Len(batch))'
        BY <1>2, <3>1, <3>2 DEF Ladder
      <3> QED BY <1>1, <1>2, <3>1, <3>2, <3>3 DEF Drawn
    <2> QED BY <1>1, <1>3, <1>7, <2>2, <2>3, <2>5 DEF WorkInv, Charge, Draw
  <1>9. CASE BuildNext
    <2>1. /\ phase = "build" /\ phase' = "build" /\ group <= n /\ group' = group + 1
          /\ batch' = batch \o EntriesOf(scheduled[group]) /\ UNCHANGED <<pc, waiting>>
      BY <1>9 DEF BuildNext
    <2>2. PICK r \in SeqIds : r = scheduled[group]
      BY <1>2, <2>1
    <2>3. batch \in Seq(Tokens) /\ EntriesOf(r) \in Seq(Tokens) /\ Len(EntriesOf(r)) \in Nat
      BY EntriesType, EntriesLen, Zenon DEF MemInv, LoopTypes
    <2>4. Len(batch') = Len(batch) + Len(EntriesOf(r)) /\ Len(batch) \in Nat
      BY <2>1, <2>2, <2>3, ConcatProperties, LenProperties, Zenon
    <2>5. Started'
      BY <1>1, <1>6, <2>1 DEF WorkInv, Started, Awaited
    <2>6. Charged(c)'
      <3>1. /\ c[0] = 0 /\ \A i \in 0 .. n : c[i] <= MaxBatchedTokens
            /\ \A i \in 1 .. n : c[i - 1] + Len(EntriesOf(scheduled[i])) <= c[i]
            /\ Len(batch) <= c[group - 1]
        BY <1>3, <2>1 DEF Charged
      <3>2. \A i \in 1 .. n : EntriesOf(scheduled[i])' = EntriesOf(scheduled[i])
        BY <1>1 DEF EntriesOf, TotalLen, Finished
      <3>3. \A i \in 1 .. Len(scheduled)' : c[i - 1] + Len(EntriesOf(scheduled[i]))' <= c[i]
        BY <1>1, <3>1, <3>2
      <3>4. c[group - 1] + Len(EntriesOf(r)) <= c[group]
        BY <1>2, <2>1, <2>2, <3>1
      <3>5. c[group - 1] \in Nat /\ c[group] \in Nat
        <4>1. group - 1 \in 0 .. n /\ group \in 0 .. n
          BY <1>2, <2>1
        <4> QED BY <1>3, <4>1
      <3>6. Len(batch') <= c[group]
        BY <2>3, <2>4, <3>1, <3>4, <3>5
      <3>7. group' - 1 = group /\ group' <= n + 1
        BY <1>2, <2>1
      <3> QED BY <1>1, <1>2, <2>1, <3>1, <3>3, <3>6, <3>7, Zenon DEF Charged
    <2>7. PICK e \in [0 .. n -> Nat] : e[group] = Len(batch') /\ \A i \in 0 .. n : i # group => e[i] = d[i]
      <3> DEFINE f == [d EXCEPT ![group] = Len(batch')]
      <3>1. f \in [0 .. n -> Nat] /\ f[group] = Len(batch') /\ \A i \in 0 .. n : i # group => f[i] = d[i]
        <4>1. Len(batch') \in Nat /\ group \in 0 .. n
          BY <1>2, <2>1, <2>3, <2>4
        <4> QED BY <1>4, <4>1
      <3> HIDE DEF f
      <3> QED BY <3>1, Zenon
    <2>8. Drawn(e)'
      <3>1. /\ \A i \in 1 .. group - 1 : d[i - 1] <= d[i] /\ (~Finished(scheduled[i]) => d[i - 1] < d[i])
            /\ \A i \in 0 .. group - 1 : d[i] <= Len(batch)
        BY <1>2, <1>4, <2>1, SMTT(30) DEF Drawn, Ladder
      <3>2. \A i \in 0 .. group - 1 : i \in 0 .. n /\ i # group /\ e[i] = d[i] /\ d[i] \in Nat
        <4>1. \A i \in 0 .. group - 1 : i \in 0 .. n /\ i # group
          BY <1>2, <2>1
        <4> QED BY <1>4, <2>7, <4>1
      <3>3. \A i \in 1 .. group - 1 : e[i - 1] <= e[i] /\ (~Finished(scheduled[i]) => e[i - 1] < e[i])
        <4> SUFFICES ASSUME NEW i \in 1 .. group - 1
                     PROVE  e[i - 1] <= e[i] /\ (~Finished(scheduled[i]) => e[i - 1] < e[i])
          OBVIOUS
        <4>1. i \in 0 .. group - 1 /\ i - 1 \in 0 .. group - 1
          BY <1>2
        <4> QED BY <3>1, <3>2, <4>1
      <3>4. e[group - 1] <= Len(batch) /\ e[group - 1] \in Nat /\ e[group] = Len(batch) + Len(EntriesOf(r))
        BY <1>2, <2>4, <2>7, <3>1, <3>2
      <3>5. ~Finished(r) => Len(EntriesOf(r)) >= 1
        BY EntriesLen DEF MemInv
      <3>6. e[group - 1] <= e[group] /\ (~Finished(r) => e[group - 1] < e[group])
        BY <2>3, <2>4, <3>4, <3>5
      <3>7. \A i \in 1 .. group : e[i - 1] <= e[i] /\ (~Finished(scheduled[i]) => e[i - 1] < e[i])
        <4>1. \A i \in 1 .. group : i \in 1 .. group - 1 \/ i = group
          BY <1>2
        <4> QED BY <2>2, <3>3, <3>6, <4>1
      <3>8. \A i \in 0 .. group : e[i] <= Len(batch')
        <4>1. \A i \in 0 .. group : i \in 0 .. group - 1 \/ i = group
          BY <1>2
        <4>2. \A i \in 0 .. group - 1 : e[i] <= Len(batch')
          BY <2>3, <2>4, <3>1, <3>2
        <4>3. e[group] <= Len(batch')
          BY <2>3, <2>4, <3>4
        <4> QED BY <4>1, <4>2, <4>3
      <3>9. \A i \in 1 .. group : Finished(scheduled[i])' = Finished(scheduled[i])
        BY <1>1 DEF Finished
      <3>10. group' - 1 = group /\ group' <= Len(scheduled)' + 1
        BY <1>1, <1>2, <2>1
      <3>11. Ladder(e, 1, group - 1, Len(batch))'
        BY <3>7, <3>8, <3>9, <3>10 DEF Ladder
      <3> QED BY <2>1, <3>10, <3>11, Zenon DEF Drawn
    <2> QED BY <1>1, <1>3, <1>7, <2>5, <2>6, <2>7, <2>8, Zenon DEF WorkInv, Charge, Draw
  <1>10. CASE BuildReturn
    <2>1. /\ phase = "build" /\ phase' = "step" /\ group > n
          /\ UNCHANGED <<pc, waiting, group, batch>>
      BY <1>10 DEF BuildReturn
    <2>2. group - 1 = n
      BY <1>2, <1>3, <2>1 DEF Charged
    <2>3. Started'
      BY <1>1, <1>6, <2>1 DEF WorkInv, Started, Awaited
    <2>4. Charged(c)'
      <3>1. /\ c[0] = 0 /\ c[n] <= MaxBatchedTokens /\ c[n] \in Nat
            /\ Len(batch) <= c[n] /\ Len(batch) \in Nat
        BY <1>2, <1>3, <2>1, <2>2, LenProperties DEF Charged, MemInv, LoopTypes
      <3>2. Len(batch) <= MaxBatchedTokens
        BY <1>2, <3>1
      <3> QED BY <1>1, <1>2, <2>1, <3>1, <3>2, Zenon DEF Charged
    <2>5. Drawn(d)'
      <3>1. Ladder(d, 1, n, Len(batch))
        BY <1>4, <2>1, <2>2, Zenon DEF Drawn
      <3>2. Ladder(d, 1, Len(scheduled), Len(batch))'
        BY <1>1, <2>1, <3>1 DEF Ladder, Finished
      <3> QED BY <2>1, <3>2 DEF Drawn
    <2> QED BY <1>1, <1>3, <1>4, <1>7, <2>3, <2>4, <2>5, Zenon DEF WorkInv, Charge, Draw
  <1>11. CASE Step
    <2>1. /\ phase = "step" /\ phase' = "update" /\ group' = 1 /\ tok_idx' = 1
          /\ new_tokens' = batch /\ UNCHANGED <<pc, waiting>>
      BY <1>11 DEF Step
    <2>2. pc \notin AdmitLabels
      BY <2>1 DEF QueueInv, Control, ScheduleLabels, AdmitLabels
    <2>3. Started'
      <3> SUFFICES ASSUME NEW r \in SeqIds, Starting(r)' PROVE Awaited(r)'
        BY DEF Started
      <3>1. r \in Range(scheduled)
        BY <1>6, <2>1, <2>2 DEF WorkInv, Started, Awaited, AdmitLabels
      <3>2. \E i \in 1 .. n : scheduled[i] = r
        BY <1>2, <3>1 DEF Range
      <3> QED BY <1>1, <2>1, <3>2 DEF Awaited
    <2>4. Charged(c)'
      BY <1>3, <2>1 DEF Charged
    <2>5. Drawn(d)'
      <3>1. Ladder(d, 1, n, Len(batch)) /\ d[0] \in Nat
        BY <1>2, <1>4, <2>1 DEF Drawn
      <3>2. Ladder(d, group, Len(scheduled), Len(new_tokens))'
        BY <1>1, <2>1, <3>1 DEF Ladder, Finished
      <3>3. group' <= Len(scheduled)' + 1 /\ tok_idx' - 1 <= d[group' - 1]
        BY <1>1, <1>2, <2>1, <3>1
      <3> QED BY <2>1, <3>2, <3>3 DEF Drawn
    <2> QED BY <1>1, <1>3, <1>4, <1>7, <2>3, <2>4, <2>5, Zenon DEF WorkInv, Charge, Draw
  <1> QED BY <1>8, <1>9, <1>10, <1>11, Zenon

(* update_after_decode has a token for every unfinished group. *)
LEMMA WorkUpdate ==
    ASSUME QueueInv, MemInv, WorkInv, UpdateSkip \/ UpdateCheck \/ UpdateAppend \/ UpdateReturn
    PROVE  WorkInv'
  <1> USE DEF bmVars, schedVars, queueVars, seqVars, innerVars, budgetVars, outputVars, batchVars
  <1> DEFINE n == Len(scheduled)
  <1>1. /\ phase \in {"update", "append"} /\ phase' \in {"update", "append", "free"}
        /\ UNCHANGED <<scheduled, config, pc, waiting>>
    BY Zenon DEF UpdateSkip, UpdateCheck, UpdateAppend, UpdateReturn
  <1>2. /\ n \in Nat /\ group \in Nat \ {0} /\ tok_idx \in Nat \ {0} /\ Len(new_tokens) \in Nat
        /\ \A i \in 1 .. n : scheduled[i] \in SeqIds
        /\ status \in [SeqIds -> Status] /\ output_tokens \in [SeqIds -> Seq(Tokens)]
        /\ pc \notin AdmitLabels
    BY <1>1, Places, LenProperties, Zenon
       DEF QueueInv, QueueTypes, Control, ScheduleLabels, AdmitLabels, MemInv, LoopTypes
  <1>3. PICK c \in [0 .. n -> Nat] : Charged(c)
    BY DEF WorkInv, Charge
  <1>4. PICK d \in [0 .. n -> Nat] : Drawn(d)
    BY DEF WorkInv, Draw
  <1>5. /\ Ladder(d, group, n, Len(new_tokens)) /\ group <= n + 1 /\ tok_idx - 1 <= d[group - 1]
        /\ phase = "append" => d[group - 1] < d[group]
    BY <1>1, <1>4 DEF Drawn
  <1>6. SeqsCharged'
    BY <1>1 DEF WorkInv, SeqsCharged, UsesScheduled, MaxNumSeqs
  <1>7. Charged(c)' /\ c \in [0 .. Len(scheduled') -> Nat]
    BY <1>1, <1>3 DEF Charged
  <1>8. group <= n => /\ d[group - 1] \in Nat /\ d[group] \in Nat /\ d[group - 1] <= d[group]
                      /\ d[group] <= Len(new_tokens)
                      /\ ~Finished(scheduled[group]) => d[group - 1] < d[group]
    <2>1. group <= n => group - 1 \in 0 .. n /\ group \in 0 .. n /\ group \in 1 .. n
      BY <1>2
    <2> QED BY <1>2, <1>4, <1>5, <2>1 DEF Ladder
  <1>9. \A r \in SeqIds : Starting(r) => \E i \in group .. n : scheduled[i] = r
    BY <1>1, <1>2 DEF WorkInv, Started, Awaited, AdmitLabels
  <1>10. CASE UpdateSkip
    <2>1. /\ group <= n /\ group' = group + 1 /\ phase' = phase /\ phase = "update"
          /\ Finished(scheduled[group]) \/ tok_idx > Len(new_tokens)
          /\ UNCHANGED <<status, output_tokens, new_tokens, tok_idx>>
      BY <1>10, Zenon DEF UpdateSkip
    <2>2. Finished(scheduled[group])
      BY <1>2, <1>5, <1>8, <2>1, SMTT(30)
    <2>3. Started'
      <3> SUFFICES ASSUME NEW r \in SeqIds, Starting(r)' PROVE Awaited(r)'
        BY DEF Started
      <3>1. Starting(r)
        BY <2>1, Zenon DEF Starting
      <3>2. PICK i \in group .. n : scheduled[i] = r
        BY <1>9, <3>1
      <3>3. i # group
        BY <2>2, <3>1, <3>2 DEF Starting, Finished
      <3>4. i \in group + 1 .. n
        BY <1>2, <3>3
      <3> QED BY <1>1, <2>1, <3>2, <3>4 DEF Awaited
    <2>4. Drawn(d)'
      <3>1. Ladder(d, group, Len(scheduled), Len(new_tokens))'
        BY <1>1, <1>2, <1>5, <2>1 DEF Ladder, Finished
      <3>2. group' <= n + 1 /\ group' - 1 = group /\ tok_idx - 1 <= d[group]
        BY <1>2, <1>5, <1>8, <2>1
      <3> QED BY <1>1, <2>1, <3>1, <3>2, Zenon DEF Drawn
    <2> QED BY <1>1, <1>4, <1>6, <1>7, <2>3, <2>4 DEF WorkInv, Charge, Draw
  <1>11. CASE UpdateCheck
    <2>1. /\ group <= n /\ group' = group /\ phase' = "append" /\ ~Finished(scheduled[group])
          /\ UNCHANGED <<status, output_tokens, new_tokens, tok_idx>>
      BY <1>11 DEF UpdateCheck
    <2>2. Started'
      BY <1>1, <1>9, <2>1, ZenonT(30) DEF Started, Starting, Awaited
    <2>3. Drawn(d)'
      <3>1. Ladder(d, group, Len(scheduled), Len(new_tokens))'
        BY <1>1, <1>5, <2>1, Zenon DEF Ladder, Finished
      <3> QED BY <1>1, <1>5, <1>8, <2>1, <3>1 DEF Drawn
    <2> QED BY <1>1, <1>4, <1>6, <1>7, <2>2, <2>3 DEF WorkInv, Charge, Draw
  <1>12. CASE UpdateAppend
    <2>1. /\ group <= n /\ group' = group + 1 /\ phase' = "update" /\ phase = "append"
          /\ tok_idx' = tok_idx + 1 /\ new_tokens' = new_tokens
          /\ output_tokens' = [output_tokens EXCEPT ![scheduled[group]] =
                                  Append(@, new_tokens[tok_idx])]
          /\ \/ status' = status
             \/ status' = [status EXCEPT ![scheduled[group]] = "FINISHED_LENGTH"]
      BY <1>12, Zenon DEF UpdateAppend, QueueInv, Cursors
    <2>2. PICK r \in SeqIds : r = scheduled[group]
      BY <1>2, <2>1
    <2>3. output_tokens'[r] # <<>>
      <3>1. output_tokens'[r] = Append(output_tokens[r], new_tokens[tok_idx]) /\ output_tokens[r] \in Seq(Tokens)
        BY <1>2, <2>1, <2>2
      <3>2. new_tokens[tok_idx] \in Tokens
        <4>1. tok_idx \in 1 .. Len(new_tokens) /\ new_tokens \in Seq(Tokens)
          BY <1>2, <2>1 DEF MemInv, Budgets, LoopTypes
        <4> QED BY <4>1, ElementOfSeq
      <3>3. Append(output_tokens[r], new_tokens[tok_idx]) # <<>>
        BY <3>1, <3>2, AppendProperties
      <3> QED BY <3>1, <3>3
    <2>4. \A q \in SeqIds \ {r} : status'[q] = status[q] /\ output_tokens'[q] = output_tokens[q]
      BY <1>2, <2>1, <2>2, Zenon
    <2>5. \A q \in SeqIds : ~Finished(q)' => ~Finished(q)
      BY <1>2, <2>1, <2>2, ZenonT(30) DEF Finished
    <2>6. Started'
      <3> SUFFICES ASSUME NEW q \in SeqIds, Starting(q)' PROVE Awaited(q)'
        BY DEF Started
      <3>1. q # r /\ Starting(q)
        BY <2>3, <2>4, Zenon DEF Starting
      <3>2. PICK i \in group .. n : scheduled[i] = q
        BY <1>9, <3>1
      <3>3. i \in group + 1 .. n
        BY <1>2, <2>2, <3>1, <3>2
      <3> QED BY <1>1, <2>1, <3>2, <3>3, Zenon DEF Awaited
    <2>7. Drawn(d)'
      <3>1. \A i \in 1 .. n : ~Finished(scheduled[i])' => ~Finished(scheduled[i])
        BY <1>1, <1>2, <2>5, Zenon DEF Finished
      <3>2. Ladder(d, group, Len(scheduled), Len(new_tokens))'
        <4>1. \A i \in 1 .. n : i >= group + 1 => i >= group
          BY <1>2
        <4> QED BY <1>1, <1>5, <2>1, <3>1, <4>1, Zenon DEF Ladder
      <3>3. group' <= n + 1 /\ group' - 1 = group /\ tok_idx' - 1 <= d[group]
        BY <1>2, <1>5, <1>8, <2>1, SMTT(30)
      <3> QED BY <1>1, <2>1, <3>2, <3>3, Zenon DEF Drawn
    <2> QED BY <1>1, <1>4, <1>6, <1>7, <2>6, <2>7, Zenon DEF WorkInv, Charge, Draw
  <1>13. CASE UpdateReturn
    <2>1. group > n /\ phase' = "free" /\ UNCHANGED <<status, output_tokens>>
      BY <1>13 DEF UpdateReturn
    <2>2. \A r \in SeqIds : ~Starting(r)
      BY <1>2, <1>9, <2>1
    <2>3. Started'
      BY <2>1, <2>2 DEF Started, Starting
    <2>4. Drawn(d)'
      BY <2>1 DEF Drawn
    <2> QED BY <1>1, <1>4, <1>6, <1>7, <2>3, <2>4 DEF WorkInv, Charge, Draw
  <1> QED BY <1>10, <1>11, <1>12, <1>13

(* Charges and budgets agree. *)
THEOREM WorkAlways == Spec => []WorkInv
  <1>1. Init => WorkInv
    <2> SUFFICES ASSUME Init PROVE WorkInv
      OBVIOUS
    <2>1. phase = "schedule" /\ scheduled = <<>> /\ status = [r \in SeqIds |-> "NEW"]
      BY DEF Init, SchedInit
    <2>2. Started /\ SeqsCharged
      BY <2>1 DEF Started, Starting, SeqsCharged, UsesScheduled
    <2>3. PICK c : c = [i \in 0 .. 0 |-> 0]
      BY Zenon
    <2>4. c \in [0 .. Len(scheduled) -> Nat] /\ Charged(c) /\ Drawn(c)
      BY <2>1, <2>3 DEF Charged, Drawn
    <2> QED BY <2>2, <2>4 DEF WorkInv, Charge, Draw
  <1>2. ASSUME QueueInv, MemInv, WorkInv, [Next]_vars PROVE WorkInv'
    <2>1. CASE InSchedule
      BY <1>2, <2>1, WorkQuiet, WorkStatus, WorkCharge, Zenon DEF InSchedule, ScheduleStep
    <2>2. CASE ~InSchedule
      BY <1>2, <2>2, WorkOutside, WorkEnter, WorkBuild, WorkUpdate, Zenon DEF Next, Engine, Terminated
    <2> QED BY <2>1, <2>2
  <1> QED BY <1>1, <1>2, QueuesAlways, MemAlways, PTL DEF Spec

(* The batch never holds more tokens, nor schedule()'s output more groups, *)
(* than the configuration allows.                                          *)
THEOREM WithinBudgetAlways == Spec => []WithinBudget
  <1>1. WorkInv => WithinBudget
    BY DEF WorkInv, SeqsCharged, UsesScheduled, Charge, Charged, WithinBudget
  <1> QED BY <1>1, WorkAlways, PTL

=============================================================================
