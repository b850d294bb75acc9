------------------------- MODULE ServingLoopProofs --------------------------
(***************************************************************************)
(* The scheduler and the serving loop, proved for any requests, any pool   *)
(* and any configuration: who is in which queue and in which order         *)
(* (QueueInv, OrderInv), what the block tables hold and how long they are  *)
(* (MemInv), and, with RECOMPUTE preemption, that records, reference       *)
(* counts and free lists agree (OwnInv).                                   *)
(***************************************************************************)
EXTENDS ServingLoop, BlockManagerProofs

-----------------------------------------------------------------------------
(* Queues.  The loop's place and the scheduler's agree (Control), a request *)
(* is in one queue (Lines) with a status that fits the queue (Statuses),   *)
(* each loop's cursor is on an element (Cursors), and what schedule() has  *)
(* put on its output stays in running_ (ScheduledRun).                     *)

DecodeLabels == {"decode", "decodeAlloc", "preempt", "swapOut", "swapOutFree"}

ScheduleLabels ==
    DecodeLabels \cup {"sort", "prefill", "prefillAlloc", "swapIn", "swapInAlloc",
                       "scheduleEnd"}

FreeLabels == {"freeRunning", "freeWaiting", "freeEnd"}

(* The phases in which the engine thread uses SchedulerOutput. *)
UsesScheduled == {"scheduling", "build", "step", "update", "append"}

Control ==
    /\ config \in Configs
    /\ pc \in {"unlocked"} \cup ScheduleLabels \cup FreeLabels
    /\ phase \in {"schedule", "free", "freeing", "stopped"} \cup UsesScheduled
    /\ pc \in ScheduleLabels <=> phase = "scheduling"
    /\ pc \in FreeLabels <=> phase = "freeing"
    /\ freeing \in SeqIds \cup {NoSeq}

QueueTypes ==
    /\ waiting \in Seq(SeqIds) /\ running \in Seq(SeqIds) /\ swapped \in Seq(SeqIds)
    /\ scheduled \in Seq(SeqIds)
    /\ request_map \in SUBSET SeqIds
    /\ status \in [SeqIds -> Status]
    /\ it \in Nat \ {0} /\ group \in Nat \ {0}

Lines ==
    /\ IsInjective(waiting) /\ IsInjective(running) /\ IsInjective(swapped)
    /\ Range(waiting) \cap Range(running) = {}
    /\ Range(waiting) \cap Range(swapped) = {}
    /\ Range(running) \cap Range(swapped) = {}
    /\ Range(waiting) \cup Range(running) \cup Range(swapped)
         = {r \in SeqIds : status[r] \notin {"NEW", "GONE"}}
    /\ \A r \in request_map : status[r] \notin {"NEW", "GONE"}

Done == {"FINISHED_LENGTH", "FINISHED_ABORT"}

Statuses ==
    /\ \A r \in Range(waiting) :
          \/ status[r] \in {"WAITING", "PREEMPTED"} \cup Done
          \/ pc = "prefillAlloc" /\ r = Head(waiting) /\ status[r] = "RUNNING"
    /\ \A r \in Range(running) :
          \/ status[r] \in {"RUNNING"} \cup Done
          \/ pc \in {"swapOut", "swapOutFree"} /\ r = Back(running) /\ status[r] = "SWAPPED"
    /\ \A r \in Range(swapped) :
          \/ status[r] \in {"SWAPPED"} \cup Done
          \/ pc = "swapInAlloc" /\ r = Head(swapped) /\ status[r] = "RUNNING"

Cursors ==
    /\ pc = "decodeAlloc" => it <= Len(running) /\ ~Finished(running[it])
    /\ pc \in {"preempt", "swapOut", "swapOutFree"} => it <= Len(running)
    /\ pc \in {"swapOut", "swapOutFree"} => status[Back(running)] \in {"SWAPPED"} \cup Done
    /\ pc = "prefillAlloc" => waiting # <<>> /\ status[Head(waiting)] = "RUNNING"
    /\ pc = "swapInAlloc" => swapped # <<>> /\ status[Head(swapped)] \in {"RUNNING"} \cup Done
    /\ phase = "append" => group <= Len(scheduled)

ScheduledRun ==
    /\ phase \in UsesScheduled => IsInjective(scheduled) /\ Range(scheduled) \subseteq Range(running)
    /\ pc \in DecodeLabels => \A i \in DOMAIN running : running[i] \in Range(scheduled) => i < it
    /\ pc \in ScheduleLabels => \A r \in Range(scheduled) : status[r] = "RUNNING"

(* The inductive invariant of the queues. *)
QueueInv == Control /\ QueueTypes /\ Lines /\ Statuses /\ Cursors /\ ScheduledRun

(* The places of a sequence that loops and queues look at. *)
LEMMA Places ==
    ASSUME NEW S, NEW s \in Seq(S)
    PROVE  /\ Len(s) \in Nat /\ DOMAIN s = 1 .. Len(s)
           /\ \A i \in 1 .. Len(s) : s[i] \in S /\ s[i] \in Range(s)
           /\ s # <<>> => /\ Len(s) > 0
                          /\ Head(s) = s[1] /\ Head(s) \in S /\ Head(s) \in Range(s)
                          /\ Back(s) = s[Len(s)] /\ Back(s) \in S /\ Back(s) \in Range(s)
           /\ s = <<>> => Len(s) = 0
  <1>1. Len(s) \in Nat /\ DOMAIN s = 1 .. Len(s) /\ \A i \in 1 .. Len(s) : s[i] \in S
    BY LenProperties, ElementOfSeq, Zenon
  <1>2. \A i \in 1 .. Len(s) : s[i] \in Range(s)
    BY <1>1, Zenon DEF Range
  <1>3. s # <<>> => Len(s) > 0 /\ Head(s) = s[1]
    BY <1>1, EmptySeq
  <1>4. s # <<>> => 1 \in 1 .. Len(s) /\ Len(s) \in 1 .. Len(s)
    BY <1>1, <1>3
  <1>5. s # <<>> => /\ Head(s) \in S /\ Head(s) \in Range(s)
                    /\ Back(s) = s[Len(s)] /\ Back(s) \in S /\ Back(s) \in Range(s)
    BY <1>1, <1>2, <1>3, <1>4, Zenon DEF Back
  <1> QED BY <1>1, <1>2, <1>3, <1>5

(* Erasing the element at a position, and of an injective sequence only    *)
(* that: the elements before keep their places, the later ones move down.  *)
LEMMA EraseElements ==
    ASSUME NEW S, NEW s \in Seq(S), NEW k \in DOMAIN s
    PROVE  /\ Erase(s, k) \in Seq(S)
           /\ Len(Erase(s, k)) = Len(s) - 1
           /\ \A i \in DOMAIN Erase(s, k) :
                 /\ i \in DOMAIN s /\ i + 1 \in DOMAIN s
                 /\ Erase(s, k)[i] = IF i < k THEN s[i] ELSE s[i + 1]
           /\ IsInjective(s) => /\ Range(Erase(s, k)) = Range(s) \ {s[k]}
                                /\ IsInjective(Erase(s, k))
  <1> DEFINE a == SubSeq(s, 1, k - 1)
             b == SubSeq(s, k + 1, Len(s))
             t == a \o b
  <1>1. /\ Len(s) \in Nat /\ DOMAIN s = 1 .. Len(s) /\ k \in 1 .. Len(s)
        /\ \A i \in 1 .. Len(s) : s[i] \in S
    BY LenProperties, ElementOfSeq, Zenon
  <1>2. /\ a \in Seq(S) /\ Len(a) = k - 1
        /\ \A i \in 1 .. k - 1 : a[i] = s[i]
    <2>1. \A i \in 1 .. k - 1 : s[i] \in S
      BY <1>1
    <2>2. 1 \in Int /\ k - 1 \in Int
      BY <1>1
    <2>3. (IF 1 <= k - 1 THEN k - 1 - 1 + 1 ELSE 0) = k - 1
      BY <1>1
    <2>4. k - 1 - 1 + 1 = k - 1 /\ \A i \in 1 .. k - 1 : 1 + i - 1 = i
      BY <1>1
    <2>5. /\ a \in Seq(S) /\ Len(a) = IF 1 <= k - 1 THEN k - 1 - 1 + 1 ELSE 0
          /\ \A i \in 1 .. k - 1 - 1 + 1 : a[i] = s[1 + i - 1]
      BY <2>1, <2>2, SubSeqProperties, SMTT(30)
    <2> HIDE DEF a
    <2> QED BY <2>3, <2>4, <2>5, Zenon
  <1>3. /\ b \in Seq(S) /\ Len(b) = Len(s) - k
        /\ \A i \in 1 .. Len(s) - k : b[i] = s[k + i]
    <2>1. \A i \in k + 1 .. Len(s) : s[i] \in S
      BY <1>1
    <2>2. k + 1 \in Int /\ Len(s) \in Int
      BY <1>1
    <2>3. (IF k + 1 <= Len(s) THEN Len(s) - (k + 1) + 1 ELSE 0) = Len(s) - k
      BY <1>1
    <2>4. Len(s) - (k + 1) + 1 = Len(s) - k /\ \A i \in 1 .. Len(s) - k : k + 1 + i - 1 = k + i
      BY <1>1
    <2>5. /\ b \in Seq(S) /\ Len(b) = IF k + 1 <= Len(s) THEN Len(s) - (k + 1) + 1 ELSE 0
          /\ \A i \in 1 .. Len(s) - (k + 1) + 1 : b[i] = s[k + 1 + i - 1]
      BY <2>1, <2>2, SubSeqProperties, SMTT(30)
    <2> HIDE DEF b
    <2> QED BY <2>3, <2>4, <2>5, Zenon
  <1> HIDE DEF a, b
  <1>4. /\ t \in Seq(S) /\ Len(t) = Len(s) - 1
        /\ \A i \in 1 .. Len(s) - 1 : t[i] = IF i <= k - 1 THEN a[i] ELSE b[i - (k - 1)]
    <2>1. /\ t \in Seq(S) /\ Len(t) = Len(a) + Len(b)
          /\ \A i \in 1 .. Len(a) + Len(b) : t[i] = IF i <= Len(a) THEN a[i] ELSE b[i - Len(a)]
      BY <1>2, <1>3, ConcatProperties, Zenon
    <2>2. Len(a) + Len(b) = Len(s) - 1
      BY <1>1, <1>2, <1>3
    <2> QED BY <1>2, <2>1, <2>2, Zenon
  <1>5. DOMAIN t = 1 .. Len(s) - 1
    BY <1>4, LenProperties, Zenon
  <1> HIDE DEF t
  <1>6. \A i \in DOMAIN t : /\ i \in DOMAIN s /\ i + 1 \in DOMAIN s
                            /\ t[i] = IF i < k THEN s[i] ELSE s[i + 1]
    <2> SUFFICES ASSUME NEW i \in DOMAIN t
                 PROVE  /\ i \in DOMAIN s /\ i + 1 \in DOMAIN s
                        /\ t[i] = IF i < k THEN s[i] ELSE s[i + 1]
      BY Zenon
    <2>1. i \in 1 .. Len(s) - 1 /\ i \in DOMAIN s /\ i + 1 \in DOMAIN s
      BY <1>1, <1>5
    <2>2. CASE i < k
      <3>1. i <= k - 1 /\ i \in 1 .. k - 1
        BY <1>1, <2>1, <2>2
      <3> QED BY <1>2, <1>4, <2>1, <2>2, <3>1, Zenon
    <2>3. CASE ~(i < k)
      <3>1. ~(i <= k - 1) /\ i - (k - 1) \in 1 .. Len(s) - k /\ k + (i - (k - 1)) = i + 1
        BY <1>1, <2>1, <2>3
      <3>2. t[i] = b[i - (k - 1)]
        BY <1>4, <2>1, <3>1, Zenon
      <3> QED BY <1>3, <2>1, <2>3, <3>1, <3>2, Zenon
    <2> QED BY <2>2, <2>3, Zenon
  <1>7. ASSUME IsInjective(s)
        PROVE  Range(t) = Range(s) \ {s[k]} /\ IsInjective(t)
    <2>1. \A i \in DOMAIN t : t[i] \in Range(s) \ {s[k]}
      <3> SUFFICES ASSUME NEW i \in DOMAIN t PROVE t[i] \in Range(s) \ {s[k]}
        BY Zenon
      <3>1. CASE i < k
        BY <1>1, <1>6, <1>7, <3>1 DEF Range, IsInjective
      <3>2. CASE ~(i < k)
        BY <1>1, <1>6, <1>7, <3>2 DEF Range, IsInjective
      <3> QED BY <3>1, <3>2, Zenon
    <2>2. \A i \in DOMAIN s : i # k => \E j \in DOMAIN t : t[j] = s[i]
      <3> SUFFICES ASSUME NEW i \in DOMAIN s, i # k PROVE \E j \in DOMAIN t : t[j] = s[i]
        BY Zenon
      <3>1. CASE i < k
        BY <1>1, <1>5, <1>6, <3>1
      <3>2. CASE i > k
        <4>1. i - 1 \in DOMAIN t /\ ~(i - 1 < k) /\ (i - 1) + 1 = i
          BY <1>1, <1>5, <3>2
        <4> QED BY <1>6, <4>1, Zenon
      <3> QED BY <1>1, <3>1, <3>2
    <2>3. Range(t) = Range(s) \ {s[k]}
      BY <2>1, <2>2 DEF Range
    <2>4. ASSUME NEW i \in DOMAIN t, NEW j \in DOMAIN t, t[i] = t[j]
          PROVE  i = j
      <3>1. CASE i < k /\ j < k
        BY <1>1, <1>5, <1>6, <1>7, <2>4, <3>1, Zenon DEF IsInjective
      <3>2. CASE ~(i < k) /\ ~(j < k)
        BY <1>1, <1>5, <1>6, <1>7, <2>4, <3>2 DEF IsInjective
      <3>3. CASE i < k /\ ~(j < k)
        BY <1>1, <1>5, <1>6, <1>7, <2>4, <3>3 DEF IsInjective
      <3>4. CASE ~(i < k) /\ j < k
        BY <1>1, <1>5, <1>6, <1>7, <2>4, <3>4 DEF IsInjective
      <3> QED BY <3>1, <3>2, <3>3, <3>4, Zenon
    <2> QED BY <2>3, <2>4, Zenon DEF IsInjective
  <1> QED BY <1>4, <1>6, <1>7, Zenon DEF a, b, t, Erase

(* Permuting the positions, as a sort does. *)
LEMMA PermuteElements ==
    ASSUME NEW S, NEW s \in Seq(S), NEW p \in Bijection(DOMAIN s, DOMAIN s)
    PROVE  /\ [i \in DOMAIN s |-> s[p[i]]] \in Seq(S)
           /\ Range([i \in DOMAIN s |-> s[p[i]]]) = Range(s)
           /\ IsInjective(s) => IsInjective([i \in DOMAIN s |-> s[p[i]]])
  <1> DEFINE t == [i \in DOMAIN s |-> s[p[i]]]
  <1>1. /\ p \in [DOMAIN s -> DOMAIN s]
        /\ \A i, j \in DOMAIN s : p[i] = p[j] => i = j
        /\ \A j \in DOMAIN s : \E i \in DOMAIN s : p[i] = j
    BY Zenon DEF Bijection, Injection, Surjection, IsInjective
  <1>2. Len(s) \in Nat /\ DOMAIN s = 1 .. Len(s) /\ \A i \in DOMAIN s : s[i] \in S
    BY LenProperties, ElementOfSeq, Zenon
  <1>3. t \in Seq(S)
    <2>1. \A i \in 1 .. Len(s) : s[p[i]] \in S
      BY <1>1, <1>2, Zenon
    <2>2. [i \in 1 .. Len(s) |-> s[p[i]]] \in Seq(S)
      BY <1>2, <2>1, IsASeq
    <2> QED BY <1>2, <2>2, Zenon
  <1>4. Range(t) = Range(s)
    BY <1>1 DEF Range
  <1>5. IsInjective(s) => IsInjective(t)
    BY <1>1 DEF IsInjective
  <1> QED BY <1>3, <1>4, <1>5, Zenon

LEMMA QueueInit == Init => QueueInv
  <1> SUFFICES ASSUME Init PROVE QueueInv
    BY Zenon
  <1> USE DEF Init, SchedInit, BMInit
  <1>1. Range(<<>>) = {} /\ IsInjective(<<>>) /\ <<>> \in Seq(SeqIds)
    BY DEF Range, IsInjective
  <1>2. Control /\ Cursors
    BY Zenon
       DEF Control, Cursors, DecodeLabels, ScheduleLabels, FreeLabels, UsesScheduled
  <1>3. QueueTypes
    BY <1>1 DEF QueueTypes, Status
  <1>4. Lines /\ Statuses /\ ScheduledRun
    BY <1>1, Zenon
       DEF Lines, Statuses, ScheduledRun, DecodeLabels, ScheduleLabels, UsesScheduled
  <1> QED BY <1>2, <1>3, <1>4, Zenon DEF QueueInv

(* The steps of schedule() that move no group between queues and put none  *)
(* on the output.                                                          *)
LEMMA QueueQuiet ==
    ASSUME QueueInv, UNCHANGED <<config, arrivals, phase, batchVars>>,
           \/ DecodeSkip \/ DecodeCheck \/ DecodeAllocate \/ DecodeEnd
           \/ SwapOutAllocate \/ SwapOutFree
           \/ PrefillAllocate \/ PrefillEnd \/ SwapInAllocate \/ SwapInStop
    PROVE  QueueInv'
  <1> USE DEF QueueInv, Control, QueueTypes, Lines, Statuses, Cursors, ScheduledRun,
              DecodeLabels, ScheduleLabels, FreeLabels, UsesScheduled, Finished,
              At, bmVars, queueVars, seqVars, innerVars, budgetVars, outputVars, batchVars
  <1>1. CASE DecodeSkip
    BY <1>1, SMTT(30) DEF DecodeSkip
  <1>2. CASE DecodeCheck
    BY <1>2, Zenon DEF DecodeCheck
  <1>3. CASE DecodeAllocate
    BY <1>3, Zenon DEF DecodeAllocate, AllocateLogical, allocate_block
  <1>4. CASE DecodeEnd
    BY <1>4, Zenon DEF DecodeEnd
  <1>5. CASE SwapOutAllocate
    BY <1>5, Zenon DEF SwapOutAllocate, allocate_block
  <1>6. CASE SwapOutFree
    BY <1>6, Zenon DEF SwapOutFree, free_block
  <1>7. CASE PrefillAllocate
    BY <1>7, Zenon DEF PrefillAllocate, AllocateLogical, allocate_block
  <1>8. CASE PrefillEnd
    BY <1>8, Zenon DEF PrefillEnd
  <1>9. CASE SwapInAllocate
    BY <1>9, Zenon DEF SwapInAllocate, allocate_block
  <1>10. CASE SwapInStop
    BY <1>10, Zenon DEF SwapInStop
  <1> HIDE DEF QueueInv
  <1> QED BY <1>1, <1>2, <1>3, <1>4, <1>5, <1>6, <1>7, <1>8, <1>9, <1>10, Zenon

(* schedule_decodes puts a running group on the output, which the iterator *)
(* then leaves behind.                                                     *)
LEMMA QueueDecodeSchedule ==
    ASSUME QueueInv, UNCHANGED <<config, arrivals, phase, batchVars>>, DecodeSchedule
    PROVE  QueueInv'
  <1> DEFINE r == running[it]
  <1>1. /\ pc = "decodeAlloc" /\ pc' = "decode" /\ it' = it + 1
        /\ scheduled' = Append(scheduled, r)
        /\ UNCHANGED <<waiting, running, swapped, request_map, status, freeing, group, phase, config>>
    BY Zenon DEF DecodeSchedule, At, bmVars, queueVars, seqVars, batchVars
  <1>2. it \in 1 .. Len(running) /\ ~Finished(r) /\ DOMAIN running = 1 .. Len(running)
        /\ Len(running) \in Nat
    BY <1>1, LenProperties DEF QueueInv, QueueTypes, Cursors
  <1>3. r \in SeqIds /\ r \in Range(running)
    BY <1>2, Places, Zenon DEF QueueInv, QueueTypes
  <1>4. r \notin Range(scheduled)
    BY <1>1, <1>2 DEF QueueInv, ScheduledRun, DecodeLabels
  <1>5. status[r] = "RUNNING"
    BY <1>1, <1>2, <1>3, Zenon DEF QueueInv, Statuses, Finished, Done
  <1>6. /\ scheduled' \in Seq(SeqIds) /\ Range(scheduled') = Range(scheduled) \cup {r}
        /\ IsInjective(scheduled')
    <2>1. scheduled \in Seq(SeqIds) /\ IsInjective(scheduled)
      BY <1>1, Zenon
         DEF QueueInv, Control, QueueTypes, ScheduledRun, DecodeLabels, ScheduleLabels, UsesScheduled
    <2> HIDE DEF r
    <2> QED BY <1>1, <1>3, <1>4, <2>1, AppendElements
  <1>7. \A i \in DOMAIN running : (i < it \/ running[i] = r) => i < it'
    <2>1. \A i \in DOMAIN running : running[i] = r => i = it
      BY <1>2, Zenon DEF QueueInv, Lines, IsInjective
    <2> QED BY <1>1, <1>2, <2>1
  <1> HIDE DEF r
  <1>8. Control' /\ QueueTypes' /\ Cursors'
    BY <1>1, <1>2, <1>6 DEF QueueInv, Control, QueueTypes, Cursors, DecodeLabels, ScheduleLabels,
                            FreeLabels, UsesScheduled
  <1>9. Lines' /\ Statuses'
    BY <1>1, Zenon DEF QueueInv, Lines, Statuses
  <1>10. ScheduledRun'
    <2>1. /\ Range(scheduled) \subseteq Range(running)
          /\ \A i \in DOMAIN running : running[i] \in Range(scheduled) => i < it
          /\ \A q \in Range(scheduled) : status[q] = "RUNNING"
      BY <1>1, Zenon
         DEF QueueInv, Control, ScheduledRun, DecodeLabels, ScheduleLabels, UsesScheduled
    <2> QED BY <1>1, <1>3, <1>5, <1>6, <1>7, <2>1, Zenon DEF ScheduledRun
  <1> QED BY <1>8, <1>9, <1>10, Zenon DEF QueueInv

(* preempt: the victim is at the back of running_, behind the iterator, so *)
(* it is not on the output.                                                *)
LEMMA QueueVictim ==
    ASSUME QueueInv, pc \in {"preempt", "swapOut", "swapOutFree"}
    PROVE  /\ running # <<>> /\ Victim \in SeqIds /\ Victim \in Range(running)
           /\ Victim \notin Range(waiting) \cup Range(swapped) \cup Range(scheduled)
           /\ pc = "preempt" => status[Victim] \in {"RUNNING"} \cup Done
           /\ pc # "preempt" => status[Victim] \in {"SWAPPED"} \cup Done
           /\ PopBack(running) \in Seq(SeqIds) /\ IsInjective(PopBack(running))
           /\ Range(PopBack(running)) = Range(running) \ {Victim}
  <1> USE DEF Victim
  <1>1. /\ Len(running) \in Nat /\ DOMAIN running = 1 .. Len(running)
        /\ running # <<>> => /\ Len(running) > 0 /\ Back(running) = running[Len(running)]
                             /\ Back(running) \in SeqIds /\ Back(running) \in Range(running)
        /\ running = <<>> => Len(running) = 0
    BY Places, Zenon DEF QueueInv, QueueTypes
  <1>2. it \in Nat \ {0} /\ it <= Len(running) /\ running # <<>>
    BY <1>1 DEF QueueInv, QueueTypes, Cursors
  <1>3. Back(running) \notin Range(scheduled)
    <2>1. Len(running) \in DOMAIN running /\ ~(Len(running) < it)
      BY <1>1, <1>2
    <2> QED BY <1>1, <1>2, <2>1, Zenon DEF QueueInv, ScheduledRun, DecodeLabels
  <1>4. /\ PopBack(running) \in Seq(SeqIds) /\ IsInjective(PopBack(running))
        /\ Range(PopBack(running)) = Range(running) \ {Back(running)}
    BY <1>2, PopBackElements, Zenon DEF QueueInv, QueueTypes, Lines
  <1>5. Back(running) \notin Range(waiting) \cup Range(swapped)
    BY <1>1, <1>2, Zenon DEF QueueInv, Lines
  <1>6. /\ pc = "preempt" => status[Back(running)] \in {"RUNNING"} \cup Done
        /\ pc # "preempt" => status[Back(running)] \in {"SWAPPED"} \cup Done
    BY <1>1, <1>2, Zenon DEF QueueInv, Statuses, Cursors
  <1> QED BY <1>1, <1>2, <1>3, <1>4, <1>5, <1>6, Zenon

(* The steps of preempt. *)
LEMMA QueuePreempt ==
    ASSUME QueueInv, UNCHANGED <<config, arrivals, phase, batchVars>>,
           PreemptRecompute \/ PreemptSwap \/ SwapOutEnd
    PROVE  QueueInv'
  <1> USE DEF At, bmVars, queueVars, seqVars, innerVars, budgetVars, outputVars, batchVars,
              DecodeLabels, ScheduleLabels, FreeLabels, UsesScheduled
  <1>1. CASE PreemptRecompute
    <2> DEFINE v == Victim
    <2>1. /\ pc = "preempt" /\ pc' = "sort" /\ waiting' = <<v>> \o waiting
          /\ running' = PopBack(running)
          /\ UNCHANGED <<swapped, scheduled, request_map, it, group, phase, config>>
      BY <1>1, Zenon DEF PreemptRecompute, RequeueVictim
    <2>2. /\ Finished(v) => status' = status /\ freeing' = freeing
          /\ ~Finished(v) => status' = [status EXCEPT ![v] = "PREEMPTED"] /\ freeing' = v
      BY <1>1, Zenon DEF PreemptRecompute, EnterFreeBlocks
    <2>3. /\ v \in SeqIds /\ v \in Range(running)
          /\ v \notin Range(waiting) \cup Range(swapped) \cup Range(scheduled)
          /\ status[v] \in {"RUNNING"} \cup Done
          /\ running' \in Seq(SeqIds) /\ IsInjective(running')
          /\ Range(running') = Range(running) \ {v}
      BY <2>1, QueueVictim, Zenon
    <2> HIDE DEF v
    <2>4. /\ waiting' \in Seq(SeqIds) /\ IsInjective(waiting')
          /\ Range(waiting') = Range(waiting) \cup {v}
      BY <2>1, <2>3, PrependElements DEF QueueInv, QueueTypes, Lines
    <2>5. /\ status' \in [SeqIds -> Status]
          /\ \A r \in SeqIds \ {v} : status'[r] = status[r]
          /\ status'[v] \in {"PREEMPTED"} \cup Done
      BY <2>2, <2>3, Zenon DEF QueueInv, QueueTypes, Status, Finished, Done
    <2>6. Control' /\ QueueTypes' /\ Cursors'
      BY <2>1, <2>2, <2>3, <2>4, <2>5, Zenon DEF QueueInv, Control, QueueTypes, Cursors
    <2>7. Lines'
      <3>1. \A r \in SeqIds : status'[r] \notin {"NEW", "GONE"} <=> status[r] \notin {"NEW", "GONE"}
        BY <2>3, <2>5, Zenon DEF Done
      <3>2. Range(waiting') \cup Range(running') = Range(waiting) \cup Range(running)
        BY <2>3, <2>4, Zenon
      <3>3. /\ Range(waiting') \cap Range(running') = {}
            /\ Range(waiting') \cap Range(swapped) = {}
            /\ Range(running') \cap Range(swapped) = {}
        BY <2>3, <2>4, Zenon DEF QueueInv, Lines
      <3>4. {r \in SeqIds : status'[r] \notin {"NEW", "GONE"}}
              = {r \in SeqIds : status[r] \notin {"NEW", "GONE"}}
        BY <3>1, Zenon
      <3>5. \A r \in request_map : status'[r] \notin {"NEW", "GONE"}
        BY <3>1, Zenon DEF QueueInv, Lines, QueueTypes
      <3> QED BY <2>1, <2>3, <2>4, <3>2, <3>3, <3>4, <3>5, Zenon DEF QueueInv, Lines
    <2>8. /\ Range(waiting) \subseteq SeqIds /\ Range(running) \subseteq SeqIds
          /\ Range(swapped) \subseteq SeqIds /\ Range(scheduled) \subseteq SeqIds
      BY RangeInSet, Zenon DEF QueueInv, QueueTypes
    <2>9. Statuses'
      BY <2>1, <2>3, <2>4, <2>5, <2>8, Zenon DEF QueueInv, Statuses
    <2>10. ScheduledRun'
      BY <2>1, <2>3, <2>5, <2>8, Zenon DEF QueueInv, ScheduledRun
    <2> QED BY <2>6, <2>7, <2>9, <2>10, Zenon DEF QueueInv
  <1>2. CASE PreemptSwap
    <2> DEFINE v == Victim
    <2>1. /\ pc = "preempt" /\ pc' = "swapOut" /\ freeing' = freeing
          /\ UNCHANGED <<waiting, running, swapped, scheduled, request_map, it, group, phase, config>>
      BY <1>2, Zenon DEF PreemptSwap
    <2>2. /\ Finished(v) => status' = status
          /\ ~Finished(v) => status' = [status EXCEPT ![v] = "SWAPPED"]
      BY <1>2, Zenon DEF PreemptSwap
    <2>3. /\ v \in SeqIds /\ v \in Range(running) /\ v = Back(running)
          /\ v \notin Range(waiting) \cup Range(swapped) \cup Range(scheduled)
          /\ status[v] \in {"RUNNING"} \cup Done
      BY <2>1, QueueVictim, Zenon DEF Victim
    <2> HIDE DEF v
    <2>4. /\ status' \in [SeqIds -> Status]
          /\ \A r \in SeqIds \ {v} : status'[r] = status[r]
          /\ status'[v] \in {"SWAPPED"} \cup Done
      BY <2>2, <2>3, Zenon DEF QueueInv, QueueTypes, Status, Finished, Done
    <2>5. Control' /\ QueueTypes' /\ Cursors'
      BY <2>1, <2>3, <2>4, Zenon DEF QueueInv, Control, QueueTypes, Cursors
    <2>6. Lines'
      <3>1. \A r \in SeqIds : status'[r] \notin {"NEW", "GONE"} <=> status[r] \notin {"NEW", "GONE"}
        BY <2>3, <2>4, Zenon DEF Done
      <3> QED BY <2>1, <3>1, Zenon DEF QueueInv, Lines, QueueTypes
    <2>7. /\ Range(waiting) \subseteq SeqIds /\ Range(running) \subseteq SeqIds
          /\ Range(swapped) \subseteq SeqIds /\ Range(scheduled) \subseteq SeqIds
      BY RangeInSet DEF QueueInv, QueueTypes
    <2>8. Statuses'
      BY <2>1, <2>3, <2>4, <2>7, Zenon DEF QueueInv, Statuses
    <2>9. ScheduledRun'
      BY <2>1, <2>3, <2>4, <2>7, Zenon DEF QueueInv, ScheduledRun
    <2> QED BY <2>5, <2>6, <2>8, <2>9 DEF QueueInv
  <1>3. CASE SwapOutEnd
    <2> DEFINE v == Victim
    <2>1. /\ pc = "swapOut" /\ pc' = "sort" /\ swapped' = Append(swapped, v)
          /\ running' = PopBack(running)
          /\ UNCHANGED <<waiting, scheduled, request_map, status, freeing, it, group, phase, config>>
      BY <1>3, Zenon DEF SwapOutEnd
    <2>2. /\ v \in SeqIds /\ v \in Range(running) /\ v = Back(running)
          /\ v \notin Range(waiting) \cup Range(swapped) \cup Range(scheduled)
          /\ status[v] \in {"SWAPPED"} \cup Done
          /\ running' \in Seq(SeqIds) /\ IsInjective(running')
          /\ Range(running') = Range(running) \ {v}
      BY <2>1, QueueVictim, Zenon DEF Victim
    <2> HIDE DEF v
    <2>3. /\ swapped' \in Seq(SeqIds) /\ IsInjective(swapped')
          /\ Range(swapped') = Range(swapped) \cup {v}
      BY <2>1, <2>2, AppendElements DEF QueueInv, QueueTypes, Lines
    <2>4. Control' /\ QueueTypes' /\ Cursors'
      BY <2>1, <2>2, <2>3, Zenon DEF QueueInv, Control, QueueTypes, Cursors
    <2>5. Lines'
      BY <2>1, <2>2, <2>3 DEF QueueInv, Lines
    <2>6. Statuses'
      BY <2>1, <2>2, <2>3, Zenon DEF QueueInv, Statuses
    <2>7. ScheduledRun'
      BY <2>1, <2>2, Zenon DEF QueueInv, ScheduledRun
    <2> QED BY <2>4, <2>5, <2>6, <2>7 DEF QueueInv
  <1> QED BY <1>1, <1>2, <1>3, Zenon

(* sort_waiting_queue permutes the waiting queue. *)
LEMMA QueueSort ==
    ASSUME QueueInv, UNCHANGED <<config, arrivals, phase, batchVars>>, SortWaiting
    PROVE  QueueInv'
  <1>1. /\ pc = "sort" /\ pc' = "prefill"
        /\ UNCHANGED <<running, swapped, scheduled, request_map, status, freeing, it, group, phase, config>>
    BY Zenon DEF SortWaiting, At, bmVars, seqVars, outputVars, batchVars
  <1>2. PICK p \in Bijection(DOMAIN waiting, DOMAIN waiting) :
           waiting' = [i \in DOMAIN waiting |-> waiting[p[i]]]
    BY Zenon DEF SortWaiting
  <1>3. waiting' \in Seq(SeqIds) /\ IsInjective(waiting') /\ Range(waiting') = Range(waiting)
    <2>1. waiting \in Seq(SeqIds) /\ IsInjective(waiting)
      BY Zenon DEF QueueInv, QueueTypes, Lines
    <2>2. /\ [i \in DOMAIN waiting |-> waiting[p[i]]] \in Seq(SeqIds)
          /\ Range([i \in DOMAIN waiting |-> waiting[p[i]]]) = Range(waiting)
          /\ IsInjective([i \in DOMAIN waiting |-> waiting[p[i]]])
      BY <2>1, PermuteElements, Zenon
    <2> QED BY <1>2, <2>2, Zenon
  <1>4. Control' /\ QueueTypes' /\ Cursors'
    BY <1>1, <1>3, Zenon
       DEF QueueInv, Control, QueueTypes, Cursors, DecodeLabels, ScheduleLabels,
                                FreeLabels, UsesScheduled
  <1>5. Lines' /\ Statuses'
    BY <1>1, <1>3, Zenon DEF QueueInv, Lines, Statuses
  <1>6. ScheduledRun'
    BY <1>1, Zenon DEF QueueInv, ScheduledRun, DecodeLabels, ScheduleLabels
  <1> QED BY <1>4, <1>5, <1>6, Zenon DEF QueueInv

(* The head of the waiting queue, in which schedule_prefills works. *)
LEMMA QueueHead ==
    ASSUME QueueInv, waiting # <<>>
    PROVE  /\ Head(waiting) \in SeqIds /\ Head(waiting) \in Range(waiting)
           /\ Head(waiting) \notin Range(running) \cup Range(swapped)
           /\ phase \in UsesScheduled => Head(waiting) \notin Range(scheduled)
           /\ status[Head(waiting)] \notin {"NEW", "GONE"}
           /\ Tail(waiting) \in Seq(SeqIds) /\ IsInjective(Tail(waiting))
           /\ Range(Tail(waiting)) = Range(waiting) \ {Head(waiting)}
  <1>1. /\ Head(waiting) \in SeqIds /\ Head(waiting) \in Range(waiting)
        /\ Tail(waiting) \in Seq(SeqIds) /\ IsInjective(Tail(waiting))
        /\ Range(Tail(waiting)) = Range(waiting) \ {Head(waiting)}
    BY TailElements, Zenon DEF QueueInv, QueueTypes, Lines
  <1>2. Head(waiting) \notin Range(running) \cup Range(swapped)
    BY <1>1, Zenon DEF QueueInv, Lines
  <1>3. phase \in UsesScheduled => Head(waiting) \notin Range(scheduled)
    BY <1>2, Zenon DEF QueueInv, ScheduledRun
  <1>4. status[Head(waiting)] \notin {"NEW", "GONE"}
    BY <1>1, Zenon DEF QueueInv, Lines
  <1> QED BY <1>1, <1>2, <1>3, <1>4, Zenon

(* schedule_prefills admits the head of the waiting queue, moves it to the *)
(* back of running_ and puts it on the output.                             *)
LEMMA QueuePrefill ==
    ASSUME QueueInv, UNCHANGED <<config, arrivals, phase, batchVars>>,
           PrefillAdmit \/ PrefillSchedule
    PROVE  QueueInv'
  <1> DEFINE h == Head(waiting)
  <1>0. /\ Range(waiting) \subseteq SeqIds /\ Range(running) \subseteq SeqIds
        /\ Range(swapped) \subseteq SeqIds /\ Range(scheduled) \subseteq SeqIds
    BY RangeInSet, Zenon DEF QueueInv, QueueTypes
  <1>1. CASE PrefillAdmit
    <2>1. /\ pc = "prefill" /\ pc' = "prefillAlloc" /\ waiting # <<>>
          /\ status' = [status EXCEPT ![h] = "RUNNING"]
          /\ UNCHANGED <<waiting, running, swapped, scheduled, request_map, freeing, it, group, phase, config>>
      BY <1>1, Zenon
         DEF PrefillAdmit, CanPrefill, At, bmVars, queueVars, outputVars, batchVars
    <2>2. /\ h \in SeqIds /\ h \in Range(waiting) /\ status[h] \notin {"NEW", "GONE"}
          /\ h \notin Range(running) \cup Range(swapped) \cup Range(scheduled) /\ h = Head(waiting)'
      BY <2>1, QueueHead, Zenon DEF QueueInv, Control, ScheduleLabels, UsesScheduled
    <2> HIDE DEF h
    <2>3. /\ status' \in [SeqIds -> Status] /\ status'[h] = "RUNNING"
          /\ \A r \in SeqIds \ {h} : status'[r] = status[r]
      BY <2>1, <2>2, Zenon DEF QueueInv, QueueTypes, Status
    <2>4. Control' /\ QueueTypes' /\ Cursors'
      BY <2>1, <2>2, <2>3, Zenon
         DEF QueueInv, Control, QueueTypes, Cursors, DecodeLabels,
                                        ScheduleLabels, FreeLabels, UsesScheduled
    <2>5. Lines'
      <3>1. \A r \in SeqIds : status'[r] \notin {"NEW", "GONE"} <=> status[r] \notin {"NEW", "GONE"}
        BY <2>2, <2>3, Zenon
      <3> QED BY <2>1, <3>1, Zenon DEF QueueInv, Lines, QueueTypes
    <2>6. Statuses'
      BY <1>0, <2>1, <2>2, <2>3, Zenon DEF QueueInv, Statuses
    <2>7. ScheduledRun'
      BY <1>0, <2>1, <2>2, <2>3, Zenon
         DEF QueueInv, ScheduledRun, DecodeLabels, ScheduleLabels
    <2> QED BY <2>4, <2>5, <2>6, <2>7, Zenon DEF QueueInv
  <1>2. CASE PrefillSchedule
    <2>1. /\ pc = "prefillAlloc" /\ pc' = "prefill"
          /\ scheduled' = Append(scheduled, h) /\ running' = Append(running, h)
          /\ waiting' = Tail(waiting)
          /\ UNCHANGED <<swapped, request_map, status, freeing, it, group, phase, config>>
      BY <1>2, Zenon DEF PrefillSchedule, At, bmVars, seqVars, outputVars, batchVars
    <2>2. /\ phase \in UsesScheduled /\ waiting # <<>> /\ status[h] = "RUNNING"
          /\ IsInjective(scheduled) /\ Range(scheduled) \subseteq Range(running)
      BY <2>1, Zenon
         DEF QueueInv, Control, Cursors, ScheduledRun, ScheduleLabels, UsesScheduled
    <2>3. /\ h \in SeqIds /\ h \in Range(waiting)
          /\ h \notin Range(running) \cup Range(swapped) \cup Range(scheduled)
          /\ waiting' \in Seq(SeqIds) /\ IsInjective(waiting')
          /\ Range(waiting') = Range(waiting) \ {h}
      BY <2>1, <2>2, QueueHead, Zenon
    <2> HIDE DEF h
    <2>4. /\ running' \in Seq(SeqIds) /\ IsInjective(running')
          /\ Range(running') = Range(running) \cup {h}
      BY <2>1, <2>3, AppendElements DEF QueueInv, QueueTypes, Lines
    <2>5. /\ scheduled' \in Seq(SeqIds) /\ IsInjective(scheduled')
          /\ Range(scheduled') = Range(scheduled) \cup {h}
      BY <2>1, <2>2, <2>3, AppendElements DEF QueueInv, QueueTypes
    <2>6. Control' /\ QueueTypes' /\ Cursors'
      BY <2>1, <2>3, <2>4, <2>5, Zenon
         DEF QueueInv, Control, QueueTypes, Cursors, DecodeLabels,
                                              ScheduleLabels, FreeLabels, UsesScheduled
    <2>7. Lines'
      BY <2>1, <2>3, <2>4, SMTT(30) DEF QueueInv, Lines
    <2>8. Statuses'
      <3>1. \A r \in Range(waiting') : status[r] \in {"WAITING", "PREEMPTED"} \cup Done
        BY <2>1, <2>3, h = Head(waiting), Zenon DEF QueueInv, Statuses, h
      <3> QED BY <2>1, <2>2, <2>4, <3>1, Zenon DEF QueueInv, Statuses
    <2>9. ScheduledRun'
      BY <2>1, <2>2, <2>4, <2>5, Zenon
         DEF QueueInv, ScheduledRun, DecodeLabels, ScheduleLabels
    <2> QED BY <2>6, <2>7, <2>8, <2>9 DEF QueueInv
  <1> QED BY <1>1, <1>2, Zenon

(* try_swap_in admits the head of the swapped queue and moves it to the    *)
(* back of running_; it does not put it on the output.                     *)
LEMMA QueueSwapIn ==
    ASSUME QueueInv, UNCHANGED <<config, arrivals, phase, batchVars>>,
           SwapInAdmit \/ SwapInEnd
    PROVE  QueueInv'
  <1> DEFINE h == Head(swapped)
  <1>0. /\ Range(waiting) \subseteq SeqIds /\ Range(running) \subseteq SeqIds
        /\ Range(swapped) \subseteq SeqIds
        /\ pc \in ScheduleLabels => Range(scheduled) \subseteq Range(running)
    BY RangeInSet, Zenon DEF QueueInv, Control, QueueTypes, ScheduledRun, UsesScheduled
  <1>1. ASSUME swapped # <<>>
        PROVE  /\ h \in SeqIds /\ h \in Range(swapped)
               /\ h \notin Range(running) \cup Range(waiting)
               /\ status[h] \notin {"NEW", "GONE"}
               /\ Tail(swapped) \in Seq(SeqIds) /\ IsInjective(Tail(swapped))
               /\ Range(Tail(swapped)) = Range(swapped) \ {h}
    <2>1. /\ h \in SeqIds /\ h \in Range(swapped)
          /\ Tail(swapped) \in Seq(SeqIds) /\ IsInjective(Tail(swapped))
          /\ Range(Tail(swapped)) = Range(swapped) \ {h}
      BY <1>1, TailElements, Zenon DEF QueueInv, QueueTypes, Lines
    <2> HIDE DEF h
    <2>2. h \notin Range(running) \cup Range(waiting) /\ status[h] \notin {"NEW", "GONE"}
      BY <2>1, Zenon DEF QueueInv, Lines
    <2> QED BY <2>1, <2>2, Zenon
  <1>2. CASE SwapInAdmit
    <2>1. /\ pc = "swapIn" /\ pc' = "swapInAlloc" /\ swapped # <<>>
          /\ status' = IF Finished(h) THEN status ELSE [status EXCEPT ![h] = "RUNNING"]
          /\ UNCHANGED <<waiting, running, swapped, scheduled, request_map, freeing, it, group, phase, config>>
      BY <1>2, Zenon
         DEF SwapInAdmit, CanSwapIn, At, bmVars, queueVars, outputVars, batchVars
    <2>2. /\ h \in SeqIds /\ h \in Range(swapped) /\ status[h] \notin {"NEW", "GONE"}
          /\ h \notin Range(running) \cup Range(waiting) /\ h = Head(swapped)'
      BY <1>1, <2>1, Zenon
    <2> HIDE DEF h
    <2>3. /\ status' \in [SeqIds -> Status] /\ status'[h] \in {"RUNNING"} \cup Done
          /\ \A r \in SeqIds \ {h} : status'[r] = status[r]
      BY <2>1, <2>2, Zenon DEF QueueInv, QueueTypes, Status, Finished, Done
    <2>4. Control' /\ QueueTypes' /\ Cursors'
      BY <2>1, <2>2, <2>3, Zenon
         DEF QueueInv, Control, QueueTypes, Cursors, DecodeLabels,
                                        ScheduleLabels, FreeLabels, UsesScheduled
    <2>5. Lines'
      <3>1. \A r \in SeqIds : status'[r] \notin {"NEW", "GONE"} <=> status[r] \notin {"NEW", "GONE"}
        BY <2>2, <2>3, Zenon DEF Done
      <3> QED BY <2>1, <3>1, Zenon DEF QueueInv, Lines, QueueTypes
    <2>6. Statuses'
      BY <1>0, <2>1, <2>2, <2>3, Zenon DEF QueueInv, Statuses
    <2>7. ScheduledRun'
      BY <1>0, <2>1, <2>2, <2>3, Zenon
         DEF QueueInv, ScheduledRun, DecodeLabels, ScheduleLabels
    <2> QED BY <2>4, <2>5, <2>6, <2>7 DEF QueueInv
  <1>3. CASE SwapInEnd
    <2>1. /\ pc = "swapInAlloc" /\ pc' = "swapIn"
          /\ running' = Append(running, h) /\ swapped' = Tail(swapped)
          /\ UNCHANGED <<waiting, scheduled, request_map, status, freeing, it, group, phase, config>>
      BY <1>3, Zenon DEF SwapInEnd, At, bmVars, seqVars, outputVars, batchVars
    <2>2. /\ h \in SeqIds /\ h \in Range(swapped) /\ h \notin Range(running) \cup Range(waiting)
          /\ swapped' \in Seq(SeqIds) /\ IsInjective(swapped')
          /\ Range(swapped') = Range(swapped) \ {h}
      BY <1>1, <2>1, Zenon DEF QueueInv, Cursors
    <2>3. status[h] \in {"RUNNING"} \cup Done
      BY <2>1, Zenon DEF QueueInv, Cursors
    <2>4. /\ running' \in Seq(SeqIds) /\ IsInjective(running')
          /\ Range(running') = Range(running) \cup {h}
      <3> HIDE DEF h
      <3> QED BY <2>1, <2>2, AppendElements DEF QueueInv, QueueTypes, Lines
    <2>5. \A r \in Range(swapped') : status[r] \in {"SWAPPED"} \cup Done
      BY <2>1, <2>2, Zenon DEF QueueInv, Statuses
    <2> HIDE DEF h
    <2>6. Control' /\ QueueTypes' /\ Cursors'
      BY <2>1, <2>2, <2>4, Zenon
         DEF QueueInv, Control, QueueTypes, Cursors, DecodeLabels,
                                        ScheduleLabels, FreeLabels, UsesScheduled
    <2>7. Lines'
      BY <2>1, <2>2, <2>4, SMTT(30) DEF QueueInv, Lines
    <2>8. Statuses'
      BY <2>1, <2>3, <2>4, <2>5, Zenon DEF QueueInv, Statuses
    <2>9. ScheduledRun'
      BY <1>0, <2>1, <2>4, Zenon
         DEF QueueInv, ScheduledRun, DecodeLabels, ScheduleLabels
    <2> QED BY <2>6, <2>7, <2>8, <2>9 DEF QueueInv
  <1> QED BY <1>2, <1>3

(* A step of schedule() between its call and its return. *)
LEMMA QueueSchedule == ASSUME QueueInv, InSchedule PROVE QueueInv'
  BY QueueQuiet, QueueDecodeSchedule, QueuePreempt, QueueSort, QueuePrefill, QueueSwapIn, Zenon
     DEF InSchedule, ScheduleStep

(* add_request puts a new group at the back of the waiting queue, and      *)
(* abort_request leaves a group where it is.                               *)
LEMMA QueueClient ==
    ASSUME QueueInv, NEW r \in SeqIds, Submit(r) \/ Abort(r)
    PROVE  QueueInv'
  <1>0. /\ Range(waiting) \subseteq SeqIds /\ Range(running) \subseteq SeqIds
        /\ Range(swapped) \subseteq SeqIds
    BY RangeInSet, Zenon DEF QueueInv, QueueTypes
  <1>1. CASE Submit(r)
    <2>1. /\ pc = "unlocked" /\ status[r] = "NEW" /\ status' = [status EXCEPT ![r] = "WAITING"]
          /\ request_map' = request_map \cup {r} /\ waiting' = Append(waiting, r)
          /\ phase' = IF phase = "stopped" THEN "schedule" ELSE phase
          /\ UNCHANGED <<running, swapped, scheduled, freeing, pc, it, group, config>>
      BY <1>1, Zenon DEF Submit, add_request, At, bmVars, outputVars, batchVars
    <2>2. r \notin Range(waiting) \cup Range(running) \cup Range(swapped)
      BY <2>1, Zenon DEF QueueInv, Lines
    <2>3. /\ waiting' \in Seq(SeqIds) /\ IsInjective(waiting')
          /\ Range(waiting') = Range(waiting) \cup {r}
      BY <2>1, <2>2, AppendElements DEF QueueInv, QueueTypes, Lines
    <2>4. /\ status' \in [SeqIds -> Status] /\ status'[r] = "WAITING"
          /\ \A q \in SeqIds \ {r} : status'[q] = status[q]
      BY <2>1, Zenon DEF QueueInv, QueueTypes, Status
    <2>5. Control' /\ QueueTypes' /\ Cursors'
      BY <2>1, <2>3, <2>4, Zenon
         DEF QueueInv, Control, QueueTypes, Cursors, DecodeLabels,
                                        ScheduleLabels, FreeLabels, UsesScheduled
    <2>6. Lines'
      <3>1. {q \in SeqIds : status'[q] \notin {"NEW", "GONE"}}
              = {q \in SeqIds : status[q] \notin {"NEW", "GONE"}} \cup {r}
        BY <2>1, <2>4, Zenon
      <3> QED BY <2>1, <2>2, <2>3, <2>4, <3>1, Zenon DEF QueueInv, Lines, QueueTypes
    <2>7. Statuses'
      BY <1>0, <2>1, <2>2, <2>3, <2>4, Zenon DEF QueueInv, Statuses
    <2>8. ScheduledRun'
      BY <2>1, Zenon
         DEF QueueInv, ScheduledRun, DecodeLabels, ScheduleLabels, UsesScheduled
    <2> QED BY <2>5, <2>6, <2>7, <2>8, Zenon DEF QueueInv
  <1>2. CASE Abort(r)
    <2>1. /\ pc = "unlocked" /\ r \in request_map /\ request_map' = request_map \ {r}
          /\ \/ status' = status /\ freeing' = freeing
             \/ status' = [status EXCEPT ![r] = "FINISHED_ABORT"] /\ freeing' = r
          /\ UNCHANGED <<waiting, running, swapped, scheduled, pc, it, group, phase, config>>
      BY <1>2, Zenon
         DEF Abort, abort_request, EnterFreeBlocks, At, bmVars, outputVars, batchVars
    <2>2. status[r] \notin {"NEW", "GONE"}
      BY <2>1, Zenon DEF QueueInv, Lines
    <2>3. /\ status' \in [SeqIds -> Status] /\ status'[r] \in {status[r], "FINISHED_ABORT"}
          /\ \A q \in SeqIds \ {r} : status'[q] = status[q]
      BY <2>1, Zenon DEF QueueInv, QueueTypes, Status
    <2>4. Control' /\ QueueTypes' /\ Cursors'
      BY <2>1, <2>3, Zenon DEF QueueInv, Control, QueueTypes, Cursors, DecodeLabels,
                                  ScheduleLabels, FreeLabels, UsesScheduled
    <2>5. Lines'
      <3>1. \A q \in SeqIds : status'[q] \notin {"NEW", "GONE"} <=> status[q] \notin {"NEW", "GONE"}
        BY <2>2, <2>3, Zenon
      <3> QED BY <2>1, <3>1, Zenon DEF QueueInv, Lines, QueueTypes
    <2>6. Statuses'
      BY <1>0, <2>1, <2>3, Zenon DEF QueueInv, Statuses, Done
    <2>7. ScheduledRun'
      BY <2>1, Zenon
         DEF QueueInv, ScheduledRun, DecodeLabels, ScheduleLabels, UsesScheduled
    <2> QED BY <2>4, <2>5, <2>6, <2>7 DEF QueueInv
  <1> QED BY <1>1, <1>2, Zenon

(* The engine thread's calls and returns, and its loops outside the        *)
(* scheduler: the queues stay as they are.                                 *)
LEMMA QueueEngine ==
    ASSUME QueueInv,
           \/ CallSchedule \/ AfterSchedule \/ BuildNext \/ BuildReturn \/ Step
           \/ UpdateSkip \/ UpdateCheck \/ UpdateReturn \/ CallFreeFinished
           \/ AfterFreeFinished \/ InFreeBlocks
    PROVE  QueueInv'
  <1> USE DEF At, bmVars, queueVars, seqVars, schedVars, innerVars, budgetVars, outputVars, batchVars
  <1>1. ASSUME UNCHANGED <<waiting, running, swapped, request_map, status, config>>,
               scheduled' \in {scheduled, <<>>}, group' \in {group, 1, group + 1}, it' \in {it, 1},
               freeing' \in {freeing, NoSeq}, Control', Cursors', ScheduledRun',
               pc' # pc => pc \in {"unlocked", "scheduleEnd", "freeEnd"}
        PROVE  QueueInv'
    <2>1. QueueTypes'
      <3>1. it' \in Nat \ {0} /\ group' \in Nat \ {0}
        BY <1>1 DEF QueueInv, QueueTypes
      <3>2. scheduled' \in Seq(SeqIds)
        <4>1. <<>> \in Seq(SeqIds)
          OBVIOUS
        <4> QED BY <1>1, <4>1, Zenon DEF QueueInv, QueueTypes
      <3> QED BY <1>1, <3>1, <3>2, Zenon DEF QueueInv, QueueTypes
    <2>2. Lines' /\ Statuses'
      BY <1>1, Zenon DEF QueueInv, Lines, Statuses
    <2> QED BY <1>1, <2>1, <2>2, Zenon DEF QueueInv
  <1>2. CASE CallSchedule
    <2>1. /\ phase = "schedule" /\ phase' = "scheduling" /\ pc = "unlocked" /\ pc' = "decode"
          /\ scheduled' = <<>> /\ it' = 1 /\ freeing' = freeing
          /\ UNCHANGED <<waiting, running, swapped, request_map, status, group, config>>
      BY <1>2, Zenon DEF CallSchedule, ScheduleEnter
    <2>2. Range(<<>>) = {} /\ IsInjective(<<>>)
      BY DEF Range, IsInjective
    <2>3. Control' /\ Cursors' /\ ScheduledRun'
      BY <2>1, <2>2, Zenon
         DEF QueueInv, Control, Cursors, ScheduledRun, DecodeLabels, ScheduleLabels,
                                  FreeLabels, UsesScheduled
    <2> QED BY <1>1, <2>1, <2>3, Zenon
  <1>3. CASE AfterSchedule
    <2>1. /\ phase = "scheduling" /\ phase' \in {"build", "stopped"} /\ pc = "scheduleEnd" /\ pc' = "unlocked"
          /\ UNCHANGED <<waiting, running, swapped, request_map, status, scheduled, it, freeing, config>>
          /\ group' = 1
      BY <1>3, Zenon DEF AfterSchedule, ScheduleReturn
    <2>2. Control' /\ Cursors' /\ ScheduledRun'
      BY <2>1, Zenon
         DEF QueueInv, Control, Cursors, ScheduledRun, DecodeLabels, ScheduleLabels,
                            FreeLabels, UsesScheduled
    <2> QED BY <1>1, <2>1, <2>2, Zenon
  <1>4. CASE BuildNext \/ BuildReturn \/ Step \/ UpdateSkip \/ UpdateCheck \/ UpdateReturn
    <2>1. /\ phase \in {"build", "step", "update"} /\ phase' \in {"build", "step", "update", "append", "free"}
          /\ phase' = "append" => group <= Len(scheduled) /\ group' = group
          /\ group' \in {group, 1, group + 1}
          /\ UNCHANGED <<waiting, running, swapped, request_map, status, scheduled, pc, it, freeing, config>>
      BY <1>4, Zenon DEF BuildNext, BuildReturn, Step, UpdateSkip, UpdateCheck, UpdateReturn
    <2>2. Control' /\ Cursors' /\ ScheduledRun'
      BY <2>1, Zenon
         DEF QueueInv, Control, Cursors, ScheduledRun, UsesScheduled, Finished
    <2> QED BY <1>1, <2>1, <2>2, Zenon
  <1>5. CASE CallFreeFinished \/ AfterFreeFinished
    <2>1. /\ \/ phase = "free" /\ phase' = "freeing" /\ pc = "unlocked" /\ pc' = "freeRunning" /\ it' = 1
             \/ phase = "freeing" /\ phase' = "schedule" /\ pc = "freeEnd" /\ pc' = "unlocked" /\ it' = it
          /\ UNCHANGED <<waiting, running, swapped, request_map, status, scheduled, freeing, group, config>>
      BY <1>5, Zenon
         DEF CallFreeFinished, FreeFinishedEnter, AfterFreeFinished, FreeFinishedReturn
    <2>2. Control' /\ Cursors' /\ ScheduledRun'
      BY <2>1, Zenon
         DEF QueueInv, Control, Cursors, ScheduledRun, DecodeLabels, ScheduleLabels,
                            FreeLabels, UsesScheduled
    <2> QED BY <1>1, <2>1, <2>2, Zenon
  <1>6. CASE InFreeBlocks
    <2>1. /\ UNCHANGED <<waiting, running, swapped, request_map, status, scheduled, pc, phase, it, group, config>>
          /\ freeing' \in {freeing, NoSeq}
      BY <1>6, Zenon DEF InFreeBlocks, FreeBlocksStep, FreeBlocksNext, FreeBlocksReturn
    <2>2. Control' /\ Cursors' /\ ScheduledRun'
      BY <2>1, SMTT(30) DEF QueueInv, Control, Cursors, ScheduledRun, Finished
    <2> QED BY <1>1, <2>1, <2>2, Zenon
  <1> QED BY <1>2, <1>3, <1>4, <1>5, <1>6, Zenon

(* update_after_decode may finish the sequence it appends to. *)
LEMMA QueueAppend == ASSUME QueueInv, UpdateAppend PROVE QueueInv'
  <1> DEFINE r == scheduled[group]
  <1>1. /\ phase = "append" /\ phase' = "update" /\ group' = group + 1
        /\ \/ status' = status
           \/ status' = [status EXCEPT ![r] = "FINISHED_LENGTH"]
        /\ UNCHANGED <<waiting, running, swapped, request_map, scheduled, freeing, pc, it, config>>
    BY Zenon DEF UpdateAppend, bmVars, queueVars, outputVars
  <1>2. pc = "unlocked" \/ pc \notin ScheduleLabels \cup FreeLabels
    BY <1>1, Zenon DEF QueueInv, Control, UsesScheduled
  <1>3. r \in SeqIds /\ r \in Range(running)
    <2>1. r \in SeqIds /\ r \in Range(scheduled)
      BY <1>1, Places DEF QueueInv, QueueTypes, Cursors
    <2> QED BY <1>1, <2>1, Zenon DEF QueueInv, ScheduledRun, UsesScheduled
  <1> HIDE DEF r
  <1>4. /\ status' \in [SeqIds -> Status] /\ status'[r] \in {status[r], "FINISHED_LENGTH"}
        /\ \A q \in SeqIds \ {r} : status'[q] = status[q]
    BY <1>1, <1>3, Zenon DEF QueueInv, QueueTypes, Status
  <1>5. Control' /\ QueueTypes' /\ Cursors'
    BY <1>1, <1>2, <1>4, SMTT(30) DEF QueueInv, Control, QueueTypes, Cursors, DecodeLabels, ScheduleLabels,
                                      FreeLabels, UsesScheduled
  <1>6. Lines'
    <2>1. \A q \in SeqIds : status'[q] \notin {"NEW", "GONE"} <=> status[q] \notin {"NEW", "GONE"}
      BY <1>3, <1>4, Zenon DEF QueueInv, Lines
    <2> QED BY <1>1, <2>1, Zenon DEF QueueInv, Lines, QueueTypes
  <1>7. Statuses'
    <2>1. /\ Range(waiting) \subseteq SeqIds \ {r} /\ Range(running) \subseteq SeqIds
          /\ Range(swapped) \subseteq SeqIds \ {r}
      BY <1>3, RangeInSet, Zenon DEF QueueInv, QueueTypes, Lines
    <2> QED BY <1>1, <1>2, <1>4, <2>1, Zenon
               DEF QueueInv, Statuses, Done, DecodeLabels, ScheduleLabels
  <1>8. ScheduledRun'
    BY <1>1, <1>2, Zenon
       DEF QueueInv, ScheduledRun, DecodeLabels, ScheduleLabels, UsesScheduled
  <1> QED BY <1>5, <1>6, <1>7, <1>8, Zenon DEF QueueInv

(* free_finished_requests walks a queue and destroys the finished groups. *)
LEMMA QueueFree == ASSUME QueueInv, InFreeFinishedLoop PROVE QueueInv'
  <1> USE DEF At, bmVars, queueVars, seqVars, innerVars, budgetVars, outputVars, batchVars
  <1>1. CASE FreeFinishedSkip \/ FreeFinishedEnd
    <2>1. /\ pc \in {"freeRunning", "freeWaiting"} /\ pc' \in FreeLabels /\ it' \in {it + 1, 1}
          /\ UNCHANGED <<waiting, running, swapped, scheduled, request_map, status, freeing, group, phase, config>>
      BY <1>1, Zenon
         DEF FreeFinishedSkip, FreeFinishedEnd, InFreeFinished, InFreeFinishedLoop, FreeLabels
    <2>2. it' \in Nat \ {0}
      BY <2>1 DEF QueueInv, QueueTypes
    <2>3. Control' /\ Cursors' /\ ScheduledRun'
      BY <2>1, Zenon
         DEF QueueInv, Control, Cursors, ScheduledRun, DecodeLabels, ScheduleLabels, FreeLabels
    <2>4. QueueTypes' /\ Lines' /\ Statuses'
      BY <2>1, <2>2, Zenon DEF QueueInv, QueueTypes, Lines, Statuses
    <2> QED BY <2>3, <2>4, Zenon DEF QueueInv
  <1>2. CASE FreeFinishedErase
    <2> DEFINE r == FreeFinishedQueue[it]
    <2>1. /\ pc \in {"freeRunning", "freeWaiting"} /\ it <= Len(FreeFinishedQueue)
          /\ pc = "freeRunning" => running' = Erase(running, it) /\ waiting' = waiting
          /\ pc # "freeRunning" => waiting' = Erase(waiting, it) /\ running' = running
          /\ request_map' = request_map \ {r} /\ status' = [status EXCEPT ![r] = "GONE"] /\ freeing' = r
          /\ UNCHANGED <<swapped, scheduled, pc, it, group, phase, config>>
      BY <1>2, Zenon
         DEF FreeFinishedErase, InFreeFinished, InFreeFinishedLoop, EnterFreeBlocks
    <2>2. phase = "freeing"
      BY <2>1, Zenon DEF QueueInv, Control, FreeLabels
    <2>3. /\ r \in SeqIds /\ r \notin Range(running') \cup Range(waiting') \cup Range(swapped)
          /\ waiting' \in Seq(SeqIds) /\ running' \in Seq(SeqIds)
          /\ IsInjective(waiting') /\ IsInjective(running')
          /\ Range(waiting') \subseteq Range(waiting) /\ Range(running') \subseteq Range(running)
          /\ Range(waiting) \cup Range(running) = (Range(waiting') \cup Range(running')) \cup {r}
      <3>0. /\ waiting \in Seq(SeqIds) /\ running \in Seq(SeqIds) /\ it \in Nat \ {0}
            /\ IsInjective(waiting) /\ IsInjective(running)
            /\ Range(waiting) \cap Range(running) = {}
            /\ Range(waiting) \cap Range(swapped) = {} /\ Range(running) \cap Range(swapped) = {}
        BY Zenon DEF QueueInv, QueueTypes, Lines
      <3>1. CASE pc = "freeRunning"
        <4>1. it \in DOMAIN running /\ r = running[it] /\ r \in SeqIds /\ r \in Range(running)
          BY <2>1, <3>0, <3>1, Places DEF FreeFinishedQueue
        <4> HIDE DEF r
        <4>2. /\ running' \in Seq(SeqIds) /\ IsInjective(running')
              /\ Range(running') = Range(running) \ {r}
          BY <2>1, <3>0, <3>1, <4>1, EraseElements
        <4> QED BY <2>1, <3>0, <3>1, <4>1, <4>2, Zenon
      <3>2. CASE pc # "freeRunning"
        <4>1. it \in DOMAIN waiting /\ r = waiting[it] /\ r \in SeqIds /\ r \in Range(waiting)
          BY <2>1, <3>0, <3>2, Places DEF FreeFinishedQueue
        <4> HIDE DEF r
        <4>2. /\ waiting' \in Seq(SeqIds) /\ IsInjective(waiting')
              /\ Range(waiting') = Range(waiting) \ {r}
          BY <2>1, <3>0, <3>2, <4>1, EraseElements
        <4> QED BY <2>1, <3>0, <3>2, <4>1, <4>2, Zenon
      <3> QED BY <3>1, <3>2, Zenon
    <2> HIDE DEF r
    <2>4. /\ status' \in [SeqIds -> Status] /\ status'[r] = "GONE"
          /\ \A q \in SeqIds \ {r} : status'[q] = status[q]
      BY <2>1, <2>3, Zenon DEF QueueInv, QueueTypes, Status
    <2>5. Control' /\ QueueTypes'
      BY <2>1, <2>3, <2>4, Zenon DEF QueueInv, Control, QueueTypes
    <2>6. Lines'
      <3>1. {q \in SeqIds : status'[q] \notin {"NEW", "GONE"}}
              = {q \in SeqIds : status[q] \notin {"NEW", "GONE"}} \ {r}
        BY <2>4, Zenon
      <3>2. \A q \in request_map' : status'[q] \notin {"NEW", "GONE"}
        BY <2>1, <2>4, Zenon DEF QueueInv, Lines, QueueTypes
      <3> QED BY <2>1, <2>3, <3>1, <3>2, SMTT(30) DEF QueueInv, Lines
    <2>7. Statuses'
      <3>1. /\ Range(waiting') \subseteq SeqIds \ {r} /\ Range(running') \subseteq SeqIds \ {r}
            /\ Range(swapped) \subseteq SeqIds \ {r}
        BY <2>3, RangeInSet, Zenon DEF QueueInv, QueueTypes
      <3> QED BY <2>1, <2>3, <2>4, <3>1, Zenon DEF QueueInv, Statuses
    <2>8. Cursors' /\ ScheduledRun'
      BY <2>1, <2>2, Zenon
         DEF Cursors, ScheduledRun, DecodeLabels, ScheduleLabels, UsesScheduled
    <2> QED BY <2>5, <2>6, <2>7, <2>8, Zenon DEF QueueInv
  <1> QED BY <1>1, <1>2, Zenon DEF InFreeFinishedLoop, FreeFinishedStep

(* A step that changes nothing. *)
LEMMA QueueStutter == ASSUME QueueInv, UNCHANGED vars PROVE QueueInv'
  <1>1. UNCHANGED <<waiting, running, swapped, scheduled, request_map, status, freeing, it, group,
                    pc, phase, config>>
    BY Zenon DEF vars, bmVars, schedVars, queueVars, seqVars, outputVars, batchVars
  <1>2. Control' /\ QueueTypes' /\ Cursors'
    BY <1>1 DEF QueueInv, Control, QueueTypes, Cursors, Finished
  <1>3. Lines' /\ Statuses' /\ ScheduledRun'
    BY <1>1, Zenon DEF QueueInv, Lines, Statuses, ScheduledRun
  <1> QED BY <1>2, <1>3, Zenon DEF QueueInv

(* The queue invariant holds in every reachable state, for any number of   *)
(* requests and any of the configurations, and with clients that submit    *)
(* and abort whenever Scheduler::mu_ is free.                              *)
THEOREM QueuesAlways == Spec => []QueueInv
  <1>1. ASSUME QueueInv, [Next]_vars PROVE QueueInv'
    <2>1. CASE UNCHANGED vars
      BY <1>1, <2>1, QueueStutter, Zenon
    <2>2. CASE Next
      BY <1>1, <2>2, QueueSchedule, QueueClient, QueueEngine, QueueAppend, QueueFree, QueueStutter, Zenon
         DEF Next, Engine, Terminated
    <2> QED BY <1>1, <2>1, <2>2, Zenon
  <1> QED BY <1>1, QueueInit, PTL DEF Spec

(* The groups SchedulerOutput names are in running_, each once, until      *)
(* update_after_decode has used them: no dangling pointer.                 *)
THEOREM ScheduledAliveAlways == Spec => []ScheduledAlive
  <1>1. QueueInv => ScheduledAlive
    BY Zenon DEF QueueInv, ScheduledRun, ScheduledAlive, UsesScheduled
  <1> QED BY <1>1, QueuesAlways, PTL

(* A request is in exactly one of the three queues, once, from submission  *)
(* until it is destroyed.                                                  *)
THEOREM OneQueueAlways == Spec => []OneQueue
  <1>1. ASSUME QueueInv PROVE OneQueue
    <2> DEFINE two == waiting \o running
    <2>1. /\ waiting \in Seq(SeqIds) /\ running \in Seq(SeqIds) /\ swapped \in Seq(SeqIds)
          /\ Lines
      BY <1>1, Zenon DEF QueueInv, QueueTypes
    <2>2. /\ two \in Seq(SeqIds) /\ Range(two) = Range(waiting) \cup Range(running)
          /\ IsInjective(two)
      BY <2>1, ConcatElements DEF Lines
    <2> HIDE DEF two
    <2>3. /\ Range(two \o swapped) = Range(two) \cup Range(swapped)
          /\ IsInjective(two) /\ IsInjective(swapped) /\ Range(two) \cap Range(swapped) = {}
               => IsInjective(two \o swapped)
      BY <2>1, <2>2, ConcatElements
    <2>4. Range(two) \cap Range(swapped) = {}
      BY <2>1, <2>2, Zenon DEF Lines
    <2>5. /\ IsInjective(two \o swapped)
          /\ Range(two \o swapped) = {r \in SeqIds : status[r] \notin {"NEW", "GONE"}}
      BY <2>1, <2>2, <2>3, <2>4, Zenon DEF Lines
    <2> QED BY <2>5, Zenon DEF OneQueue, two
  <1> QED BY <1>1, QueuesAlways, PTL

-----------------------------------------------------------------------------
(* Order.  SortedBy(s, E): every element of s is related by E to every     *)
(* element behind it.                                                      *)

SortedBy(s, E) == \A i, j \in DOMAIN s : i < j => <<s[i], s[j]>> \in E

(* What the queue operations do to a sorted queue. *)
LEMMA SortedPopBack ==
    ASSUME NEW S, NEW s \in Seq(S), NEW E, SortedBy(s, E), s # <<>>
    PROVE  /\ SortedBy(PopBack(s), E)
           /\ \A x \in Range(PopBack(s)) : <<x, Back(s)>> \in E
  <1>1. /\ Len(s) \in Nat \ {0} /\ DOMAIN s = 1 .. Len(s) /\ Back(s) = s[Len(s)]
        /\ DOMAIN PopBack(s) = 1 .. Len(s) - 1 /\ \A i \in 1 .. Len(s) - 1 : PopBack(s)[i] = s[i]
    BY Places, EmptySeq, LenProperties DEF PopBack, Back, SubSeq
  <1>2. SortedBy(PopBack(s), E)
    BY <1>1 DEF SortedBy
  <1>3. ASSUME NEW x \in Range(PopBack(s)) PROVE <<x, Back(s)>> \in E
    BY <1>1, <1>3 DEF SortedBy, Range
  <1> QED BY <1>2, <1>3, Zenon

LEMMA SortedTail ==
    ASSUME NEW S, NEW s \in Seq(S), NEW E, SortedBy(s, E), s # <<>>
    PROVE  /\ SortedBy(Tail(s), E)
           /\ \A x \in Range(Tail(s)) : <<Head(s), x>> \in E
  <1>1. /\ Len(s) \in Nat \ {0} /\ DOMAIN s = 1 .. Len(s) /\ Head(s) = s[1]
        /\ DOMAIN Tail(s) = 1 .. Len(s) - 1 /\ \A i \in 1 .. Len(s) - 1 : Tail(s)[i] = s[i + 1]
    BY EmptySeq, LenProperties, HeadTailProperties
  <1>2. SortedBy(Tail(s), E)
    BY <1>1 DEF SortedBy
  <1>3. ASSUME NEW x \in Range(Tail(s)) PROVE <<Head(s), x>> \in E
    BY <1>1, <1>3 DEF SortedBy, Range
  <1> QED BY <1>2, <1>3, Zenon

LEMMA SortedConcat ==
    ASSUME NEW S, NEW s \in Seq(S), NEW t \in Seq(S), NEW E, SortedBy(s, E), SortedBy(t, E),
           \A x \in Range(s), y \in Range(t) : <<x, y>> \in E
    PROVE  SortedBy(s \o t, E)
  <1> DEFINE c == s \o t
  <1>1. /\ Len(s) \in Nat /\ DOMAIN s = 1 .. Len(s) /\ Len(t) \in Nat /\ DOMAIN t = 1 .. Len(t)
        /\ DOMAIN c = 1 .. Len(s) + Len(t)
        /\ \A i \in 1 .. Len(s) + Len(t) : c[i] = IF i <= Len(s) THEN s[i] ELSE t[i - Len(s)]
    BY ConcatProperties, LenProperties
  <1> HIDE DEF c
  <1>2. SUFFICES ASSUME NEW i \in DOMAIN c, NEW j \in DOMAIN c, i < j
                 PROVE  <<c[i], c[j]>> \in E
    BY Zenon DEF SortedBy, c
  <1>3. CASE j <= Len(s)
    BY <1>1, <1>2, <1>3 DEF SortedBy
  <1>4. CASE i > Len(s)
    <2>1. /\ i - Len(s) \in DOMAIN t /\ j - Len(s) \in DOMAIN t /\ i - Len(s) < j - Len(s)
          /\ c[i] = t[i - Len(s)] /\ c[j] = t[j - Len(s)]
      BY <1>1, <1>2, <1>4
    <2> QED BY <2>1, Zenon DEF SortedBy
  <1>5. CASE i <= Len(s) /\ j > Len(s)
    <2>1. i \in DOMAIN s /\ j - Len(s) \in DOMAIN t /\ c[i] = s[i] /\ c[j] = t[j - Len(s)]
      BY <1>1, <1>2, <1>5
    <2>2. s[i] \in Range(s) /\ t[j - Len(s)] \in Range(t)
      BY <1>1, <2>1, Places, Zenon
    <2> QED BY <2>1, <2>2, Zenon
  <1>6. Len(s) \in Nat /\ i \in Nat /\ j \in Nat
    BY <1>1
  <1> QED BY <1>3, <1>4, <1>5, <1>6

LEMMA SortedOne ==
    ASSUME NEW E, NEW e
    PROVE  SortedBy(<<e>>, E) /\ Range(<<e>>) = {e}
  BY DEF SortedBy, Range

LEMMA SortedAppend ==
    ASSUME NEW S, NEW s \in Seq(S), NEW e \in S, NEW E, SortedBy(s, E),
           \A x \in Range(s) : <<x, e>> \in E
    PROVE  SortedBy(Append(s, e), E)
  <1> DEFINE o == <<e>>
  <1>1. Append(s, e) = s \o o /\ o \in Seq(S)
    BY AppendIsConcat
  <1>2. SortedBy(o, E) /\ Range(o) = {e}
    BY SortedOne, Zenon
  <1> HIDE DEF o
  <1>3. \A x \in Range(s), y \in Range(o) : <<x, y>> \in E
    BY <1>2, Zenon
  <1>4. SortedBy(s \o o, E)
    BY <1>1, <1>2, <1>3, SortedConcat, Zenon
  <1> QED BY <1>1, <1>4, Zenon

LEMMA SortedErase ==
    ASSUME NEW S, NEW s \in Seq(S), NEW k \in DOMAIN s, NEW E, SortedBy(s, E)
    PROVE  SortedBy(Erase(s, k), E)
  <1> DEFINE t == Erase(s, k)
  <1>1. /\ \A i \in DOMAIN t : /\ i \in DOMAIN s /\ i + 1 \in DOMAIN s
                               /\ t[i] = IF i < k THEN s[i] ELSE s[i + 1]
        /\ DOMAIN s = 1 .. Len(s)
    BY EraseElements, LenProperties
  <1> HIDE DEF t
  <1>2. SortedBy(t, E)
    BY <1>1 DEF SortedBy
  <1> QED BY <1>2, Zenon DEF t

HigherFirst == {e \in SeqIds \X SeqIds : Priority[e[1]] >= Priority[e[2]]}

Earlier ==
    {e \in SeqIds \X SeqIds :
        \E m, n \in DOMAIN arrivals : m < n /\ arrivals[m] = e[1] /\ arrivals[n] = e[2]}

(* schedule_prefills works on a sorted queue; requests arrive once;        *)
(* recomputation uses no swap queue; and FCFS with recomputation keeps the *)
(* queues in order of arrival, running_ ahead of waiting_.                 *)
OrderInv ==
    /\ Policy = "PRIORITY" /\ pc \in {"prefill", "prefillAlloc"} => SortedBy(waiting, HigherFirst)
    /\ arrivals \in Seq(SeqIds) /\ IsInjective(arrivals)
    /\ Range(arrivals) = {r \in SeqIds : status[r] # "NEW"}
    /\ PreemptionMode = "RECOMPUTE" =>
          swapped = <<>> /\ pc \notin {"swapOut", "swapOutFree", "swapInAlloc"}
    /\ Policy = "FCFS" /\ PreemptionMode = "RECOMPUTE" =>
          /\ SortedBy(running, Earlier) /\ SortedBy(waiting, Earlier)
          /\ \A x \in Range(running), y \in Range(waiting) : <<x, y>> \in Earlier

(* The actions that change a queue. *)
MovesQueue ==
    \/ \E r \in SeqIds : Submit(r)
    \/ /\ InSchedule
       /\ PreemptRecompute \/ SwapOutEnd \/ SortWaiting \/ PrefillSchedule \/ SwapInEnd
    \/ InFreeFinishedLoop /\ FreeFinishedErase

(* What every other step leaves alone. *)
LEMMA QueuesStay ==
    ASSUME QueueInv, [Next]_vars, ~MovesQueue
    PROVE  /\ UNCHANGED <<waiting, running, swapped, arrivals, config>>
           /\ pc' \in {"prefill", "prefillAlloc"} => pc \in {"prefill", "prefillAlloc"}
           /\ pc' \in {"swapOut", "swapOutFree"} =>
                 pc \in {"swapOut", "swapOutFree"} \/ PreemptionMode = "SWAP"
           /\ pc' = "swapInAlloc" => pc = "swapInAlloc" \/ swapped # <<>>
           /\ \A r \in SeqIds : status'[r] \in {status[r], "RUNNING", "SWAPPED"} \cup Done
  <1> DEFINE Same == UNCHANGED <<waiting, running, swapped, arrivals, config>>
             Label == /\ pc' \in {"prefill", "prefillAlloc"} => pc \in {"prefill", "prefillAlloc"}
                      /\ pc' \in {"swapOut", "swapOutFree"} =>
                            pc \in {"swapOut", "swapOutFree"} \/ PreemptionMode = "SWAP"
                      /\ pc' = "swapInAlloc" => pc = "swapInAlloc" \/ swapped # <<>>
             Stat == \A r \in SeqIds : status'[r] \in {status[r], "RUNNING", "SWAPPED"} \cup Done
  <1> SUFFICES Same /\ Label /\ Stat
    BY Zenon
  <1> USE DEF At, bmVars, queueVars, seqVars, schedVars, innerVars, budgetVars, outputVars, batchVars
  <1>0. status \in [SeqIds -> Status]
    BY Zenon DEF QueueInv, QueueTypes
  <1>1. CASE UNCHANGED vars
    BY <1>1, Zenon DEF vars
  <1>2. ASSUME NEW r \in SeqIds, Abort(r) PROVE Same /\ Label /\ Stat
    BY <1>0, <1>2, Zenon DEF Abort, abort_request, Done
  <1>3. CASE CallSchedule \/ AfterSchedule \/ CallFreeFinished \/ AfterFreeFinished
    BY <1>3, Zenon
       DEF CallSchedule, ScheduleEnter, AfterSchedule, ScheduleReturn, CallFreeFinished,
                FreeFinishedEnter, AfterFreeFinished, FreeFinishedReturn
  <1>4. CASE BuildNext \/ BuildReturn \/ Step \/ UpdateSkip \/ UpdateCheck \/ UpdateReturn
    BY <1>4, Zenon
       DEF BuildNext, BuildReturn, Step, UpdateSkip, UpdateCheck, UpdateReturn
  <1>5. CASE UpdateAppend
    BY <1>0, <1>5, Zenon DEF UpdateAppend, Done
  <1>6. CASE InFreeBlocks
    BY <1>6, Zenon DEF InFreeBlocks, FreeBlocksStep
  <1>7. CASE InFreeFinishedLoop /\ (FreeFinishedSkip \/ FreeFinishedEnd)
    BY <1>7, Zenon DEF InFreeFinishedLoop, FreeFinishedSkip, FreeFinishedEnd
  <1>8. CASE InSchedule /\ (DecodeSkip \/ DecodeCheck \/ DecodeSchedule \/ DecodeEnd \/ PreemptSwap)
    BY <1>0, <1>8, Zenon
       DEF InSchedule, DecodeSkip, DecodeCheck, DecodeSchedule, DecodeEnd, PreemptSwap
  <1>9. CASE InSchedule /\ (DecodeAllocate \/ SwapOutAllocate \/ SwapOutFree \/ PrefillAllocate \/ SwapInAllocate)
    BY <1>9, Zenon
       DEF InSchedule, DecodeAllocate, SwapOutAllocate, SwapOutFree, PrefillAllocate, SwapInAllocate,
                AllocateLogical, allocate_block
  <1>10. CASE InSchedule /\ (PrefillAdmit \/ PrefillEnd \/ SwapInAdmit \/ SwapInStop)
    BY <1>0, <1>10, Zenon
       DEF InSchedule, PrefillAdmit, PrefillEnd, SwapInAdmit, SwapInStop, CanSwapIn
  <1> HIDE DEF Same, Label, Stat
  <1>11. CASE InSchedule
    BY <1>11, <1>8, <1>9, <1>10, Zenon DEF InSchedule, ScheduleStep, MovesQueue
  <1>12. CASE InFreeFinishedLoop
    BY <1>12, <1>7, Zenon DEF InFreeFinishedLoop, FreeFinishedStep, MovesQueue
  <1> QED BY <1>1, <1>2, <1>3, <1>4, <1>5, <1>6, <1>11, <1>12, Zenon DEF Next, Engine, Terminated, MovesQueue

LEMMA OrderStay ==
    ASSUME QueueInv, QueueInv', OrderInv, [Next]_vars, ~MovesQueue
    PROVE  OrderInv'
  <1>1. /\ UNCHANGED <<waiting, running, swapped, arrivals, config>>
        /\ pc' \in {"prefill", "prefillAlloc"} => pc \in {"prefill", "prefillAlloc"}
        /\ pc' \in {"swapOut", "swapOutFree"} =>
              pc \in {"swapOut", "swapOutFree"} \/ PreemptionMode = "SWAP"
        /\ pc' = "swapInAlloc" => pc = "swapInAlloc" \/ swapped # <<>>
        /\ \A r \in SeqIds : status'[r] \in {status[r], "RUNNING", "SWAPPED"} \cup Done
    BY QueuesStay, Zenon
  <1>2. HigherFirst' = HigherFirst /\ Earlier' = Earlier
    BY <1>1, Zenon DEF HigherFirst, Earlier
  <1>3. \A r \in SeqIds : status'[r] = "NEW" <=> status[r] = "NEW"
    <2>1. {r \in SeqIds : status[r] \notin {"NEW", "GONE"}}
            = {r \in SeqIds : status'[r] \notin {"NEW", "GONE"}}
      BY <1>1, Zenon DEF QueueInv, Lines
    <2> QED BY <1>1, <2>1, Zenon DEF Done
  <1>4. Range(arrivals') = {r \in SeqIds : status'[r] # "NEW"}
    BY <1>1, <1>3, Zenon DEF OrderInv
  <1> QED BY <1>1, <1>2, <1>4, Zenon DEF OrderInv, Policy, PreemptionMode, SortedBy

(* add_request: the new request is the latest arrival. *)
LEMMA OrderSubmit ==
    ASSUME QueueInv, OrderInv, NEW r \in SeqIds, Submit(r)
    PROVE  OrderInv'
  <1>1. /\ pc = "unlocked" /\ status[r] = "NEW" /\ status' = [status EXCEPT ![r] = "WAITING"]
        /\ waiting' = Append(waiting, r) /\ arrivals' = Append(arrivals, r)
        /\ UNCHANGED <<running, swapped, pc, config>>
    BY Zenon DEF Submit, add_request, At
  <1>2. /\ arrivals \in Seq(SeqIds) /\ IsInjective(arrivals)
        /\ Range(arrivals) = {q \in SeqIds : status[q] # "NEW"} /\ status \in [SeqIds -> Status]
        /\ waiting \in Seq(SeqIds)
    BY Zenon DEF OrderInv, QueueInv, QueueTypes
  <1>3. /\ arrivals' \in Seq(SeqIds) /\ IsInjective(arrivals') /\ Range(arrivals') = Range(arrivals) \cup {r}
    BY <1>1, <1>2, AppendElements
  <1>4. Range(arrivals') = {q \in SeqIds : status'[q] # "NEW"}
    BY <1>1, <1>2, <1>3, Zenon
  <1>5. /\ Len(arrivals) \in Nat /\ DOMAIN arrivals = 1 .. Len(arrivals)
        /\ DOMAIN arrivals' = 1 .. Len(arrivals) + 1 /\ arrivals'[Len(arrivals) + 1] = r
        /\ \A i \in DOMAIN arrivals : arrivals'[i] = arrivals[i]
    BY <1>1, <1>2, AppendProperties, LenProperties
  <1>6. Earlier \subseteq Earlier'
    BY <1>5 DEF Earlier
  <1>7. \A x \in Range(arrivals) : <<x, r>> \in Earlier'
    <2> SUFFICES ASSUME NEW x \in Range(arrivals) PROVE <<x, r>> \in Earlier'
      BY Zenon
    <2>1. PICK m \in DOMAIN arrivals : arrivals[m] = x
      BY Zenon DEF Range
    <2>2. m \in DOMAIN arrivals' /\ Len(arrivals) + 1 \in DOMAIN arrivals' /\ m < Len(arrivals) + 1
      BY <1>5, <2>1
    <2> QED BY <1>2, <1>5, <2>1, <2>2, Zenon DEF Earlier
  <1>8. ASSUME Policy = "FCFS", PreemptionMode = "RECOMPUTE"
        PROVE  /\ SortedBy(running', Earlier') /\ SortedBy(waiting', Earlier')
               /\ \A x \in Range(running'), y \in Range(waiting') : <<x, y>> \in Earlier'
    <2>1. /\ SortedBy(running, Earlier) /\ SortedBy(waiting, Earlier)
          /\ \A x \in Range(running), y \in Range(waiting) : <<x, y>> \in Earlier
      BY <1>8, Zenon DEF OrderInv
    <2>2. Range(running) \subseteq Range(arrivals) /\ Range(waiting) \subseteq Range(arrivals)
      BY <1>2, Zenon DEF QueueInv, Lines
    <2>3. SortedBy(running', Earlier') /\ SortedBy(waiting, Earlier')
      BY <1>1, <1>6, <2>1, Zenon DEF SortedBy
    <2>4. SortedBy(waiting', Earlier')
      <3> HIDE DEF Earlier
      <3> QED BY <1>1, <1>2, <1>7, <2>2, <2>3, SortedAppend, Zenon
    <2>5. Range(waiting') = Range(waiting) \cup {r}
      BY <1>1, <1>2, AppendElements
    <2> QED BY <1>1, <1>6, <1>7, <2>1, <2>2, <2>3, <2>4, <2>5, Zenon
  <1> QED BY <1>1, <1>3, <1>4, <1>8, Zenon DEF OrderInv, Policy, PreemptionMode

(* preempt takes the youngest running group and puts it ahead of all that  *)
(* wait.                                                                   *)
LEMMA OrderPreempt ==
    ASSUME QueueInv, OrderInv, InSchedule, PreemptRecompute
    PROVE  OrderInv'
  <1> DEFINE v == Victim
             o == <<v>>
  <1>1. /\ pc = "preempt" /\ pc' = "sort" /\ waiting' = o \o waiting /\ running' = PopBack(running)
        /\ status' \in {status, [status EXCEPT ![v] = "PREEMPTED"]}
        /\ UNCHANGED <<swapped, arrivals, config>>
    BY Zenon DEF PreemptRecompute, RequeueVictim, InSchedule, At, seqVars
  <1>2. /\ v \in SeqIds /\ running # <<>> /\ status[v] # "NEW" /\ v = Back(running)
        /\ Range(PopBack(running)) = Range(running) \ {v}
    BY <1>1, QueueVictim, Zenon DEF Done, Victim
  <1>3. o \in Seq(SeqIds) /\ SortedBy(o, Earlier) /\ Range(o) = {v}
    BY <1>2, SortedOne
  <1> HIDE DEF v, o
  <1>4. Range(arrivals') = {q \in SeqIds : status'[q] # "NEW"}
    BY <1>1, <1>2, Zenon DEF OrderInv, QueueInv, QueueTypes
  <1>5. ASSUME Policy = "FCFS", PreemptionMode = "RECOMPUTE"
        PROVE  /\ SortedBy(running', Earlier) /\ SortedBy(waiting', Earlier)
               /\ \A x \in Range(running'), y \in Range(waiting') : <<x, y>> \in Earlier
    <2>1. /\ SortedBy(running, Earlier) /\ SortedBy(waiting, Earlier)
          /\ \A x \in Range(running), y \in Range(waiting) : <<x, y>> \in Earlier
          /\ running \in Seq(SeqIds) /\ waiting \in Seq(SeqIds)
      BY <1>5, Zenon DEF OrderInv, QueueInv, QueueTypes
    <2>2. SortedBy(running', Earlier) /\ \A x \in Range(running') : <<x, v>> \in Earlier
      BY <1>1, <1>2, <2>1, SortedPopBack, Zenon
    <2>3. v \in Range(running)
      BY <1>2, <2>1, Places, Zenon
    <2>4. SortedBy(waiting', Earlier)
      BY <1>1, <1>3, <2>1, <2>3, SortedConcat, Zenon
    <2>5. Range(waiting') = {v} \cup Range(waiting)
      BY <1>1, <1>3, <2>1, ConcatElements
    <2> QED BY <1>1, <1>2, <2>1, <2>2, <2>4, <2>5, Zenon
  <1>6. Earlier' = Earlier
    BY <1>1, Zenon DEF Earlier
  <1> QED BY <1>1, <1>4, <1>5, <1>6, Zenon DEF OrderInv, Policy, PreemptionMode

(* The sort of the waiting queue is by priority, or by arrival where it    *)
(* already was.                                                            *)
LEMMA OrderSort ==
    ASSUME QueueInv, OrderInv, InSchedule, SortWaiting
    PROVE  OrderInv'
  <1>1. pc' = "prefill" /\ UNCHANGED <<running, swapped, status, arrivals, config>>
    BY Zenon DEF SortWaiting, InSchedule, seqVars
  <1>2. PICK p \in Bijection(DOMAIN waiting, DOMAIN waiting) :
           /\ StableOrder(waiting, p)
           /\ waiting' = [i \in DOMAIN waiting |-> waiting[p[i]]]
    BY Zenon DEF SortWaiting
  <1>3. /\ \A i \in DOMAIN waiting : p[i] \in DOMAIN waiting /\ waiting'[i] = waiting[p[i]]
        /\ DOMAIN waiting' = DOMAIN waiting
    BY <1>2, Zenon DEF Bijection, Injection
  <1>4. /\ waiting \in Seq(SeqIds) /\ \A i \in DOMAIN waiting : waiting[i] \in SeqIds
        /\ DOMAIN waiting = 1 .. Len(waiting)
    BY Places, Zenon DEF QueueInv, QueueTypes
  <1>5. Range(waiting') = Range(waiting)
    <2>1. Range([i \in DOMAIN waiting |-> waiting[p[i]]]) = Range(waiting)
      BY <1>4, PermuteElements, Zenon
    <2> QED BY <1>2, <2>1, Zenon
  <1>6. ASSUME Policy = "PRIORITY" PROVE SortedBy(waiting', HigherFirst)
    <2> SUFFICES ASSUME NEW i \in DOMAIN waiting, NEW j \in DOMAIN waiting, i < j
                 PROVE  <<waiting[p[i]], waiting[p[j]]>> \in HigherFirst
      BY <1>3 DEF SortedBy
    <2>1. waiting[p[i]] \in SeqIds /\ waiting[p[j]] \in SeqIds
      BY <1>3, <1>4, Zenon
    <2>2. Priority[waiting[p[i]]] \in Int /\ Priority[waiting[p[j]]] \in Int
      BY <2>1, SchedulerConstants, Zenon
    <2>3. \/ Priority[waiting[p[i]]] > Priority[waiting[p[j]]]
          \/ ~(Priority[waiting[p[j]]] > Priority[waiting[p[i]]])
      BY <1>2, <1>6, Zenon DEF StableOrder, Before
    <2> QED BY <2>1, <2>2, <2>3 DEF HigherFirst
  <1>7. ASSUME Policy = "FCFS", SortedBy(waiting, Earlier)
        PROVE  SortedBy(waiting', Earlier)
    <2>1. \A i, j \in DOMAIN waiting : i < j => p[i] < p[j]
      BY <1>2, <1>7, Zenon DEF StableOrder, Before
    <2> QED BY <1>3, <1>7, <2>1 DEF SortedBy
  <1>8. Earlier' = Earlier /\ HigherFirst' = HigherFirst
    BY <1>1, Zenon DEF Earlier, HigherFirst
  <1> QED BY <1>1, <1>5, <1>6, <1>7, <1>8, Zenon DEF OrderInv, Policy, PreemptionMode

(* schedule_prefills moves the head of the waiting queue, the oldest of    *)
(* those that wait, behind the groups that run.                            *)
LEMMA OrderPrefill ==
    ASSUME QueueInv, OrderInv, InSchedule, PrefillSchedule
    PROVE  OrderInv'
  <1> DEFINE h == Head(waiting)
  <1>1. /\ pc = "prefillAlloc" /\ pc' = "prefill"
        /\ waiting' = Tail(waiting) /\ running' = Append(running, h)
        /\ UNCHANGED <<swapped, status, arrivals, config>>
    BY Zenon DEF PrefillSchedule, InSchedule, At, seqVars
  <1>2. /\ waiting # <<>> /\ waiting \in Seq(SeqIds) /\ running \in Seq(SeqIds)
    BY <1>1, Zenon DEF QueueInv, QueueTypes, Cursors
  <1>3. h \in SeqIds /\ h \in Range(waiting) /\ Range(Tail(waiting)) = Range(waiting) \ {h}
    BY <1>2, QueueHead, Zenon
  <1>4. \A E : SortedBy(waiting, E) => /\ SortedBy(waiting', E)
                                       /\ \A x \in Range(waiting') : <<h, x>> \in E
    BY <1>1, <1>2, SortedTail, Zenon
  <1> HIDE DEF h
  <1>5. ASSUME Policy = "FCFS", PreemptionMode = "RECOMPUTE"
        PROVE  /\ SortedBy(running', Earlier) /\ SortedBy(waiting', Earlier)
               /\ \A x \in Range(running'), y \in Range(waiting') : <<x, y>> \in Earlier
    <2>1. /\ SortedBy(running, Earlier) /\ SortedBy(waiting, Earlier)
          /\ \A x \in Range(running), y \in Range(waiting) : <<x, y>> \in Earlier
      BY <1>5, Zenon DEF OrderInv
    <2>2. SortedBy(running', Earlier)
      BY <1>1, <1>2, <1>3, <2>1, SortedAppend, Zenon
    <2>3. Range(running') = Range(running) \cup {h}
      BY <1>1, <1>2, <1>3, AppendElements
    <2> QED BY <1>1, <1>3, <1>4, <2>1, <2>2, <2>3, Zenon
  <1>6. Earlier' = Earlier /\ HigherFirst' = HigherFirst
    BY <1>1, Zenon DEF Earlier, HigherFirst
  <1> QED BY <1>1, <1>4, <1>5, <1>6, Zenon DEF OrderInv, Policy, PreemptionMode

(* free_finished_requests takes groups out and leaves the rest in order. *)
LEMMA OrderErase ==
    ASSUME QueueInv, QueueInv', OrderInv, InFreeFinishedLoop, FreeFinishedErase
    PROVE  OrderInv'
  <1> DEFINE r == FreeFinishedQueue[it]
  <1>1. /\ pc \in {"freeRunning", "freeWaiting"} /\ it <= Len(FreeFinishedQueue)
        /\ pc = "freeRunning" => running' = Erase(running, it) /\ waiting' = waiting
        /\ pc # "freeRunning" => waiting' = Erase(waiting, it) /\ running' = running
        /\ status' = [status EXCEPT ![r] = "GONE"] /\ status[r] # "NEW"
        /\ UNCHANGED <<swapped, pc, arrivals, config>>
    BY Zenon DEF FreeFinishedErase, InFreeFinished, InFreeFinishedLoop, At, Finished
  <1> HIDE DEF r
  <1>2. /\ waiting \in Seq(SeqIds) /\ running \in Seq(SeqIds) /\ it \in Nat \ {0}
        /\ IsInjective(waiting) /\ IsInjective(running) /\ status \in [SeqIds -> Status]
    BY Zenon DEF QueueInv, QueueTypes, Lines
  <1>3. it \in DOMAIN FreeFinishedQueue
    BY <1>1, <1>2, LenProperties DEF FreeFinishedQueue
  <1>4. /\ Range(running') \subseteq Range(running) /\ Range(waiting') \subseteq Range(waiting)
        /\ \A E : SortedBy(running, E) => SortedBy(running', E)
        /\ \A E : SortedBy(waiting, E) => SortedBy(waiting', E)
    <2>1. CASE pc = "freeRunning"
      BY <1>1, <1>2, <1>3, <2>1, EraseElements, SortedErase DEF FreeFinishedQueue
    <2>2. CASE pc # "freeRunning"
      BY <1>1, <1>2, <1>3, <2>2, EraseElements, SortedErase DEF FreeFinishedQueue
    <2> QED BY <2>1, <2>2, Zenon
  <1>5. Range(arrivals') = {q \in SeqIds : status'[q] # "NEW"}
    BY <1>1, <1>2, Zenon DEF OrderInv
  <1>6. Earlier' = Earlier
    BY <1>1, Zenon DEF Earlier
  <1> QED BY <1>1, <1>4, <1>5, <1>6, Zenon DEF OrderInv, Policy, PreemptionMode

(* The order invariant holds for any number of requests with any           *)
(* priorities.                                                             *)
THEOREM OrderAlways == Spec => []OrderInv
  <1>1. Init => OrderInv
    <2> SUFFICES ASSUME Init PROVE OrderInv
      OBVIOUS
    <2>1. /\ <<>> \in Seq(SeqIds) /\ IsInjective(<<>>) /\ Range(<<>>) = {}
          /\ \A E : SortedBy(<<>>, E)
      BY DEF IsInjective, Range, SortedBy
    <2> QED BY <2>1, Zenon DEF Init, SchedInit, OrderInv
  <1>2. ASSUME QueueInv, QueueInv', OrderInv, [Next]_vars PROVE OrderInv'
    <2>1. CASE \E r \in SeqIds : Submit(r)
      BY <1>2, <2>1, OrderSubmit, Zenon
    <2>2. CASE InSchedule /\ (SwapOutEnd \/ SwapInEnd)
      <3>1. /\ pc \in {"swapOut", "swapInAlloc"} /\ pc' \in {"sort", "swapIn"}
            /\ UNCHANGED <<arrivals, status, config>>
        BY <2>2, Zenon DEF InSchedule, SwapOutEnd, SwapInEnd, At, seqVars
      <3>2. PreemptionMode # "RECOMPUTE" /\ PreemptionMode' = PreemptionMode
        BY <1>2, <3>1, Zenon DEF OrderInv, PreemptionMode
      <3> QED BY <1>2, <3>1, <3>2, Zenon DEF OrderInv
    <2>3. CASE InSchedule /\ (PreemptRecompute \/ SortWaiting \/ PrefillSchedule)
      BY <1>2, <2>3, OrderPreempt, OrderSort, OrderPrefill, Zenon
    <2>4. CASE InFreeFinishedLoop /\ FreeFinishedErase
      BY <1>2, <2>4, OrderErase, Zenon
    <2>5. CASE ~MovesQueue
      BY <1>2, <2>5, OrderStay, Zenon
    <2> QED BY <2>1, <2>2, <2>3, <2>4, <2>5, Zenon DEF MovesQueue
  <1> QED BY <1>1, <1>2, QueuesAlways, PTL DEF Spec

(* schedule_prefills admits no request while one of higher priority waits: *)
(* the queue it works on is still sorted, whatever preempt put on it.      *)
THEOREM AdmissionByPriorityAlways == Spec => AdmissionByPriority
  <1>1. ASSUME QueueInv, OrderInv, Policy = "PRIORITY", pc = "prefill", NEW r \in Range(waiting)
        PROVE  Priority[r] <= Priority[Head(waiting)]
    <2>1. PICK i \in DOMAIN waiting : waiting[i] = r
      BY <1>1, Zenon DEF Range
    <2>2. /\ DOMAIN waiting = 1 .. Len(waiting) /\ Len(waiting) \in Nat /\ waiting # <<>>
          /\ Head(waiting) = waiting[1] /\ \A j \in DOMAIN waiting : waiting[j] \in SeqIds
      BY <1>1, <2>1, Places DEF QueueInv, QueueTypes
    <2>3. Priority[waiting[1]] \in Int /\ Priority[waiting[i]] \in Int
      BY <2>2, SchedulerConstants
    <2>4. i > 1 => <<waiting[1], waiting[i]>> \in HigherFirst
      BY <1>1, <2>1, <2>2 DEF OrderInv, SortedBy
    <2>5. i > 1 => Priority[waiting[1]] >= Priority[waiting[i]]
      BY <2>4, Zenon DEF HigherFirst
    <2> QED BY <2>1, <2>2, <2>3, <2>5
  <1>2. ASSUME QueueInv, OrderInv
        PROVE  [Policy = "PRIORITY" /\ pc = "prefill" /\ pc' = "prefillAlloc" =>
                  \A r \in Range(waiting) : Priority[r] <= Priority[Head(waiting)]]_vars
    BY <1>1, <1>2, Zenon
  <1> QED BY <1>2, QueuesAlways, OrderAlways, PTL DEF AdmissionByPriority

(* With FCFS and recomputation no request overtakes an earlier one, in the *)
(* queues or by preemption.                                                *)
THEOREM FcfsOrderAlways == Spec => []FcfsOrder
  <1>1. ASSUME QueueInv, OrderInv PROVE FcfsOrder
    <2> DEFINE line == running \o waiting
               Position(r) == CHOOSE i \in DOMAIN arrivals : arrivals[i] = r
    <2> SUFFICES ASSUME Policy = "FCFS", PreemptionMode = "RECOMPUTE",
                        NEW i \in DOMAIN line, NEW j \in DOMAIN line, i < j
                 PROVE  Position(line[i]) < Position(line[j])
      BY Zenon DEF FcfsOrder
    <2>1. SortedBy(line, Earlier)
      BY <1>1, SortedConcat, Zenon DEF OrderInv, QueueInv, QueueTypes
    <2> HIDE DEF line
    <2>2. <<line[i], line[j]>> \in Earlier
      BY <2>1, Zenon DEF SortedBy
    <2>3. PICK m \in DOMAIN arrivals, n \in DOMAIN arrivals :
             m < n /\ arrivals[m] = line[i] /\ arrivals[n] = line[j]
      BY <2>2, Zenon DEF Earlier
    <2>4. Position(line[i]) = m /\ Position(line[j]) = n
      BY <1>1, <2>3, Zenon DEF OrderInv, IsInjective
    <2> QED BY <2>3, <2>4, Zenon
  <1> QED BY <1>1, QueuesAlways, OrderAlways, PTL

-----------------------------------------------------------------------------
(* Block tables.  Every loop of schedule() that allocates has checked      *)
(* before that the free list is long enough (Inner) and that the budgets   *)
(* are (Budgets), so it never gets INVALID_BLOCK and a running sequence's  *)
(* table holds GPU blocks (TablesOnGpu), enough for the positions the next *)
(* step writes (TablesLong).                                               *)

OnGpu(b) == b \in Blocks /\ b[1] = "CUDA"

Tokens == SeqIds \X Nat

LoopTypes ==
    /\ BMTypeOK
    /\ preempted \in Seq(SeqIds) /\ swapped_in \in Seq(SeqIds)
    /\ output_tokens \in [SeqIds -> Seq(Tokens)]
    /\ logical_blocks \in [SeqIds -> Seq(Blocks \cup {INVALID_BLOCK})]
    /\ cpu_bid \in Blocks \cup {INVALID_BLOCK}
    /\ left \in Nat /\ budget_tokens \in Nat /\ budget_seqs \in Nat
    /\ batch \in Seq(Tokens) /\ new_tokens \in Seq(Tokens) /\ tok_idx \in Nat \ {0}

Budgets ==
    /\ pc = "decodeAlloc" => budget_tokens >= 1 /\ budget_seqs >= 1
    /\ pc = "prefillAlloc" => PromptLen[Head(waiting)] <= budget_tokens /\ budget_seqs >= 1
    /\ pc = "swapInAlloc" => DecodeTokens(Head(swapped)) <= budget_tokens /\ budget_seqs >= 1
    /\ phase = "append" => tok_idx <= Len(new_tokens)

Inner ==
    /\ pc = "decodeAlloc" =>
          BlocksNeeded(running[it]) <= Len(logical_blocks[running[it]]) + Len(free_list["CUDA"])
    /\ pc = "prefillAlloc" =>
          /\ left <= Len(free_list["CUDA"])
          /\ Len(logical_blocks[Head(waiting)]) + left >= BlocksNeeded(Head(waiting))
    /\ pc = "swapInAlloc" =>
          /\ left <= Len(free_list["CUDA"]) /\ left <= Len(logical_blocks[Head(swapped)])
          /\ left > 0 => status[Head(swapped)] = "RUNNING"
    /\ pc \in {"swapOut", "swapOutFree"} =>
          /\ left <= Len(logical_blocks[Victim])
          /\ left > 0 => status[Victim] = "SWAPPED"
    /\ pc = "swapOutFree" => left > 0

TablesOnGpu ==
    /\ \A r \in SeqIds : status[r] = "NEW" => logical_blocks[r] = <<>>
    /\ PreemptionMode = "RECOMPUTE" =>
          \A r \in SeqIds : \A i \in DOMAIN logical_blocks[r] : OnGpu(logical_blocks[r][i])
    /\ \A r \in Range(waiting) : \A i \in DOMAIN logical_blocks[r] : OnGpu(logical_blocks[r][i])
    /\ \A r \in SeqIds : status[r] = "RUNNING" =>
          \A i \in DOMAIN logical_blocks[r] :
              \/ OnGpu(logical_blocks[r][i])
              \/ pc = "swapInAlloc" /\ r = Head(swapped) /\ i >= Cursor(r)
    /\ pc \in {"swapOut", "swapOutFree"} =>
          \A i \in DOMAIN logical_blocks[Victim] : i >= Cursor(Victim) => OnGpu(logical_blocks[Victim][i])

Covers(r, n) == Len(logical_blocks[r]) * BlockSize >= n

TablesLong ==
    \A r \in SeqIds : status[r] \in {"RUNNING", "SWAPPED"} =>
        Covers(r, TotalLen(r) - 1) \/ (pc = "prefillAlloc" /\ r = Head(waiting))

BatchLong ==
    /\ phase \in {"scheduling", "build", "step"} =>
          \A r \in Range(scheduled) : status[r] = "RUNNING" => Covers(r, TotalLen(r))
    /\ phase \in {"update", "append"} =>
          \A i \in group .. Len(scheduled) :
              status[scheduled[i]] = "RUNNING" => Covers(scheduled[i], TotalLen(scheduled[i]))

(* The inductive invariant of the block tables. *)
MemInv == LoopTypes /\ Budgets /\ Inner /\ TablesOnGpu /\ TablesLong /\ BatchLong

-----------------------------------------------------------------------------
(* The rounding up in blocks_needed. *)
LEMMA RoundUp ==
    ASSUME NEW t \in Nat, NEW B \in Nat \ {0}, NEW n \in Nat
    PROVE  /\ (t + B - 1) \div B \in Nat
           /\ n >= (t + B - 1) \div B => n * B >= t
  <1> DEFINE s == t + B - 1
             q == s \div B
  <1>1. s \in Nat
    OBVIOUS
  <1> HIDE DEF s
  <1>2. q \in Nat /\ s % B \in 0 .. B - 1 /\ s = q * B + (s % B)
    BY <1>1, SMT
  <1> HIDE DEF q
  <1>3. q * B >= t
    BY <1>1, <1>2 DEF s
  <1>4. n >= q => n * B >= q * B
    BY <1>2, SMTT(30)
  <1>5. n * B \in Int /\ q * B \in Int
    BY <1>2
  <1> QED BY <1>2, <1>3, <1>4, <1>5 DEF q, s

(* Lengths and block counts are numbers, and blocks_needed blocks hold the *)
(* whole sequence.                                                         *)
LEMMA Lengths ==
    ASSUME LoopTypes, NEW r \in SeqIds
    PROVE  /\ Len(output_tokens[r]) \in Nat /\ TotalLen(r) \in Nat \ {0}
           /\ BlocksNeeded(r) \in Nat /\ Len(logical_blocks[r]) \in Nat
           /\ DOMAIN logical_blocks[r] = 1 .. Len(logical_blocks[r])
           /\ Len(logical_blocks[r]) >= BlocksNeeded(r) => Covers(r, TotalLen(r))
           /\ Covers(r, TotalLen(r)) => Covers(r, TotalLen(r) - 1)
  <1>1. /\ Len(output_tokens[r]) \in Nat /\ Len(logical_blocks[r]) \in Nat
        /\ DOMAIN logical_blocks[r] = 1 .. Len(logical_blocks[r])
        /\ PromptLen[r] \in Nat \ {0} /\ BlockSize \in Nat \ {0}
    BY LenProperties, SchedulerConstants, Zenon DEF LoopTypes
  <1>2. TotalLen(r) \in Nat \ {0}
    BY <1>1 DEF TotalLen
  <1>3. /\ BlocksNeeded(r) \in Nat
        /\ Len(logical_blocks[r]) >= BlocksNeeded(r) => Covers(r, TotalLen(r))
    <2> HIDE DEF TotalLen
    <2> QED BY <1>1, <1>2, RoundUp, Zenon DEF BlocksNeeded, Covers
  <1>4. Len(logical_blocks[r]) * BlockSize \in Nat
    BY <1>1
  <1> QED BY <1>1, <1>2, <1>3, <1>4 DEF Covers

(* build_batch's entries for a sequence are tokens of it. *)
LEMMA EntriesType ==
    ASSUME LoopTypes, NEW r \in SeqIds
    PROVE  EntriesOf(r) \in Seq(Tokens)
  <1>1. PromptLen[r] \in Nat /\ TotalLen(r) \in Nat \ {0}
    BY Lengths, SchedulerConstants, Zenon
  <1>2. [i \in 1 .. PromptLen[r] |-> <<r, i - 1>>] \in Seq(Tokens)
    <2>1. [i \in 1 .. PromptLen[r] |-> <<r, i - 1>>] \in [1 .. PromptLen[r] -> Tokens]
      BY <1>1 DEF Tokens
    <2> QED BY <1>1, <2>1, SeqDef, Zenon
  <1>3. << <<r, TotalLen(r) - 1>> >> \in Seq(Tokens)
    <2>1. <<r, TotalLen(r) - 1>> \in Tokens
      BY <1>1 DEF Tokens
    <2> QED BY <2>1
  <1>4. <<>> \in Seq(Tokens)
    OBVIOUS
  <1> QED BY <1>2, <1>3, <1>4, Zenon DEF EntriesOf

-----------------------------------------------------------------------------
(* Steps that leave the tables alone. *)

TableLabels == {"prefillAlloc", "swapInAlloc", "swapOut", "swapOutFree"}
InnerLabels == {"decodeAlloc"} \cup TableLabels

(* Outside the inner loops only the tables and the queue matter. *)
LEMMA TablesStay ==
    ASSUME MemInv, pc \notin TableLabels, pc' \notin TableLabels,
           UNCHANGED <<status, output_tokens, logical_blocks, config>>,
           Range(waiting') \subseteq Range(waiting)
    PROVE  TablesOnGpu' /\ TablesLong'
  <1> USE DEF TableLabels
  <1>1. TablesOnGpu'
    BY Zenon DEF MemInv, TablesOnGpu, PreemptionMode, OnGpu
  <1>2. TablesLong'
    BY Zenon DEF MemInv, TablesLong, Covers, TotalLen
  <1> QED BY <1>1, <1>2, Zenon

LEMMA MemOutside ==
    ASSUME MemInv, pc \notin InnerLabels, pc' \notin InnerLabels,
           UNCHANGED <<status, output_tokens, logical_blocks, config>>,
           Range(waiting') \subseteq Range(waiting)
    PROVE  Inner' /\ TablesOnGpu' /\ TablesLong'
  BY TablesStay, Zenon DEF Inner, InnerLabels, TableLabels

(* The steps of schedule() that only move on in a loop. *)
LEMMA MemLoop ==
    ASSUME QueueInv, MemInv, InSchedule, DecodeSkip \/ DecodeEnd \/ PrefillEnd \/ SwapInStop
    PROVE  MemInv'
  <1>1. /\ pc \notin InnerLabels /\ pc' \notin InnerLabels
        /\ UNCHANGED <<bmVars, queueVars, seqVars, innerVars, budgetVars, outputVars, batchVars, phase,
                       config>>
    BY Zenon
       DEF InSchedule, DecodeSkip, DecodeEnd, PrefillEnd, SwapInStop, At, InnerLabels, TableLabels
  <1>2. /\ UNCHANGED <<ref_count, free_list, seq_block_map, freeing, waiting, preempted, swapped_in,
                       output_tokens, logical_blocks, status, cpu_bid, left, budget_tokens,
                       budget_seqs, batch, new_tokens, tok_idx, scheduled, group, phase, config>>
    BY <1>1, Zenon
       DEF bmVars, queueVars, seqVars, innerVars, budgetVars, outputVars, batchVars
  <1>3. LoopTypes'
    BY <1>2, Zenon DEF MemInv, LoopTypes, BMTypeOK
  <1>4. Budgets'
    BY <1>1, <1>2, Zenon DEF MemInv, Budgets, InnerLabels, TableLabels
  <1>5. Inner' /\ TablesOnGpu' /\ TablesLong'
    BY <1>1, <1>2, MemOutside, Zenon
  <1>6. BatchLong'
    BY <1>2, Zenon DEF MemInv, BatchLong, Covers, TotalLen
  <1> QED BY <1>3, <1>4, <1>5, <1>6, Zenon DEF MemInv

(* schedule() is entered with full budgets and empty lists. *)
LEMMA MemEnter ==
    ASSUME QueueInv, MemInv, CallSchedule
    PROVE  MemInv'
  <1>1. /\ pc = "unlocked" /\ pc' = "decode" /\ phase' = "scheduling"
        /\ budget_tokens' = MaxBatchedTokens /\ budget_seqs' = MaxNumSeqs
        /\ scheduled' = <<>> /\ preempted' = <<>> /\ swapped_in' = <<>>
        /\ UNCHANGED <<ref_count, free_list, seq_block_map, freeing, waiting, output_tokens,
                       logical_blocks, status, cpu_bid, left, batch, new_tokens, tok_idx, group, config>>
    BY Zenon
       DEF CallSchedule, ScheduleEnter, At, bmVars, queueVars, seqVars, innerVars, batchVars
  <1>2. MaxBatchedTokens \in Nat /\ MaxNumSeqs \in Nat
    BY SchedulerConstants, Zenon DEF QueueInv, Control, MaxBatchedTokens, MaxNumSeqs
  <1>3. LoopTypes'
    <2>1. <<>> \in Seq(SeqIds)
      OBVIOUS
    <2> QED BY <1>1, <1>2, <2>1, Zenon DEF MemInv, LoopTypes, BMTypeOK
  <1>4. Budgets'
    BY <1>1, Zenon DEF Budgets
  <1>5. Inner' /\ TablesOnGpu' /\ TablesLong'
    BY <1>1, MemOutside, Zenon DEF InnerLabels, TableLabels
  <1>6. BatchLong'
    <2>1. Range(scheduled') = {}
      BY <1>1 DEF Range
    <2> QED BY <1>1, <2>1 DEF BatchLong
  <1> QED BY <1>3, <1>4, <1>5, <1>6, Zenon DEF MemInv

(* The engine thread's other steps outside the scheduler. *)
LEMMA MemEngine ==
    ASSUME QueueInv, MemInv,
           \/ AfterSchedule \/ BuildNext \/ BuildReturn \/ Step \/ UpdateSkip \/ UpdateCheck
           \/ UpdateReturn \/ CallFreeFinished \/ AfterFreeFinished
           \/ InFreeFinishedLoop /\ (FreeFinishedSkip \/ FreeFinishedEnd)
    PROVE  MemInv'
  <1> USE DEF At, bmVars, schedVars, queueVars, seqVars, innerVars, budgetVars, outputVars, batchVars
  <1>1. UNCHANGED <<ref_count, free_list, seq_block_map, freeing, waiting, preempted, swapped_in,
                    output_tokens, logical_blocks, status, cpu_bid, left, budget_tokens,
                    budget_seqs, scheduled, config>>
    BY Zenon
       DEF AfterSchedule, ScheduleReturn, BuildNext, BuildReturn, Step, UpdateSkip, UpdateCheck,
           UpdateReturn, CallFreeFinished, FreeFinishedEnter, AfterFreeFinished, FreeFinishedReturn,
           InFreeFinishedLoop, FreeFinishedSkip, FreeFinishedEnd
  <1>2. pc \notin InnerLabels /\ pc' \notin InnerLabels
    <2>1. phase \in {"build", "step", "update"} => pc \notin InnerLabels
      BY Zenon
         DEF QueueInv, Control, InnerLabels, TableLabels, ScheduleLabels, DecodeLabels
    <2> QED BY <2>1, Zenon
               DEF AfterSchedule, ScheduleReturn, BuildNext, BuildReturn, Step, UpdateSkip,
           UpdateCheck, UpdateReturn, CallFreeFinished, FreeFinishedEnter, AfterFreeFinished,
           FreeFinishedReturn, InFreeFinishedLoop, FreeFinishedSkip, FreeFinishedEnd, InFreeFinished,
           InnerLabels, TableLabels
  <1>3. batch' \in Seq(Tokens) /\ new_tokens' \in Seq(Tokens) /\ tok_idx' \in Nat \ {0}
    <2>1. <<>> \in Seq(Tokens) /\ batch \in Seq(Tokens) /\ new_tokens \in Seq(Tokens)
          /\ tok_idx \in Nat \ {0}
      BY DEF MemInv, LoopTypes
    <2>2. CASE BuildNext
      <3>1. scheduled[group] \in SeqIds
        BY <2>2, Places DEF BuildNext, QueueInv, QueueTypes
      <3>2. EntriesOf(scheduled[group]) \in Seq(Tokens)
        BY <3>1, EntriesType, Zenon DEF MemInv
      <3> QED BY <2>1, <2>2, <3>2, ConcatProperties, Zenon DEF BuildNext
    <2>3. CASE ~BuildNext
      <3>1. /\ batch' = batch \/ batch' = <<>>
            /\ new_tokens' = new_tokens \/ new_tokens' = batch \/ new_tokens' = <<>>
            /\ tok_idx' = tok_idx \/ tok_idx' = 1
        BY <2>3, Zenon DEF AfterSchedule, BuildReturn, Step, UpdateSkip, UpdateCheck,
             UpdateReturn, CallFreeFinished, AfterFreeFinished, InFreeFinishedLoop
      <3>2. 1 \in Nat \ {0}
        OBVIOUS
      <3> QED BY <2>1, <3>1, <3>2, Zenon
    <2> QED BY <2>2, <2>3, Zenon
  <1>4. LoopTypes'
    BY <1>1, <1>3, Zenon DEF MemInv, LoopTypes, BMTypeOK
  <1>5. Budgets'
    <2>1. phase' = "append" => tok_idx' <= Len(new_tokens')
      BY Zenon DEF AfterSchedule, BuildNext, BuildReturn, Step, UpdateSkip, UpdateCheck,
           UpdateReturn, CallFreeFinished, AfterFreeFinished, InFreeFinishedLoop, MemInv, Budgets
    <2> QED BY <1>2, <2>1, Zenon DEF Budgets, InnerLabels, TableLabels
  <1>6. Inner' /\ TablesOnGpu' /\ TablesLong'
    BY <1>1, <1>2, MemOutside
  <1>7. BatchLong'
    <2>1. \/ phase' \in {"scheduling", "build", "step"} /\ phase \in {"scheduling", "build", "step"}
          \/ phase' = "update" /\ phase = "step" /\ group' = 1
          \/ phase' \in {"update", "append"} /\ phase \in {"update", "append"} /\ group' \in {group, group + 1}
          \/ phase' \notin {"scheduling", "build", "step", "update", "append"}
      BY Zenon DEF AfterSchedule, BuildNext, BuildReturn, Step, UpdateSkip, UpdateCheck,
           UpdateReturn, CallFreeFinished, AfterFreeFinished, InFreeFinishedLoop, QueueInv, Control,
           InFreeFinished, FreeFinishedSkip, FreeFinishedEnd, FreeLabels
    <2>2. /\ group \in Nat \ {0} /\ Len(scheduled) \in Nat
          /\ \A i \in 1 .. Len(scheduled) : scheduled[i] \in Range(scheduled)
      BY Places, Zenon DEF QueueInv, QueueTypes
    <2>3. \A i \in group + 1 .. Len(scheduled) : i \in group .. Len(scheduled)
      BY <2>2
    <2> QED BY <1>1, <2>1, <2>2, <2>3, Zenon DEF MemInv, BatchLong, Covers, TotalLen
  <1> QED BY <1>4, <1>5, <1>6, <1>7, Zenon DEF MemInv

-----------------------------------------------------------------------------
(* schedule_decodes and schedule_prefills *)

(* push_back of an allocated block, while the GPU's free list has one. *)
LEMMA TableAppend ==
    ASSUME LoopTypes, NEW r \in SeqIds, AllocateLogical(r), free_list["CUDA"] # <<>>
    PROVE  /\ BMTypeOK' /\ Len(free_list'["CUDA"]) = Len(free_list["CUDA"]) - 1
           /\ logical_blocks' \in [SeqIds -> Seq(Blocks \cup {INVALID_BLOCK})]
           /\ \A q \in SeqIds \ {r} : logical_blocks'[q] = logical_blocks[q]
           /\ Len(logical_blocks'[r]) = Len(logical_blocks[r]) + 1
           /\ \A i \in DOMAIN logical_blocks'[r] :
                 \/ i \in DOMAIN logical_blocks[r] /\ logical_blocks'[r][i] = logical_blocks[r][i]
                 \/ OnGpu(logical_blocks'[r][i])
  <1> DEFINE b == PoppedBlock("CUDA")
             t == Append(logical_blocks[r], b)
  <1>1. /\ BMTypeOK' /\ Len(free_list'["CUDA"]) = Len(free_list["CUDA"]) - 1
        /\ b \in Blocks /\ b[1] = "CUDA"
    BY AllocateTypes, Zenon DEF AllocateLogical, LoopTypes, Device
  <1> HIDE DEF b
  <1>2. /\ t \in Seq(Blocks \cup {INVALID_BLOCK}) /\ Len(t) = Len(logical_blocks[r]) + 1
        /\ Len(logical_blocks[r]) \in Nat /\ DOMAIN t = 1 .. Len(logical_blocks[r]) + 1
        /\ DOMAIN logical_blocks[r] = 1 .. Len(logical_blocks[r])
        /\ \A i \in 1 .. Len(logical_blocks[r]) : t[i] = logical_blocks[r][i]
        /\ t[Len(logical_blocks[r]) + 1] = b
    BY <1>1, AppendProperties, LenProperties DEF LoopTypes
  <1>3. logical_blocks' = [logical_blocks EXCEPT ![r] = t]
    BY Zenon DEF AllocateLogical, b
  <1> HIDE DEF t
  <1>4. /\ logical_blocks'[r] = t /\ \A q \in SeqIds \ {r} : logical_blocks'[q] = logical_blocks[q]
        /\ logical_blocks' \in [SeqIds -> Seq(Blocks \cup {INVALID_BLOCK})]
    BY <1>2, <1>3, Zenon DEF LoopTypes
  <1>5. \A i \in DOMAIN t : (i \in DOMAIN logical_blocks[r] /\ t[i] = logical_blocks[r][i]) \/ OnGpu(t[i])
    BY <1>1, <1>2 DEF OnGpu
  <1> QED BY <1>1, <1>2, <1>4, <1>5, Zenon

(* The table of a running sequence grows by a GPU block. *)
LEMMA TablesGrow ==
    ASSUME QueueInv, MemInv, NEW r \in SeqIds, status[r] = "RUNNING", pc \in {"decodeAlloc", "prefillAlloc"},
           AllocateLogical(r), free_list["CUDA"] # <<>>,
           UNCHANGED <<status, output_tokens, queueVars, config, pc, phase, scheduled, group>>
    PROVE  TablesOnGpu' /\ TablesLong' /\ BatchLong'
  <1>1. /\ \A q \in SeqIds \ {r} : logical_blocks'[q] = logical_blocks[q]
        /\ Len(logical_blocks'[r]) = Len(logical_blocks[r]) + 1
        /\ \A i \in DOMAIN logical_blocks'[r] :
              \/ i \in DOMAIN logical_blocks[r] /\ logical_blocks'[r][i] = logical_blocks[r][i]
              \/ OnGpu(logical_blocks'[r][i])
    BY TableAppend, Zenon DEF MemInv
  <1>2. UNCHANGED <<waiting, swapped, status, output_tokens, config, pc, phase, scheduled, group>>
    BY Zenon DEF queueVars
  <1>3. Range(waiting) \subseteq SeqIds /\ Range(scheduled) \subseteq SeqIds
    BY RangeInSet, Zenon DEF QueueInv, QueueTypes
  <1>4. TablesOnGpu'
    <2>1. ASSUME NEW q \in SeqIds, \A i \in DOMAIN logical_blocks[q] : OnGpu(logical_blocks[q][i])
          PROVE  \A i \in DOMAIN logical_blocks'[q] : OnGpu(logical_blocks'[q][i])
      BY <1>1, <2>1, Zenon
    <2>2. \A q \in SeqIds : status[q] = "RUNNING" =>
             \A i \in DOMAIN logical_blocks[q] : OnGpu(logical_blocks[q][i])
      BY Zenon DEF MemInv, TablesOnGpu
    <2> HIDE DEF OnGpu
    <2>3. /\ \A q \in SeqIds : status'[q] = "NEW" => logical_blocks'[q] = <<>>
          /\ PreemptionMode' = "RECOMPUTE" =>
                \A q \in SeqIds : \A i \in DOMAIN logical_blocks'[q] : OnGpu(logical_blocks'[q][i])
      BY <1>1, <1>2, <2>1, Zenon DEF MemInv, TablesOnGpu, PreemptionMode
    <2>4. \A q \in Range(waiting') : \A i \in DOMAIN logical_blocks'[q] : OnGpu(logical_blocks'[q][i])
      BY <1>2, <1>3, <2>1, Zenon DEF MemInv, TablesOnGpu
    <2>5. \A q \in SeqIds : status'[q] = "RUNNING" =>
             \A i \in DOMAIN logical_blocks'[q] : OnGpu(logical_blocks'[q][i])
      BY <1>2, <2>1, <2>2, Zenon
    <2> QED BY <1>2, <2>3, <2>4, <2>5, Zenon DEF TablesOnGpu, OnGpu
  <1>5. ASSUME NEW q \in SeqIds, NEW n \in Int, Covers(q, n) PROVE Covers(q, n)'
    <2>1. Len(logical_blocks[q]) \in Nat /\ BlockSize \in Nat
      BY Lengths, SchedulerConstants, Zenon DEF MemInv
    <2>2. (Len(logical_blocks[q]) + 1) * BlockSize = Len(logical_blocks[q]) * BlockSize + BlockSize
      BY <2>1
    <2> QED BY <1>1, <1>5, <2>1, <2>2 DEF Covers
  <1>6. \A q \in SeqIds : TotalLen(q) \in Nat \ {0} /\ TotalLen(q)' = TotalLen(q)
    BY <1>2, Lengths, Zenon DEF MemInv, TotalLen
  <1>7. TablesLong'
    <2> SUFFICES ASSUME NEW q \in SeqIds, status'[q] \in {"RUNNING", "SWAPPED"}
                 PROVE  \/ Covers(q, TotalLen(q) - 1)'
                        \/ pc' = "prefillAlloc" /\ q = Head(waiting')
      BY Zenon DEF TablesLong
    <2>1. Covers(q, TotalLen(q) - 1) \/ (pc' = "prefillAlloc" /\ q = Head(waiting'))
      BY <1>2, Zenon DEF MemInv, TablesLong
    <2>2. TotalLen(q) - 1 \in Int /\ TotalLen(q)' = TotalLen(q)
      BY <1>6
    <2> QED BY <1>5, <2>1, <2>2, Zenon
  <1>8. BatchLong'
    <2>1. phase = "scheduling"
      BY Zenon DEF QueueInv, Control, ScheduleLabels, DecodeLabels
    <2> QED BY <1>2, <1>3, <1>5, <1>6, <2>1 DEF MemInv, BatchLong
  <1> QED BY <1>4, <1>7, <1>8, Zenon

(* schedule_decodes: what it checks is what the loop behind it needs. *)
LEMMA MemDecode ==
    ASSUME QueueInv, MemInv, InSchedule, DecodeCheck \/ DecodeAllocate \/ DecodeSchedule
    PROVE  MemInv'
  <1> USE DEF At, bmVars, queueVars, seqVars, innerVars, budgetVars, outputVars, batchVars
  <1>1. phase = "scheduling" /\ phase' = "scheduling"
    BY Zenon
       DEF InSchedule, DecodeCheck, DecodeAllocate, DecodeSchedule, QueueInv, Control, ScheduleLabels,
           DecodeLabels
  <1>2. PICK r \in SeqIds : r = running[it] /\ status[r] = "RUNNING"
    <2>1. it \in 1 .. Len(running) /\ ~Finished(running[it])
      <3>1. it \in Nat \ {0} /\ it <= Len(running) /\ ~Finished(running[it])
        BY Zenon DEF DecodeCheck, DecodeAllocate, DecodeSchedule, QueueInv, QueueTypes, Cursors
      <3>2. Len(running) \in Nat
        BY Places, Zenon DEF QueueInv, QueueTypes
      <3> QED BY <3>1, <3>2
    <2>2. running[it] \in SeqIds /\ running[it] \in Range(running)
      BY <2>1, Places, Zenon DEF QueueInv, QueueTypes
    <2>3. pc \in {"decode", "decodeAlloc"}
      BY Zenon DEF DecodeCheck, DecodeAllocate, DecodeSchedule
    <2> QED BY <2>1, <2>2, <2>3, Zenon DEF QueueInv, Statuses, Finished, Done
  <1>3. /\ BlocksNeeded(r) \in Nat /\ Len(logical_blocks[r]) \in Nat /\ Len(free_list["CUDA"]) \in Nat
    BY <1>2, Lengths, LenProperties, Zenon DEF MemInv, LoopTypes, BMTypeOK, Device
  <1>4. DecodeTokens(r) = 1 /\ budget_tokens \in Nat /\ budget_seqs \in Nat
    BY <1>2, Zenon DEF MemInv, LoopTypes, DecodeTokens, Finished
  <1>5. /\ logical_blocks \in [SeqIds -> Seq(Blocks \cup {INVALID_BLOCK})]
        /\ free_list \in [Device -> Seq(Blocks)] /\ "CUDA" \in Device
    BY Zenon DEF MemInv, LoopTypes, BMTypeOK, Device
  <1>6. CASE DecodeCheck
    <2>1. /\ pc = "decode" /\ pc' \in {"preempt", "decodeAlloc"}
          /\ pc' = "decodeAlloc" => ~OverBudget(r) /\ CanAppend(r)
          /\ UNCHANGED <<ref_count, free_list, seq_block_map, freeing, waiting, running, swapped, it,
                         preempted, swapped_in, output_tokens, logical_blocks, status, cpu_bid, left,
                         budget_tokens, budget_seqs, batch, new_tokens, tok_idx, scheduled, group, config>>
      BY <1>2, <1>6, Zenon DEF DecodeCheck, InSchedule
    <2>2. LoopTypes'
      BY <2>1, Zenon DEF MemInv, LoopTypes, BMTypeOK
    <2>3. Budgets'
      <3>1. pc' = "decodeAlloc" => ~(1 > budget_tokens) /\ budget_seqs # 0
        BY <1>4, <2>1, Zenon DEF OverBudget
      <3>2. pc' = "decodeAlloc" => budget_tokens >= 1 /\ budget_seqs >= 1
        BY <1>4, <3>1
      <3> QED BY <1>1, <1>2, <2>1, <3>2, Zenon DEF Budgets
    <2>4. Inner'
      <3>1. CanAppend(r) => BlocksNeeded(r) <= Len(logical_blocks[r]) + Len(free_list["CUDA"])
        BY <1>3, <1>5 DEF CanAppend, can_allocate
      <3>2. BlocksNeeded(running[it])' = BlocksNeeded(r)
        BY <1>2, <2>1, Zenon DEF BlocksNeeded, TotalLen
      <3> QED BY <1>2, <2>1, <3>1, <3>2, Zenon DEF Inner
    <2>5. TablesOnGpu' /\ TablesLong'
      BY <2>1, TablesStay, Zenon DEF TableLabels
    <2>6. BatchLong'
      BY <1>1, <2>1, Zenon DEF MemInv, BatchLong, Covers, TotalLen
    <2> QED BY <2>2, <2>3, <2>4, <2>5, <2>6, Zenon DEF MemInv
  <1>7. CASE DecodeAllocate
    <2>1. /\ pc = "decodeAlloc" /\ Len(logical_blocks[r]) < BlocksNeeded(r) /\ AllocateLogical(r)
          /\ UNCHANGED <<queueVars, config, pc, it, preempted, swapped_in, output_tokens, status, cpu_bid,
                         left, budget_tokens, budget_seqs, batch, new_tokens, tok_idx, scheduled, group,
                         phase>>
      BY <1>2, <1>7, Zenon DEF DecodeAllocate, InSchedule
    <2>2. BlocksNeeded(r) <= Len(logical_blocks[r]) + Len(free_list["CUDA"])
      BY <1>2, <2>1, Zenon DEF MemInv, Inner
    <2>3. free_list["CUDA"] # <<>>
      BY <1>3, <1>5, <2>1, <2>2
    <2>4. /\ BMTypeOK' /\ Len(free_list'["CUDA"]) = Len(free_list["CUDA"]) - 1
          /\ logical_blocks' \in [SeqIds -> Seq(Blocks \cup {INVALID_BLOCK})]
          /\ Len(logical_blocks'[r]) = Len(logical_blocks[r]) + 1
          /\ free_list' \in [Device -> Seq(Blocks)]
      BY <1>2, <2>1, <2>3, TableAppend, Zenon DEF MemInv, BMTypeOK
    <2>5. LoopTypes'
      BY <2>1, <2>4, Zenon DEF MemInv, LoopTypes
    <2>6. Budgets'
      BY <2>1, Zenon DEF MemInv, Budgets
    <2>7. Inner'
      <3>1. BlocksNeeded(running[it])' = BlocksNeeded(r) /\ running'[it'] = r
        BY <1>2, <2>1 DEF BlocksNeeded, TotalLen
      <3>2. BlocksNeeded(r) <= Len(logical_blocks'[r]) + Len(free_list'["CUDA"])
        BY <1>3, <1>5, <2>2, <2>4
      <3> QED BY <2>1, <3>1, <3>2, Zenon DEF Inner
    <2>8. TablesOnGpu' /\ TablesLong' /\ BatchLong'
      <3> HIDE DEF queueVars
      <3> QED BY <1>2, <2>1, <2>3, TablesGrow, Zenon
    <2> QED BY <2>5, <2>6, <2>7, <2>8, Zenon DEF MemInv
  <1>8. CASE DecodeSchedule
    <2>1. /\ pc = "decodeAlloc" /\ pc' = "decode" /\ Len(logical_blocks[r]) >= BlocksNeeded(r)
          /\ scheduled' = Append(scheduled, r)
          /\ budget_tokens' = budget_tokens - DecodeTokens(r) /\ budget_seqs' = budget_seqs - 1
          /\ UNCHANGED <<ref_count, free_list, seq_block_map, freeing, waiting, running, swapped,
                         preempted, swapped_in, output_tokens, logical_blocks, status, cpu_bid, left,
                         batch, new_tokens, tok_idx, group, config>>
      BY <1>2, <1>8, Zenon DEF DecodeSchedule, InSchedule
    <2>2. budget_tokens' \in Nat /\ budget_seqs' \in Nat
      BY <1>4, <2>1 DEF MemInv, Budgets
    <2>3. LoopTypes'
      BY <2>1, <2>2, Zenon DEF MemInv, LoopTypes, BMTypeOK
    <2>4. Budgets' /\ Inner'
      BY <1>1, <2>1, Zenon DEF Budgets, Inner
    <2>5. TablesOnGpu' /\ TablesLong'
      BY <2>1, TablesStay DEF TableLabels
    <2>6. BatchLong'
      <3>1. Range(scheduled') = Range(scheduled) \cup {r}
        BY <1>2, <2>1, AppendElements DEF QueueInv, QueueTypes
      <3>2. Covers(r, TotalLen(r))
        BY <1>2, <2>1, Lengths, Zenon DEF MemInv
      <3> QED BY <1>1, <2>1, <3>1, <3>2, Zenon DEF MemInv, BatchLong, Covers, TotalLen
    <2> QED BY <2>3, <2>4, <2>5, <2>6 DEF MemInv
  <1> QED BY <1>6, <1>7, <1>8, Zenon

(* The head of a queue that schedule() works on. *)
LEMMA MemHead ==
    ASSUME QueueInv, MemInv, waiting # <<>>
    PROVE  /\ Head(waiting) \in SeqIds /\ Head(waiting) \in Range(waiting)
           /\ Head(waiting) \notin Range(scheduled) \/ phase # "scheduling"
           /\ PromptLen[Head(waiting)] \in Nat /\ BlocksNeeded(Head(waiting)) \in Nat
           /\ Len(logical_blocks[Head(waiting)]) \in Nat
           /\ Len(free_list["CUDA"]) \in Nat /\ left \in Nat
           /\ logical_blocks \in [SeqIds -> Seq(Blocks \cup {INVALID_BLOCK})]
           /\ free_list \in [Device -> Seq(Blocks)] /\ "CUDA" \in Device
           /\ Range(Tail(waiting)) = Range(waiting) \ {Head(waiting)}
  <1>1. Head(waiting) \in SeqIds /\ Head(waiting) \in Range(waiting)
        /\ Range(Tail(waiting)) = Range(waiting) \ {Head(waiting)}
    BY TailElements, Zenon DEF QueueInv, QueueTypes, Lines
  <1>2. Head(waiting) \notin Range(scheduled) \/ phase # "scheduling"
    BY <1>1, Zenon DEF QueueInv, Lines, ScheduledRun, UsesScheduled
  <1>3. /\ Len(free_list["CUDA"]) \in Nat /\ left \in Nat
        /\ logical_blocks \in [SeqIds -> Seq(Blocks \cup {INVALID_BLOCK})]
        /\ free_list \in [Device -> Seq(Blocks)] /\ "CUDA" \in Device
    BY LenProperties DEF MemInv, LoopTypes, BMTypeOK, Device
  <1> QED BY <1>1, <1>2, <1>3, Lengths, SchedulerConstants, Zenon DEF MemInv

(* schedule_prefills: the blocks it allocates are there, because it asked  *)
(* for all of them, and they hold the prompt.                              *)
LEMMA MemPrefill ==
    ASSUME QueueInv, MemInv, InSchedule, PrefillAdmit \/ PrefillAllocate \/ PrefillSchedule
    PROVE  MemInv'
  <1> USE DEF At, bmVars, queueVars, seqVars, innerVars, budgetVars, outputVars, batchVars
  <1>1. phase = "scheduling" /\ phase' = "scheduling"
    BY Zenon
       DEF InSchedule, PrefillAdmit, PrefillAllocate, PrefillSchedule, QueueInv, Control, ScheduleLabels
  <1>2. waiting # <<>>
    BY Zenon
       DEF PrefillAdmit, PrefillAllocate, PrefillSchedule, CanPrefill, QueueInv, Cursors
  <1>3. PICK h \in SeqIds :
           /\ h = Head(waiting) /\ h \in Range(waiting) /\ h \notin Range(scheduled)
           /\ PromptLen[h] \in Nat /\ BlocksNeeded(h) \in Nat /\ Len(logical_blocks[h]) \in Nat
           /\ Range(Tail(waiting)) = Range(waiting) \ {h}
    BY <1>1, <1>2, MemHead
  <1>4. /\ Len(free_list["CUDA"]) \in Nat /\ left \in Nat
        /\ logical_blocks \in [SeqIds -> Seq(Blocks \cup {INVALID_BLOCK})]
        /\ free_list \in [Device -> Seq(Blocks)] /\ "CUDA" \in Device
    BY <1>2, MemHead, Zenon
  <1>5. Range(scheduled) \subseteq SeqIds /\ Range(waiting) \subseteq SeqIds /\ status \in [SeqIds -> Status]
    BY RangeInSet, Zenon DEF QueueInv, QueueTypes
  <1>6. CASE PrefillAdmit
    <2>1. /\ pc = "prefill" /\ pc' = "prefillAlloc" /\ CanPrefill
          /\ left' = BlocksNeeded(h) /\ status' = [status EXCEPT ![h] = "RUNNING"]
          /\ UNCHANGED <<ref_count, free_list, seq_block_map, freeing, waiting, running, swapped,
                         preempted, swapped_in, output_tokens, logical_blocks, cpu_bid,
                         budget_tokens, budget_seqs, batch, new_tokens, tok_idx, scheduled, group, config>>
      BY <1>3, <1>6, Zenon DEF PrefillAdmit, InSchedule
    <2>2. LoopTypes'
      BY <1>3, <2>1, Zenon DEF MemInv, LoopTypes, BMTypeOK
    <2>3. Budgets'
      BY <1>1, <2>1 DEF MemInv, LoopTypes, Budgets, CanPrefill
    <2>4. Inner'
      <3>1. BlocksNeeded(h)' = BlocksNeeded(h)
        BY <2>1, Zenon DEF BlocksNeeded, TotalLen
      <3>2. left' <= Len(free_list["CUDA"]) /\ Len(logical_blocks[h]) + left' >= BlocksNeeded(h)
        BY <1>3, <1>4, <2>1 DEF CanPrefill, can_allocate
      <3> QED BY <1>3, <2>1, <3>1, <3>2, Zenon DEF Inner
    <2>5. /\ status'[h] = "RUNNING" /\ \A q \in SeqIds \ {h} : status'[q] = status[q]
      BY <1>5, <2>1, Zenon
    <2>6. TablesOnGpu'
      <3>1. pc # "swapInAlloc" /\ pc' \notin {"swapOut", "swapOutFree"}
        BY <1>3, <2>1, Zenon
      <3>2. \A q \in SeqIds : q \in Range(waiting) \/ status[q] = "RUNNING" =>
               \A i \in DOMAIN logical_blocks[q] : OnGpu(logical_blocks[q][i])
        BY <3>1, Zenon DEF MemInv, TablesOnGpu
      <3>3. \A q \in SeqIds : status'[q] = "RUNNING" =>
               \A i \in DOMAIN logical_blocks'[q] : OnGpu(logical_blocks'[q][i])
        BY <1>3, <2>1, <2>5, <3>2, Zenon
      <3>4. \A q \in SeqIds : status'[q] = "NEW" => logical_blocks'[q] = <<>>
        BY <2>1, <2>5, Zenon DEF MemInv, TablesOnGpu
      <3> QED BY <2>1, <3>1, <3>3, <3>4, Zenon DEF MemInv, TablesOnGpu, PreemptionMode, OnGpu
    <2>7. TablesLong' /\ BatchLong'
      BY <1>1, <1>3, <1>5, <2>1, <2>5, Zenon
         DEF MemInv, TablesLong, BatchLong, Covers, TotalLen
    <2> QED BY <2>2, <2>3, <2>4, <2>6, <2>7 DEF MemInv
  <1>7. CASE PrefillAllocate
    <2>1. /\ pc = "prefillAlloc" /\ left > 0 /\ left' = left - 1 /\ AllocateLogical(h)
          /\ UNCHANGED <<queueVars, config, pc, it, preempted, swapped_in, output_tokens, status, cpu_bid,
                         budget_tokens, budget_seqs, batch, new_tokens, tok_idx, scheduled, group, phase>>
      BY <1>3, <1>7, Zenon DEF PrefillAllocate, InSchedule
    <2>2. left <= Len(free_list["CUDA"]) /\ Len(logical_blocks[h]) + left >= BlocksNeeded(h)
      BY <1>3, <2>1, Zenon DEF MemInv, Inner
    <2>3. free_list["CUDA"] # <<>>
      BY <1>4, <2>1, <2>2
    <2>4. /\ BMTypeOK' /\ Len(free_list'["CUDA"]) = Len(free_list["CUDA"]) - 1
          /\ logical_blocks' \in [SeqIds -> Seq(Blocks \cup {INVALID_BLOCK})]
          /\ Len(logical_blocks'[h]) = Len(logical_blocks[h]) + 1
          /\ free_list' \in [Device -> Seq(Blocks)]
      BY <2>1, <2>3, TableAppend, Zenon DEF MemInv, BMTypeOK
    <2>5. left' \in Nat
      BY <1>4, <2>1
    <2>6. LoopTypes'
      BY <2>1, <2>4, <2>5, Zenon DEF MemInv, LoopTypes
    <2>7. Budgets'
      BY <2>1, Zenon DEF MemInv, Budgets
    <2>8. Inner'
      <3>1. BlocksNeeded(h)' = BlocksNeeded(h)
        BY <2>1, Zenon DEF BlocksNeeded, TotalLen
      <3>2. left' <= Len(free_list'["CUDA"])
        BY <1>4, <2>1, <2>2, <2>4
      <3>3. Len(logical_blocks'[h]) + left' >= BlocksNeeded(h)
        BY <1>3, <1>4, <2>1, <2>2, <2>4
      <3> QED BY <1>3, <2>1, <3>1, <3>2, <3>3 DEF Inner
    <2>9. TablesOnGpu' /\ TablesLong' /\ BatchLong'
      <3>1. status[h] = "RUNNING"
        BY <1>3, <2>1, Zenon DEF QueueInv, Cursors
      <3> HIDE DEF queueVars
      <3> QED BY <2>1, <2>3, <3>1, TablesGrow, ZenonT(30)
    <2> QED BY <2>6, <2>7, <2>8, <2>9 DEF MemInv
  <1>8. CASE PrefillSchedule
    <2>1. /\ pc = "prefillAlloc" /\ pc' = "prefill" /\ left = 0
          /\ scheduled' = Append(scheduled, h) /\ waiting' = Tail(waiting)
          /\ budget_tokens' = budget_tokens - PromptLen[h] /\ budget_seqs' = budget_seqs - 1
          /\ UNCHANGED <<ref_count, free_list, seq_block_map, freeing, preempted, swapped_in, output_tokens,
                         logical_blocks, status, cpu_bid, left, batch, new_tokens, tok_idx, group, config>>
      BY <1>3, <1>8, Zenon DEF PrefillSchedule, InSchedule
    <2>2. budget_tokens' \in Nat /\ budget_seqs' \in Nat
      <3>1. /\ PromptLen[h] <= budget_tokens /\ budget_seqs >= 1
            /\ budget_tokens \in Nat /\ budget_seqs \in Nat
        BY <1>3, <2>1, Zenon DEF MemInv, LoopTypes, Budgets
      <3>2. PromptLen[h] \in Nat
        BY SchedulerConstants, Zenon
      <3> QED BY <2>1, <3>1, <3>2
    <2>3. LoopTypes'
      BY <2>1, <2>2, Zenon DEF MemInv, LoopTypes, BMTypeOK
    <2>4. Budgets' /\ Inner'
      BY <1>1, <2>1, Zenon DEF Budgets, Inner
    <2>5. Covers(h, TotalLen(h)) /\ Covers(h, TotalLen(h) - 1)
      <3>1. Len(logical_blocks[h]) >= BlocksNeeded(h)
        BY <1>3, <2>1 DEF MemInv, Inner
      <3> QED BY <3>1, Lengths, Zenon DEF MemInv
    <2>6. TablesOnGpu'
      BY <1>3, <2>1, Zenon DEF MemInv, TablesOnGpu, PreemptionMode, OnGpu
    <2>7. TablesLong'
      BY <1>3, <2>1, <2>5, Zenon DEF MemInv, TablesLong, Covers, TotalLen
    <2>8. BatchLong'
      <3>1. Range(scheduled') = Range(scheduled) \cup {h}
        BY <2>1, AppendElements DEF QueueInv, QueueTypes
      <3> QED BY <1>1, <2>1, <2>5, <3>1, Zenon DEF MemInv, BatchLong, Covers, TotalLen
    <2> QED BY <2>3, <2>4, <2>6, <2>7, <2>8, Zenon DEF MemInv
  <1> QED BY <1>6, <1>7, <1>8

(* The sort leaves the same groups in the queue. *)
LEMMA MemSort ==
    ASSUME QueueInv, MemInv, InSchedule, SortWaiting
    PROVE  MemInv'
  <1>1. /\ pc = "sort" /\ pc' = "prefill"
        /\ UNCHANGED <<ref_count, free_list, seq_block_map, freeing, preempted, swapped_in,
                       output_tokens, logical_blocks, status, cpu_bid, left, budget_tokens,
                       budget_seqs, batch, new_tokens, tok_idx, scheduled, group, phase, config>>
    BY Zenon
       DEF InSchedule, SortWaiting, At, bmVars, seqVars, innerVars, budgetVars, outputVars, batchVars
  <1>2. Range(waiting') \subseteq Range(waiting)
    BY DEF SortWaiting, Range, Bijection, Injection
  <1>3. LoopTypes'
    BY <1>1, Zenon DEF MemInv, LoopTypes, BMTypeOK
  <1>4. Budgets'
    BY <1>1, Zenon DEF MemInv, Budgets
  <1>5. Inner' /\ TablesOnGpu' /\ TablesLong'
    BY <1>1, <1>2, MemOutside, Zenon DEF InnerLabels, TableLabels
  <1>6. BatchLong'
    BY <1>1, Zenon DEF MemInv, BatchLong, Covers, TotalLen
  <1> QED BY <1>3, <1>4, <1>5, <1>6, Zenon DEF MemInv

-----------------------------------------------------------------------------
(* preempt *)

(* Writing one entry of a table. *)
LEMMA TableReplace ==
    ASSUME logical_blocks \in [SeqIds -> Seq(Blocks \cup {INVALID_BLOCK})],
           NEW r \in SeqIds, NEW c \in DOMAIN logical_blocks[r], NEW b \in Blocks \cup {INVALID_BLOCK},
           logical_blocks' = [logical_blocks EXCEPT ![r][c] = b]
    PROVE  /\ logical_blocks' \in [SeqIds -> Seq(Blocks \cup {INVALID_BLOCK})]
           /\ \A q \in SeqIds \ {r} : logical_blocks'[q] = logical_blocks[q]
           /\ Len(logical_blocks'[r]) = Len(logical_blocks[r])
           /\ DOMAIN logical_blocks'[r] = DOMAIN logical_blocks[r]
           /\ logical_blocks'[r][c] = b
           /\ \A i \in DOMAIN logical_blocks[r] \ {c} : logical_blocks'[r][i] = logical_blocks[r][i]
  <1> DEFINE S == Blocks \cup {INVALID_BLOCK}
             s == logical_blocks[r]
             t == [s EXCEPT ![c] = b]
  <1>1. s \in Seq(S) /\ b \in S /\ c \in DOMAIN s
    BY Zenon
  <1> HIDE DEF S, s
  <1>2. t \in Seq(S) /\ Len(t) = Len(s) /\ DOMAIN t = DOMAIN s
    BY <1>1, LenProperties, ExceptSeq
  <1>3. t[c] = b /\ \A i \in DOMAIN s \ {c} : t[i] = s[i]
    BY <1>1, Zenon
  <1>4. logical_blocks' = [logical_blocks EXCEPT ![r] = t]
    BY Zenon DEF s
  <1> HIDE DEF t
  <1>5. /\ logical_blocks'[r] = t /\ \A q \in SeqIds \ {r} : logical_blocks'[q] = logical_blocks[q]
        /\ logical_blocks' \in [SeqIds -> Seq(S)]
    BY <1>2, <1>4, Zenon DEF S
  <1> QED BY <1>2, <1>3, <1>5, Zenon DEF S, s

(* Recomputation gives the victim's table up. *)
LEMMA MemRecompute ==
    ASSUME QueueInv, MemInv, InSchedule, PreemptRecompute
    PROVE  MemInv'
  <1>1. PICK v \in SeqIds : v = Victim /\ v \notin Range(scheduled) /\ status[v] \in {"RUNNING"} \cup Done
    BY QueueVictim, Zenon DEF PreemptRecompute, At
  <1>2. /\ pc = "preempt" /\ pc' = "sort" /\ PreemptionMode = "RECOMPUTE"
        /\ preempted' = Append(preempted, v) /\ waiting' = <<v>> \o waiting
        /\ UNCHANGED <<ref_count, free_list, seq_block_map, cpu_bid, left, budget_tokens, budget_seqs,
                       scheduled, swapped_in, batch, new_tokens, tok_idx, group, phase, config>>
    BY <1>1, Zenon
       DEF PreemptRecompute, RequeueVictim, InSchedule, At, innerVars, budgetVars, batchVars
  <1>3. \/ Finished(v) /\ UNCHANGED <<status, logical_blocks, output_tokens, freeing>>
        \/ /\ ~Finished(v) /\ status' = [status EXCEPT ![v] = "PREEMPTED"]
           /\ logical_blocks' = [logical_blocks EXCEPT ![v] = <<>>]
           /\ output_tokens' = [output_tokens EXCEPT ![v] = <<>>] /\ freeing' = v
    BY <1>1, Zenon DEF PreemptRecompute, EnterFreeBlocks, seqVars
  <1>4. /\ status \in [SeqIds -> Status] /\ Range(scheduled) \subseteq SeqIds /\ phase = "scheduling"
        /\ waiting \in Seq(SeqIds)
    BY <1>2, RangeInSet, Zenon
       DEF QueueInv, QueueTypes, Control, ScheduleLabels, DecodeLabels
  <1>5. /\ logical_blocks \in [SeqIds -> Seq(Blocks \cup {INVALID_BLOCK})]
        /\ output_tokens \in [SeqIds -> Seq(Tokens)]
        /\ <<>> \in Seq(Blocks \cup {INVALID_BLOCK}) /\ <<>> \in Seq(Tokens)
    BY DEF MemInv, LoopTypes
  <1>6. /\ \A q \in SeqIds \ {v} : /\ status'[q] = status[q] /\ logical_blocks'[q] = logical_blocks[q]
                                   /\ output_tokens'[q] = output_tokens[q]
        /\ status'[v] \in {"PREEMPTED"} \cup Done
        /\ logical_blocks'[v] = logical_blocks[v] \/ logical_blocks'[v] = <<>>
        /\ freeing' \in {freeing, v}
    BY <1>1, <1>3, <1>4, <1>5, Zenon DEF Finished, Done
  <1>7. /\ logical_blocks' \in [SeqIds -> Seq(Blocks \cup {INVALID_BLOCK})]
        /\ output_tokens' \in [SeqIds -> Seq(Tokens)]
    BY <1>3, <1>5, Zenon
  <1>8. LoopTypes'
    <2>1. preempted' \in Seq(SeqIds)
      BY <1>2, AppendProperties, Zenon DEF MemInv, LoopTypes
    <2> QED BY <1>2, <1>6, <1>7, <2>1, Zenon DEF MemInv, LoopTypes, BMTypeOK
  <1>9. Budgets' /\ Inner'
    BY <1>2, <1>4 DEF Budgets, Inner
  <1>10. TablesOnGpu'
    <2>1. \A q \in SeqIds : \A i \in DOMAIN logical_blocks[q] : OnGpu(logical_blocks[q][i])
      BY <1>2, Zenon DEF MemInv, TablesOnGpu
    <2>2. DOMAIN <<>> = {}
      OBVIOUS
    <2> HIDE DEF OnGpu
    <2>3. \A q \in SeqIds : \A i \in DOMAIN logical_blocks'[q] : OnGpu(logical_blocks'[q][i])
      BY <1>6, <2>1, <2>2, Zenon
    <2>4. Range(waiting') \subseteq SeqIds
      <3>1. Range(waiting') = Range(waiting) \cup {v}
        BY <1>2, <1>4, PrependElements
      <3> QED BY <1>4, <3>1, RangeInSet, Zenon
    <2>5. \A q \in SeqIds : status'[q] = "NEW" => logical_blocks'[q] = <<>>
      BY <1>6, Zenon DEF MemInv, TablesOnGpu, Done
    <2> QED BY <1>2, <2>3, <2>4, <2>5, Zenon DEF TablesOnGpu, OnGpu
  <1>11. TablesLong' /\ BatchLong'
    BY <1>1, <1>2, <1>4, <1>6, Zenon DEF MemInv, TablesLong, BatchLong, Covers, TotalLen, Done
  <1> QED BY <1>8, <1>9, <1>10, <1>11, Zenon DEF MemInv

(* SWAP: the victim's GPU blocks are exchanged from the front. *)
LEMMA MemSwapOut ==
    ASSUME QueueInv, MemInv, InSchedule, PreemptSwap \/ SwapOutAllocate \/ SwapOutEnd
    PROVE  MemInv'
  <1> USE DEF At, bmVars, queueVars, seqVars, innerVars, budgetVars, outputVars, batchVars
  <1>1. /\ phase = "scheduling" /\ phase' = "scheduling" /\ status \in [SeqIds -> Status]
        /\ Range(scheduled) \subseteq SeqIds
    BY RangeInSet, Zenon
       DEF InSchedule, PreemptSwap, SwapOutAllocate, SwapOutEnd, QueueInv, QueueTypes, Control,
           ScheduleLabels, DecodeLabels
  <1>2. PICK v \in SeqIds : /\ v = Victim /\ v \notin Range(scheduled)
                            /\ pc = "preempt" => status[v] \in {"RUNNING"} \cup Done
                            /\ pc # "preempt" => status[v] \in {"SWAPPED"} \cup Done
    BY QueueVictim, Zenon DEF PreemptSwap, SwapOutAllocate, SwapOutEnd
  <1>3. /\ Len(logical_blocks[v]) \in Nat /\ DOMAIN logical_blocks[v] = 1 .. Len(logical_blocks[v])
        /\ left \in Nat
    BY <1>2, Lengths, Zenon DEF MemInv, LoopTypes
  <1>4. CASE PreemptSwap
    <2>1. /\ pc = "preempt" /\ pc' = "swapOut"
          /\ \/ Finished(v) /\ left' = 0 /\ status' = status
             \/ /\ ~Finished(v) /\ left' = Len(logical_blocks[v])
                /\ status' = [status EXCEPT ![v] = "SWAPPED"]
          /\ UNCHANGED <<ref_count, free_list, seq_block_map, freeing, waiting, running, swapped,
                         preempted, swapped_in, output_tokens, logical_blocks, cpu_bid,
                         budget_tokens, budget_seqs, batch, new_tokens, tok_idx, scheduled, group, config>>
      BY <1>2, <1>4, Zenon DEF PreemptSwap, InSchedule
    <2>2. /\ Victim' = v /\ left' \in Nat /\ left' <= Len(logical_blocks[v])
          /\ left' > 0 => status'[v] = "SWAPPED"
          /\ \A q \in SeqIds \ {v} : status'[q] = status[q]
          /\ status'[v] \in {"SWAPPED"} \cup Done
          /\ status'[v] = "SWAPPED" => status[v] = "RUNNING"
      <3>1. Victim' = v
        BY <1>2, <2>1, Zenon DEF Victim
      <3>2. CASE Finished(v)
        <4>1. status[v] \in Done /\ status' = status
          BY <1>1, <2>1, <3>2, Zenon DEF Finished, Done
        <4>2. left' = 0
          BY <2>1, <3>2, Zenon
        <4>3. left' \in Nat /\ left' <= Len(logical_blocks[v]) /\ ~(left' > 0)
          BY <1>3, <4>2
        <4> QED BY <3>1, <4>1, <4>3, Zenon DEF Done
      <3>3. CASE ~Finished(v)
        <4>1. status' = [status EXCEPT ![v] = "SWAPPED"] /\ left' = Len(logical_blocks[v])
          BY <2>1, <3>3, Zenon
        <4>2. status[v] = "RUNNING"
          BY <1>2, <2>1, <3>3, Zenon DEF Finished, Done
        <4>3. left' \in Nat /\ left' <= Len(logical_blocks[v])
          BY <1>3, <4>1
        <4> QED BY <1>1, <3>1, <4>1, <4>2, <4>3, Zenon
      <3> QED BY <3>2, <3>3, Zenon
    <2>3. LoopTypes'
      BY <2>1, <2>2, Zenon DEF MemInv, LoopTypes, BMTypeOK
    <2>4. Budgets' /\ Inner'
      BY <1>1, <2>1, <2>2 DEF Budgets, Inner
    <2>5. TablesOnGpu'
      <3>1. \A i \in DOMAIN logical_blocks[v] : i >= Cursor(v)' => OnGpu(logical_blocks[v][i])
        <4>1. CASE status'[v] = "SWAPPED"
          BY <2>1, <2>2, <4>1, Zenon DEF MemInv, TablesOnGpu
        <4>2. CASE status'[v] # "SWAPPED"
          <5>1. Cursor(v)' = Len(logical_blocks[v]) + 1
            <6>1. left' \in Nat /\ ~(left' > 0)
              BY <2>2, <4>2, Zenon
            <6>2. Cursor(v)' = Len(logical_blocks[v]) - left' + 1
              BY <2>1, Zenon DEF Cursor
            <6> QED BY <1>3, <6>1, <6>2, SMTT(30)
          <5> QED BY <1>3, <5>1, SMTT(30)
        <4> QED BY <4>1, <4>2, Zenon
      <3>2. \A q \in SeqIds : status'[q] \in {"NEW", "RUNNING"} => status'[q] = status[q]
        BY <2>2, Zenon DEF Done
      <3> HIDE DEF OnGpu
      <3>3. \A q \in SeqIds : status'[q] = "RUNNING" =>
               \A i \in DOMAIN logical_blocks[q] : OnGpu(logical_blocks[q][i])
        BY <2>1, <3>2, Zenon DEF MemInv, TablesOnGpu
      <3>4. \A i \in DOMAIN logical_blocks'[Victim'] : i >= Cursor(Victim)' => OnGpu(logical_blocks'[Victim'][i])
        BY <2>1, <2>2, <3>1, Zenon DEF Cursor
      <3> QED BY <2>1, <3>2, <3>3, <3>4, ZenonT(30) DEF MemInv, TablesOnGpu, PreemptionMode, OnGpu
    <2>6. TablesLong' /\ BatchLong'
      BY <1>1, <1>2, <2>1, <2>2, Zenon
         DEF MemInv, TablesLong, BatchLong, Covers, TotalLen, Done
    <2> QED BY <2>3, <2>4, <2>5, <2>6, Zenon DEF MemInv
  <1>5. CASE SwapOutAllocate
    <2>1. /\ pc = "swapOut" /\ pc' = "swapOutFree" /\ left > 0 /\ allocate_block(v, "CPU")
          /\ cpu_bid' = PoppedBlock("CPU")
          /\ UNCHANGED <<waiting, running, swapped, preempted, swapped_in, output_tokens, logical_blocks,
                         status, left, budget_tokens, budget_seqs, batch, new_tokens, tok_idx, scheduled,
                         group, config>>
      BY <1>2, <1>5, Zenon DEF SwapOutAllocate, InSchedule
    <2>2. BMTypeOK' /\ cpu_bid' \in Blocks \cup {INVALID_BLOCK}
      BY <2>1, AllocateTypes, Zenon DEF MemInv, LoopTypes, Device
    <2>3. LoopTypes'
      BY <2>1, <2>2 DEF MemInv, LoopTypes
    <2>4. Budgets' /\ Inner'
      BY <1>1, <2>1, Zenon DEF MemInv, Budgets, Inner, Victim
    <2>5. TablesOnGpu'
      BY <2>1, Zenon DEF MemInv, TablesOnGpu, PreemptionMode, OnGpu, Victim, Cursor
    <2>6. TablesLong' /\ BatchLong'
      BY <1>1, <2>1, Zenon DEF MemInv, TablesLong, BatchLong, Covers, TotalLen
    <2> QED BY <2>3, <2>4, <2>5, <2>6 DEF MemInv
  <1>6. CASE SwapOutEnd
    <2>1. /\ pc = "swapOut" /\ pc' = "sort" /\ preempted' = Append(preempted, v)
          /\ UNCHANGED <<ref_count, free_list, seq_block_map, freeing, waiting, swapped_in, output_tokens,
                         logical_blocks, status, left, cpu_bid, budget_tokens, budget_seqs, batch, new_tokens,
                         tok_idx, scheduled, group, config>>
      BY <1>2, <1>6 DEF SwapOutEnd, InSchedule
    <2>2. preempted' \in Seq(SeqIds)
      BY <2>1, AppendProperties, Zenon DEF MemInv, LoopTypes
    <2>3. LoopTypes'
      BY <2>1, <2>2, Zenon DEF MemInv, LoopTypes, BMTypeOK
    <2>4. Budgets' /\ Inner'
      BY <1>1, <2>1 DEF Budgets, Inner
    <2>5. TablesOnGpu'
      BY <2>1, Zenon DEF MemInv, TablesOnGpu, PreemptionMode, OnGpu
    <2>6. TablesLong' /\ BatchLong'
      BY <1>1, <2>1, Zenon DEF MemInv, TablesLong, BatchLong, Covers, TotalLen
    <2> QED BY <2>3, <2>4, <2>5, <2>6 DEF MemInv
  <1> QED BY <1>4, <1>5, <1>6

(* One block of the victim goes to the CPU: the GPU block it frees is one, *)
(* because the table was on the GPU from the cursor on.                    *)
LEMMA MemSwapOutFree ==
    ASSUME QueueInv, OrderInv, MemInv, InSchedule, SwapOutFree
    PROVE  MemInv'
  <1> USE DEF At, queueVars, budgetVars, outputVars, batchVars
  <1>1. /\ pc = "swapOutFree" /\ pc' = "swapOut" /\ left' = left - 1
        /\ UNCHANGED <<waiting, running, swapped, preempted, swapped_in, output_tokens, status, cpu_bid,
                       budget_tokens, budget_seqs, batch, new_tokens, tok_idx, scheduled, group, config, phase>>
    BY Zenon DEF SwapOutFree, InSchedule
  <1>2. PICK v \in SeqIds : v = Victim /\ v \notin Range(scheduled) /\ v \notin Range(waiting)
    BY <1>1, QueueVictim, Zenon
  <1>3. Victim' = v
    BY <1>1, <1>2 DEF Victim
  <1>4. /\ phase = "scheduling" /\ Range(scheduled) \subseteq SeqIds /\ Range(waiting) \subseteq SeqIds
    BY <1>1, RangeInSet, Zenon
       DEF QueueInv, QueueTypes, Control, ScheduleLabels, DecodeLabels
  <1>5. /\ Len(logical_blocks[v]) \in Nat /\ DOMAIN logical_blocks[v] = 1 .. Len(logical_blocks[v])
        /\ left \in Nat /\ left > 0 /\ left <= Len(logical_blocks[v]) /\ status[v] = "SWAPPED"
    BY <1>1, <1>2, Lengths, Zenon DEF MemInv, LoopTypes, Inner
  <1>6. PICK c \in DOMAIN logical_blocks[v] : c = Cursor(v) /\ c = Len(logical_blocks[v]) - left + 1
    <2>1. Len(logical_blocks[v]) - left + 1 \in DOMAIN logical_blocks[v]
      BY <1>5
    <2> QED BY <2>1, Zenon DEF Cursor
  <1>7. /\ free_block(logical_blocks[v][c])
        /\ logical_blocks' = [logical_blocks EXCEPT ![v][c] = cpu_bid]
    BY <1>2, <1>6, Zenon DEF SwapOutFree
  <1>8. /\ logical_blocks[v][c] \in Blocks
        /\ \A i \in DOMAIN logical_blocks[v] : i >= c => OnGpu(logical_blocks[v][i])
    <2>1. \A i \in DOMAIN logical_blocks[v] : i >= c => OnGpu(logical_blocks[v][i])
      BY <1>1, <1>2, <1>6, Zenon DEF MemInv, TablesOnGpu
    <2>2. c >= c
      BY <1>5
    <2> QED BY <1>6, <2>1, <2>2, Zenon DEF OnGpu
  <1>9. BMTypeOK'
    BY <1>7, <1>8, DropTypes, Zenon DEF MemInv, LoopTypes, free_block, BMTypeOK
  <1>10. /\ logical_blocks' \in [SeqIds -> Seq(Blocks \cup {INVALID_BLOCK})]
         /\ \A q \in SeqIds \ {v} : logical_blocks'[q] = logical_blocks[q]
         /\ Len(logical_blocks'[v]) = Len(logical_blocks[v])
         /\ DOMAIN logical_blocks'[v] = DOMAIN logical_blocks[v]
         /\ \A i \in DOMAIN logical_blocks[v] \ {c} : logical_blocks'[v][i] = logical_blocks[v][i]
    <2>1. /\ logical_blocks \in [SeqIds -> Seq(Blocks \cup {INVALID_BLOCK})]
          /\ cpu_bid \in Blocks \cup {INVALID_BLOCK}
      BY Zenon DEF MemInv, LoopTypes
    <2> QED BY <1>7, <2>1, TableReplace
  <1>11. LoopTypes'
    <2>1. left' \in Nat
      BY <1>1, <1>5
    <2> QED BY <1>1, <1>9, <1>10, <2>1, Zenon DEF MemInv, LoopTypes
  <1>12. Budgets' /\ Inner'
    <2>1. left' <= Len(logical_blocks'[v])
      BY <1>1, <1>5, <1>10
    <2> QED BY <1>1, <1>3, <1>4, <1>5, <2>1, Zenon DEF Budgets, Inner
  <1>13. TablesOnGpu'
    <2>1. PreemptionMode' # "RECOMPUTE"
      BY <1>1, Zenon DEF OrderInv, PreemptionMode
    <2>2. Cursor(v)' = c + 1 /\ c \in Int
      <3>1. /\ left' = left - 1 /\ Len(logical_blocks'[v]) = Len(logical_blocks[v])
            /\ c = Len(logical_blocks[v]) - left + 1
        BY <1>1, <1>6, <1>10, Zenon
      <3>2. Cursor(v)' = Len(logical_blocks'[v]) - left' + 1
        BY Zenon DEF Cursor
      <3>3. Len(logical_blocks[v]) \in Nat /\ left \in Nat
        BY <1>5, Zenon
      <3> QED BY <3>1, <3>2, <3>3
    <2> HIDE DEF OnGpu
    <2>3. \A i \in DOMAIN logical_blocks'[v] : i >= c + 1 => OnGpu(logical_blocks'[v][i])
      <3>1. \A i \in DOMAIN logical_blocks[v] : i >= c + 1 => i >= c /\ i # c
        <4>1. DOMAIN logical_blocks[v] = 1 .. Len(logical_blocks[v]) /\ Len(logical_blocks[v]) \in Nat
          BY <1>5, Zenon
        <4> QED BY <4>1
      <3> QED BY <1>8, <1>10, <3>1, Zenon
    <2>4. /\ \A r \in SeqIds : status'[r] = "NEW" => logical_blocks'[r] = <<>>
          /\ \A r \in Range(waiting') : \A i \in DOMAIN logical_blocks'[r] : OnGpu(logical_blocks'[r][i])
          /\ \A r \in SeqIds : status'[r] = "RUNNING" =>
                \A i \in DOMAIN logical_blocks'[r] : OnGpu(logical_blocks'[r][i])
      <3>1. \A r \in SeqIds : status'[r] \in {"NEW", "RUNNING"} \/ r \in Range(waiting') =>
                r # v /\ status'[r] = status[r] /\ logical_blocks'[r] = logical_blocks[r]
        BY <1>1, <1>2, <1>4, <1>5, <1>10, Zenon
      <3>2. \A r \in SeqIds : status[r] = "RUNNING" =>
                \A i \in DOMAIN logical_blocks[r] : OnGpu(logical_blocks[r][i])
        BY <1>1, Zenon DEF MemInv, TablesOnGpu
      <3>3. /\ \A r \in SeqIds : status[r] = "NEW" => logical_blocks[r] = <<>>
            /\ \A r \in Range(waiting) : \A i \in DOMAIN logical_blocks[r] : OnGpu(logical_blocks[r][i])
        BY Zenon DEF MemInv, TablesOnGpu
      <3> QED BY <1>1, <1>4, <3>1, <3>2, <3>3, Zenon
    <2>5. \A i \in DOMAIN logical_blocks'[Victim'] : i >= Cursor(Victim)' => OnGpu(logical_blocks'[Victim'][i])
      BY <1>3, <2>2, <2>3, Zenon DEF Cursor
    <2> QED BY <2>1, <2>4, <2>5, Zenon DEF TablesOnGpu, OnGpu
  <1>14. TablesLong' /\ BatchLong'
    BY <1>1, <1>2, <1>4, <1>10, Zenon
       DEF MemInv, TablesLong, BatchLong, Covers, TotalLen
  <1> QED BY <1>11, <1>12, <1>13, <1>14, Zenon DEF MemInv

-----------------------------------------------------------------------------
(* try_swap_in: the table of the sequence is on the GPU up to the cursor. *)
LEMMA MemSwapIn ==
    ASSUME QueueInv, OrderInv, MemInv, InSchedule, SwapInAdmit \/ SwapInAllocate \/ SwapInEnd
    PROVE  MemInv'
  <1> USE DEF At, bmVars, queueVars, seqVars, innerVars, budgetVars, outputVars, batchVars
  <1>1. /\ phase = "scheduling" /\ phase' = "scheduling" /\ status \in [SeqIds -> Status]
        /\ Range(scheduled) \subseteq SeqIds /\ Range(waiting) \subseteq SeqIds
    BY RangeInSet, Zenon
       DEF InSchedule, SwapInAdmit, SwapInAllocate, SwapInEnd, QueueInv, QueueTypes, Control,
           ScheduleLabels
  <1>2. swapped # <<>>
    BY Zenon DEF SwapInAdmit, SwapInAllocate, SwapInEnd, CanSwapIn, QueueInv, Cursors
  <1>3. PICK h \in SeqIds : h = Head(swapped) /\ h \in Range(swapped)
    BY <1>2, Places, Zenon DEF QueueInv, QueueTypes
  <1>4. h \notin Range(waiting) /\ h \notin Range(scheduled) /\ status[h] # "NEW"
    BY <1>1, <1>3, Zenon DEF QueueInv, Lines, ScheduledRun, UsesScheduled
  <1>5. /\ Len(logical_blocks[h]) \in Nat /\ DOMAIN logical_blocks[h] = 1 .. Len(logical_blocks[h])
        /\ left \in Nat /\ Len(free_list["CUDA"]) \in Nat
        /\ logical_blocks \in [SeqIds -> Seq(Blocks \cup {INVALID_BLOCK})]
        /\ free_list \in [Device -> Seq(Blocks)] /\ "CUDA" \in Device
    BY Lengths, LenProperties, Zenon DEF MemInv, LoopTypes, BMTypeOK, Device
  <1>6. CASE SwapInAdmit
    <2>1. /\ pc = "swapIn" /\ pc' = "swapInAlloc" /\ CanSwapIn /\ left' = SwapInBlocks(h)
          /\ status' = IF Finished(h) THEN status ELSE [status EXCEPT ![h] = "RUNNING"]
          /\ UNCHANGED <<ref_count, free_list, seq_block_map, freeing, waiting, running, swapped,
                         preempted, swapped_in, output_tokens, logical_blocks, cpu_bid,
                         budget_tokens, budget_seqs, batch, new_tokens, tok_idx, scheduled, group, config>>
      BY <1>3, <1>6, Zenon DEF SwapInAdmit, InSchedule
    <2>2. status[h] \in {"SWAPPED"} \cup Done
      BY <1>3, <2>1 DEF QueueInv, Statuses
    <2>3. /\ left' \in Nat /\ left' <= Len(logical_blocks[h])
          /\ left' > 0 => status'[h] = "RUNNING"
          /\ \A q \in SeqIds \ {h} : status'[q] = status[q]
          /\ status'[h] \in {"RUNNING"} \cup Done
          /\ status'[h] = "RUNNING" => status[h] = "SWAPPED" /\ left' = Len(logical_blocks[h])
          /\ Finished(h)' <=> Finished(h)
      BY <1>1, <1>5, <2>1, <2>2, SMTT(30) DEF SwapInBlocks, Finished, Done
    <2>4. LoopTypes'
      BY <2>1, <2>3, Zenon DEF MemInv, LoopTypes, BMTypeOK
    <2>5. Budgets'
      <3>1. DecodeTokens(h) <= budget_tokens /\ budget_seqs >= 1 /\ DecodeTokens(h)' = DecodeTokens(h)
        <4>1. DecodeTokens(h) <= budget_tokens /\ budget_seqs > 0 /\ budget_seqs \in Nat
          BY <1>3, <2>1, Zenon DEF CanSwapIn, MemInv, LoopTypes
        <4>2. DecodeTokens(h)' = DecodeTokens(h)
          BY <2>3, Zenon DEF DecodeTokens
        <4>3. budget_seqs >= 1
          BY <4>1
        <4> QED BY <4>1, <4>2, <4>3, Zenon
      <3> QED BY <1>1, <1>3, <2>1, <3>1, Zenon DEF Budgets, DecodeTokens
    <2>6. Inner'
      <3>1. left' <= Len(free_list["CUDA"])
        BY <1>3, <2>1, Zenon DEF CanSwapIn, can_allocate
      <3> QED BY <1>3, <2>1, <2>3, <3>1, Zenon DEF Inner
    <2>7. TablesOnGpu'
      <3>1. \A i \in DOMAIN logical_blocks[h] : status'[h] = "RUNNING" => i >= Cursor(h)'
        BY <1>5, <2>1, <2>3 DEF Cursor
      <3>2. \A q \in SeqIds \ {h} : status[q] = "RUNNING" =>
               \A i \in DOMAIN logical_blocks[q] : OnGpu(logical_blocks[q][i])
        BY <2>1, Zenon DEF MemInv, TablesOnGpu
      <3> HIDE DEF OnGpu
      <3>3. /\ \A r \in SeqIds : status'[r] = "NEW" => logical_blocks'[r] = <<>>
            /\ PreemptionMode' = "RECOMPUTE" =>
                  \A r \in SeqIds : \A i \in DOMAIN logical_blocks'[r] : OnGpu(logical_blocks'[r][i])
            /\ \A r \in Range(waiting') : \A i \in DOMAIN logical_blocks'[r] : OnGpu(logical_blocks'[r][i])
        BY <2>1, <2>3, Zenon DEF MemInv, TablesOnGpu, PreemptionMode, Done
      <3>4. \A r \in SeqIds : status'[r] = "RUNNING" =>
               \A i \in DOMAIN logical_blocks'[r] :
                   \/ OnGpu(logical_blocks'[r][i])
                   \/ pc' = "swapInAlloc" /\ r = Head(swapped') /\ i >= Cursor(r)'
        BY <1>3, <2>1, <2>3, <3>1, <3>2, ZenonT(30) DEF Cursor
      <3> QED BY <2>1, <3>3, <3>4, Zenon DEF TablesOnGpu, OnGpu
    <2>8. TablesLong' /\ BatchLong'
      BY <1>1, <1>4, <2>1, <2>3, Zenon DEF MemInv, TablesLong, BatchLong, Covers, TotalLen, Done
    <2> QED BY <2>4, <2>5, <2>6, <2>7, <2>8 DEF MemInv
  <1>7. CASE SwapInAllocate
    <2>1. /\ pc = "swapInAlloc" /\ left > 0 /\ left' = left - 1
          /\ UNCHANGED <<waiting, running, swapped, preempted, swapped_in, output_tokens, status, cpu_bid, pc,
                         budget_tokens, budget_seqs, batch, new_tokens, tok_idx, scheduled, group, config>>
      BY <1>7, Zenon DEF SwapInAllocate, InSchedule
    <2>2. /\ left <= Len(free_list["CUDA"]) /\ left <= Len(logical_blocks[h]) /\ status[h] = "RUNNING"
      BY <1>3, <2>1, Zenon DEF MemInv, Inner
    <2>3. PICK c \in DOMAIN logical_blocks[h] : c = Cursor(h) /\ c = Len(logical_blocks[h]) - left + 1
      BY <1>5, <2>1, <2>2 DEF Cursor
    <2>4. /\ allocate_block(h, "CUDA")
          /\ logical_blocks' = [logical_blocks EXCEPT ![h][c] = PoppedBlock("CUDA")]
      BY <1>3, <1>7, <2>3, Zenon DEF SwapInAllocate
    <2>5. free_list["CUDA"] # <<>>
      BY <1>5, <2>1, <2>2
    <2>6. /\ BMTypeOK' /\ PoppedBlock("CUDA") \in Blocks /\ OnGpu(PoppedBlock("CUDA"))
          /\ Len(free_list'["CUDA"]) = Len(free_list["CUDA"]) - 1
          /\ free_list' \in [Device -> Seq(Blocks)]
      BY <1>5, <2>4, <2>5, AllocateTypes, Zenon DEF MemInv, LoopTypes, BMTypeOK, OnGpu
    <2>7. /\ logical_blocks' \in [SeqIds -> Seq(Blocks \cup {INVALID_BLOCK})]
          /\ \A q \in SeqIds \ {h} : logical_blocks'[q] = logical_blocks[q]
          /\ Len(logical_blocks'[h]) = Len(logical_blocks[h])
          /\ DOMAIN logical_blocks'[h] = DOMAIN logical_blocks[h]
          /\ logical_blocks'[h][c] = PoppedBlock("CUDA")
          /\ \A i \in DOMAIN logical_blocks[h] \ {c} : logical_blocks'[h][i] = logical_blocks[h][i]
      <3> HIDE DEF OnGpu
      <3> QED BY <1>5, <2>4, <2>6, TableReplace, Zenon
    <2>8. LoopTypes'
      <3>1. left' \in Nat
        BY <1>5, <2>1
      <3> QED BY <2>1, <2>6, <2>7, <3>1, Zenon DEF MemInv, LoopTypes
    <2>9. Budgets'
      BY <1>1, <2>1, Zenon DEF MemInv, Budgets, DecodeTokens, Finished
    <2>10. Inner'
      <3>1. left' <= Len(free_list'["CUDA"]) /\ left' <= Len(logical_blocks'[h])
        <4>1. /\ Len(free_list'["CUDA"]) = Len(free_list["CUDA"]) - 1
              /\ Len(logical_blocks'[h]) = Len(logical_blocks[h])
          BY <2>6, <2>7, Zenon
        <4>2. left - 1 <= Len(free_list["CUDA"]) - 1 /\ left - 1 <= Len(logical_blocks[h])
          BY <1>5, <2>2
        <4> QED BY <2>1, <4>1, <4>2, Zenon
      <3> QED BY <1>3, <2>1, <2>2, <3>1, Zenon DEF Inner
    <2>11. TablesOnGpu'
      <3>1. PreemptionMode' # "RECOMPUTE"
        BY <2>1, Zenon DEF OrderInv, PreemptionMode
      <3>2. Cursor(h)' = c + 1 /\ c \in Int
        BY <1>5, <2>1, <2>3, <2>7 DEF Cursor
      <3>3. \A i \in DOMAIN logical_blocks'[h] : OnGpu(logical_blocks'[h][i]) \/ i >= c + 1
        <4>1. \A i \in DOMAIN logical_blocks[h] : OnGpu(logical_blocks[h][i]) \/ i >= c
          BY <1>3, <2>1, <2>2, <2>3, Zenon DEF MemInv, TablesOnGpu
        <4> HIDE DEF OnGpu
        <4>2. \A i \in DOMAIN logical_blocks[h] \ {c} : i >= c => i >= c + 1
          BY <1>5, <2>3
        <4>3. OnGpu(logical_blocks'[h][c])
          BY <2>6, <2>7, Zenon
        <4>4. \A i \in DOMAIN logical_blocks[h] \ {c} : OnGpu(logical_blocks'[h][i]) \/ i >= c + 1
          BY <2>7, <4>1, <4>2, Zenon
        <4> QED BY <2>7, <4>3, <4>4, Zenon
      <3> HIDE DEF OnGpu
      <3>4. /\ \A r \in SeqIds : status'[r] = "NEW" => logical_blocks'[r] = <<>>
            /\ \A r \in Range(waiting') : \A i \in DOMAIN logical_blocks'[r] : OnGpu(logical_blocks'[r][i])
        BY <1>1, <1>4, <2>1, <2>2, <2>7, Zenon DEF MemInv, TablesOnGpu
      <3>5. \A r \in SeqIds \ {h} : status'[r] = "RUNNING" =>
               \A i \in DOMAIN logical_blocks'[r] : OnGpu(logical_blocks'[r][i])
        BY <1>3, <2>1, <2>7, Zenon DEF MemInv, TablesOnGpu
      <3>6. \A r \in SeqIds : status'[r] = "RUNNING" =>
               \A i \in DOMAIN logical_blocks'[r] :
                   \/ OnGpu(logical_blocks'[r][i])
                   \/ pc' = "swapInAlloc" /\ r = Head(swapped') /\ i >= Cursor(r)'
        BY <1>3, <2>1, <3>2, <3>3, <3>5, Zenon DEF Cursor
      <3> QED BY <2>1, <3>1, <3>4, <3>6, Zenon DEF TablesOnGpu, OnGpu
    <2>12. TablesLong' /\ BatchLong'
      BY <1>1, <1>4, <2>1, <2>7, Zenon
         DEF MemInv, TablesLong, BatchLong, Covers, TotalLen
    <2> QED BY <2>8, <2>9, <2>10, <2>11, <2>12, Zenon DEF MemInv
  <1>8. CASE SwapInEnd
    <2>1. /\ pc = "swapInAlloc" /\ pc' = "swapIn" /\ left = 0 /\ swapped_in' = Append(swapped_in, h)
          /\ budget_tokens' = budget_tokens - DecodeTokens(h) /\ budget_seqs' = budget_seqs - 1
          /\ UNCHANGED <<ref_count, free_list, seq_block_map, freeing, waiting, preempted, output_tokens,
                         logical_blocks, status, left, cpu_bid, batch, new_tokens, tok_idx, scheduled, group,
                         config>>
      BY <1>3, <1>8, Zenon DEF SwapInEnd, InSchedule
    <2>2. budget_tokens' \in Nat /\ budget_seqs' \in Nat
      BY <1>3, <2>1 DEF MemInv, LoopTypes, Budgets, DecodeTokens
    <2>3. swapped_in' \in Seq(SeqIds)
      BY <2>1, AppendProperties, Zenon DEF MemInv, LoopTypes
    <2>4. LoopTypes'
      BY <2>1, <2>2, <2>3, Zenon DEF MemInv, LoopTypes, BMTypeOK
    <2>5. Budgets' /\ Inner'
      BY <1>1, <2>1, Zenon DEF Budgets, Inner
    <2>6. TablesOnGpu'
      <3>1. \A i \in DOMAIN logical_blocks[h] : ~(i >= Cursor(h))
        BY <1>5, <2>1 DEF Cursor
      <3> QED BY <1>3, <2>1, <3>1, Zenon DEF MemInv, TablesOnGpu, PreemptionMode, OnGpu
    <2>7. TablesLong' /\ BatchLong'
      BY <1>1, <2>1, Zenon DEF MemInv, TablesLong, BatchLong, Covers, TotalLen
    <2> QED BY <2>4, <2>5, <2>6, <2>7 DEF MemInv
  <1> QED BY <1>6, <1>7, <1>8, Zenon

-----------------------------------------------------------------------------
(* Clients: a new request has no blocks, an aborted one keeps its table. *)
LEMMA MemClient ==
    ASSUME QueueInv, MemInv, NEW r \in SeqIds, Submit(r) \/ Abort(r)
    PROVE  MemInv'
  <1> USE DEF At, bmVars, innerVars, budgetVars, outputVars, batchVars
  <1>1. /\ pc = "unlocked" /\ pc' = "unlocked"
        /\ UNCHANGED <<ref_count, free_list, seq_block_map, preempted, swapped_in,
                       output_tokens, logical_blocks, cpu_bid, left, budget_tokens,
                       budget_seqs, batch, new_tokens, tok_idx, scheduled, group, config>>
        /\ phase' = phase \/ phase' = "schedule"
        /\ freeing' \in {freeing, r}
    BY Zenon DEF Submit, Abort, add_request, abort_request, EnterFreeBlocks
  <1>2. /\ \A q \in SeqIds \ {r} : status'[q] = status[q]
        /\ status'[r] \notin {"NEW", "RUNNING", "SWAPPED"} \/ status' = status
    BY Zenon DEF QueueInv, QueueTypes, Submit, Abort, add_request, abort_request
  <1>3. \A q \in Range(waiting') : q \in Range(waiting) \/ logical_blocks[q] = <<>>
    <2>1. CASE Submit(r)
      <3>1. Range(waiting') = Range(waiting) \cup {r} /\ status[r] = "NEW"
        BY <2>1, AppendElements, ZenonT(30) DEF Submit, add_request, QueueInv, QueueTypes
      <3> QED BY <3>1, Zenon DEF MemInv, TablesOnGpu
    <2>2. CASE Abort(r)
      BY <2>2, Zenon DEF Abort, abort_request
    <2> QED BY <2>1, <2>2, Zenon
  <1>4. LoopTypes'
    BY <1>1, Zenon DEF MemInv, LoopTypes, BMTypeOK
  <1>5. Budgets' /\ Inner'
    BY <1>1, Zenon DEF MemInv, Budgets, Inner
  <1>6. TablesOnGpu'
    <2>1. \A i \in DOMAIN <<>> : FALSE
      OBVIOUS
    <2> HIDE DEF OnGpu
    <2>2. /\ \A q \in SeqIds : status'[q] = "NEW" => logical_blocks'[q] = <<>>
          /\ PreemptionMode' = "RECOMPUTE" =>
                \A q \in SeqIds : \A i \in DOMAIN logical_blocks'[q] : OnGpu(logical_blocks'[q][i])
          /\ \A q \in SeqIds : status'[q] = "RUNNING" =>
                \A i \in DOMAIN logical_blocks'[q] : OnGpu(logical_blocks'[q][i])
      BY <1>1, <1>2, Zenon DEF MemInv, TablesOnGpu, PreemptionMode
    <2>3. \A q \in Range(waiting') : \A i \in DOMAIN logical_blocks'[q] : OnGpu(logical_blocks'[q][i])
      BY <1>1, <1>3, <2>1, Zenon DEF MemInv, TablesOnGpu
    <2> QED BY <1>1, <2>2, <2>3, Zenon DEF TablesOnGpu, OnGpu
  <1>7. TablesLong'
    BY <1>1, <1>2, Zenon DEF MemInv, TablesLong, Covers, TotalLen
  <1>8. BatchLong'
    <2>1. Range(scheduled) \subseteq SeqIds /\ group \in Nat \ {0} /\ Len(scheduled) \in Nat
          /\ \A i \in 1 .. Len(scheduled) : scheduled[i] \in SeqIds
      BY Places, RangeInSet DEF QueueInv, QueueTypes
    <2>2. \A i \in group .. Len(scheduled) : scheduled[i] \in SeqIds
      BY <2>1
    <2>3. \A q \in SeqIds : status'[q] = "RUNNING" => status[q] = "RUNNING"
      BY <1>2, Zenon
    <2> QED BY <1>1, <2>1, <2>2, <2>3, Zenon DEF MemInv, BatchLong, Covers, TotalLen
  <1> QED BY <1>4, <1>5, <1>6, <1>7, <1>8, Zenon DEF MemInv

(* update_after_decode lengthens a sequence by one position, for which     *)
(* schedule() has provided the block.                                      *)
LEMMA MemAppend ==
    ASSUME QueueInv, MemInv, UpdateAppend
    PROVE  MemInv'
  <1>1. /\ phase = "append" /\ phase' = "update" /\ group' = group + 1 /\ tok_idx' = tok_idx + 1
        /\ UNCHANGED <<ref_count, free_list, seq_block_map, freeing, preempted, swapped_in, waiting,
                       logical_blocks, cpu_bid, left, budget_tokens, budget_seqs, batch, new_tokens,
                       scheduled, config, pc>>
    BY Zenon DEF UpdateAppend, bmVars, queueVars, innerVars, budgetVars, outputVars
  <1>2. /\ group \in 1 .. Len(scheduled) /\ Len(scheduled) \in Nat /\ IsInjective(scheduled)
        /\ DOMAIN scheduled = 1 .. Len(scheduled) /\ \A i \in 1 .. Len(scheduled) : scheduled[i] \in SeqIds
        /\ Range(scheduled) \subseteq Range(running) /\ pc \notin InnerLabels
    <2>1. /\ Len(scheduled) \in Nat /\ DOMAIN scheduled = 1 .. Len(scheduled)
          /\ \A i \in 1 .. Len(scheduled) : scheduled[i] \in SeqIds
      BY Places, Zenon DEF QueueInv, QueueTypes
    <2>2. group \in Nat \ {0} /\ group <= Len(scheduled)
      BY <1>1, Zenon DEF QueueInv, QueueTypes, Cursors
    <2>3. group \in 1 .. Len(scheduled)
      BY <2>1, <2>2
    <2>4. /\ IsInjective(scheduled) /\ Range(scheduled) \subseteq Range(running)
          /\ pc \notin InnerLabels
      BY <1>1, Zenon DEF QueueInv, ScheduledRun, UsesScheduled, Control, ScheduleLabels, DecodeLabels,
                         InnerLabels, TableLabels
    <2> QED BY <2>1, <2>3, <2>4, Zenon
  <1>3. PICK r \in SeqIds : r = scheduled[group] /\ r \in Range(running)
    BY <1>2, Zenon DEF Range
  <1>4. status[r] \in {"RUNNING"} \cup Done
    BY <1>2, <1>3, Zenon DEF QueueInv, Statuses, InnerLabels, TableLabels
  <1> DEFINE t == new_tokens[tok_idx]
             o == Append(output_tokens[r], t)
  <1>5. output_tokens' = [output_tokens EXCEPT ![r] = o]
        /\ status' \in {status, [status EXCEPT ![r] = "FINISHED_LENGTH"]}
    BY <1>3, Zenon DEF UpdateAppend
  <1>6. t \in Tokens
    <2>1. tok_idx \in 1 .. Len(new_tokens) /\ new_tokens \in Seq(Tokens)
      BY <1>1, LenProperties DEF MemInv, LoopTypes, Budgets
    <2> QED BY <2>1, ElementOfSeq, Zenon
  <1>7. o \in Seq(Tokens) /\ Len(o) = Len(output_tokens[r]) + 1
    <2> HIDE DEF t
    <2>1. output_tokens[r] \in Seq(Tokens)
      BY <1>3, Zenon DEF MemInv, LoopTypes
    <2> QED BY <1>6, <2>1, AppendProperties, ZenonT(30)
  <1> HIDE DEF o, t
  <1>8. /\ output_tokens' \in [SeqIds -> Seq(Tokens)] /\ output_tokens'[r] = o
        /\ \A q \in SeqIds \ {r} : output_tokens'[q] = output_tokens[q] /\ status'[q] = status[q]
        /\ status'[r] \in {status[r], "FINISHED_LENGTH"}
    BY <1>5, <1>7, Zenon DEF MemInv, LoopTypes, QueueInv, QueueTypes
  <1>9. /\ TotalLen(r)' = TotalLen(r) + 1 /\ TotalLen(r) \in Nat
        /\ \A q \in SeqIds \ {r} : TotalLen(q)' = TotalLen(q)
    <2>1. PromptLen[r] \in Nat /\ Len(output_tokens[r]) \in Nat
      BY Lengths, SchedulerConstants, Zenon DEF MemInv
    <2>2. TotalLen(r)' = PromptLen[r] + (Len(output_tokens[r]) + 1)
      BY <1>7, <1>8, Zenon DEF TotalLen
    <2>3. TotalLen(r) = PromptLen[r] + Len(output_tokens[r])
      BY Zenon DEF TotalLen
    <2>4. \A q \in SeqIds \ {r} : TotalLen(q)' = TotalLen(q)
      BY <1>8, Zenon DEF TotalLen
    <2>5. TotalLen(r)' = TotalLen(r) + 1 /\ TotalLen(r) \in Nat
      BY <2>1, <2>2, <2>3
    <2> QED BY <2>4, <2>5, Zenon
  <1>10. LoopTypes'
    <2>1. tok_idx' \in Nat \ {0}
      BY <1>1 DEF MemInv, LoopTypes
    <2> QED BY <1>1, <1>8, <2>1, Zenon DEF MemInv, LoopTypes, BMTypeOK
  <1>11. Budgets' /\ Inner'
    BY <1>1, <1>2, Zenon DEF Budgets, Inner, InnerLabels, TableLabels
  <1>12. TablesOnGpu'
    <2>1. \A q \in SeqIds : status'[q] \in {"NEW", "RUNNING"} => status'[q] = status[q]
      BY <1>8, Zenon
    <2> QED BY <1>1, <1>2, <2>1, Zenon
               DEF MemInv, TablesOnGpu, PreemptionMode, OnGpu, InnerLabels, TableLabels
  <1>13. status'[r] = "RUNNING" => Covers(r, TotalLen(r))
    <2>1. group \in group .. Len(scheduled)
      BY <1>2
    <2>2. status'[r] = "RUNNING" => status[r] = "RUNNING"
      BY <1>8, Zenon
    <2> QED BY <1>1, <1>3, <2>1, <2>2, Zenon DEF MemInv, BatchLong
  <1>14. TablesLong'
    <2>1. TotalLen(r)' - 1 = TotalLen(r)
      BY <1>9
    <2>2. status'[r] = "RUNNING" => Covers(r, TotalLen(r) - 1)'
      BY <1>1, <1>13, <2>1, Zenon DEF Covers
    <2>3. status'[r] # "SWAPPED"
      BY <1>4, <1>8, Zenon DEF Done
    <2>4. \A q \in SeqIds \ {r} : status'[q] \in {"RUNNING", "SWAPPED"} => Covers(q, TotalLen(q) - 1)'
      <3>1. \A q \in SeqIds \ {r} : /\ status'[q] = status[q] /\ TotalLen(q)' = TotalLen(q)
                                   /\ logical_blocks'[q] = logical_blocks[q]
        BY <1>1, <1>8, <1>9, Zenon
      <3>2. \A q \in SeqIds : status[q] \in {"RUNNING", "SWAPPED"} => Covers(q, TotalLen(q) - 1)
        BY <1>2, Zenon DEF MemInv, TablesLong, InnerLabels, TableLabels
      <3> QED BY <3>1, <3>2, Zenon DEF Covers
    <2> QED BY <2>2, <2>3, <2>4, Zenon DEF TablesLong
  <1>15. BatchLong'
    <2>1. \A i \in group + 1 .. Len(scheduled) : /\ i \in group .. Len(scheduled) /\ scheduled[i] \in SeqIds
                                                  /\ scheduled[i] # r
      BY <1>2, <1>3 DEF IsInjective
    <2>2. \A q \in SeqIds \ {r} : /\ status'[q] = status[q] /\ TotalLen(q)' = TotalLen(q)
                                 /\ logical_blocks'[q] = logical_blocks[q]
      BY <1>1, <1>8, <1>9, Zenon
    <2>3. phase = "append" /\ phase' = "update" /\ group' = group + 1 /\ scheduled' = scheduled
      BY <1>1, Zenon
    <2>4. \A i \in group .. Len(scheduled) :
              status[scheduled[i]] = "RUNNING" => Covers(scheduled[i], TotalLen(scheduled[i]))
      BY <2>3, Zenon DEF MemInv, BatchLong
    <2>5. \A i \in group + 1 .. Len(scheduled) :
              status'[scheduled[i]] = "RUNNING" => Covers(scheduled[i], TotalLen(scheduled[i]))'
      BY <2>1, <2>2, <2>3, <2>4, Zenon DEF Covers
    <2> QED BY <2>3, <2>5, Zenon DEF BatchLong
  <1> QED BY <1>10, <1>11, <1>12, <1>14, <1>15, Zenon DEF MemInv

(* free_finished_requests destroys a table with its group. *)
LEMMA MemErase ==
    ASSUME QueueInv, MemInv, InFreeFinishedLoop, FreeFinishedErase
    PROVE  MemInv'
  <1>1. /\ pc \in {"freeRunning", "freeWaiting"} /\ it <= Len(FreeFinishedQueue)
        /\ UNCHANGED <<ref_count, free_list, seq_block_map, preempted, swapped_in, output_tokens, cpu_bid,
                       left, budget_tokens, budget_seqs, batch, new_tokens, tok_idx, scheduled, group, config,
                       phase, pc>>
    BY Zenon
       DEF FreeFinishedErase, InFreeFinished, InFreeFinishedLoop, At, innerVars, budgetVars, outputVars,
           batchVars
  <1>2. it \in DOMAIN FreeFinishedQueue /\ FreeFinishedQueue \in Seq(SeqIds)
    BY <1>1, LenProperties DEF FreeFinishedQueue, QueueInv, QueueTypes
  <1>3. PICK r \in SeqIds : r = FreeFinishedQueue[it]
    BY <1>2, Places, Zenon
  <1>4. /\ status' = [status EXCEPT ![r] = "GONE"] /\ freeing' = r
        /\ logical_blocks' = [logical_blocks EXCEPT ![r] = <<>>]
    BY <1>3, Zenon DEF FreeFinishedErase, EnterFreeBlocks
  <1>5. <<>> \in Seq(Blocks \cup {INVALID_BLOCK}) /\ \A i \in DOMAIN <<>> : FALSE
    OBVIOUS
  <1>6. /\ logical_blocks' \in [SeqIds -> Seq(Blocks \cup {INVALID_BLOCK})] /\ logical_blocks'[r] = <<>>
        /\ \A q \in SeqIds \ {r} : logical_blocks'[q] = logical_blocks[q] /\ status'[q] = status[q]
        /\ status'[r] = "GONE"
    BY <1>4, <1>5, Zenon DEF MemInv, LoopTypes, QueueInv, QueueTypes
  <1>7. Range(waiting') \subseteq Range(waiting) /\ Range(waiting) \subseteq SeqIds
    <2>1. pc = "freeRunning" => waiting' = waiting
      BY Zenon DEF FreeFinishedErase
    <2>2. pc # "freeRunning" => waiting' = Erase(waiting, it) /\ it \in DOMAIN waiting
      BY <1>2, Zenon DEF FreeFinishedErase, FreeFinishedQueue
    <2>3. waiting \in Seq(SeqIds) /\ IsInjective(waiting)
      BY Zenon DEF QueueInv, QueueTypes, Lines
    <2> QED BY <2>1, <2>2, <2>3, EraseElements, RangeInSet
  <1>8. phase = "freeing"
    BY <1>1, Zenon DEF QueueInv, Control, FreeLabels
  <1>9. LoopTypes'
    BY <1>1, <1>4, <1>6, Zenon DEF MemInv, LoopTypes, BMTypeOK
  <1>10. Budgets' /\ Inner' /\ BatchLong'
    BY <1>1, <1>8, Zenon DEF Budgets, Inner, BatchLong
  <1>11. TablesOnGpu'
    <2> HIDE DEF OnGpu
    <2>1. /\ \A q \in SeqIds : status'[q] = "NEW" => logical_blocks'[q] = <<>>
          /\ PreemptionMode' = "RECOMPUTE" =>
                \A q \in SeqIds : \A i \in DOMAIN logical_blocks'[q] : OnGpu(logical_blocks'[q][i])
          /\ \A q \in SeqIds : status'[q] = "RUNNING" =>
                \A i \in DOMAIN logical_blocks'[q] : OnGpu(logical_blocks'[q][i])
      BY <1>1, <1>5, <1>6, Zenon DEF MemInv, TablesOnGpu, PreemptionMode
    <2>2. \A q \in Range(waiting') : \A i \in DOMAIN logical_blocks'[q] : OnGpu(logical_blocks'[q][i])
      BY <1>5, <1>6, <1>7, Zenon DEF MemInv, TablesOnGpu
    <2> QED BY <1>1, <2>1, <2>2, Zenon DEF TablesOnGpu, OnGpu
  <1>12. TablesLong'
    BY <1>1, <1>6, Zenon DEF MemInv, TablesLong, Covers, TotalLen
  <1> QED BY <1>9, <1>10, <1>11, <1>12, Zenon DEF MemInv

(* free_blocks only lengthens the free lists, and a step that changes      *)
(* nothing keeps everything.                                               *)
LEMMA MemFreeBlocks ==
    ASSUME QueueInv, MemInv, InFreeBlocks \/ UNCHANGED vars
    PROVE  MemInv'
  <1> USE DEF vars, bmVars, schedVars, queueVars, seqVars, innerVars, budgetVars, outputVars, batchVars
  <1>1. UNCHANGED <<waiting, running, swapped, status, output_tokens, logical_blocks, pc, it, left, cpu_bid,
                    budget_tokens, budget_seqs, scheduled, preempted, swapped_in, batch, new_tokens,
                    tok_idx, group, phase, config>>
    BY Zenon DEF InFreeBlocks, FreeBlocksStep
  <1>2. BMTypeOK' /\ Len(free_list'["CUDA"]) >= Len(free_list["CUDA"])
    <2>1. BMTypeOK /\ "CUDA" \in Device
      BY Zenon DEF MemInv, LoopTypes, Device
    <2>2. CASE InFreeBlocks
      BY <2>1, <2>2, FreeBlocksTypes, Zenon DEF InFreeBlocks, FreeBlocksStep
    <2>3. CASE UNCHANGED vars
      <3>1. UNCHANGED <<ref_count, free_list, seq_block_map, freeing>>
        BY <2>3, Zenon
      <3>2. Len(free_list["CUDA"]) \in Nat
        BY <2>1, LenProperties, Zenon DEF BMTypeOK
      <3>3. Len(free_list'["CUDA"]) >= Len(free_list["CUDA"])
        BY <3>1, <3>2
      <3> QED BY <2>1, <3>1, <3>3, Zenon DEF BMTypeOK
    <2> QED BY <2>2, <2>3, Zenon
  <1>3. LoopTypes'
    BY <1>1, <1>2, Zenon DEF MemInv, LoopTypes
  <1>4. Budgets'
    BY <1>1, Zenon DEF MemInv, Budgets, DecodeTokens, Finished
  <1>5. Inner'
    <2> DEFINE f == Len(free_list["CUDA"])
               g == Len(free_list'["CUDA"])
    <2>1. f \in Nat /\ g \in Nat /\ g >= f
      BY <1>2, LenProperties, Zenon DEF MemInv, LoopTypes, BMTypeOK, Device
    <2>2. /\ pc = "decodeAlloc" => running[it] \in SeqIds
          /\ pc = "prefillAlloc" => Head(waiting) \in SeqIds
          /\ pc = "swapInAlloc" => Head(swapped) \in SeqIds
      <3>1. ASSUME pc = "decodeAlloc" PROVE it \in 1 .. Len(running)
        <4>1. it \in Nat \ {0} /\ it <= Len(running)
          BY <3>1, Zenon DEF QueueInv, QueueTypes, Cursors
        <4>2. Len(running) \in Nat
          BY Places, Zenon DEF QueueInv, QueueTypes
        <4> QED BY <4>1, <4>2
      <3> QED BY <3>1, Places, Zenon DEF QueueInv, QueueTypes, Cursors
    <2>3. \A r \in SeqIds : BlocksNeeded(r)' = BlocksNeeded(r) /\ Len(logical_blocks'[r]) = Len(logical_blocks[r])
      BY <1>1, Zenon DEF BlocksNeeded, TotalLen
    <2>4. \A r \in SeqIds : BlocksNeeded(r) \in Nat /\ Len(logical_blocks[r]) \in Nat
      BY Lengths, Zenon DEF MemInv
    <2>5. left \in Nat
      BY Zenon DEF MemInv, LoopTypes
    <2> HIDE DEF f, g
    <2>6. ASSUME pc = "decodeAlloc"
          PROVE  BlocksNeeded(running[it]) <= Len(logical_blocks[running[it]]) + g
      <3>1. PICK r \in SeqIds : r = running[it]
        BY <2>2, <2>6, Zenon
      <3>2. BlocksNeeded(r) <= Len(logical_blocks[r]) + f
        BY <2>6, <3>1, Zenon DEF MemInv, Inner, f
      <3>3. BlocksNeeded(r) <= Len(logical_blocks[r]) + g
        BY <2>1, <2>4, <3>2
      <3> QED BY <3>1, <3>3, Zenon
    <2>7. pc = "prefillAlloc" => /\ left <= g
                                 /\ Len(logical_blocks[Head(waiting)]) + left >= BlocksNeeded(Head(waiting))
      BY <2>1, <2>5 DEF MemInv, Inner, f
    <2>8. pc = "swapInAlloc" => left <= g
      BY <2>1, <2>5 DEF MemInv, Inner, f
    <2>9. /\ BlocksNeeded(running[it])' = BlocksNeeded(running[it])
          /\ BlocksNeeded(Head(waiting))' = BlocksNeeded(Head(waiting))
          /\ Victim' = Victim
      BY <1>1, Zenon DEF BlocksNeeded, TotalLen, Victim
    <2> QED BY <1>1, <2>6, <2>7, <2>8, <2>9, Zenon DEF MemInv, Inner, g
  <1>6. TablesOnGpu'
    BY <1>1, Zenon DEF MemInv, TablesOnGpu, PreemptionMode, OnGpu, Victim, Cursor
  <1>7. TablesLong' /\ BatchLong'
    BY <1>1, Zenon DEF MemInv, TablesLong, BatchLong, Covers, TotalLen
  <1> QED BY <1>3, <1>4, <1>5, <1>6, <1>7, Zenon DEF MemInv

(* At the start the lists are full and nobody has a table. *)
LEMMA MemInit == Init => MemInv
  <1> SUFFICES ASSUME Init PROVE MemInv
    BY Zenon
  <1>1. /\ waiting = <<>> /\ pc = "unlocked" /\ phase = "schedule" /\ left = 0 /\ cpu_bid = INVALID_BLOCK
        /\ status = [r \in SeqIds |-> "NEW"] /\ output_tokens = [r \in SeqIds |-> <<>>]
        /\ logical_blocks = [r \in SeqIds |-> <<>>] /\ budget_tokens = 0 /\ budget_seqs = 0
        /\ preempted = <<>> /\ swapped_in = <<>> /\ batch = <<>> /\ new_tokens = <<>> /\ tok_idx = 1
        /\ BMInit
    BY Zenon DEF Init, SchedInit
  <1>2. BMTypeOK
    BY <1>1, BMInitExact, Zenon
  <1>3. <<>> \in Seq(SeqIds) /\ <<>> \in Seq(Tokens) /\ <<>> \in Seq(Blocks \cup {INVALID_BLOCK})
    OBVIOUS
  <1>4. /\ output_tokens \in [SeqIds -> Seq(Tokens)]
        /\ logical_blocks \in [SeqIds -> Seq(Blocks \cup {INVALID_BLOCK})]
    BY <1>1, <1>3, Zenon
  <1>5. LoopTypes
    BY <1>1, <1>2, <1>3, <1>4 DEF LoopTypes
  <1>6. Budgets /\ Inner /\ BatchLong
    BY <1>1, Zenon DEF Budgets, Inner, BatchLong
  <1>7. TablesOnGpu /\ TablesLong
    BY <1>1 DEF TablesOnGpu, TablesLong, Range
  <1> QED BY <1>5, <1>6, <1>7, Zenon DEF MemInv

(* Every step keeps the memory invariant. *)
LEMMA MemStep ==
    ASSUME QueueInv, OrderInv, MemInv, [Next]_vars
    PROVE  MemInv'
  <1>1. CASE InFreeBlocks \/ UNCHANGED vars \/ Terminated
    BY <1>1, MemFreeBlocks, Zenon DEF Terminated
  <1>2. CASE \E r \in SeqIds : Submit(r) \/ Abort(r)
    BY <1>2, MemClient, Zenon
  <1>3. CASE InSchedule
    BY <1>3, MemLoop, MemDecode, MemPrefill, MemSort, MemRecompute, MemSwapOut, MemSwapOutFree,
       MemSwapIn, Zenon DEF InSchedule, ScheduleStep
  <1>4. CASE InFreeFinishedLoop
    BY <1>4, MemErase, MemEngine, Zenon DEF InFreeFinishedLoop, FreeFinishedStep
  <1>5. CASE Engine /\ ~InSchedule /\ ~InFreeFinishedLoop /\ ~InFreeBlocks
    BY <1>5, MemEnter, MemEngine, MemAppend, Zenon DEF Engine
  <1> QED BY <1>1, <1>2, <1>3, <1>4, <1>5, Zenon DEF Next, Engine

(* The memory invariant holds for any pool, requests and configuration:    *)
(* every loop of schedule() that allocates finds the blocks it counted.    *)
THEOREM MemAlways == Spec => []MemInv
  BY MemInit, MemStep, QueuesAlways, OrderAlways, PTL DEF Spec

(* No allocation of schedule() fails, no budget goes below zero and no     *)
(* token is sampled for a group that is not there: the state of scheduler, *)
(* block manager and loop keeps its types.                                 *)
THEOREM TypesAlways == Spec => []TypeOK
  <1>1. QueueInv /\ OrderInv /\ MemInv => TypeOK
    BY Zenon
       DEF QueueInv, QueueTypes, OrderInv, MemInv, LoopTypes, BMTypeOK, Tokens, TypeOK
  <1> QED BY <1>1, QueuesAlways, OrderAlways, MemAlways, PTL

(* A running sequence's table names GPU blocks, enough for the positions   *)
(* written so far, in both preemption modes and however often the sequence *)
(* was preempted.                                                          *)
THEOREM RunningOnGpuAlways == Spec => []RunningOnGpu
  <1>1. ASSUME MemInv PROVE RunningOnGpu
    <2> SUFFICES ASSUME pc = "unlocked", NEW r \in SeqIds, status[r] = "RUNNING"
                 PROVE  /\ \A b \in Range(logical_blocks[r]) : b[1] = "CUDA"
                        /\ Covers(r, TotalLen(r) - 1)
      BY Zenon DEF RunningOnGpu, Unlocked, At, Covers
    <2>1. \A b \in Range(logical_blocks[r]) : b[1] = "CUDA"
      BY <1>1, Zenon DEF MemInv, TablesOnGpu, OnGpu, Range
    <2>2. Covers(r, TotalLen(r) - 1)
      BY <1>1, Zenon DEF MemInv, TablesLong
    <2> QED BY <2>1, <2>2, Zenon
  <1> QED BY <1>1, MemAlways, PTL

-----------------------------------------------------------------------------
(* A block recorded under a sequence has one reference, any other none.    *)
Counts == \A b \in Blocks : ref_count[b] = IF Recorded(b) THEN 1 ELSE 0

(* Blocks are recorded under sequences that run or have just finished, and *)
(* under the one whose free_blocks is under way.                           *)
Holding == {"RUNNING", "FINISHED_LENGTH"}

Holders ==
    \A r \in SeqIds : status[r] \notin Holding /\ freeing # r => seq_block_map[r] = <<>>

(* The block manager's own part of the invariant. *)
Records == FreeListExact /\ RecordedOnce /\ Counts

(* The inductive invariant of the records under RECOMPUTE. *)
OwnInv == PreemptionMode = "RECOMPUTE" => Records /\ Holders

-----------------------------------------------------------------------------
(* The records depend on three of the block manager's variables. *)
LEMMA RecordsStay ==
    ASSUME Records, UNCHANGED <<ref_count, free_list, seq_block_map>>
    PROVE  Records'
  <1>1. FreeListExact' /\ RecordedOnce'
    <2>1. FreeListExact'
      BY Zenon DEF Records, FreeListExact
    <2>2. RecordedOnce'
      BY DEF Records, RecordedOnce
    <2> QED BY <2>1, <2>2, Zenon
  <1>2. \A b : Recorded(b)' <=> Recorded(b)
    BY Zenon DEF Recorded
  <1>3. Counts'
    BY <1>2, Zenon DEF Records, Counts
  <1> QED BY <1>1, <1>3, Zenon DEF Records

(* allocate_block records a block nobody had, and only under its caller.   *)
LEMMA RecordsAllocate ==
    ASSUME BMTypeOK, Records, NEW r \in SeqIds, NEW d \in Device, allocate_block(r, d)
    PROVE  Records' /\ \A q \in SeqIds \ {r} : seq_block_map'[q] = seq_block_map[q]
  <1> USE DEF Records
  <1>1. CASE free_list[d] = <<>>
    <2>1. UNCHANGED <<ref_count, free_list, seq_block_map>>
      BY <1>1, Zenon DEF allocate_block
    <2> QED BY <2>1, RecordsStay, Zenon
  <1>2. CASE free_list[d] # <<>>
    <2>1. PICK c : c = PoppedBlock(d)
      BY Zenon
    <2>2. TakeBack(r, d) /\ ref_count' = [ref_count EXCEPT ![c] = 1]
      BY <1>2, <2>1, Zenon DEF allocate_block
    <2>3. /\ c \in Blocks /\ c[1] = d /\ ref_count[c] = 0
          /\ \A e \in Device :
                /\ IsInjective(free_list'[e])
                /\ Range(free_list'[e]) = Range(free_list[e]) \ {c}
      BY <1>2, <2>1, <2>2, TakeIsFree, Zenon
    <2>4. seq_block_map' = [seq_block_map EXCEPT ![r] = Append(@, c)]
      BY <2>1, <2>2, Zenon DEF TakeBack
    <2>5. ~Recorded(c)
      <3>1. ref_count[c] = 0 /\ ref_count[c] = IF Recorded(c) THEN 1 ELSE 0
        BY <2>3, Zenon DEF Counts
      <3> QED BY <3>1
    <2>6. /\ RecordedOnce'
          /\ \A b \in Blocks : Recorded(b)' <=> (Recorded(b) \/ b = c)
      BY <2>3, <2>4, <2>5, RecordNew, Zenon
    <2>7. \A b \in Blocks : ref_count'[b] = IF b = c THEN 1 ELSE ref_count[b]
      BY <2>2, <2>3, Zenon DEF BMTypeOK
    <2>8. FreeListExact'
      <3>1. \A b \in Blocks : ref_count'[b] = 0 <=> (ref_count[b] = 0 /\ b # c)
        BY <2>7
      <3> QED BY <2>3, <3>1, TakeKeepsLists, Zenon
    <2>9. Counts'
      BY <2>6, <2>7, Zenon DEF Counts
    <2>10. \A q \in SeqIds \ {r} : seq_block_map'[q] = seq_block_map[q]
      BY <2>4, Zenon DEF BMTypeOK
    <2> QED BY <2>6, <2>8, <2>9, <2>10, Zenon
  <1> QED BY <1>1, <1>2, Zenon

(* One iteration of free_blocks drops the only reference of a block that   *)
(* is recorded under that sequence alone.                                  *)
LEMMA RecordsFree ==
    ASSUME BMTypeOK, Records, FreeBlocksNext
    PROVE  Records' /\ \A q \in SeqIds : freeing # q => seq_block_map'[q] = seq_block_map[q]
  <1> USE DEF Records
  <1>1. PICK r \in SeqIds : r = freeing
    BY Zenon DEF FreeBlocksNext, BMTypeOK
  <1>2. PICK c : c = Head(seq_block_map[r])
    BY Zenon
  <1>3. /\ seq_block_map[r] # <<>> /\ DropRef(c)
        /\ seq_block_map' = [seq_block_map EXCEPT ![r] = Tail(@)]
    BY <1>1, <1>2, Zenon DEF FreeBlocksNext
  <1>4. /\ c \in Blocks /\ Recorded(c)
        /\ RecordedOnce'
        /\ \A b \in Blocks : Recorded(b)' <=> (Recorded(b) /\ b # c)
    BY <1>2, <1>3, Unrecord, Zenon
  <1>5. ref_count[c] = 1
    BY <1>4, Zenon DEF Counts
  <1>6. /\ ref_count' = [ref_count EXCEPT ![c] = @ - 1]
        /\ FreeListExact'
    <2>1. ref_count[c] > 0
      BY <1>5
    <2> QED BY <1>3, <1>4, <2>1, DropKeepsList, Zenon
  <1>7. Counts'
    <2>1. ref_count'[c] = 0
      <3>1. ref_count'[c] = ref_count[c] - 1
        BY <1>4, <1>6, Zenon DEF BMTypeOK
      <3> QED BY <1>5, <3>1
    <2>2. \A b \in Blocks \ {c} : ref_count'[b] = ref_count[b]
      BY <1>6, Zenon DEF BMTypeOK
    <2> QED BY <1>4, <2>1, <2>2, Zenon DEF Counts
  <1>8. \A q \in SeqIds : freeing # q => seq_block_map'[q] = seq_block_map[q]
    BY <1>1, <1>3, Zenon DEF BMTypeOK
  <1> QED BY <1>4, <1>6, <1>7, <1>8, Zenon

(* A step that leaves the lists and records alone, and takes a sequence's  *)
(* right to hold blocks only by entering free_blocks for it.               *)
LEMMA OwnStay ==
    ASSUME OwnInv, UNCHANGED <<ref_count, free_list, seq_block_map, config>>,
           freeing \in {freeing', NoSeq},
           \A r \in SeqIds : status'[r] \in {status[r]} \cup Holding \/ freeing' = r
    PROVE  OwnInv'
  <1>1. PreemptionMode' = PreemptionMode
    BY Zenon DEF PreemptionMode
  <1>2. Records => Records'
    BY RecordsStay, Zenon
  <1>3. ASSUME Holders PROVE Holders'
    <2> SUFFICES ASSUME NEW r \in SeqIds, status'[r] \notin Holding, freeing' # r
                 PROVE  seq_block_map'[r] = <<>>
      BY Zenon DEF Holders
    <2>1. status[r] \notin Holding /\ freeing # r
      BY BlockConstants, Zenon
    <2> QED BY <1>3, <2>1, Zenon DEF Holders
  <1> QED BY <1>1, <1>2, <1>3, Zenon DEF OwnInv

(* The actions that change a status, or something in the block manager. *)
MovesBlocks ==
    \/ \E r \in SeqIds : Submit(r) \/ Abort(r)
    \/ /\ InSchedule
       /\ \/ DecodeAllocate \/ PreemptRecompute \/ PreemptSwap
          \/ SwapOutAllocate \/ SwapOutFree
          \/ PrefillAdmit \/ PrefillAllocate \/ SwapInAdmit \/ SwapInAllocate
    \/ UpdateAppend
    \/ InFreeFinishedLoop /\ FreeFinishedErase
    \/ InFreeBlocks

(* The other actions change neither. *)
LEMMA OwnQuiet ==
    ASSUME OwnInv, [Next]_vars, ~MovesBlocks
    PROVE  OwnInv'
  <1> USE DEF bmVars, seqVars, schedVars
  <1>1. ASSUME UNCHANGED <<ref_count, free_list, seq_block_map, freeing, status, config>>
        PROVE  OwnInv'
    BY <1>1, OwnStay, Zenon
  <1>2. CASE UNCHANGED vars \/ Terminated
    BY <1>1, <1>2, Zenon DEF vars, Terminated
  <1>3. CASE CallSchedule \/ AfterSchedule \/ CallFreeFinished \/ AfterFreeFinished
    BY <1>1, <1>3, Zenon
       DEF CallSchedule, ScheduleEnter, AfterSchedule, ScheduleReturn, CallFreeFinished,
           FreeFinishedEnter, AfterFreeFinished, FreeFinishedReturn
  <1>4. CASE BuildNext \/ BuildReturn \/ Step \/ UpdateSkip \/ UpdateCheck \/ UpdateReturn
    BY <1>1, <1>4, Zenon DEF BuildNext, BuildReturn, Step, UpdateSkip, UpdateCheck, UpdateReturn
  <1>5. CASE InFreeFinishedLoop /\ (FreeFinishedSkip \/ FreeFinishedEnd)
    BY <1>1, <1>5, Zenon DEF InFreeFinishedLoop, FreeFinishedSkip, FreeFinishedEnd
  <1>6. CASE InSchedule /\ (DecodeSkip \/ DecodeCheck \/ DecodeSchedule \/ DecodeEnd \/ SwapOutEnd)
    BY <1>1, <1>6, Zenon
       DEF InSchedule, DecodeSkip, DecodeCheck, DecodeSchedule, DecodeEnd, SwapOutEnd
  <1>7. CASE InSchedule /\ (SortWaiting \/ PrefillSchedule \/ PrefillEnd \/ SwapInEnd \/ SwapInStop)
    BY <1>1, <1>7, Zenon
       DEF InSchedule, SortWaiting, PrefillSchedule, PrefillEnd, SwapInEnd, SwapInStop
  <1> QED BY <1>2, <1>3, <1>4, <1>5, <1>6, <1>7, Zenon
          DEF Next, Engine, MovesBlocks, InSchedule, ScheduleStep, InFreeFinishedLoop, FreeFinishedStep

(* The actions that change a status. *)
LEMMA OwnStatus ==
    ASSUME QueueInv, OwnInv,
           \/ \E r \in SeqIds : Submit(r) \/ Abort(r)
           \/ InSchedule /\ (PreemptRecompute \/ PrefillAdmit)
           \/ UpdateAppend
           \/ InFreeFinishedLoop /\ FreeFinishedErase
    PROVE  OwnInv'
  <1> USE DEF bmVars
  <1>1. status \in [SeqIds -> Status]
    BY Zenon DEF QueueInv, QueueTypes
  <1>2. ASSUME UNCHANGED <<ref_count, free_list, seq_block_map, config>>,
               freeing \in {freeing', NoSeq}, NEW r, NEW v,
               \/ status' = status
               \/ status' = [status EXCEPT ![r] = v] /\ (v \in Holding \/ freeing' = r)
        PROVE  OwnInv'
    <2>1. \A q \in SeqIds : status'[q] \in {status[q]} \cup Holding \/ freeing' = q
      BY <1>1, <1>2, Zenon
    <2> QED BY <1>2, <2>1, OwnStay, Zenon
  <1>3. ASSUME NEW r \in SeqIds, Submit(r) PROVE OwnInv'
    <2>1. /\ UNCHANGED <<ref_count, free_list, seq_block_map, config, freeing>>
          /\ status[r] = "NEW" /\ status' = [status EXCEPT ![r] = "WAITING"]
      BY <1>3, Zenon DEF Submit, add_request
    <2>2. Holders => Holders'
      <3> SUFFICES ASSUME Holders, NEW q \in SeqIds, status'[q] \notin Holding, freeing' # q
                   PROVE  seq_block_map'[q] = <<>>
        BY Zenon DEF Holders
      <3>1. status[q] \notin Holding
        BY <1>1, <2>1, Zenon DEF Holding
      <3> QED BY <2>1, <3>1, Zenon DEF Holders
    <2>3. PreemptionMode' = PreemptionMode
      BY <2>1, Zenon DEF PreemptionMode
    <2> QED BY <2>1, <2>2, <2>3, RecordsStay, Zenon DEF OwnInv
  <1>4. ASSUME NEW r \in SeqIds, Abort(r) PROVE OwnInv'
    <2>1. /\ UNCHANGED <<ref_count, free_list, seq_block_map, config>>
          /\ \/ UNCHANGED <<status, freeing>>
             \/ /\ status' = [status EXCEPT ![r] = "FINISHED_ABORT"]
                /\ freeing = NoSeq /\ freeing' = r
      BY <1>4, Zenon DEF Abort, abort_request, EnterFreeBlocks
    <2>3. /\ freeing \in {freeing', NoSeq}
          /\ \/ status' = status
             \/ /\ status' = [status EXCEPT ![r] = "FINISHED_ABORT"]
                /\ "FINISHED_ABORT" \in Holding \/ freeing' = r
      BY <2>1, Zenon DEF Holding
    <2> QED BY <1>2, <2>1, <2>3, Zenon
  <1>5. CASE InSchedule /\ PreemptRecompute
    <2>1. /\ UNCHANGED <<ref_count, free_list, seq_block_map, config>>
          /\ \/ UNCHANGED <<status, freeing>>
             \/ /\ status' = [status EXCEPT ![Victim] = "PREEMPTED"]
                /\ freeing = NoSeq /\ freeing' = Victim
      BY <1>5, Zenon DEF InSchedule, PreemptRecompute, EnterFreeBlocks, seqVars
    <2>3. /\ freeing \in {freeing', NoSeq}
          /\ \/ status' = status
             \/ /\ status' = [status EXCEPT ![Victim] = "PREEMPTED"]
                /\ "PREEMPTED" \in Holding \/ freeing' = Victim
      BY <2>1, Zenon DEF Holding
    <2> QED BY <1>2, <2>1, <2>3, Zenon
  <1>6. CASE InSchedule /\ PrefillAdmit
    <2>1. /\ UNCHANGED <<ref_count, free_list, seq_block_map, config, freeing>>
          /\ status' = [status EXCEPT ![Head(waiting)] = "RUNNING"]
      BY <1>6, Zenon DEF InSchedule, PrefillAdmit
    <2>3. /\ freeing \in {freeing', NoSeq}
          /\ \/ status' = status
             \/ /\ status' = [status EXCEPT ![Head(waiting)] = "RUNNING"]
                /\ "RUNNING" \in Holding \/ freeing' = Head(waiting)
      BY <2>1, Zenon DEF Holding
    <2> QED BY <1>2, <2>1, <2>3, Zenon
  <1>7. CASE UpdateAppend
    <2>1. /\ UNCHANGED <<ref_count, free_list, seq_block_map, config, freeing>>
          /\ status' \in {status, [status EXCEPT ![scheduled[group]] = "FINISHED_LENGTH"]}
      BY <1>7, Zenon DEF UpdateAppend
    <2>3. /\ freeing \in {freeing', NoSeq}
          /\ \/ status' = status
             \/ /\ status' = [status EXCEPT ![scheduled[group]] = "FINISHED_LENGTH"]
                /\ "FINISHED_LENGTH" \in Holding \/ freeing' = scheduled[group]
      BY <2>1, Zenon DEF Holding
    <2> QED BY <1>2, <2>1, <2>3, Zenon
  <1>8. CASE InFreeFinishedLoop /\ FreeFinishedErase
    <2>1. PICK r : r = FreeFinishedQueue[it]
      BY Zenon
    <2>2. /\ UNCHANGED <<ref_count, free_list, seq_block_map, config>>
          /\ status' = [status EXCEPT ![r] = "GONE"]
          /\ freeing = NoSeq /\ freeing' = r
      BY <1>8, <2>1, Zenon DEF InFreeFinishedLoop, FreeFinishedErase, EnterFreeBlocks
    <2>3. /\ freeing \in {freeing', NoSeq}
          /\ \/ status' = status
             \/ /\ status' = [status EXCEPT ![r] = "GONE"]
                /\ "GONE" \in Holding \/ freeing' = r
      BY <2>2, Zenon DEF Holding
    <2> QED BY <1>2, <2>2, <2>3, Zenon
  <1> QED BY <1>3, <1>4, <1>5, <1>6, <1>7, <1>8, Zenon

(* The actions that take or give back blocks. *)
LEMMA OwnBlocks ==
    ASSUME QueueInv, OrderInv, MemInv, OwnInv, PreemptionMode = "RECOMPUTE",
           InFreeBlocks \/ (InSchedule /\ (DecodeAllocate \/ PrefillAllocate))
    PROVE  OwnInv'
  <1>1. BMTypeOK /\ Records /\ Holders
    BY Zenon DEF MemInv, LoopTypes, OwnInv
  <1>2. CASE InFreeBlocks /\ FreeBlocksReturn
    <2>1. /\ UNCHANGED <<ref_count, free_list, seq_block_map, status>>
          /\ seq_block_map[freeing] = <<>>
      BY <1>2, Zenon DEF InFreeBlocks, FreeBlocksStep, FreeBlocksReturn, schedVars, seqVars
    <2>2. Holders'
      BY <1>1, <2>1, Zenon DEF Holders
    <2> QED BY <1>1, <2>1, <2>2, RecordsStay, Zenon DEF OwnInv
  <1>3. CASE InFreeBlocks /\ FreeBlocksNext
    <2>1. Records' /\ \A q \in SeqIds : freeing # q => seq_block_map'[q] = seq_block_map[q]
      BY <1>1, <1>3, RecordsFree, Zenon
    <2>2. UNCHANGED <<status, freeing>>
      BY <1>3, Zenon DEF InFreeBlocks, FreeBlocksStep, FreeBlocksNext, schedVars, seqVars
    <2>3. Holders'
      BY <1>1, <2>1, <2>2, Zenon DEF Holders
    <2> QED BY <2>1, <2>3, Zenon DEF OwnInv
  <1>4. ASSUME NEW r \in SeqIds, status[r] = "RUNNING", allocate_block(r, "CUDA"), status' = status
        PROVE  OwnInv'
    <2>1. Records' /\ \A q \in SeqIds \ {r} : seq_block_map'[q] = seq_block_map[q]
      BY <1>1, <1>4, RecordsAllocate, Zenon DEF Device
    <2>2. freeing = NoSeq
      BY <1>4, Zenon DEF allocate_block
    <2>3. Holders'
      <3> SUFFICES ASSUME NEW q \in SeqIds, status[q] \notin Holding PROVE seq_block_map'[q] = <<>>
        BY <1>4, Zenon DEF Holders
      <3>1. q # r /\ freeing # q
        BY <1>4, <2>2, BlockConstants, Zenon DEF Holding
      <3> QED BY <1>1, <2>1, <3>1, Zenon DEF Holders
    <2> QED BY <2>1, <2>3, Zenon DEF OwnInv
  <1>5. CASE InSchedule /\ DecodeAllocate
    <2>1. /\ pc = "decodeAlloc" /\ allocate_block(running[it], "CUDA") /\ status' = status
      BY <1>5, Zenon DEF DecodeAllocate, AllocateLogical, At
    <2>2. it \in 1 .. Len(running) /\ ~Finished(running[it])
      <3>1. it <= Len(running) /\ ~Finished(running[it]) /\ it \in Nat \ {0}
        BY <2>1, Zenon DEF QueueInv, Cursors, QueueTypes
      <3>2. Len(running) \in Nat
        BY LenProperties, Zenon DEF QueueInv, QueueTypes
      <3> QED BY <3>1, <3>2
    <2>3. running[it] \in SeqIds /\ running[it] \in Range(running)
      BY <2>2, Places, Zenon DEF QueueInv, QueueTypes
    <2>4. status[running[it]] = "RUNNING"
      BY <2>1, <2>2, <2>3, Zenon DEF QueueInv, Statuses, Finished, Done
    <2> QED BY <1>4, <2>1, <2>3, <2>4, Zenon
  <1>6. CASE InSchedule /\ PrefillAllocate
    <2>1. /\ pc = "prefillAlloc" /\ allocate_block(Head(waiting), "CUDA") /\ status' = status
      BY <1>6, Zenon DEF PrefillAllocate, AllocateLogical, At
    <2>2. waiting # <<>> /\ status[Head(waiting)] = "RUNNING"
      BY <2>1, Zenon DEF QueueInv, Cursors
    <2>3. Head(waiting) \in SeqIds
      BY <2>2, Places, Zenon DEF QueueInv, QueueTypes
    <2> QED BY <1>4, <2>1, <2>2, <2>3, Zenon
  <1> QED BY <1>2, <1>3, <1>5, <1>6, Zenon DEF InFreeBlocks, FreeBlocksStep

(* Recomputation swaps nothing. *)
LEMMA OwnNoSwap ==
    ASSUME OrderInv, InSchedule,
           PreemptSwap \/ SwapOutAllocate \/ SwapOutFree \/ SwapInAdmit \/ SwapInAllocate
    PROVE  PreemptionMode # "RECOMPUTE" /\ PreemptionMode' = PreemptionMode
  <1>1. PreemptionMode' = PreemptionMode
    BY Zenon DEF InSchedule, PreemptionMode
  <1>2. \/ PreemptionMode = "SWAP" \/ swapped # <<>>
        \/ pc \in {"swapOut", "swapOutFree", "swapInAlloc"}
    BY Zenon DEF PreemptSwap, SwapOutAllocate, SwapOutFree, SwapInAdmit, SwapInAllocate, CanSwapIn, At
  <1> QED BY <1>1, <1>2, Zenon DEF OrderInv

LEMMA OwnStep ==
    ASSUME QueueInv, OrderInv, MemInv, OwnInv, [Next]_vars
    PROVE  OwnInv'
  <1>1. CASE ~MovesBlocks
    BY <1>1, OwnQuiet, Zenon
  <1>2. CASE InSchedule /\ (PreemptSwap \/ SwapOutAllocate \/ SwapOutFree \/ SwapInAdmit \/ SwapInAllocate)
    BY <1>2, OwnNoSwap, Zenon DEF OwnInv
  <1>3. CASE InFreeBlocks \/ (InSchedule /\ (DecodeAllocate \/ PrefillAllocate))
    <2>1. PreemptionMode' = PreemptionMode
      BY <1>3, Zenon DEF InFreeBlocks, InSchedule, PreemptionMode
    <2> QED BY <1>3, <2>1, OwnBlocks, Zenon DEF OwnInv
  <1>4. CASE \/ \E r \in SeqIds : Submit(r) \/ Abort(r)
             \/ InSchedule /\ (PreemptRecompute \/ PrefillAdmit)
             \/ UpdateAppend
             \/ InFreeFinishedLoop /\ FreeFinishedErase
    BY <1>4, OwnStatus, Zenon
  <1> QED BY <1>1, <1>2, <1>3, <1>4, Zenon DEF MovesBlocks

LEMMA OwnInit == Init => OwnInv
  <1> SUFFICES ASSUME Init PROVE Records /\ Holders
    BY Zenon DEF OwnInv
  <1>1. BMInit
    BY Zenon DEF Init, SchedInit
  <1>2. Holders
    BY <1>1, Zenon DEF BMInit, Holders
  <1>3. FreeListExact /\ RecordedOnce /\ \A b \in Blocks : ~Recorded(b)
    BY <1>1, BMInitExact, Zenon
  <1>4. Counts
    BY <1>1, <1>3, Zenon DEF BMInit, Counts
  <1> QED BY <1>2, <1>3, <1>4, Zenon DEF Records

(* The records are exact at all times with RECOMPUTE. *)
THEOREM OwnAlways == Spec => []OwnInv
  BY OwnInit, OwnStep, QueuesAlways, OrderAlways, MemAlways, PTL DEF Spec

(* With RECOMPUTE no block is lost and none is freed twice: outside the    *)
(* critical sections it is in its free list once, or recorded under one    *)
(* sequence that runs or has just finished, for any pool and any requests. *)
THEOREM NoBlockLostAlways == Spec => []NoBlockLost
  <1>1. ASSUME OwnInv, MemInv PROVE NoBlockLost
    <2> DEFINE free(b) == {i \in DOMAIN free_list[b[1]] : free_list[b[1]][i] = b}
               owners(b) == {r \in SeqIds : b \in Range(seq_block_map[r])}
    <2> SUFFICES ASSUME PreemptionMode = "RECOMPUTE", freeing = NoSeq, NEW b \in Blocks
                 PROVE  \/ owners(b) = {} /\ \E i \in free(b) : free(b) = {i}
                        \/ free(b) = {} /\ \E r \in owners(b) : owners(b) = {r} /\ status[r] \in Holding
      BY Zenon DEF NoBlockLost, Unlocked, At, Holding
    <2>1. FreeListExact /\ RecordedOnce /\ Counts /\ Holders
      BY <1>1, Zenon DEF OwnInv, Records
    <2>2. /\ IsInjective(free_list[b[1]])
          /\ b \in Range(free_list[b[1]]) <=> ref_count[b] = 0
      <3>1. b[1] \in Device
        BY BlockFacts, Zenon
      <3> QED BY <2>1, <3>1 DEF FreeListExact
    <2>3. CASE Recorded(b)
      <3>1. PICK r \in SeqIds : r \in owners(b)
        BY <2>3, Zenon DEF Recorded
      <3>2. owners(b) = {r}
        BY <2>1, <3>1, OnceEquivalent, Zenon DEF OnceUnderOne
      <3>3. status[r] \in Holding
        <4>1. seq_block_map[r] # <<>>
          BY <3>1 DEF Range
        <4> QED BY <2>1, <4>1, BlockConstants, Zenon DEF Holders
      <3>4. ref_count[b] # 0
        BY <2>1, <2>3 DEF Counts
      <3>5. free(b) = {}
        BY <2>2, <3>4, Zenon DEF Range
      <3> QED BY <3>1, <3>2, <3>3, <3>5, Zenon
    <2>4. CASE ~Recorded(b)
      <3>1. owners(b) = {}
        BY <2>4, Zenon DEF Recorded
      <3>2. ref_count[b] = 0
        BY <2>1, <2>4, Zenon DEF Counts
      <3>3. PICK i \in DOMAIN free_list[b[1]] : free_list[b[1]][i] = b
        BY <2>2, <3>2, Zenon DEF Range
      <3>4. free(b) = {i}
        BY <2>2, <3>3, Zenon DEF IsInjective
      <3> QED BY <3>1, <3>4, Zenon
    <2> QED BY <2>3, <2>4, Zenon
  <1> QED BY <1>1, OwnAlways, MemAlways, PTL

=============================================================================
