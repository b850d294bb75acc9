--------------------------- MODULE ServingProofs ----------------------------
(***************************************************************************)
(* Two results about whole iterations of the serving loop that need all    *)
(* the invariants below: each entry of a batch has a slot that no other    *)
(* sequence can reach (SlotInv), and the loop does not give up while there *)
(* is something to serve (StopInv).                                        *)
(***************************************************************************)
EXTENDS ServingOwnersProofs, ServingWorkProofs

-----------------------------------------------------------------------------
(* The batch.  Between schedule() and the step the tables of the scheduled *)
(* sequences hold all their positions and are disjoint from one another    *)
(* and from what is recorded under any other sequence (SlotTables): an     *)
(* abort frees the blocks of an entry, but nobody allocates before the     *)
(* step.  The batch lists positions of scheduled sequences, once each      *)
(* (SlotBatch).                                                            *)

SlotTables ==
    \A r \in Range(scheduled) :
        /\ IsInjective(logical_blocks[r])
        /\ Covers(r, TotalLen(r))
        /\ \A t \in SeqIds \ {r} : Range(logical_blocks[r]) \cap Range(seq_block_map[t]) = {}
        /\ \A t \in Range(scheduled) \ {r} : Range(logical_blocks[r]) \cap Range(logical_blocks[t]) = {}

SlotBatch ==
    /\ IsInjective(batch)
    /\ \A e \in Range(batch) :
          /\ e[2] < TotalLen(e[1])
          /\ \E i \in DOMAIN scheduled : scheduled[i] = e[1] /\ (phase = "build" => i < group)

(* The inductive invariant of the batch under RECOMPUTE. *)
SlotInv ==
    PreemptionMode = "RECOMPUTE" /\ phase \in {"build", "step"} => SlotTables /\ SlotBatch

(* build_batch's entries for a sequence are different positions of it. *)
LEMMA EntriesElements ==
    ASSUME LoopTypes, NEW r \in SeqIds
    PROVE  /\ EntriesOf(r) \in Seq(Tokens) /\ IsInjective(EntriesOf(r))
           /\ \A e \in Range(EntriesOf(r)) : e[1] = r /\ e[2] < TotalLen(r)
  <1>1. PromptLen[r] \in Nat \ {0} /\ TotalLen(r) \in Nat \ {0} /\ PromptLen[r] <= TotalLen(r)
    <2>1. PromptLen[r] \in Nat \ {0} /\ TotalLen(r) \in Nat \ {0} /\ Len(output_tokens[r]) \in Nat
      BY Lengths, SchedulerConstants, Zenon
    <2>2. PromptLen[r] <= TotalLen(r)
      BY <2>1 DEF TotalLen
    <2> QED BY <2>1, <2>2, Zenon
  <1> DEFINE p == [i \in 1 .. PromptLen[r] |-> <<r, i - 1>>]
             d == << <<r, TotalLen(r) - 1>> >>
  <1>2. IsInjective(p) /\ \A e \in Range(p) : e[1] = r /\ e[2] < TotalLen(r)
    <2> HIDE DEF TotalLen
    <2>1. DOMAIN p = 1 .. PromptLen[r] /\ \A i \in 1 .. PromptLen[r] : p[i] = <<r, i - 1>>
      OBVIOUS
    <2> HIDE DEF p
    <2>2. ASSUME NEW i \in 1 .. PromptLen[r], NEW j \in 1 .. PromptLen[r], p[i] = p[j] PROVE i = j
      <3>1. <<r, i - 1>> = <<r, j - 1>>
        BY <2>1, <2>2, Zenon
      <3>2. i - 1 = j - 1
        BY <3>1
      <3> QED BY <1>1, <3>2
    <2>3. ASSUME NEW i \in 1 .. PromptLen[r] PROVE p[i][1] = r /\ p[i][2] < TotalLen(r)
      <3>1. i - 1 < TotalLen(r)
        BY <1>1
      <3> QED BY <2>1, <3>1
    <2>4. IsInjective(p)
      BY <2>1, <2>2, Zenon DEF IsInjective
    <2> QED BY <2>1, <2>3, <2>4 DEF Range
  <1>3. IsInjective(d) /\ \A e \in Range(d) : e[1] = r /\ e[2] < TotalLen(r)
    <2> HIDE DEF TotalLen
    <2>1. DOMAIN d = {1} /\ d[1] = <<r, TotalLen(r) - 1>>
      OBVIOUS
    <2>2. TotalLen(r) - 1 < TotalLen(r)
      BY <1>1
    <2> HIDE DEF d
    <2> QED BY <2>1, <2>2 DEF IsInjective, Range
  <1>4. IsInjective(<<>>) /\ Range(<<>>) = {}
    BY DEF IsInjective, Range
  <1>5. EntriesOf(r) \in {<<>>, p, d}
    BY Zenon DEF EntriesOf
  <1> HIDE DEF p, d
  <1> QED BY <1>2, <1>3, <1>4, <1>5, EntriesType, Zenon

(* What schedule() hands over. *)
LEMMA SlotEstablish ==
    ASSUME QueueInv, MemInv, OwnInv, RoomInv, AfterSchedule
    PROVE  SlotInv'
  <1>1. /\ pc = "scheduleEnd" /\ phase = "scheduling" /\ batch' = <<>>
        /\ UNCHANGED <<scheduled, logical_blocks, seq_block_map, output_tokens, config>>
    BY Zenon DEF AfterSchedule, ScheduleReturn, At, bmVars, seqVars, outputVars
  <1> SUFFICES ASSUME PreemptionMode = "RECOMPUTE" PROVE SlotTables' /\ SlotBatch'
    BY <1>1, Zenon DEF SlotInv, PreemptionMode
  <1>2. SlotBatch'
    BY <1>1 DEF SlotBatch, IsInjective, Range
  <1>3. \A r \in Range(scheduled) : r \in SeqIds /\ status[r] = "RUNNING" /\ logical_blocks[r] = seq_block_map[r]
    <2>1. Range(scheduled) \subseteq SeqIds
      BY RangeInSet, Zenon DEF QueueInv, QueueTypes
    <2>2. \A r \in Range(scheduled) : status[r] = "RUNNING"
      BY <1>1, Zenon DEF QueueInv, ScheduledRun, ScheduleLabels
    <2> QED BY <2>1, <2>2, Zenon DEF RoomInv, Tables
  <1>4. OnceUnderOne
    BY OnceEquivalent, Zenon DEF OwnInv, Records
  <1>5. SlotTables
    <2> SUFFICES ASSUME NEW r \in Range(scheduled)
                 PROVE  /\ IsInjective(logical_blocks[r])
                        /\ Covers(r, TotalLen(r))
                        /\ \A t \in SeqIds \ {r} : Range(logical_blocks[r]) \cap Range(seq_block_map[t]) = {}
                        /\ \A t \in Range(scheduled) \ {r} :
                              Range(logical_blocks[r]) \cap Range(logical_blocks[t]) = {}
      BY Zenon DEF SlotTables
    <2>1. Covers(r, TotalLen(r))
      BY <1>1, <1>3, Zenon DEF MemInv, BatchLong
    <2>2. IsInjective(logical_blocks[r])
      BY <1>3, <1>4, Zenon DEF OnceUnderOne
    <2>3. \A t \in SeqIds \ {r} : Range(logical_blocks[r]) \cap Range(seq_block_map[t]) = {}
      BY <1>3, <1>4, Zenon DEF OnceUnderOne
    <2>4. \A t \in Range(scheduled) \ {r} : Range(logical_blocks[r]) \cap Range(logical_blocks[t]) = {}
      BY <1>3, <2>3, Zenon
    <2> QED BY <2>1, <2>2, <2>3, <2>4, Zenon
  <1>6. SlotTables'
    BY <1>1, <1>5, Zenon DEF SlotTables, Covers, TotalLen
  <1> QED BY <1>2, <1>6, Zenon

(* The tables while nobody allocates. *)
LEMMA SlotTablesKept ==
    ASSUME SlotTables, UNCHANGED <<scheduled, logical_blocks, output_tokens>>,
           \A t \in SeqIds : Range(seq_block_map'[t]) \subseteq Range(seq_block_map[t])
    PROVE  SlotTables'
  <1> SUFFICES ASSUME NEW r \in Range(scheduled)
               PROVE  /\ IsInjective(logical_blocks[r])
                      /\ Covers(r, TotalLen(r))
                      /\ \A t \in SeqIds \ {r} : Range(logical_blocks[r]) \cap Range(seq_block_map'[t]) = {}
                      /\ \A t \in Range(scheduled) \ {r} :
                            Range(logical_blocks[r]) \cap Range(logical_blocks[t]) = {}
    BY Zenon DEF SlotTables, Covers, TotalLen
  <1>1. \A t \in SeqIds \ {r} : Range(logical_blocks[r]) \cap Range(seq_block_map'[t]) = {}
    BY Zenon DEF SlotTables
  <1> QED BY <1>1, Zenon DEF SlotTables

(* build_batch adds the entries of a sequence that is not yet in the batch. *)
LEMMA SlotBuild ==
    ASSUME QueueInv, MemInv, SlotInv, BuildNext
    PROVE  SlotInv'
  <1>1. /\ phase = "build" /\ phase' = "build" /\ group <= Len(scheduled) /\ group' = group + 1
        /\ batch' = batch \o EntriesOf(scheduled[group])
        /\ UNCHANGED <<scheduled, logical_blocks, seq_block_map, output_tokens, config>>
    BY Zenon DEF BuildNext, bmVars, schedVars, seqVars, outputVars
  <1> SUFFICES ASSUME PreemptionMode = "RECOMPUTE" PROVE SlotTables' /\ SlotBatch'
    BY <1>1, Zenon DEF SlotInv, PreemptionMode
  <1>2. SlotTables /\ SlotBatch
    BY <1>1, Zenon DEF SlotInv
  <1>3. SlotTables'
    BY <1>1, <1>2, SlotTablesKept, Zenon
  <1>4. group \in DOMAIN scheduled /\ group \in Nat
    <2>1. group \in Nat \ {0} /\ Len(scheduled) \in Nat /\ DOMAIN scheduled = 1 .. Len(scheduled)
      BY Places, Zenon DEF QueueInv, QueueTypes
    <2> QED BY <1>1, <2>1
  <1>5. PICK r \in SeqIds : r = scheduled[group]
    BY <1>4, ElementOfSeq, LenProperties, Zenon DEF QueueInv, QueueTypes
  <1>6. PICK s \in Seq(Tokens) : s = EntriesOf(r) /\ IsInjective(s)
                                 /\ \A e \in Range(s) : e[1] = r /\ e[2] < TotalLen(r)
    BY EntriesElements, Zenon DEF MemInv
  <1>7. \A i \in DOMAIN scheduled : i < group => scheduled[i] # r
    <2>1. IsInjective(scheduled)
      BY <1>1, Zenon DEF QueueInv, ScheduledRun, UsesScheduled
    <2>2. ASSUME NEW i \in DOMAIN scheduled, i < group, scheduled[i] = r PROVE FALSE
      <3>1. i = group
        BY <1>4, <1>5, <2>1, <2>2, Zenon DEF IsInjective
      <3> QED BY <1>4, <2>2, <3>1
    <2> QED BY <2>2, Zenon
  <1>8. batch \in Seq(Tokens)
    BY Zenon DEF MemInv, LoopTypes
  <1>9. Range(batch) \cap Range(s) = {}
    BY <1>1, <1>2, <1>6, <1>7, Zenon DEF SlotBatch
  <1>10. batch' = batch \o s
    BY <1>1, <1>5, <1>6, Zenon
  <1>11. Range(batch') = Range(batch) \cup Range(s) /\ IsInjective(batch')
    <2>1. Range(batch \o s) = Range(batch) \cup Range(s) /\ IsInjective(batch \o s)
      <3>1. IsInjective(batch)
        BY <1>2, Zenon DEF SlotBatch
      <3>2. IsInjective(s)
        BY <1>6, Zenon
      <3> QED BY <1>8, <1>9, <3>1, <3>2, ConcatElements
    <2> QED BY <1>10, <2>1, Zenon
  <1>12. ASSUME NEW e \in Range(batch')
         PROVE  /\ e[2] < TotalLen(e[1])
                /\ \E i \in DOMAIN scheduled : scheduled[i] = e[1] /\ i < group + 1
    <2>1. CASE e \in Range(batch)
      <3>1. \A i \in DOMAIN scheduled : i < group => i < group + 1
        <4>1. DOMAIN scheduled = 1 .. Len(scheduled)
          BY Places, Zenon DEF QueueInv, QueueTypes
        <4> QED BY <1>4, <4>1
      <3> QED BY <1>1, <1>2, <2>1, <3>1, Zenon DEF SlotBatch
    <2>2. CASE e \in Range(s)
      <3>1. group < group + 1
        BY <1>4
      <3> QED BY <1>4, <1>5, <1>6, <2>2, <3>1, Zenon
    <2> QED BY <1>11, <1>12, <2>1, <2>2, Zenon
  <1>13. \A q : TotalLen(q)' = TotalLen(q)
    BY <1>1, Zenon DEF TotalLen
  <1>14. SlotBatch'
    BY <1>1, <1>11, <1>12, <1>13, Zenon DEF SlotBatch
  <1> QED BY <1>3, <1>14, Zenon

LEMMA SlotStep ==
    ASSUME QueueInv, QueueInv', MemInv, OwnInv, RoomInv, SlotInv, [Next]_vars
    PROVE  SlotInv'
  <1>1. CASE AfterSchedule
    BY <1>1, SlotEstablish, Zenon
  <1>2. CASE BuildNext
    BY <1>2, SlotBuild, Zenon
  <1>3. ASSUME UNCHANGED <<scheduled, logical_blocks, output_tokens, config, group, batch>>,
               \A t \in SeqIds : Range(seq_block_map'[t]) \subseteq Range(seq_block_map[t]),
               phase' \in {"build", "step"} => phase \in {"build", phase'}
        PROVE  SlotInv'
    <2> SUFFICES ASSUME PreemptionMode = "RECOMPUTE", phase' \in {"build", "step"}
                 PROVE  SlotTables' /\ SlotBatch'
      BY <1>3, Zenon DEF SlotInv, PreemptionMode
    <2>1. SlotTables /\ SlotBatch
      BY <1>3, Zenon DEF SlotInv
    <2>2. SlotTables'
      BY <1>3, <2>1, SlotTablesKept, Zenon
    <2>3. SlotBatch'
      <3>1. \A q : TotalLen(q)' = TotalLen(q)
        BY <1>3, Zenon DEF TotalLen
      <3>2. phase' = "build" => phase = "build"
        BY <1>3, Zenon
      <3> QED BY <1>3, <2>1, <3>1, <3>2, Zenon DEF SlotBatch
    <2> QED BY <2>2, <2>3, Zenon
  <1>4. CASE BuildReturn \/ UNCHANGED vars \/ Terminated
    BY <1>3, <1>4, Zenon
       DEF BuildReturn, Terminated, vars, bmVars, schedVars, seqVars, outputVars, batchVars
  <1>5. CASE \E r \in SeqIds : Submit(r) \/ Abort(r)
    BY <1>3, <1>5, Zenon
       DEF Submit, add_request, Abort, abort_request, bmVars, outputVars, batchVars
  <1>6. CASE InFreeBlocks
    <2>1. \A t \in SeqIds : Range(seq_block_map'[t]) \subseteq Range(seq_block_map[t])
      <3> SUFFICES ASSUME NEW t \in SeqIds PROVE Range(seq_block_map'[t]) \subseteq Range(seq_block_map[t])
        BY Zenon
      <3>1. seq_block_map \in [SeqIds -> Seq(Blocks)]
        BY Zenon DEF MemInv, LoopTypes, BMTypeOK
      <3>2. PICK m \in Seq(Blocks) : m = seq_block_map[t]
        BY <3>1, Zenon
      <3>3. \/ seq_block_map'[t] = m
            \/ m # <<>> /\ seq_block_map'[t] = Tail(m)
        BY <1>6, <3>1, <3>2, Zenon DEF InFreeBlocks, FreeBlocksStep, FreeBlocksNext, FreeBlocksReturn
      <3>4. m # <<>> => Range(Tail(m)) \subseteq Range(m)
        <4>1. m # <<>> => \A j \in DOMAIN Tail(m) : j + 1 \in DOMAIN m /\ Tail(m)[j] = m[j + 1]
          BY HeadTailProperties, LenProperties, EmptySeq
        <4> QED BY <4>1, Zenon DEF Range
      <3> QED BY <3>2, <3>3, <3>4, Zenon
    <2> QED BY <1>3, <1>6, <2>1, Zenon
        DEF InFreeBlocks, FreeBlocksStep, schedVars, seqVars, outputVars, batchVars
  <1>7. CASE InSchedule \/ InFreeFinishedLoop \/ CallFreeFinished \/ AfterFreeFinished \/ CallSchedule
    <2>1. phase' \notin {"build", "step"}
      <3>1. CASE InSchedule
        BY <3>1, SchedulingPhase, Zenon
      <3>2. CASE InFreeFinishedLoop
        BY <3>2, Zenon DEF InFreeFinishedLoop, FreeFinishedStep, FreeFinishedSkip, FreeFinishedErase,
             FreeFinishedEnd, InFreeFinished, At, QueueInv, Control, FreeLabels
      <3> QED BY <1>7, <3>1, <3>2, Zenon DEF CallFreeFinished, AfterFreeFinished, CallSchedule
    <2> QED BY <2>1, Zenon DEF SlotInv
  <1>8. CASE Step \/ UpdateSkip \/ UpdateCheck \/ UpdateAppend \/ UpdateReturn
    BY <1>8, Zenon DEF Step, UpdateSkip, UpdateCheck, UpdateAppend, UpdateReturn, SlotInv
  <1> QED BY <1>1, <1>2, <1>4, <1>5, <1>6, <1>7, <1>8, Zenon DEF Next, Engine

(* The batch handed to the step lists owned slots. *)
THEOREM SlotAlways == Spec => []SlotInv
  <1>1. Init => SlotInv
    BY Zenon DEF Init, SlotInv
  <1> QED BY <1>1, SlotStep, QueuesAlways, MemAlways, OwnAlways, RoomAlways, PTL DEF Spec

(* Quotient and remainder determine a position, and the quotient of a      *)
(* position below n blocks is below n.                                     *)
LEMMA SlotOfPosition ==
    ASSUME NEW B \in Nat \ {0}, NEW x \in Nat, NEW y \in Nat, NEW n \in Nat
    PROVE  /\ x \div B \in Nat
           /\ n * B > x => x \div B < n
           /\ x \div B = y \div B /\ x % B = y % B => x = y
  <1>1. /\ x \div B \in Int /\ x = (x \div B) * B + (x % B) /\ x % B \in 0 .. B - 1
        /\ y \div B \in Int /\ y = (y \div B) * B + (y % B) /\ y % B \in 0 .. B - 1
    BY SMTT(30)
  <1>2. x \div B = y \div B /\ x % B = y % B => x = y
    BY <1>1, Zenon
  <1> DEFINE q == x \div B
             m == x % B
  <1>3. q \in Int /\ x = q * B + m /\ m \in 0 .. B - 1
    BY <1>1, Zenon
  <1> HIDE DEF q, m
  <1>4. q * B \in Int /\ n * B \in Int
    BY <1>3
  <1>5. q \in Nat
    <2> SUFFICES ASSUME q <= -1 PROVE FALSE
      BY <1>3
    <2>1. q * B <= (-1) * B
      BY <1>3, SMTT(30)
    <2>2. (-1) * B = -B
      BY SMTT(30)
    <2> QED BY <1>3, <1>4, <2>1, <2>2
  <1>6. n * B > x => q < n
    <2> SUFFICES ASSUME q >= n PROVE q * B >= n * B
      BY <1>3, <1>4
    <2> QED BY <1>3, SMTT(30)
  <1> QED BY <1>2, <1>5, <1>6 DEF q

(* With RECOMPUTE every entry of the batch has a block for its position, no *)
(* two entries share a slot and no slot lies in a block recorded under      *)
(* another sequence, for any requests, pool and block size, even when the   *)
(* entry's request was aborted after the batch was built.                   *)
THEOREM SlotsOwnedAlways == Spec => []SlotsOwned
  <1>1. ASSUME QueueInv, MemInv, SlotInv PROVE SlotsOwned
    <2> SUFFICES ASSUME PreemptionMode = "RECOMPUTE", phase = "step",
                        NEW i \in DOMAIN batch, NEW j \in DOMAIN batch
                 PROVE  /\ batch[i][2] \div BlockSize < Len(logical_blocks[batch[i][1]])
                        /\ SlotBlock(batch[i]) \in Blocks
                        /\ \A r \in SeqIds \ {batch[i][1]} :
                              SlotBlock(batch[i]) \notin Range(seq_block_map[r])
                        /\ SlotBlock(batch[i]) = SlotBlock(batch[j])
                             /\ batch[i][2] % BlockSize = batch[j][2] % BlockSize => i = j
      BY Zenon DEF SlotsOwned
    <2>1. SlotTables /\ SlotBatch
      BY <1>1, Zenon DEF SlotInv
    <2>2. BlockSize \in Nat \ {0}
      BY SchedulerConstants, Zenon
    <2>3. \A k \in DOMAIN batch : batch[k] \in Range(batch) /\ batch[k] \in Tokens
      BY <1>1, ElementOfSeq, LenProperties, Zenon DEF MemInv, LoopTypes, Range
    <2>4. ASSUME NEW e \in Range(batch), e \in Tokens
          PROVE  /\ e[1] \in Range(scheduled) /\ e[1] \in SeqIds /\ e[2] \in Nat
                 /\ e[2] \div BlockSize < Len(logical_blocks[e[1]])
                 /\ (e[2] \div BlockSize) + 1 \in DOMAIN logical_blocks[e[1]]
                 /\ SlotBlock(e) \in Range(logical_blocks[e[1]]) /\ SlotBlock(e) \in Blocks
      <3>1. PICK r \in SeqIds, p \in Nat : e = <<r, p>>
        BY <2>4 DEF Tokens
      <3>2. e[1] = r /\ e[2] = p
        BY <3>1
      <3>3. r \in Range(scheduled) /\ p < TotalLen(r)
        BY <2>1, <2>4, <3>2, Zenon DEF SlotBatch, Range
      <3>4. /\ Len(logical_blocks[r]) * BlockSize >= TotalLen(r)
            /\ Len(logical_blocks[r]) \in Nat /\ TotalLen(r) \in Nat
            /\ DOMAIN logical_blocks[r] = 1 .. Len(logical_blocks[r])
        BY <1>1, <2>1, <3>3, Lengths, Zenon DEF SlotTables, Covers, MemInv
      <3>5. Len(logical_blocks[r]) * BlockSize > p
        <4>1. Len(logical_blocks[r]) * BlockSize \in Int
          BY <2>2, <3>4
        <4> HIDE DEF TotalLen
        <4> QED BY <3>3, <3>4, <4>1
      <3>6. p \div BlockSize \in Nat /\ p \div BlockSize < Len(logical_blocks[r])
        BY <2>2, <3>4, <3>5, SlotOfPosition, Zenon
      <3>7. (p \div BlockSize) + 1 \in DOMAIN logical_blocks[r]
        BY <3>4, <3>6
      <3>8. /\ SlotBlock(e) = logical_blocks[r][(p \div BlockSize) + 1]
            /\ SlotBlock(e) \in Range(logical_blocks[r]) /\ SlotBlock(e) \in Blocks
        BY <1>1, <3>2, <3>7, Zenon DEF SlotBlock, Range, MemInv, TablesOnGpu, OnGpu
      <3> QED BY <3>2, <3>3, <3>6, <3>7, <3>8, Zenon
    <2>5. PICK e \in Tokens : e = batch[i] /\ e \in Range(batch)
      BY <2>3, Zenon
    <2>6. PICK f \in Tokens : f = batch[j] /\ f \in Range(batch)
      BY <2>3, Zenon
    <2>7. \A r \in SeqIds \ {e[1]} : SlotBlock(e) \notin Range(seq_block_map[r])
      BY <2>1, <2>4, <2>5, Zenon DEF SlotTables
    <2>8. ASSUME SlotBlock(e) = SlotBlock(f), e[2] % BlockSize = f[2] % BlockSize
          PROVE  i = j
      <3>1. e[1] = f[1]
        BY <2>1, <2>4, <2>5, <2>6, <2>8, Zenon DEF SlotTables
      <3>2. PICK r \in SeqIds : r = e[1] /\ r = f[1]
        BY <2>4, <2>5, <3>1, Zenon
      <3>3. (e[2] \div BlockSize) + 1 = (f[2] \div BlockSize) + 1
        <4>1. IsInjective(logical_blocks[r])
          BY <2>1, <2>4, <2>5, <3>2, Zenon DEF SlotTables
        <4>2. /\ (e[2] \div BlockSize) + 1 \in DOMAIN logical_blocks[r]
              /\ (f[2] \div BlockSize) + 1 \in DOMAIN logical_blocks[r]
              /\ logical_blocks[r][(e[2] \div BlockSize) + 1] = logical_blocks[r][(f[2] \div BlockSize) + 1]
          BY <2>4, <2>5, <2>6, <2>8, <3>2, Zenon DEF SlotBlock
        <4> QED BY <4>1, <4>2, Zenon DEF IsInjective
      <3>4. e[2] \in Nat /\ f[2] \in Nat
        BY <2>4, <2>5, <2>6, Zenon
      <3>5. e[2] \div BlockSize = f[2] \div BlockSize
        <4>1. e[2] \div BlockSize \in Nat /\ f[2] \div BlockSize \in Nat
          BY <2>2, <3>4, SlotOfPosition, Zenon
        <4> QED BY <3>3, <4>1
      <3>6. e[2] = f[2]
        BY <2>2, <2>8, <3>4, <3>5, SlotOfPosition, Zenon
      <3>7. e = f
        <4>1. e = <<e[1], e[2]>> /\ f = <<f[1], f[2]>>
          BY DEF Tokens
        <4> QED BY <3>1, <3>6, <4>1, Zenon
      <3> QED BY <2>1, <2>5, <2>6, <3>7, Zenon DEF SlotBatch, IsInjective
    <2>9. e[2] \div BlockSize < Len(logical_blocks[e[1]]) /\ SlotBlock(e) \in Blocks
      BY <2>4, <2>5, Zenon
    <2> QED BY <2>5, <2>6, <2>7, <2>8, <2>9, Zenon
  <1> QED BY <1>1, QueuesAlways, MemAlways, SlotAlways, PTL

-----------------------------------------------------------------------------
(* Stopping.  The drivers leave their loop when schedule() returns no      *)
(* groups.  With FCFS and recomputation that means that nothing is left to *)
(* do: either nothing runs, and every block is free, or the victim's own   *)
(* blocks are enough to admit it again, and it is first in line.  This     *)
(* needs that any single prompt can be admitted to an idle system (Fits).  *)

Fits ==
    \A c \in Configs, r \in SeqIds :
        /\ c.max_num_seqs > 0
        /\ PromptLen[r] <= c.max_num_batched_tokens
        /\ (PromptLen[r] + BlockSize - 1) \div BlockSize <= NumGpuBlocks

(* The GPU blocks that are free, or will be when free_blocks returns. *)
Room == Len(free_list["CUDA"]) + (IF freeing = NoSeq THEN 0 ELSE Len(seq_block_map[freeing]))

NoneLeft == waiting = <<>> /\ \A r \in Range(running) : Finished(r)

Ready == NoneLeft \/ (waiting # <<>> /\ Room >= BlocksNeeded(Head(waiting)))

(* schedule() has not put anything on its output yet. *)
Idle ==
    /\ budget_seqs = MaxNumSeqs /\ budget_tokens = MaxBatchedTokens
    /\ pc = "decode" => \A i \in DOMAIN running : i < it => Finished(running[i])
    /\ pc \in {"sort", "prefill"} => Ready
    /\ pc \in {"swapIn", "scheduleEnd"} => NoneLeft

StopInv ==
    Fits /\ Policy = "FCFS" /\ PreemptionMode = "RECOMPUTE" =>
        /\ phase = "scheduling" /\ scheduled = <<>> => Idle
        /\ phase = "stopped" => NoneLeft

(* Blocks that cover a prompt are as many as it needs. *)
LEMMA CoveredBlocks ==
    ASSUME NEW p \in Nat, NEW B \in Nat \ {0}, NEW n \in Nat, n * B >= p
    PROVE  (p + B - 1) \div B <= n
  <1>1. PICK d \in Int : d = (p + B - 1) \div B
    OBVIOUS
  <1>2. d * B <= p + B - 1
    BY <1>1
  <1>3. SUFFICES ASSUME d >= n + 1 PROVE FALSE
    BY <1>1
  <1>4. d * B >= (n + 1) * B
    BY <1>3
  <1>5. (n + 1) * B = n * B + B
    OBVIOUS
  <1> QED BY <1>2, <1>4, <1>5

(* The head of the line as schedule() finds it has no tokens. *)
LEMMA HeadFresh ==
    ASSUME QueueInv, OrderInv, DoneInv, RoomInv, PreemptionMode = "RECOMPUTE", pc = "decode", waiting # <<>>
    PROVE  /\ Head(waiting) \in SeqIds
           /\ BlocksNeeded(Head(waiting)) = (PromptLen[Head(waiting)] + BlockSize - 1) \div BlockSize
  <1>1. PICK h \in SeqIds : h = Head(waiting)
    BY QueueHead, Zenon
  <1>2. h \in Range(waiting) /\ phase = "scheduling"
    BY <1>1, QueueHead DEF QueueInv, Control, ScheduleLabels, DecodeLabels
  <1>3. status[h] \in {"WAITING", "PREEMPTED"} \/ Finished(h)
    BY <1>2 DEF QueueInv, Statuses, Done, Finished
  <1>4. ~Stale
    BY <1>2 DEF RoomInv, Shut, StaleShut, StalePhases, AfterDecode
  <1>5. output_tokens[h] = <<>>
    BY <1>2, <1>3, <1>4 DEF Stale, DoneInv, NotStarted, Unstarted, Fresh
  <1>6. TotalLen(h) = PromptLen[h]
    <2>1. Len(output_tokens[h]) = 0
      BY <1>5
    <2> QED BY <2>1, SchedulerConstants DEF TotalLen
  <1> QED BY <1>1, <1>6, Zenon DEF BlocksNeeded

(* A victim gives back at least the blocks its prompt needs.               *)
LEMMA VictimFits ==
    ASSUME QueueInv, MemInv, OwnInv, RoomInv, WorkInv, PreemptionMode = "RECOMPUTE", pc = "preempt",
           scheduled = <<>>
    PROVE  /\ Victim \in SeqIds /\ ~Finished(Victim) /\ Len(seq_block_map[Victim]) \in Nat
           /\ Len(seq_block_map[Victim]) >= (PromptLen[Victim] + BlockSize - 1) \div BlockSize
  <1>1. PICK v \in SeqIds : v = Victim
    BY QueueVictim, Zenon
  <1>2. v \in Range(running) /\ status[v] \in {"RUNNING"} \cup Done
    BY <1>1, QueueVictim
  <1>3. ~Finished(v)
    BY <1>2, Zenon DEF RoomInv, Shut, Preempting, FinishedRunning
  <1>4. status[v] = "RUNNING" /\ phase = "scheduling"
    BY <1>2, <1>3 DEF Finished, Done, QueueInv, Control, ScheduleLabels, DecodeLabels
  <1>5. output_tokens[v] # <<>>
    <2>1. ~Awaited(v)
      BY <1>4 DEF Awaited, AdmitLabels
    <2> QED BY <1>4, <2>1, Zenon DEF WorkInv, Started, Starting
  <1>6. logical_blocks[v] = seq_block_map[v]
    BY <1>4, Zenon DEF RoomInv, Tables
  <1>7. Covers(v, TotalLen(v) - 1)
    BY <1>4 DEF MemInv, TablesLong
  <1>8. /\ PromptLen[v] \in Nat /\ BlockSize \in Nat \ {0} /\ Len(seq_block_map[v]) \in Nat
        /\ Len(output_tokens[v]) \in Nat /\ Len(output_tokens[v]) # 0
    BY <1>5, <1>6, SchedulerConstants, Lengths, EmptySeq, Zenon DEF MemInv, LoopTypes
  <1>9. Len(seq_block_map[v]) * BlockSize >= PromptLen[v] + Len(output_tokens[v]) - 1
    BY <1>6, <1>7, <1>8 DEF Covers, TotalLen
  <1>10. Len(seq_block_map[v]) * BlockSize >= PromptLen[v]
    <2>1. PICK m \in Int : m = Len(seq_block_map[v]) * BlockSize
      BY <1>8
    <2>2. PICK k \in Nat : k = Len(output_tokens[v])
      BY <1>8
    <2>3. m >= PromptLen[v]
      BY <1>8, <1>9, <2>1, <2>2
    <2> QED BY <2>1, <2>3
  <1>11. (PromptLen[v] + BlockSize - 1) \div BlockSize <= Len(seq_block_map[v])
    BY <1>8, <1>10, CoveredBlocks, Zenon
  <1> QED BY <1>1, <1>3, <1>8, <1>11

(* free_blocks turns what it still has to release into free blocks. *)
LEMMA RoomKept ==
    ASSUME MemInv, OwnInv, RoomInv, PreemptionMode = "RECOMPUTE", InFreeBlocks
    PROVE  Room' = Room
  <1> USE DEF MemInv, LoopTypes
  <1>1. PICK r \in SeqIds : r = freeing
    BY Zenon DEF InFreeBlocks, FreeBlocksStep, FreeBlocksNext, FreeBlocksReturn, BMTypeOK
  <1>2. r # NoSeq /\ Room = Len(free_list["CUDA"]) + Len(seq_block_map[r])
    BY <1>1, BlockConstants, Zenon DEF Room
  <1>3. "CUDA" \in Device /\ free_list["CUDA"] \in Seq(Blocks) /\ Len(free_list["CUDA"]) \in Nat
    BY DEF BMTypeOK, Device
  <1>4. CASE FreeBlocksReturn
    <2>1. seq_block_map[r] = <<>> /\ freeing' = NoSeq /\ free_list' = free_list
      BY <1>1, <1>4, Zenon DEF FreeBlocksReturn
    <2>2. Len(seq_block_map[r]) = 0
      BY <2>1
    <2>3. Room' = Len(free_list["CUDA"]) + 0
      BY <2>1 DEF Room
    <2> QED BY <1>2, <2>2, <2>3, Zenon
  <1>5. CASE FreeBlocksNext
    <2>1. PICK b : b = Head(seq_block_map[r])
      OBVIOUS
    <2>2. /\ seq_block_map[r] # <<>> /\ DropRef(b) /\ freeing' = r
          /\ seq_block_map' = [seq_block_map EXCEPT ![r] = Tail(@)]
      BY <1>1, <1>5, <2>1, Zenon DEF FreeBlocksNext
    <2>3. seq_block_map[r] \in Seq(Blocks)
      BY Zenon DEF BMTypeOK
    <2>4. b \in Blocks /\ b = seq_block_map[r][1] /\ b \in Range(seq_block_map[r]) /\ 1 \in DOMAIN seq_block_map[r]
      BY <2>1, <2>2, <2>3, Places
    <2>5. b[1] = "CUDA"
      BY <2>4, Zenon DEF RoomInv, MapsOnGpu
    <2>6. ref_count[b] = 1
      BY <2>4, Zenon DEF OwnInv, Records, Counts, Recorded
    <2>7. free_list' = [free_list EXCEPT !["CUDA"] = Append(@, b)]
      <3>1. ref_count[b] - 1 <= 0
        BY <2>6
      <3> QED BY <2>2, <2>5, <3>1, Zenon DEF DropRef
    <2>8. free_list'["CUDA"] = Append(free_list["CUDA"], b) /\ seq_block_map'[r] = Tail(seq_block_map[r])
      BY <1>3, <2>2, <2>7, Zenon DEF BMTypeOK
    <2>9. Len(free_list'["CUDA"]) = Len(free_list["CUDA"]) + 1
      BY <1>3, <2>4, <2>8, AppendProperties
    <2>10. Len(seq_block_map'[r]) = Len(seq_block_map[r]) - 1 /\ Len(seq_block_map[r]) \in Nat
      <3>1. Len(Tail(seq_block_map[r])) = Len(seq_block_map[r]) - 1 /\ Len(seq_block_map[r]) \in Nat
        BY <2>2, <2>3
      <3> QED BY <2>8, <3>1, Zenon
    <2>11. Room' = Len(free_list'["CUDA"]) + Len(seq_block_map'[r])
      BY <1>2, <2>2, Zenon DEF Room
    <2>12. \A x, y \in Nat : (x + 1) + (y - 1) = x + y
      OBVIOUS
    <2>13. Room' = (Len(free_list["CUDA"]) + 1) + (Len(seq_block_map[r]) - 1)
      BY <2>9, <2>10, <2>11, Zenon
    <2> QED BY <1>2, <1>3, <2>10, <2>12, <2>13, Zenon
  <1> QED BY <1>4, <1>5, Zenon DEF InFreeBlocks, FreeBlocksStep

(* A stable sort that compares nothing leaves the head where it is. *)
LEMMA SortKeepsHead ==
    ASSUME QueueInv, Policy = "FCFS", SortWaiting
    PROVE  /\ waiting' = <<>> <=> waiting = <<>>
           /\ waiting # <<>> => Head(waiting') = Head(waiting)
  <1>1. PICK p \in Bijection(DOMAIN waiting, DOMAIN waiting) :
            StableOrder(waiting, p) /\ waiting' = [i \in DOMAIN waiting |-> waiting[p[i]]]
    BY DEF SortWaiting
  <1>2. Len(waiting) \in Nat /\ DOMAIN waiting = 1 .. Len(waiting) /\ waiting \in Seq(SeqIds)
    BY Places DEF QueueInv, QueueTypes
  <1>3. waiting' \in Seq(SeqIds) /\ DOMAIN waiting' = DOMAIN waiting
    BY <1>1, <1>2, PermuteElements
  <1>4. waiting' = <<>> <=> waiting = <<>>
    BY <1>2, <1>3
  <1>5. ASSUME waiting # <<>> PROVE Head(waiting') = Head(waiting)
    <2>1. 1 \in DOMAIN waiting /\ p \in [DOMAIN waiting -> DOMAIN waiting]
      BY <1>1, <1>2, <1>5 DEF Bijection, Injection
    <2>2. PICK j \in DOMAIN waiting : p[j] = 1
      BY <1>1, <2>1 DEF Bijection, Surjection
    <2>3. \A q, r : ~Before(q, r)
      BY DEF Before
    <2>4. \A k \in DOMAIN waiting : 1 < k => p[1] < p[k]
      BY <1>1, <2>1, <2>3, Zenon DEF StableOrder
    <2>5. p[1] \in 1 .. Len(waiting)
      BY <1>2, <2>1
    <2>6. j = 1
      BY <1>2, <2>2, <2>4, <2>5
    <2>7. waiting'[1] = waiting[1]
      BY <1>1, <2>1, <2>2, <2>6
    <2>8. Head(waiting') = waiting'[1] /\ Head(waiting) = waiting[1]
      BY <1>2, <1>3, <1>4, <1>5, Places
    <2> QED BY <2>7, <2>8
  <1> QED BY <1>4, <1>5

StopFacts == QueueInv /\ OrderInv /\ MemInv /\ OwnInv /\ DoneInv /\ RoomInv /\ WorkInv /\ StopInv

(* The steps from the sort on.  Only a prompt that fits is at the head. *)
LEMMA StopAdmit ==
    ASSUME StopFacts, Fits, Policy = "FCFS", PreemptionMode = "RECOMPUTE", InSchedule, scheduled = <<>>, Idle,
           SortWaiting \/ PrefillAdmit \/ PrefillAllocate \/ PrefillEnd \/ SwapInStop
    PROVE  Idle'
  <1> USE DEF StopFacts, queueVars, seqVars, budgetVars, outputVars, innerVars, bmVars
  <1>1. /\ UNCHANGED <<budget_seqs, budget_tokens, config, running, output_tokens>>
        /\ pc' # "decode"
        /\ budget_seqs' = MaxNumSeqs' /\ budget_tokens' = MaxBatchedTokens'
    <2>1. UNCHANGED <<budget_seqs, budget_tokens, config, running, output_tokens>>
      BY Zenon DEF InSchedule, SortWaiting, PrefillAdmit, PrefillAllocate, PrefillEnd, SwapInStop
    <2>2. pc' \in {"prefill", "prefillAlloc", "swapIn", "scheduleEnd"}
      BY Zenon DEF SortWaiting, PrefillAdmit, PrefillAllocate, PrefillEnd, SwapInStop, At
    <2> QED BY <2>1, <2>2, Zenon DEF Idle, MaxNumSeqs, MaxBatchedTokens
  <1>2. CASE SortWaiting
    <2>1. pc = "sort" /\ pc' = "prefill" /\ UNCHANGED <<status, free_list, freeing, seq_block_map>>
      BY <1>2, Zenon DEF SortWaiting, At
    <2>2. (waiting' = <<>> <=> waiting = <<>>) /\ (waiting # <<>> => Head(waiting') = Head(waiting))
      BY <1>2, SortKeepsHead, Zenon
    <2>3. Ready
      BY <2>1, Zenon DEF Idle
    <2>4. Ready'
      BY <1>1, <2>1, <2>2, <2>3, Zenon DEF Ready, NoneLeft, Room, BlocksNeeded, TotalLen, Finished
    <2> QED BY <1>1, <2>1, <2>4, Zenon DEF Idle
  <1>3. CASE PrefillAdmit \/ PrefillAllocate
    <2>1. pc' = "prefillAlloc"
      BY <1>3, Zenon DEF PrefillAdmit, PrefillAllocate, At
    <2> QED BY <1>1, <2>1, Zenon DEF Idle
  <1>4. CASE PrefillEnd
    <2>1. /\ pc = "prefill" /\ freeing = NoSeq /\ ~CanPrefill /\ pc' \in {"swapIn", "scheduleEnd"}
          /\ UNCHANGED <<waiting, status>>
      BY <1>4, Zenon DEF PrefillEnd, At
    <2>2. NoneLeft
      <3> SUFFICES ASSUME waiting # <<>>, Room >= BlocksNeeded(Head(waiting)) PROVE FALSE
        BY <2>1, Zenon DEF Idle, Ready
      <3>1. PICK h \in SeqIds : h = Head(waiting)
        BY QueueHead, Zenon
      <3>2. MaxNumSeqs > 0 /\ PromptLen[h] <= MaxBatchedTokens
        BY <3>1, Zenon DEF Fits, QueueInv, Control, MaxNumSeqs, MaxBatchedTokens
      <3>3. Len(free_list["CUDA"]) >= BlocksNeeded(h)
        <4>1. Len(free_list["CUDA"]) \in Nat
          BY DEF MemInv, LoopTypes, BMTypeOK, Device
        <4>2. Room = Len(free_list["CUDA"]) + 0
          BY <2>1, Zenon DEF Room
        <4>3. Room = Len(free_list["CUDA"])
          BY <4>1, <4>2
        <4> QED BY <3>1, <4>3, Zenon
      <3>4. CanPrefill
        BY <3>1, <3>2, <3>3, Zenon DEF Idle, CanPrefill, can_allocate
      <3> QED BY <2>1, <3>4
    <2>3. NoneLeft'
      BY <1>1, <2>1, <2>2, Zenon DEF NoneLeft, Finished
    <2> QED BY <1>1, <2>1, <2>3, Zenon DEF Idle
  <1>5. CASE SwapInStop
    <2>1. pc = "swapIn" /\ pc' = "scheduleEnd" /\ UNCHANGED <<waiting, status>>
      BY <1>5, Zenon DEF SwapInStop, At
    <2>2. NoneLeft'
      BY <1>1, <2>1, Zenon DEF Idle, NoneLeft, Finished
    <2> QED BY <1>1, <2>1, <2>2, Zenon DEF Idle
  <1> QED BY <1>2, <1>3, <1>4, <1>5, Zenon

(* Outside schedule(), and inside free_blocks: nobody unfinished appears   *)
(* while the loop is stopped, except by a submission, which restarts it.   *)
LEMMA StopOutside ==
    ASSUME StopFacts, QueueInv', Fits, Policy' = "FCFS", PreemptionMode' = "RECOMPUTE", [Next]_vars, ~InSchedule
    PROVE  /\ phase' = "scheduling" /\ scheduled' = <<>> => Idle'
           /\ phase' = "stopped" => NoneLeft'
  <1> USE DEF StopFacts, vars, schedVars, queueVars, seqVars, budgetVars, outputVars, innerVars, bmVars, batchVars
  <1>1. config' = config /\ Policy = "FCFS" /\ PreemptionMode = "RECOMPUTE"
    <2>1. config' = config
      BY Zenon DEF Next, Engine, Submit, Abort, CallSchedule, AfterSchedule, BuildNext, BuildReturn, Step,
           UpdateSkip, UpdateCheck, UpdateAppend, UpdateReturn, CallFreeFinished, InFreeFinishedLoop,
           AfterFreeFinished, InFreeBlocks, Terminated
    <2> QED BY <2>1, Zenon DEF Policy, PreemptionMode
  <1>2. /\ phase = "scheduling" /\ scheduled = <<>> => Idle
        /\ phase = "stopped" => NoneLeft
    BY <1>1, Zenon DEF StopInv
  <1>3. ASSUME NEW r \in SeqIds, Submit(r)
        PROVE  phase' \notin {"scheduling", "stopped"}
    <2>1. pc = "unlocked" /\ phase' = IF phase = "stopped" THEN "schedule" ELSE phase
      BY <1>3, Zenon DEF Submit, add_request, At
    <2>2. phase # "scheduling"
      BY <2>1 DEF QueueInv, Control, ScheduleLabels, DecodeLabels
    <2> QED BY <2>1, <2>2
  <1>4. ASSUME NEW r \in SeqIds, Abort(r)
        PROVE  phase' # "scheduling" /\ (phase' = "stopped" => NoneLeft')
    <2>1. /\ pc = "unlocked" /\ UNCHANGED <<phase, waiting, running>>
          /\ status' = status \/ status' = [status EXCEPT ![r] = "FINISHED_ABORT"]
      BY <1>4, Zenon DEF Abort, abort_request, At
    <2>2. phase # "scheduling" /\ status \in [SeqIds -> Status] /\ Range(running) \subseteq SeqIds
      BY <2>1, RangeInSet DEF QueueInv, Control, ScheduleLabels, DecodeLabels, QueueTypes
    <2>3. \A q \in SeqIds : Finished(q) => Finished(q)'
      BY <1>4, <2>1, <2>2, Zenon DEF Finished
    <2> QED BY <1>2, <2>1, <2>2, <2>3, Zenon DEF NoneLeft
  <1>5. CASE CallSchedule
    <2>1. /\ phase' = "scheduling" /\ pc' = "decode" /\ it' = 1 /\ UNCHANGED running
          /\ budget_tokens' = MaxBatchedTokens /\ budget_seqs' = MaxNumSeqs
      BY <1>5, Zenon DEF CallSchedule, ScheduleEnter
    <2>2. \A i \in DOMAIN running' : ~(i < it')
      BY <2>1, Places DEF QueueInv, QueueTypes
    <2> QED BY <1>1, <2>1, <2>2, Zenon DEF Idle, MaxBatchedTokens, MaxNumSeqs
  <1>6. CASE AfterSchedule
    <2>1. /\ phase = "scheduling" /\ pc = "scheduleEnd" /\ UNCHANGED <<waiting, running, status>>
          /\ phase' = IF scheduled = <<>> THEN "stopped" ELSE "build"
      BY <1>6, Zenon DEF AfterSchedule, ScheduleReturn, At
    <2> QED BY <1>2, <2>1, Zenon DEF Idle, NoneLeft, Finished
  <1>7. CASE BuildNext \/ BuildReturn \/ Step \/ UpdateSkip \/ UpdateCheck \/ UpdateAppend \/ UpdateReturn
             \/ CallFreeFinished \/ AfterFreeFinished \/ InFreeFinishedLoop
    <2>1. phase' \notin {"scheduling", "stopped"}
      <3>1. CASE InFreeFinishedLoop
        <4>1. pc \in FreeLabels /\ phase' = phase
          BY <3>1, Zenon DEF InFreeFinishedLoop, FreeFinishedStep, FreeFinishedSkip, FreeFinishedErase,
               FreeFinishedEnd, InFreeFinished, FreeLabels, At
        <4> QED BY <4>1, Zenon DEF QueueInv, Control
      <3>2. CASE ~InFreeFinishedLoop
        BY <1>7, <3>2, Zenon DEF BuildNext, BuildReturn, Step, UpdateSkip, UpdateCheck, UpdateAppend,
             UpdateReturn, CallFreeFinished, AfterFreeFinished
      <3> QED BY <3>1, <3>2
    <2> QED BY <2>1, Zenon
  <1>8. CASE InFreeBlocks
    <2>1. /\ UNCHANGED <<phase, pc, it, waiting, running, status, output_tokens, scheduled, budget_seqs,
                         budget_tokens>>
      BY <1>8, Zenon DEF InFreeBlocks, FreeBlocksStep
    <2>2. Room' = Room
      BY <1>1, <1>8, RoomKept, Zenon
    <2>3. NoneLeft' <=> NoneLeft
      BY <2>1, Zenon DEF NoneLeft, Finished
    <2>4. Ready' <=> Ready
      BY <2>1, <2>2, <2>3, Zenon DEF Ready, BlocksNeeded, TotalLen
    <2>5. Idle => Idle'
      BY <1>1, <2>1, <2>3, <2>4, Zenon DEF Idle, MaxNumSeqs, MaxBatchedTokens, Finished
    <2> QED BY <1>2, <2>1, <2>3, <2>5, Zenon
  <1>9. CASE UNCHANGED vars
    <2>1. NoneLeft' <=> NoneLeft
      BY <1>9, Zenon DEF NoneLeft, Finished
    <2>2. Ready' <=> Ready
      BY <1>9, <2>1, Zenon DEF Ready, Room, BlocksNeeded, TotalLen
    <2>3. Idle => Idle'
      BY <1>9, <2>1, <2>2, Zenon DEF Idle, MaxNumSeqs, MaxBatchedTokens, Finished
    <2> QED BY <1>2, <1>9, <2>1, <2>3, Zenon
  <1>10. CASE Terminated
    BY <1>9, <1>10, Zenon DEF Terminated
  <1> QED BY <1>3, <1>4, <1>5, <1>6, <1>7, <1>8, <1>9, <1>10, Zenon DEF Next, Engine

(* Counting the blocks takes the theorems on finite sets. *)
INSTANCE FiniteSetTheorems

(* A list that holds every GPU block has their number of places. *)
LEMMA AllBlocksLong ==
    ASSUME NEW s \in Seq(Blocks), \A b \in Blocks : b[1] = "CUDA" => b \in Range(s)
    PROVE  Len(s) >= NumGpuBlocks
  <1>1. Len(s) \in Nat /\ DOMAIN s = 1 .. Len(s) /\ NumGpuBlocks \in Nat
    BY Places, BlockConstants
  <1>2. SUFFICES ASSUME Len(s) < NumGpuBlocks PROVE FALSE
    BY <1>1
  <1>3. \A k \in 0 .. NumGpuBlocks - 1 : \E i \in 1 .. Len(s) : s[i] = <<"CUDA", k>>
    <2> SUFFICES ASSUME NEW k \in 0 .. NumGpuBlocks - 1
                 PROVE  \E i \in 1 .. Len(s) : s[i] = <<"CUDA", k>>
      BY Zenon
    <2>1. <<"CUDA", k>> \in Blocks /\ <<"CUDA", k>>[1] = "CUDA"
      BY DEF Blocks, Device, NumBlocks
    <2>2. <<"CUDA", k>> \in Range(s)
      BY <2>1
    <2> QED BY <1>1, <2>2, Zenon DEF Range
  <1> DEFINE f == [k \in 0 .. NumGpuBlocks - 1 |-> CHOOSE i \in 1 .. Len(s) : s[i] = <<"CUDA", k>>]
  <1>4. f \in [0 .. NumGpuBlocks - 1 -> 1 .. Len(s)] /\ \A k \in 0 .. NumGpuBlocks - 1 : s[f[k]] = <<"CUDA", k>>
    BY <1>3, Zenon
  <1> HIDE DEF f
  <1>5. /\ IsFiniteSet(0 .. NumGpuBlocks - 1) /\ Cardinality(0 .. NumGpuBlocks - 1) = NumGpuBlocks
        /\ IsFiniteSet(1 .. Len(s)) /\ Cardinality(1 .. Len(s)) = Len(s)
    <2>1. 0 \in Int /\ 1 \in Int /\ NumGpuBlocks - 1 \in Int /\ Len(s) \in Int
      BY <1>1
    <2>2. /\ IsFiniteSet(0 .. NumGpuBlocks - 1)
          /\ Cardinality(0 .. NumGpuBlocks - 1) = IF 0 > NumGpuBlocks - 1 THEN 0 ELSE NumGpuBlocks - 1 - 0 + 1
          /\ IsFiniteSet(1 .. Len(s))
          /\ Cardinality(1 .. Len(s)) = IF 1 > Len(s) THEN 0 ELSE Len(s) - 1 + 1
      BY <2>1, FS_Interval, Zenon
    <2> QED BY <1>1, <2>2
  <1>6. \E x, y \in 0 .. NumGpuBlocks - 1 : x # y /\ f[x] = f[y]
    <2>1. Cardinality(1 .. Len(s)) < Cardinality(0 .. NumGpuBlocks - 1)
      BY <1>2, <1>5
    <2>2. PICK U, V : U = 0 .. NumGpuBlocks - 1 /\ V = 1 .. Len(s)
      OBVIOUS
    <2>3. /\ IsFiniteSet(U) /\ IsFiniteSet(V) /\ Cardinality(V) < Cardinality(U)
          /\ f \in [U -> V]
      BY <1>4, <1>5, <2>1, <2>2, Zenon
    <2>4. \E x, y \in U : x # y /\ f[x] = f[y]
      BY <2>3, FS_PigeonHole
    <2> QED BY <2>2, <2>4, Zenon
  <1>7. \A x, y : <<"CUDA", x>> = <<"CUDA", y>> => x = y
    OBVIOUS
  <1> QED BY <1>4, <1>6, <1>7, Zenon

(* When nothing runs, every GPU block is free. *)
LEMMA AllFree ==
    ASSUME QueueInv, OrderInv, MemInv, OwnInv, DoneInv, PreemptionMode = "RECOMPUTE",
           pc = "decode", freeing = NoSeq, \A r \in Range(running) : Finished(r)
    PROVE  Len(free_list["CUDA"]) >= NumGpuBlocks
  <1>1. Records /\ Holders /\ phase = "scheduling" /\ swapped = <<>>
    BY DEF OwnInv, QueueInv, Control, ScheduleLabels, DecodeLabels, OrderInv
  <1>2. ASSUME NEW r \in SeqIds PROVE seq_block_map[r] = <<>>
    <2>1. freeing # r
      BY <1>2, BlockConstants
    <2>2. SUFFICES ASSUME status[r] \in Holding PROVE FALSE
      BY <1>1, <2>1, Zenon DEF Holders
    <2>3. status[r] = "RUNNING"
      BY <1>1, <2>2 DEF Holding, DoneInv, LengthDone, LengthPhases
    <2>4. r \in Range(waiting) \cup Range(running) \cup Range(swapped)
      BY <2>3 DEF QueueInv, Lines
    <2>5. Range(swapped) = {}
      BY <1>1 DEF Range
    <2>6. r \notin Range(waiting)
      BY <2>3 DEF QueueInv, Statuses, Done
    <2> QED BY <2>3, <2>4, <2>5, <2>6 DEF Finished
  <1>3. \A b \in Blocks : ~Recorded(b)
    BY <1>2 DEF Recorded, Range
  <1>4. \A b \in Blocks : ref_count[b] = 0
    BY <1>1, <1>3, Zenon DEF Records, Counts
  <1>5. "CUDA" \in Device /\ free_list["CUDA"] \in Seq(Blocks)
    BY DEF Device, MemInv, LoopTypes, BMTypeOK
  <1>6. \A b \in Blocks : b[1] = "CUDA" => b \in Range(free_list["CUDA"])
    BY <1>1, <1>4, <1>5, Zenon DEF Records, FreeListExact
  <1> QED BY <1>5, <1>6, AllBlocksLong, Zenon

(* The steps of schedule() before the waiting queue is sorted. *)
LEMMA StopDecode ==
    ASSUME StopFacts, Fits, Policy = "FCFS", PreemptionMode = "RECOMPUTE", InSchedule, scheduled = <<>>, Idle,
           DecodeSkip \/ DecodeCheck \/ DecodeAllocate \/ DecodeEnd \/ PreemptRecompute
    PROVE  Idle'
  <1> USE DEF StopFacts, queueVars, seqVars, budgetVars, outputVars, innerVars, bmVars
  <1>1. /\ UNCHANGED <<budget_seqs, budget_tokens, config>>
        /\ pc' \notin {"swapIn", "scheduleEnd", "prefill"}
        /\ budget_seqs' = MaxNumSeqs' /\ budget_tokens' = MaxBatchedTokens'
    <2>1. UNCHANGED <<budget_seqs, budget_tokens, config>>
      BY Zenon DEF InSchedule, DecodeSkip, DecodeCheck, DecodeAllocate, DecodeEnd, PreemptRecompute
    <2>2. pc' \in {"decode", "preempt", "decodeAlloc", "sort"}
      BY Zenon DEF DecodeSkip, DecodeCheck, DecodeAllocate, DecodeEnd, PreemptRecompute, At
    <2> QED BY <2>1, <2>2, Zenon DEF Idle, MaxNumSeqs, MaxBatchedTokens
  <1>2. Len(running) \in Nat /\ DOMAIN running = 1 .. Len(running) /\ it \in Nat \ {0}
    BY Places DEF QueueInv, QueueTypes
  <1>3. CASE DecodeSkip
    <2>1. /\ pc = "decode" /\ pc' = "decode" /\ Finished(running[it]) /\ it' = it + 1
          /\ UNCHANGED <<running, status>>
      BY <1>3, Zenon DEF DecodeSkip, At
    <2>2. \A i \in DOMAIN running : i < it + 1 => Finished(running[i])
      <3> SUFFICES ASSUME NEW i \in DOMAIN running, i < it + 1 PROVE Finished(running[i])
        OBVIOUS
      <3>1. i < it \/ i = it
        BY <1>2
      <3> QED BY <2>1, <3>1, Zenon DEF Idle
    <2>3. \A i \in DOMAIN running' : i < it' => Finished(running[i])'
      BY <2>1, <2>2, Zenon DEF Finished
    <2> QED BY <1>1, <2>1, <2>3, Zenon DEF Idle
  <1>4. CASE DecodeCheck \/ DecodeAllocate
    <2>1. pc' \in {"preempt", "decodeAlloc"}
      BY <1>4, Zenon DEF DecodeCheck, DecodeAllocate, At
    <2> QED BY <1>1, <2>1, Zenon DEF Idle
  <1>5. CASE DecodeEnd
    <2>1. /\ pc = "decode" /\ freeing = NoSeq /\ it > Len(running) /\ pc' = "sort"
          /\ UNCHANGED <<waiting, running, status, free_list, freeing, output_tokens>>
      BY <1>5, Zenon DEF DecodeEnd, At
    <2>2. \A r \in Range(running) : Finished(r)
      <3>1. \A i \in DOMAIN running : i < it
        BY <1>2, <2>1
      <3> QED BY <2>1, <3>1, Zenon DEF Idle, Range
    <2>3. Ready
      <3>1. CASE waiting = <<>>
        BY <2>2, <3>1, Zenon DEF Ready, NoneLeft
      <3>2. CASE waiting # <<>>
        <4>1. PICK h : h = Head(waiting)
          OBVIOUS
        <4>2. h \in SeqIds /\ BlocksNeeded(h) = (PromptLen[h] + BlockSize - 1) \div BlockSize
          BY <2>1, <3>2, <4>1, HeadFresh, Zenon
        <4>3. BlocksNeeded(h) <= NumGpuBlocks /\ BlocksNeeded(h) \in Nat
          <5>1. (PromptLen[h] + BlockSize - 1) \div BlockSize <= NumGpuBlocks
            BY <4>2, Zenon DEF Fits, QueueInv, Control
          <5>2. BlocksNeeded(h) \in Nat
            BY <4>2, Lengths, Zenon DEF MemInv
          <5> QED BY <4>2, <5>1, <5>2, Zenon
        <4>4. Len(free_list["CUDA"]) >= NumGpuBlocks
          BY <2>1, <2>2, AllFree, Zenon
        <4>5. Len(free_list["CUDA"]) \in Nat /\ NumGpuBlocks \in Nat
          BY BlockConstants DEF MemInv, LoopTypes, BMTypeOK, Device
        <4>6. Len(free_list["CUDA"]) + 0 >= BlocksNeeded(h)
          BY <4>3, <4>4, <4>5
        <4>7. Room = Len(free_list["CUDA"]) + 0
          BY <2>1, Zenon DEF Room
        <4> QED BY <3>2, <4>1, <4>6, <4>7, Zenon DEF Ready
      <3> QED BY <3>1, <3>2
    <2>4. Ready'
      BY <2>1, <2>3, Zenon DEF Ready, NoneLeft, Room, BlocksNeeded, TotalLen, Finished
    <2> QED BY <1>1, <2>1, <2>4, Zenon DEF Idle
  <1>6. CASE PreemptRecompute
    <2>1. PICK v : v = Victim
      OBVIOUS
    <2>2. /\ pc = "preempt" /\ pc' = "sort" /\ UNCHANGED <<free_list, seq_block_map>>
          /\ waiting' = <<v>> \o waiting
      BY <1>6, <2>1, Zenon DEF PreemptRecompute, At, RequeueVictim
    <2>3. /\ v \in SeqIds /\ ~Finished(v) /\ Len(seq_block_map[v]) \in Nat
          /\ Len(seq_block_map[v]) >= (PromptLen[v] + BlockSize - 1) \div BlockSize
      BY <2>1, <2>2, VictimFits, Zenon
    <2>4. freeing' = v /\ output_tokens' = [output_tokens EXCEPT ![v] = <<>>]
      BY <1>6, <2>1, <2>3, Zenon DEF PreemptRecompute, EnterFreeBlocks
    <2>5. Head(waiting') = v /\ waiting' # <<>>
      <3>1. waiting \in Seq(SeqIds)
        BY Zenon DEF QueueInv, QueueTypes
      <3> QED BY <2>2, <2>3, <3>1
    <2>6. output_tokens'[v] = <<>>
      BY <2>3, <2>4, Zenon DEF MemInv, LoopTypes
    <2>7. BlocksNeeded(v)' = (PromptLen[v] + BlockSize - 1) \div BlockSize /\ BlocksNeeded(v)' \in Int
      <3>1. Len(output_tokens'[v]) = 0
        BY <2>6
      <3>2. PromptLen[v] \in Nat /\ BlockSize \in Nat \ {0}
        BY <2>3, SchedulerConstants
      <3>3. PromptLen[v] + Len(output_tokens'[v]) = PromptLen[v]
        BY <3>1, <3>2
      <3>4. (PromptLen[v] + BlockSize - 1) \div BlockSize \in Int
        BY <3>2
      <3> QED BY <3>3, <3>4, Zenon DEF BlocksNeeded, TotalLen
    <2>8. Room' = Len(free_list["CUDA"]) + Len(seq_block_map[v])
      <3>1. v # NoSeq
        BY <2>3, BlockConstants, Zenon
      <3> QED BY <2>2, <2>4, <3>1, Zenon DEF Room
    <2>9. Room' >= BlocksNeeded(v)'
      <3>1. Len(free_list["CUDA"]) \in Nat
        BY DEF MemInv, LoopTypes, BMTypeOK, Device
      <3>2. \A f, m \in Nat, n \in Int : m >= n => f + m >= n
        OBVIOUS
      <3> QED BY <2>3, <2>7, <2>8, <3>1, <3>2, Zenon
    <2>10. Ready'
      BY <2>5, <2>9, Zenon DEF Ready, BlocksNeeded, TotalLen
    <2> QED BY <1>1, <2>2, <2>10, Zenon DEF Idle
  <1> QED BY <1>3, <1>4, <1>5, <1>6, Zenon

LEMMA StopSchedule ==
    ASSUME StopFacts, Fits, Policy' = "FCFS", PreemptionMode' = "RECOMPUTE", InSchedule, scheduled' = <<>>
    PROVE  Idle'
  <1>1. config' = config /\ Policy = "FCFS" /\ PreemptionMode = "RECOMPUTE"
    BY Zenon DEF InSchedule, Policy, PreemptionMode
  <1>2. scheduled = <<>> /\ ~DecodeSchedule /\ ~PrefillSchedule
    <2>1. scheduled \in Seq(SeqIds)
      BY Zenon DEF StopFacts, QueueInv, QueueTypes
    <2>2. \A r : Append(scheduled, r) # <<>>
      BY <2>1
    <2>3. ~DecodeSchedule /\ ~PrefillSchedule
      BY <2>2, Zenon DEF DecodeSchedule, PrefillSchedule
    <2> QED BY <2>3, Zenon DEF InSchedule, ScheduleStep, outputVars, DecodeSkip, DecodeCheck,
                 DecodeAllocate, DecodeEnd, PreemptRecompute, PreemptSwap, SwapOutAllocate, SwapOutFree,
                 SwapOutEnd, SortWaiting, PrefillAdmit, PrefillAllocate, PrefillEnd, SwapInAdmit,
                 SwapInAllocate, SwapInEnd, SwapInStop
  <1>3. Idle
    <2>1. phase = "scheduling"
      BY SchedulingPhase, Zenon DEF StopFacts
    <2> QED BY <1>1, <1>2, <2>1, Zenon DEF StopFacts, StopInv
  <1>4. /\ ~PreemptSwap /\ ~SwapOutAllocate /\ ~SwapOutFree /\ ~SwapOutEnd
        /\ ~SwapInAdmit /\ ~SwapInAllocate /\ ~SwapInEnd
    <2>1. swapped = <<>> /\ pc \notin {"swapOut", "swapInAlloc"}
      BY <1>1, Zenon DEF StopFacts, OrderInv
    <2>2. ~PreemptSwap /\ ~SwapOutAllocate /\ ~SwapOutFree /\ ~SwapInAdmit /\ ~SwapInAllocate
      BY <1>1, OwnNoSwap, Zenon DEF StopFacts
    <2> QED BY <2>1, <2>2, Zenon DEF SwapOutEnd, SwapInEnd, At
  <1> QED BY <1>1, <1>2, <1>3, <1>4, StopDecode, StopAdmit, Zenon DEF InSchedule, ScheduleStep

(* schedule() comes back without groups only when none is left to serve. *)
THEOREM StopAlways == Spec => []StopInv
  <1>1. Init => StopInv
    BY DEF Init, StopInv
  <1>2. ASSUME StopFacts, QueueInv', [Next]_vars PROVE StopInv'
    <2> SUFFICES ASSUME Fits, Policy' = "FCFS", PreemptionMode' = "RECOMPUTE"
                 PROVE  /\ phase' = "scheduling" /\ scheduled' = <<>> => Idle'
                        /\ phase' = "stopped" => NoneLeft'
      BY DEF StopInv, Fits
    <2>1. CASE InSchedule
      BY <1>2, <2>1, StopSchedule, SchedulingPhase, Zenon DEF StopFacts
    <2>2. CASE ~InSchedule
      BY <1>2, <2>2, StopOutside, Zenon
    <2> QED BY <2>1, <2>2
  <1> QED BY <1>1, <1>2, QueuesAlways, OrderAlways, MemAlways, OwnAlways, DoneAlways, RoomAlways, WorkAlways,
             PTL DEF Spec, StopFacts

(* With FCFS and recomputation the driver's loop gives up only when every  *)
(* request in the queues is finished, provided each prompt can be admitted *)
(* to an idle system.                                                      *)
THEOREM StopsOnlyWhenDoneAlways == Spec => [](Fits => StopsOnlyWhenDone)
  <1>1. OrderInv /\ StopInv => (Fits => StopsOnlyWhenDone)
    <2> SUFFICES ASSUME OrderInv, StopInv, Fits, Policy = "FCFS", PreemptionMode = "RECOMPUTE", phase = "stopped"
                 PROVE  \A r \in Range(waiting \o running \o swapped) : Finished(r)
      BY DEF StopsOnlyWhenDone
    <2>1. swapped = <<>> /\ waiting = <<>> /\ \A r \in Range(running) : Finished(r)
      BY DEF OrderInv, StopInv, NoneLeft
    <2> QED BY <2>1
  <1> QED BY <1>1, OrderAlways, StopAlways, PTL

=============================================================================
