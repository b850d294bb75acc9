---------------------------- MODULE BlockManager ----------------------------
(***************************************************************************)
(* The paged KV-cache block manager (kv_cache/block_manager.cpp): the      *)
(* physical blocks of two devices with their reference counts, one LIFO    *)
(* free list per device, and the map from a sequence to the blocks         *)
(* recorded under it.  Every public operation holds BlockManager::mu_, so  *)
(* each is one atomic action here.  free_blocks is the exception in form   *)
(* only: its loop takes one step per entry, and `freeing` stands for the   *)
(* mutex it holds meanwhile, which disables every other operation.         *)
(*                                                                         *)
(* A block is named <<device, index>>.  The fields num_filled, hash and    *)
(* is_prefix are left out: no operation branches on them.                  *)
(***************************************************************************)
EXTENDS Integers, Sequences, FiniteSetsExt, Functions

CONSTANTS
    NumGpuBlocks,   \* CacheConfig::num_gpu_blocks
    NumCpuBlocks,   \* CacheConfig::num_cpu_blocks
    SeqIds,         \* the sequence ids callers use
    NoSeq           \* not a sequence: nobody is inside free_blocks

ASSUME BlockConstants ==
    /\ NumGpuBlocks \in Nat
    /\ NumCpuBlocks \in Nat
    /\ NoSeq \notin SeqIds

VARIABLES
    ref_count,      \* PhysicalBlock::ref_count of every block
    free_list,      \* gpu_free_list_ and cpu_free_list_; the back is the last element
    seq_block_map,  \* seq_block_map_; an absent key is the empty sequence
    freeing         \* the sequence whose free_blocks loop holds mu_, or NoSeq

(* A vector's back and pop_back. *)
Back(s) == s[Len(s)]
PopBack(s) == SubSeq(s, 1, Len(s) - 1)

bmVars == <<ref_count, free_list, seq_block_map, freeing>>

Device == {"CUDA", "CPU"}

NumBlocks(d) == IF d = "CUDA" THEN NumGpuBlocks ELSE NumCpuBlocks

Blocks == UNION {{d} \X (0 .. NumBlocks(d) - 1) : d \in Device}

INVALID_BLOCK == <<"NONE", -1>>

BMInit ==
    /\ ref_count = [b \in Blocks |-> 0]
    /\ free_list = [d \in Device |->
                       [i \in 1 .. NumBlocks(d) |-> <<d, NumBlocks(d) - i>>]]
    /\ seq_block_map = [s \in SeqIds |-> <<>>]
    /\ freeing = NoSeq

can_allocate(n) == Len(free_list["CUDA"]) >= n

-----------------------------------------------------------------------------
(* What pop_free returns to its caller. *)
PoppedBlock(d) ==
    IF free_list[d] = <<>> THEN INVALID_BLOCK ELSE Back(free_list[d])

(* Mutant: the block is taken off the wrong end of the list. *)
TakeBackFromFront(s, d) ==
    /\ free_list' = [free_list EXCEPT ![d] = Tail(@)]
    /\ seq_block_map' = [seq_block_map EXCEPT ![s] = Append(@, PoppedBlock(d))]

(* Take a block off the back of the free list and record it under s. *)
TakeBack(s, d) ==
    /\ free_list' = [free_list EXCEPT ![d] = PopBack(@)]
    /\ seq_block_map' = [seq_block_map EXCEPT ![s] = Append(@, PoppedBlock(d))]

(* The caller receives PoppedBlock(d). *)
allocate_block(s, d) ==
    /\ freeing = NoSeq
    /\ IF free_list[d] = <<>>
       THEN UNCHANGED <<ref_count, free_list, seq_block_map>>
       ELSE /\ TakeBack(s, d)
            /\ ref_count' = [ref_count EXCEPT ![PoppedBlock(d)] = 1]
    /\ UNCHANGED freeing

(* Mutant: a block is released only below zero. *)
DropRefBelowZero(b) ==
    IF ref_count[b] - 1 < 0
    THEN /\ ref_count' = [ref_count EXCEPT ![b] = 0]
         /\ free_list' = [free_list EXCEPT ![b[1]] = Append(@, b)]
    ELSE /\ ref_count' = [ref_count EXCEPT ![b] = @ - 1]
         /\ UNCHANGED free_list

(* --ref_count, clamped at 0; a block that gets there goes to the back of  *)
(* its free list, whether or not it is in the list already.                *)
DropRef(b) ==
    IF ref_count[b] - 1 <= 0
    THEN /\ ref_count' = [ref_count EXCEPT ![b] = 0]
         /\ free_list' = [free_list EXCEPT ![b[1]] = Append(@, b)]
    ELSE /\ ref_count' = [ref_count EXCEPT ![b] = @ - 1]
         /\ UNCHANGED free_list

(* Neither free_block nor decrement_ref looks at seq_block_map_. *)
free_block(b) ==
    /\ freeing = NoSeq
    /\ DropRef(b)
    /\ UNCHANGED <<seq_block_map, freeing>>

decrement_ref(b) ==
    /\ freeing = NoSeq
    /\ DropRef(b)
    /\ UNCHANGED <<seq_block_map, freeing>>

(* Mutant: the count is not raised. *)
IncrementLost(b) ==
    /\ freeing = NoSeq
    /\ UNCHANGED bmVars

increment_ref(b) ==
    /\ freeing = NoSeq
    /\ ref_count' = [ref_count EXCEPT ![b] = @ + 1]
    /\ UNCHANGED <<free_list, seq_block_map, freeing>>

(* The block copy_on_write(b, s, device) returns. *)
CowResult(b) == IF ref_count[b] = 1 THEN b ELSE PoppedBlock(b[1])

(* Mutant: the source keeps the reference that was traded for the copy. *)
CowKeepsSource(b, s) ==
    /\ freeing = NoSeq
    /\ CASE ref_count[b] = 1 ->
                /\ seq_block_map' = [seq_block_map EXCEPT ![s] = Append(@, b)]
                /\ UNCHANGED <<ref_count, free_list>>
         [] ref_count[b] # 1 /\ free_list[b[1]] = <<>> ->
                UNCHANGED <<ref_count, free_list, seq_block_map>>
         [] OTHER ->
                /\ TakeBack(s, b[1])
                /\ ref_count' = [ref_count EXCEPT ![PoppedBlock(b[1])] = 1]
    /\ UNCHANGED freeing

(* Mutant: a block with two references counts as unshared. *)
CowSharesTwo(b, s) ==
    /\ freeing = NoSeq
    /\ ref_count[b] <= 2
    /\ seq_block_map' = [seq_block_map EXCEPT ![s] = Append(@, b)]
    /\ UNCHANGED <<ref_count, free_list, freeing>>

copy_on_write(b, s) ==
    /\ freeing = NoSeq
    /\ CASE ref_count[b] = 1 ->
                /\ seq_block_map' = [seq_block_map EXCEPT ![s] = Append(@, b)]
                /\ UNCHANGED <<ref_count, free_list>>
         [] ref_count[b] # 1 /\ free_list[b[1]] = <<>> ->
                UNCHANGED <<ref_count, free_list, seq_block_map>>
         [] OTHER ->
                /\ TakeBack(s, b[1])
                /\ ref_count' = [ref_count EXCEPT ![PoppedBlock(b[1])] = 1,
                                                  ![b] = @ - 1]
    /\ UNCHANGED freeing

-----------------------------------------------------------------------------
(* Mutant: free_blocks does nothing. *)
FreeBlocksSkipped(s) == s # NoSeq /\ UNCHANGED freeing

(* free_blocks(s): enter, drop one reference per recorded entry, leave.    *)
(* The entry is erased as the loop reaches it, not all at the end: nobody  *)
(* else can look at the map in between.                                    *)
EnterFreeBlocks(s) ==
    /\ freeing = NoSeq
    /\ freeing' = s

FreeBlocksNext ==
    /\ freeing # NoSeq
    /\ seq_block_map[freeing] # <<>>
    /\ DropRef(Head(seq_block_map[freeing]))
    /\ seq_block_map' = [seq_block_map EXCEPT ![freeing] = Tail(@)]
    /\ UNCHANGED freeing

FreeBlocksReturn ==
    /\ freeing # NoSeq
    /\ seq_block_map[freeing] = <<>>
    /\ freeing' = NoSeq
    /\ UNCHANGED <<ref_count, free_list, seq_block_map>>

-----------------------------------------------------------------------------
(* Mutant: a block in use does not end the current run. *)
ScanWithoutReset(d, runs, i) ==
    IF <<d, i>> \in Range(free_list[d])
    THEN [cur_run |-> runs.cur_run + 1, max_run |-> Max({runs.max_run, runs.cur_run + 1})]
    ELSE runs

(* One iteration of compute_fragmentation's scan for the longest run of    *)
(* free block ids.                                                         *)
ScanFree(d, runs, i) ==
    IF <<d, i>> \in Range(free_list[d])
    THEN [cur_run |-> runs.cur_run + 1, max_run |-> Max({runs.max_run, runs.cur_run + 1})]
    ELSE [runs EXCEPT !.cur_run = 0]

(* num_filled is 0 in every block (no code sets it to anything else), so   *)
(* internal_fragmentation is 1 as soon as a block is used, and is left out. *)
compute_fragmentation(d) ==
    LET scan[i \in 0 .. NumBlocks(d)] ==
            IF i = 0 THEN [cur_run |-> 0, max_run |-> 0] ELSE ScanFree(d, scan[i - 1], i - 1)
    IN  [used_blocks      |-> NumBlocks(d) - Len(free_list[d]),
         free_blocks      |-> Len(free_list[d]),
         largest_free_run |-> scan[NumBlocks(d)].max_run]

-----------------------------------------------------------------------------
(* What callers that keep to the contract of BlockClients may rely on. *)
(* Types: free lists hold blocks of their own device, the map holds blocks. *)
BMTypeOK ==
    /\ ref_count \in [Blocks -> Nat]
    /\ free_list \in [Device -> Seq(Blocks)]
    /\ seq_block_map \in [SeqIds -> Seq(Blocks)]
    /\ freeing \in SeqIds \cup {NoSeq}
    /\ \A d \in Device : \A i \in DOMAIN free_list[d] : free_list[d][i][1] = d

Recorded(b) == \E s \in SeqIds : b \in Range(seq_block_map[s])

(* A block is in its device's free list exactly when nobody references it, *)
(* and then once: so pop_free never hands out a block in use, and          *)
(* allocate_block fails only when every block of the device is in use.     *)
FreeListExact ==
    \A d \in Device :
        /\ IsInjective(free_list[d])
        /\ Range(free_list[d]) = {b \in Blocks : b[1] = d /\ ref_count[b] = 0}

(* No block is recorded twice, under two sequences or under one: free_blocks *)
(* of one sequence never releases what belongs to another.                 *)
RecordedOnce ==
    \A s, t \in SeqIds :
        \A i \in DOMAIN seq_block_map[s], j \in DOMAIN seq_block_map[t] :
            seq_block_map[s][i] = seq_block_map[t][j] => s = t /\ i = j

=============================================================================
