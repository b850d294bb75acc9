---------------------------- MODULE BlockClients ----------------------------
(***************************************************************************)
(* The block manager under the calls its callers make.  `pins` counts the  *)
(* references a caller took with increment_ref and has not given back: the *)
(* prefix cache's, or a forked sequence's.  The contract is that a caller  *)
(* gives back only references it took: free_block, decrement_ref and       *)
(* copy_on_write spend a pin, free_blocks spends what is recorded under    *)
(* the sequence.                                                           *)
(***************************************************************************)
EXTENDS BlockManager, Functions

CONSTANT MaxPins    \* bound on the pins of one block, for model checking

ASSUME PinConstants == MaxPins \in Nat

VARIABLE pins

clientVars == <<bmVars, pins>>

Init == BMInit /\ pins = [b \in Blocks |-> 0]

Allocate(s, d) == allocate_block(s, d) /\ UNCHANGED pins

(* Sharing a block in use: test_cow_multiple_refs, PrefixCache::insert. *)
Pin(b) ==
    /\ ref_count[b] > 0
    /\ pins[b] < MaxPins
    /\ increment_ref(b)
    /\ pins' = [pins EXCEPT ![b] = @ + 1]

UnpinByDecrement(b) ==
    /\ pins[b] > 0
    /\ decrement_ref(b)
    /\ pins' = [pins EXCEPT ![b] = @ - 1]

UnpinByFree(b) ==
    /\ pins[b] > 0
    /\ free_block(b)
    /\ pins' = [pins EXCEPT ![b] = @ - 1]

(* A forked sequence s that pinned b is about to write to it. *)
Fork(b, s) ==
    /\ pins[b] > 0
    /\ copy_on_write(b, s)
    /\ pins' = IF CowResult(b) = INVALID_BLOCK
               THEN pins
               ELSE [pins EXCEPT ![b] = @ - 1]

FreeSeq(s) ==
    /\ EnterFreeBlocks(s)
    /\ UNCHANGED <<ref_count, free_list, seq_block_map, pins>>

FreeSeqStep == (FreeBlocksNext \/ FreeBlocksReturn) /\ UNCHANGED pins

Next ==
    \/ \E s \in SeqIds, d \in Device : Allocate(s, d)
    \/ \E b \in Blocks : Pin(b) \/ UnpinByDecrement(b) \/ UnpinByFree(b)
    \/ \E b \in Blocks, s \in SeqIds : Fork(b, s)
    \/ \E s \in SeqIds : FreeSeq(s)
    \/ FreeSeqStep

Spec == Init /\ [][Next]_clientVars

-----------------------------------------------------------------------------
(* Counts never go negative, free lists hold blocks of their own device,   *)
(* the map holds valid blocks.                                             *)
TypeOK == BMTypeOK /\ pins \in [Blocks -> Nat]

(* ref_count is the number of references callers hold: the pins, and one   *)
(* for the sequence the block is recorded under.                           *)
RefCountExact ==
    \A b \in Blocks :
        ref_count[b] = pins[b] + (IF Recorded(b) THEN 1 ELSE 0)

(* compute_fragmentation, called between any two steps, reports the        *)
(* referenced blocks as used (the size_t difference never wraps) and the   *)
(* longest interval of unreferenced ids, whatever order the free list is   *)
(* in.  Inside free_blocks' loop mu_ is held and nobody can call it.       *)
FragmentationExact ==
    freeing = NoSeq => \A d \in Device :
        LET stats == compute_fragmentation(d)
            AllUnused(ids) == \A k \in ids : ref_count[<<d, k>>] = 0
            intervals == {i .. j : i, j \in 0 .. NumBlocks(d) - 1}
        IN /\ stats.used_blocks = Cardinality({b \in Blocks : b[1] = d /\ ref_count[b] > 0})
           /\ stats.largest_free_run =
                 Max({0} \cup {Cardinality(ids) : ids \in {x \in intervals : AllUnused(x)}})

(* The sequence b is recorded under, from the callers' side: a sequence    *)
(* inside free_blocks has given up its blocks.                             *)
HolderOf(b) ==
    IF \E s \in SeqIds \ {freeing} : b \in Range(seq_block_map[s])
    THEN CHOOSE s \in SeqIds \ {freeing} : b \in Range(seq_block_map[s])
    ELSE NoSeq

Pool == INSTANCE BlockPool WITH holder <- [b \in Blocks |-> HolderOf(b)]

(* Free lists, counts, LIFO order and the free_blocks loop implement the   *)
(* pool of BlockPool: blocks in use are never handed out, and free_blocks  *)
(* gives up exactly the sequence's own blocks at once.                     *)
RefinesPool == Pool!Spec

=============================================================================
