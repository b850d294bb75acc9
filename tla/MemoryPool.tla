----------------------------- MODULE MemoryPool -----------------------------
(***************************************************************************)
(* The slab allocator (kv_cache/memory_pool.cpp) and its callers.  A       *)
(* pointer is its byte offset from base_.  Every operation holds mu_.      *)
(* `held` is what the callers hold: a caller gives back only pointers it   *)
(* holds (tests/test_memory_pool.cpp), and after reset nobody uses an old  *)
(* one.                                                                    *)
(***************************************************************************)
EXTENDS Integers, Sequences

CONSTANTS
    num_blocks,         \* num_blocks_
    block_size_bytes,   \* block_size_bytes_
    Clients             \* the threads that use the pool

ASSUME PoolConstants ==
    /\ num_blocks \in Nat
    /\ block_size_bytes \in Nat \ {0}

VARIABLES
    free_stack,     \* free_stack_; the back is the last element
    held            \* history: the pointers each client holds

poolVars == <<free_stack, held>>

block_id_to_ptr(id) == id * block_size_bytes

ptr_to_block_id(ptr) == ptr \div block_size_bytes

Pointers == {block_id_to_ptr(id) : id \in 0 .. num_blocks - 1}

(* Mutant: the loop starts at num_blocks instead of num_blocks - 1. *)
FullStackHigh == [i \in 1 .. num_blocks |-> block_id_to_ptr(num_blocks - i + 1)]

(* What the constructor and reset push: block 0 ends up on top. *)
FullStack == [i \in 1 .. num_blocks |-> block_id_to_ptr(num_blocks - i)]

PoolInit ==
    /\ free_stack = FullStack
    /\ held = [c \in Clients |-> {}]

(* Mutant: the pointer is returned but not popped. *)
AllocatePeeks(c) ==
    /\ free_stack # <<>>
    /\ held' = [held EXCEPT ![c] = @ \cup {free_stack[Len(free_stack)]}]
    /\ UNCHANGED free_stack

(* allocate returns the back of the stack, or nullptr when it is empty. *)
allocate(c) ==
    IF free_stack = <<>>
    THEN UNCHANGED poolVars
    ELSE /\ held' = [held EXCEPT ![c] = @ \cup {free_stack[Len(free_stack)]}]
         /\ free_stack' = SubSeq(free_stack, 1, Len(free_stack) - 1)

(* deallocate ignores nullptr and checks nothing else. *)
deallocate(c, ptr) ==
    /\ ptr \in held[c]
    /\ free_stack' = Append(free_stack, ptr)
    /\ held' = [held EXCEPT ![c] = @ \ {ptr}]

(* reset; every pointer handed out before it is stale. *)
reset_pool ==
    /\ free_stack' = FullStack
    /\ held' = [c \in Clients |-> {}]

PoolNext ==
    \/ \E c \in Clients : allocate(c)
    \/ \E c \in Clients : \E ptr \in held[c] : deallocate(c, ptr)
    \/ reset_pool

PoolSpec == PoolInit /\ [][PoolNext]_poolVars

-----------------------------------------------------------------------------
(* The stack holds block pointers only. *)
PoolTypeOK ==
    /\ free_stack \in Seq(Pointers)
    /\ held \in [Clients -> SUBSET Pointers]

(* No pointer is handed out twice: a block is on the stack exactly when no *)
(* client holds it, and then once, and no two clients hold the same block. *)
PoolExact ==
    /\ \A i, j \in 1 .. Len(free_stack) : free_stack[i] = free_stack[j] => i = j
    /\ \A ptr \in Pointers :
          (\E i \in 1 .. Len(free_stack) : free_stack[i] = ptr)
             <=> \A c \in Clients : ptr \notin held[c]
    /\ \A c1, c2 \in Clients : c1 # c2 => held[c1] \cap held[c2] = {}

=============================================================================
