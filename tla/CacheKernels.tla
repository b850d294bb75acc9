---------------------------- MODULE CacheKernels ----------------------------
(***************************************************************************)
(* The CUDA kernels that move cache blocks (cuda/kv_cache_kernels.cu and   *)
(* memset_blocks of cuda/memory_utils.cu).  A launch is a grid of threads; *)
(* each thread's loop is unrolled into the sequence of copies              *)
(* <<destination, source>> it makes, and the threads interleave one copy   *)
(* at a time.  The contents of a cell are the name of the cell they were   *)
(* in before the launch.                                                   *)
(***************************************************************************)
EXTENDS KvLayout, Functions

CONSTANTS
    cpu_blocks,     \* blocks of the CPU cache that swap_blocks uses
    threads,        \* threads per block: 256 in every launch
    MaxTokens,      \* tokens of one reshape_and_cache launch
    Mappings,       \* the block mappings that callers pass: <<src, dst>> pairs
    Tables          \* block tables: logical block -> physical block

(* Callers name blocks of the pool, and a table names a block once. *)
ASSUME KernelConstants ==
    /\ cpu_blocks \in Nat /\ threads \in Nat \ {0} /\ MaxTokens \in Nat
    /\ \A m \in Mappings : m \in Seq((0 .. num_blocks - 1) \X (0 .. num_blocks - 1))
    /\ \A table \in Tables :
          /\ table \in [DOMAIN table -> 0 .. num_blocks - 1]
          /\ \A i \in DOMAIN table : i \in Nat /\ 0 .. i \subseteq DOMAIN table
          /\ IsInjective(table)

VARIABLES
    launch,     \* [kernel, ...arguments] of the launch in flight
    todo,       \* thread -> the copies it still has to make
    mem         \* cell -> contents

kernelVars == <<launch, todo, mem>>

Cells ==
    ({"gpu"} \X (0 .. pool_elems - 1))
        \cup ({"cpu"} \X (0 .. cpu_blocks * elems_per_block - 1))
        \cup ({"key", "value"} \X (0 .. MaxTokens * n_kv_heads * head_dim - 1))
        \cup {<<"zero", 0>>}

KeyCell(a) == <<"gpu", a>>

ValueCell(a) == <<"gpu", value_base + a>>

(* i = from; i < elems_per_block; i += step *)
Strided(from, step) ==
    [k \in 1 .. (elems_per_block - from + step - 1) \div step |-> from + (k - 1) * step]

blocks_y == (elems_per_block + threads - 1) \div threads

(* The two assignments of copy_blocks and compact, for one element. *)
CopyElement(pair, i) ==
    LET from == pair[1] * elems_per_block + i
        to   == pair[2] * elems_per_block + i
    IN <<<<KeyCell(to), KeyCell(from)>>, <<ValueCell(to), ValueCell(from)>>>>

reshape_and_cache(table, positions) ==
    [t \in (0 .. Len(positions) - 1) \X (0 .. n_kv_heads - 1) \X (0 .. head_dim - 1) |->
        LET to   == dst_off(slot_of(table, positions[t[1] + 1]), t[2], t[3])
            from == src_off(t[1], t[2], t[3])
        IN <<<<KeyCell(to), <<"key", from>>>>, <<ValueCell(to), <<"value", from>>>>>>]

(* Mutant: the guard on tid is missing. *)
CopyUnguarded(mapping) ==
    [t \in (1 .. Len(mapping)) \X (0 .. blocks_y - 1) \X (0 .. threads - 1) |->
        CopyElement(mapping[t[1]], t[3] + t[2] * threads)]

copy_blocks(mapping) ==
    [t \in (1 .. Len(mapping)) \X (0 .. blocks_y - 1) \X (0 .. threads - 1) |->
        LET tid == t[3] + t[2] * threads
        IN IF tid < elems_per_block THEN CopyElement(mapping[t[1]], tid) ELSE <<>>]

(* Mutant: only the keys are moved. *)
CompactKeysOnly(mapping) ==
    [t \in (1 .. Len(mapping)) \X (0 .. blocks_y - 1) \X (0 .. threads - 1) |->
        LET is == Strided(t[3] + t[2] * threads, threads * blocks_y)
        IN [k \in DOMAIN is |-> CopyElement(mapping[t[1]], is[k])[1]]]

compact_kv_cache(mapping) ==
    [t \in (1 .. Len(mapping)) \X (0 .. blocks_y - 1) \X (0 .. threads - 1) |->
        LET is == Strided(t[3] + t[2] * threads, threads * blocks_y)
        IN IF mapping[t[1]][1] = mapping[t[1]][2]
           THEN <<>>
           ELSE [k \in 1 .. 2 * Len(is) |->
                    CopyElement(mapping[t[1]], is[(k + 1) \div 2])[2 - (k % 2)]]]

(* One cache (keys or values) at a time, between the devices. *)
swap_blocks(src_cache, dst_cache, mapping) ==
    [t \in (1 .. Len(mapping)) \X (0 .. threads - 1) |->
        LET is == Strided(t[2], threads)
        IN [k \in DOMAIN is |->
               <<<<dst_cache, mapping[t[1]][2] * elems_per_block + is[k]>>,
                 <<src_cache, mapping[t[1]][1] * elems_per_block + is[k]>>>>]]

memset_blocks(block_ids) ==
    [t \in (1 .. Len(block_ids)) \X (0 .. threads - 1) |->
        LET is == Strided(t[2], threads)
        IN [k \in DOMAIN is |->
               <<KeyCell(block_ids[t[1]] * elems_per_block + is[k]), <<"zero", 0>>>>]]

KernelInit ==
    /\ launch = [kernel |-> "none"]
    /\ todo = <<>>
    /\ mem = [c \in Cells |-> c]

(* A caller's mapping: no destination is written twice or is a source of   *)
(* another pair.                                                           *)
Disjoint(mapping) ==
    \A i, j \in DOMAIN mapping :
        i # j => mapping[i][2] \notin {mapping[j][1], mapping[j][2]}

Launch(args, program) ==
    /\ launch.kernel = "none"
    /\ launch' = args
    /\ todo' = program
    /\ UNCHANGED mem

LaunchReshape ==
    \E table \in Tables, offset \in 0 .. block_size - 1, n \in 1 .. MaxTokens :
    \E b \in DOMAIN table :
        LET positions == [i \in 1 .. n |-> b * block_size + offset + i - 1]
        IN /\ positions[n] \div block_size \in DOMAIN table
           /\ Launch([kernel |-> "reshape", table |-> table, positions |-> positions],
                     reshape_and_cache(table, positions))

LaunchCopy ==
    \E m \in Mappings : /\ Disjoint(m)
                        /\ Launch([kernel |-> "copy", mapping |-> m], copy_blocks(m))

LaunchCompact ==
    \E m \in Mappings : /\ Disjoint(m)
                        /\ Launch([kernel |-> "compact", mapping |-> m], compact_kv_cache(m))

LaunchSwap ==
    \E m \in Mappings, dst \in {"gpu", "cpu"} :
        LET src == IF dst = "gpu" THEN "cpu" ELSE "gpu"
            side == IF dst = "cpu" THEN 2 ELSE 1
        IN /\ \A i \in DOMAIN m : m[i][side] < cpu_blocks
           /\ \A i, j \in DOMAIN m : i # j => m[i][2] # m[j][2]
           /\ Launch([kernel |-> "swap", mapping |-> m, src |-> src, dst |-> dst],
                     swap_blocks(src, dst, m))

LaunchMemset ==
    \E m \in Mappings :
        LET ids == [i \in DOMAIN m |-> m[i][1]]
        IN Launch([kernel |-> "memset", ids |-> ids], memset_blocks(ids))

(* One thread makes its next copy. *)
ThreadStep ==
    \E t \in DOMAIN todo :
        /\ todo[t] # <<>>
        /\ mem' = [mem EXCEPT ![Head(todo[t])[1]] = mem[Head(todo[t])[2]]]
        /\ todo' = [todo EXCEPT ![t] = Tail(@)]
        /\ UNCHANGED launch

KernelNext ==
    \/ LaunchReshape \/ LaunchCopy \/ LaunchCompact \/ LaunchSwap \/ LaunchMemset
    \/ ThreadStep

KernelSpec == KernelInit /\ [][KernelNext]_kernelVars

-----------------------------------------------------------------------------
(* What a launch is to do, block by block, in the attention kernels' own   *)
(* addresses: the pairs <<cell, cell it must end up with the contents of>>.*)
BlockElements == (0 .. n_kv_heads - 1) \X (0 .. block_size - 1) \X (0 .. head_dim - 1)

At(b, e) == kv_off(b, e[1], e[2], e[3])

Intended(l) ==
    CASE l.kernel = "reshape" ->
            LET Where(i, e) == kv_off(l.table[l.positions[i] \div block_size],
                                      e[1], l.positions[i] % block_size, e[3])
                From(i, e)  == src_off(i - 1, e[1], e[3])
            IN {<<KeyCell(Where(i, e)), <<"key", From(i, e)>>>> :
                    i \in DOMAIN l.positions, e \in BlockElements}
               \cup {<<ValueCell(Where(i, e)), <<"value", From(i, e)>>>> :
                    i \in DOMAIN l.positions, e \in BlockElements}
      [] l.kernel \in {"copy", "compact"} ->
            {<<KeyCell(At(pair[2], e)), KeyCell(At(pair[1], e))>> :
                    pair \in Range(l.mapping), e \in BlockElements}
               \cup {<<ValueCell(At(pair[2], e)), ValueCell(At(pair[1], e))>> :
                    pair \in Range(l.mapping), e \in BlockElements}
      [] l.kernel = "swap" ->
            {<<<<l.dst, At(pair[2], e)>>, <<l.src, At(pair[1], e)>>>> :
                    pair \in Range(l.mapping), e \in BlockElements}
      [] l.kernel = "memset" ->
            {<<KeyCell(At(b, e)), <<"zero", 0>>>> : b \in Range(l.ids), e \in BlockElements}
      [] OTHER -> {}

(* No thread of any launch reads or writes outside the buffers it was      *)
(* given, whatever the element count is modulo the threads per block.      *)
InBounds ==
    \A t \in DOMAIN todo : \A i \in DOMAIN todo[t] : todo[t][i] \in Cells \X Cells

(* When the last thread has finished, in whatever order the threads ran,   *)
(* the blocks the caller named hold what they should, at the addresses     *)
(* attention reads, and no other cell has changed.                         *)
KernelsExact ==
    (\A t \in DOMAIN todo : todo[t] = <<>>) =>
        /\ \A p \in Intended(launch) : mem[p[1]] = p[2]
        /\ \A c \in Cells \ {p[1] : p \in Intended(launch)} : mem[c] = c

=============================================================================
