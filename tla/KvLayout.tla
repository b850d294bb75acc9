------------------------------ MODULE KvLayout ------------------------------
(***************************************************************************)
(* Where a token's key and value live.  The cache of a pool of num_blocks  *)
(* blocks is [num_blocks, n_kv_heads, block_size, head_dim] floats of keys  *)
(* at base_ptr, and as many of values after them                           *)
(* (prepare_kv_cache_inputs); reshape_and_cache writes it through slots    *)
(* and the attention kernels read it through block tables.  Addresses      *)
(* count floats.                                                           *)
(***************************************************************************)
EXTENDS MemoryPool

CONSTANTS
    n_layers, n_kv_heads, head_dim,     \* ModelConfig
    KV_BLOCK_SIZE,                      \* the compile-time block size
    block_size                          \* CacheConfig::block_size

(* ModelConfig::block_bytes, with 4-byte floats. *)
block_bytes == 2 * n_layers * (head_dim * n_kv_heads) * KV_BLOCK_SIZE * 4

ASSUME LayoutConstants ==
    /\ n_layers \in Nat \ {0} /\ n_kv_heads \in Nat \ {0} /\ head_dim \in Nat \ {0}
    /\ KV_BLOCK_SIZE \in Nat \ {0} /\ block_size \in Nat \ {0}
    /\ block_size_bytes = block_bytes
    /\ block_size <= KV_BLOCK_SIZE

elems_per_block == n_kv_heads * block_size * head_dim

(* What the pool was created with, in floats. *)
pool_elems == num_blocks * (2 * n_layers * (head_dim * n_kv_heads) * KV_BLOCK_SIZE)

(* value_cache_ptr - key_cache_ptr. *)
value_base == num_blocks * n_kv_heads * block_size * head_dim

(* slots[i] of an entry at `position`, for the blocks its table holds. *)
slot_of(table, position) ==
    table[position \div block_size] * block_size + (position % block_size)

(* reshape_and_cache: where the key of a token comes from and goes to. *)
src_off(token, head, d) == (token * n_kv_heads + head) * head_dim + d

dst_off(slot, head, d) ==
    (((slot \div block_size) * n_kv_heads + head) * block_size + (slot % block_size))
        * head_dim + d

(* The attention kernels: k and v of offset `off` in a physical block. *)
kv_off(phys_block, kv_head, off, d) ==
    ((phys_block * n_kv_heads + kv_head) * block_size + off) * head_dim + d

=============================================================================
