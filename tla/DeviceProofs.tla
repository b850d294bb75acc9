---------------------------- MODULE DeviceProofs ----------------------------
(***************************************************************************)
(* The device memory and the kernels that move cache blocks in it, for     *)
(* every number of blocks, block size, set of clients and geometry of the  *)
(* cache; and the trace writer, which shares no state with them.           *)
(*                                                                         *)
(* The pool never hands out a block twice: PoolTypeOK /\ PoolExact is      *)
(* inductive as it stands; the arithmetic is in PointersDiffer and         *)
(* RoundTrip.                                                              *)
(*                                                                         *)
(* In the layout of the KV cache elements do not overlap, keys and values  *)
(* stay inside the pool and apart, and what reshape_and_cache writes       *)
(* through a slot is what attention reads through the block table.  An     *)
(* offset is a number in mixed radix: its digits are the block, head,      *)
(* offset and element (Digits).                                            *)
(***************************************************************************)
EXTENDS CacheKernels, TraceWriter, SequenceTheorems, TLAPS

-----------------------------------------------------------------------------
(* The pool. *)

(* Multiplication by a positive number is strictly increasing. *)
LEMMA TimesMonotone ==
    ASSUME NEW i \in Nat, NEW j \in Nat, i < j, NEW n \in Nat \ {0}
    PROVE  i * n < j * n
<1>1. PICK k \in Nat : j = i + k /\ k >= 1
    BY SMT
<1>2. j * n = i * n + k * n
    BY <1>1, SMT
<1>3. k * n >= n
    BY <1>1, SMT
<1> QED
    BY <1>2, <1>3, SMT

(* Different block ids have different pointers (block_id_to_ptr). *)
LEMMA PointersDiffer ==
    ASSUME NEW i \in Nat, NEW j \in Nat, block_id_to_ptr(i) = block_id_to_ptr(j)
    PROVE  i = j
<1>1. CASE i < j
    BY <1>1, TimesMonotone, PoolConstants DEF block_id_to_ptr
<1>2. CASE j < i
    BY <1>2, TimesMonotone, PoolConstants DEF block_id_to_ptr
<1> QED
    BY <1>1, <1>2

(* ptr_to_block_id inverts block_id_to_ptr: test_block_id_conversion, for  *)
(* every block and every block size.                                       *)
THEOREM RoundTrip ==
    \A id \in Nat : ptr_to_block_id(block_id_to_ptr(id)) = id
<1> SUFFICES ASSUME NEW id \in Nat PROVE (id * block_size_bytes) \div block_size_bytes = id
    BY DEF ptr_to_block_id, block_id_to_ptr
<1> QED
    BY PoolConstants, SMTT(30)

(* Every element of a full stack is the pointer of the block it stands for. *)
LEMMA FullStackFacts ==
    /\ FullStack \in Seq(Pointers)
    /\ Len(FullStack) = num_blocks
    /\ \A i, j \in 1 .. num_blocks : FullStack[i] = FullStack[j] => i = j
    /\ \A ptr \in Pointers : \E i \in 1 .. num_blocks : FullStack[i] = ptr
<1>1. \A i \in 1 .. num_blocks : num_blocks - i \in 0 .. num_blocks - 1
    BY PoolConstants, SMT
<1>2. FullStack \in Seq(Pointers) /\ Len(FullStack) = num_blocks
    BY <1>1, PoolConstants, SMT DEF FullStack, Pointers
<1>3. ASSUME NEW i \in 1 .. num_blocks, NEW j \in 1 .. num_blocks,
             FullStack[i] = FullStack[j]
      PROVE  i = j
  <2>1. block_id_to_ptr(num_blocks - i) = block_id_to_ptr(num_blocks - j)
      BY <1>3 DEF FullStack
  <2>2. num_blocks - i \in Nat /\ num_blocks - j \in Nat
      BY PoolConstants, SMT
  <2>3. num_blocks - i = num_blocks - j
      BY <2>1, <2>2, PointersDiffer
  <2> QED
      BY <2>3, PoolConstants, SMT
<1>4. ASSUME NEW ptr \in Pointers
      PROVE  \E i \in 1 .. num_blocks : FullStack[i] = ptr
  <2>1. PICK id \in 0 .. num_blocks - 1 : ptr = block_id_to_ptr(id)
      BY <1>4 DEF Pointers
  <2>2. num_blocks - id \in 1 .. num_blocks /\ num_blocks - (num_blocks - id) = id
      BY PoolConstants, SMT
  <2> QED
      BY <2>1, <2>2 DEF FullStack
<1> QED
    BY <1>2, <1>3, <1>4

PoolInv == PoolTypeOK /\ PoolExact

(* A full stack with nobody holding anything satisfies the invariant: the  *)
(* constructor's state and the state after reset.                          *)
LEMMA FullIsExact ==
    ASSUME NEW s, NEW h, s = FullStack, h = [c \in Clients |-> {}]
    PROVE  /\ s \in Seq(Pointers)
           /\ h \in [Clients -> SUBSET Pointers]
           /\ \A i, j \in 1 .. Len(s) : s[i] = s[j] => i = j
           /\ \A ptr \in Pointers :
                 (\E i \in 1 .. Len(s) : s[i] = ptr) <=> \A c \in Clients : ptr \notin h[c]
           /\ \A c1, c2 \in Clients : c1 # c2 => h[c1] \cap h[c2] = {}
<1>1. \A c \in Clients : h[c] = {}
    OBVIOUS
<1> QED
    BY <1>1, FullStackFacts

LEMMA AllocateExact ==
    ASSUME PoolInv, NEW c \in Clients, allocate(c)
    PROVE  PoolInv'
<1> USE DEF PoolInv, PoolTypeOK, PoolExact
<1>1. CASE free_stack = <<>>
    BY <1>1 DEF allocate, poolVars
<1>2. CASE free_stack # <<>>
  <2> DEFINE n == Len(free_stack)
             top == free_stack[n]
  <2>1. /\ n \in Nat \ {0}
        /\ top \in Pointers
        /\ held' = [held EXCEPT ![c] = @ \cup {top}]
        /\ free_stack' = SubSeq(free_stack, 1, n - 1)
      BY <1>2 DEF allocate
  <2>2. /\ free_stack' \in Seq(Pointers)
        /\ Len(free_stack') = n - 1
        /\ \A i \in 1 .. n - 1 : free_stack'[i] = free_stack[i]
    <3>1. n - 1 \in Int /\ \A i \in 1 .. n - 1 : free_stack[i] \in Pointers
        BY <2>1
    <3>2. /\ SubSeq(free_stack, 1, n - 1) \in Seq(Pointers)
          /\ Len(SubSeq(free_stack, 1, n - 1)) = IF 1 <= n - 1 THEN (n - 1) - 1 + 1 ELSE 0
          /\ \A i \in 1 .. (n - 1) - 1 + 1 :
                SubSeq(free_stack, 1, n - 1)[i] = free_stack[1 + i - 1]
        BY <3>1, SubSeqProperties, 1 \in Int
    <3> HIDE DEF n
    <3> QED
        BY <2>1, <3>2, SMT
  <2>3. /\ held' \in [Clients -> SUBSET Pointers]
        /\ held'[c] = held[c] \cup {top}
        /\ \A c2 \in Clients : c2 # c => held'[c2] = held[c2]
      BY <2>1
  <2>4. \A c2 \in Clients : top \notin held[c2]
      BY <2>1
  <2>5. \A i, j \in 1 .. Len(free_stack') : free_stack'[i] = free_stack'[j] => i = j
      BY <2>1, <2>2, SMT
  <2>6. ASSUME NEW ptr \in Pointers
        PROVE  (\E i \in 1 .. Len(free_stack') : free_stack'[i] = ptr)
                  <=> \A c2 \in Clients : ptr \notin held'[c2]
    <3>1. CASE ptr = top
      <4>1. \A i \in 1 .. n - 1 : free_stack[i] # top
          BY <2>1, SMT
      <4> QED
          BY <3>1, <4>1, <2>2, <2>3
    <3>2. CASE ptr # top
      <4>1. (\E i \in 1 .. n - 1 : free_stack[i] = ptr) <=> (\E i \in 1 .. n : free_stack[i] = ptr)
          BY <3>2, <2>1, SMT
      <4>2. (\A c2 \in Clients : ptr \notin held'[c2]) <=> (\A c2 \in Clients : ptr \notin held[c2])
          BY <3>2, <2>3
      <4> QED
          BY <4>1, <4>2, <2>2
    <3> QED
        BY <3>1, <3>2
  <2>7. \A c1, c2 \in Clients : c1 # c2 => held'[c1] \cap held'[c2] = {}
      BY <2>3, <2>4
  <2> QED
      BY <2>2, <2>3, <2>5, <2>6, <2>7
<1> QED
    BY <1>1, <1>2

LEMMA DeallocateExact ==
    ASSUME PoolInv, NEW c \in Clients, NEW ptr \in held[c], deallocate(c, ptr)
    PROVE  PoolInv'
<1> USE DEF PoolInv, PoolTypeOK, PoolExact
<1> DEFINE n == Len(free_stack)
<1>1. /\ ptr \in Pointers
      /\ n \in Nat
      /\ free_stack' = Append(free_stack, ptr)
      /\ held' = [held EXCEPT ![c] = @ \ {ptr}]
    BY DEF deallocate
<1>2. /\ free_stack' \in Seq(Pointers)
      /\ Len(free_stack') = n + 1
      /\ free_stack'[n + 1] = ptr
      /\ \A i \in 1 .. n : free_stack'[i] = free_stack[i]
    BY <1>1, SMT
<1>3. /\ held' \in [Clients -> SUBSET Pointers]
      /\ held'[c] = held[c] \ {ptr}
      /\ \A c2 \in Clients : c2 # c => held'[c2] = held[c2]
    BY <1>1
<1>4. \A i \in 1 .. n : free_stack[i] # ptr
    BY <1>1
<1>5. \A i, j \in 1 .. Len(free_stack') : free_stack'[i] = free_stack'[j] => i = j
    BY <1>1, <1>2, <1>4, SMT
<1>6. ASSUME NEW p \in Pointers
      PROVE  (\E i \in 1 .. Len(free_stack') : free_stack'[i] = p)
                <=> \A c2 \in Clients : p \notin held'[c2]
  <2>1. CASE p = ptr
    <3>1. n + 1 \in 1 .. Len(free_stack')
        BY <1>1, <1>2, SMT
    <3>2. \A c2 \in Clients : ptr \notin held'[c2]
        BY <1>3
    <3> QED
        BY <2>1, <3>1, <3>2, <1>2
  <2>2. CASE p # ptr
    <3>1. (\E i \in 1 .. n + 1 : free_stack'[i] = p) <=> (\E i \in 1 .. n : free_stack[i] = p)
        BY <2>2, <1>1, <1>2, SMT
    <3>2. (\A c2 \in Clients : p \notin held'[c2]) <=> (\A c2 \in Clients : p \notin held[c2])
        BY <2>2, <1>3
    <3> QED
        BY <3>1, <3>2, <1>2
  <2> QED
      BY <2>1, <2>2
<1>7. \A c1, c2 \in Clients : c1 # c2 => held'[c1] \cap held'[c2] = {}
    BY <1>3
<1> QED
    BY <1>2, <1>3, <1>5, <1>6, <1>7

(* The invariant holds of every behaviour of the pool. *)
THEOREM PoolAlways == PoolSpec => []PoolInv
<1>1. PoolInit => PoolInv
    BY FullIsExact DEF PoolInit, PoolInv, PoolTypeOK, PoolExact
<1>2. PoolInv /\ [PoolNext]_poolVars => PoolInv'
  <2> SUFFICES ASSUME PoolInv, [PoolNext]_poolVars PROVE PoolInv'
      OBVIOUS
  <2>1. ASSUME NEW c \in Clients, allocate(c) PROVE PoolInv'
      BY <2>1, AllocateExact
  <2>2. ASSUME NEW c \in Clients, NEW ptr \in held[c], deallocate(c, ptr) PROVE PoolInv'
      BY <2>2, DeallocateExact
  <2>3. CASE reset_pool
      BY <2>3, FullIsExact DEF reset_pool, PoolInv, PoolTypeOK, PoolExact
  <2>4. CASE UNCHANGED poolVars
      BY <2>4 DEF poolVars, PoolInv, PoolTypeOK, PoolExact
  <2> QED
      BY <2>1, <2>2, <2>3, <2>4 DEF PoolNext
<1> QED
    BY <1>1, <1>2, PTL DEF PoolSpec

(* allocate, deallocate and reset keep the free stack exact: a block is    *)
(* free or held by one client, never both, whatever the order of calls.    *)
THEOREM PoolIsExact == PoolSpec => []PoolExact
<1>1. PoolInv => PoolExact
    BY DEF PoolInv
<1> QED
    BY <1>1, PoolAlways, PTL

(* What the free stack holds, and what clients get from allocate, are      *)
(* always addresses of blocks of the pool.                                 *)
THEOREM PoolTypes == PoolSpec => []PoolTypeOK
<1>1. PoolInv => PoolTypeOK
    BY DEF PoolInv
<1> QED
    BY <1>1, PoolAlways, PTL

-----------------------------------------------------------------------------
(* The layout. *)

(* A number has one quotient and remainder. *)
LEMMA Digits ==
    ASSUME NEW m \in Nat \ {0}, NEW a \in Nat, NEW b \in Nat,
           NEW r \in 0 .. m - 1, NEW s \in 0 .. m - 1, a * m + r = b * m + s
    PROVE  a = b /\ r = s
<1>1. a * m \in Nat /\ b * m \in Nat
    BY SMT
<1>2. ASSUME NEW x \in Nat, NEW y \in Nat, x < y PROVE x * m + m <= y * m
  <2>1. CASE y = x + 1
    <3>1. (x + 1) * m = x * m + m
        BY SMT
    <3> QED
        BY <2>1, <3>1
  <2>2. CASE x + 1 < y
    <3>1. (x + 1) * m < y * m
        BY <2>2, TimesMonotone, x + 1 \in Nat
    <3>2. (x + 1) * m = x * m + m
        BY SMT
    <3>3. x * m \in Nat /\ y * m \in Nat
        BY SMT
    <3> QED
        BY <3>1, <3>2, <3>3
  <2> QED
      BY <1>2, <2>1, <2>2
<1>3. ~(a < b)
  <2> SUFFICES ASSUME a < b PROVE FALSE
      OBVIOUS
  <2>1. a * m + m <= b * m
      BY <1>2
  <2> QED
      BY <2>1, <1>1
<1>4. ~(b < a)
  <2> SUFFICES ASSUME b < a PROVE FALSE
      OBVIOUS
  <2>1. b * m + m <= a * m
      BY <1>2
  <2> QED
      BY <2>1, <1>1
<1>5. a = b
    BY <1>3, <1>4
<1> QED
    BY <1>1, <1>5

(* A number with digits below n and m is below n * m. *)
LEMMA DigitsBound ==
    ASSUME NEW n \in Nat, NEW m \in Nat \ {0}, NEW a \in 0 .. n - 1, NEW r \in 0 .. m - 1
    PROVE  a * m + r \in 0 .. n * m - 1
<1>1. a * m \in Nat /\ n * m \in Nat /\ a \in Nat
    BY SMT
<1>2. a * m + m <= n * m
  <2>1. PICK k \in Nat : n = (a + 1) + k
    <3>1. n - (a + 1) \in Nat /\ n = (a + 1) + (n - (a + 1))
        BY SMT
    <3> QED
        BY <3>1
  <2>2. n * m = a * m + m + k * m
      BY <2>1, SMT
  <2>3. k * m \in Nat
      BY SMT
  <2> QED
      BY <2>2, <2>3, <1>1
<1> QED
    BY <1>1, <1>2

(* No two (block, head, offset, element) share an address: a write to one  *)
(* token's key or value changes no other (reshape_and_cache_kernel).       *)
THEOREM LayoutInjective ==
    ASSUME NEW b1 \in Nat, NEW b2 \in Nat,
           NEW h1 \in 0 .. n_kv_heads - 1, NEW h2 \in 0 .. n_kv_heads - 1,
           NEW o1 \in 0 .. block_size - 1, NEW o2 \in 0 .. block_size - 1,
           NEW d1 \in 0 .. head_dim - 1, NEW d2 \in 0 .. head_dim - 1,
           kv_off(b1, h1, o1, d1) = kv_off(b2, h2, o2, d2)
    PROVE  b1 = b2 /\ h1 = h2 /\ o1 = o2 /\ d1 = d2
<1> USE LayoutConstants
<1> DEFINE row1 == b1 * n_kv_heads + h1
           row2 == b2 * n_kv_heads + h2
           tok1 == row1 * block_size + o1
           tok2 == row2 * block_size + o2
<1>1. row1 \in Nat /\ row2 \in Nat
    BY SMT
<1>2. tok1 * head_dim + d1 = tok2 * head_dim + d2
    BY DEF kv_off
<1> HIDE DEF row1, row2
<1>3. tok1 \in Nat /\ tok2 \in Nat
    BY <1>1, SMT
<1> HIDE DEF tok1, tok2
<1>4. tok1 = tok2 /\ d1 = d2
    BY <1>2, <1>3, Digits
<1>5. row1 = row2 /\ o1 = o2
    BY <1>1, <1>4, Digits DEF tok1, tok2
<1>6. b1 = b2 /\ h1 = h2
    BY <1>5, Digits DEF row1, row2
<1> QED
    BY <1>4, <1>5, <1>6

(* Every key of a block of the pool lies below value_cache_ptr, and every  *)
(* value after it and inside the pool (prepare_kv_cache_inputs), when the  *)
(* cache's block size is at most the one the pool was sized with.          *)
THEOREM LayoutInside ==
    ASSUME NEW b \in 0 .. num_blocks - 1, NEW h \in 0 .. n_kv_heads - 1,
           NEW o \in 0 .. block_size - 1, NEW d \in 0 .. head_dim - 1
    PROVE  /\ kv_off(b, h, o, d) \in 0 .. value_base - 1
           /\ value_base + kv_off(b, h, o, d) < pool_elems
<1> USE LayoutConstants, PoolConstants
<1> DEFINE rows == num_blocks * n_kv_heads
           toks == rows * block_size
<1>1. rows \in Nat
    BY SMT
<1>2. b * n_kv_heads + h \in 0 .. rows - 1
    BY DigitsBound
<1> HIDE DEF rows
<1>3. toks \in Nat
    BY <1>1, SMT
<1>4. (b * n_kv_heads + h) * block_size + o \in 0 .. toks - 1
    BY <1>1, <1>2, DigitsBound
<1> HIDE DEF toks
<1>5. ((b * n_kv_heads + h) * block_size + o) * head_dim + d \in 0 .. toks * head_dim - 1
    BY <1>3, <1>4, DigitsBound
<1>6. value_base = toks * head_dim
    BY DEF value_base, toks, rows
<1>7. value_base \in Nat
    BY <1>3, <1>6, SMT
<1>8. value_base + value_base <= pool_elems
  <2> DEFINE unit == num_blocks * (head_dim * n_kv_heads)
  <2>1. unit \in Nat
      BY SMT
  <2>2. value_base = unit * block_size
      BY SMT DEF value_base
  <2>3. pool_elems = 2 * ((unit * KV_BLOCK_SIZE) * n_layers)
      BY SMT DEF pool_elems
  <2> HIDE DEF unit
  <2>4. unit * block_size <= unit * KV_BLOCK_SIZE
      BY <2>1, SMT
  <2>5. unit * KV_BLOCK_SIZE <= (unit * KV_BLOCK_SIZE) * n_layers
      BY <2>1, SMT
  <2>6. unit * block_size \in Nat /\ unit * KV_BLOCK_SIZE \in Nat
        /\ (unit * KV_BLOCK_SIZE) * n_layers \in Nat
      BY <2>1, SMT
  <2> QED
      BY <2>2, <2>3, <2>4, <2>5, <2>6
<1>9. pool_elems \in Nat
    BY SMT DEF pool_elems
<1> QED
    BY <1>5, <1>6, <1>7, <1>8, <1>9 DEF kv_off

(* The slot that prepare_kv_cache_inputs computes leads reshape_and_cache  *)
(* to the address where the attention kernels look for the position.       *)
THEOREM WriteReadAgree ==
    ASSUME NEW table, NEW pos \in Nat, table[pos \div block_size] \in Nat,
           NEW h \in 0 .. n_kv_heads - 1, NEW d \in 0 .. head_dim - 1
    PROVE  dst_off(slot_of(table, pos), h, d)
              = kv_off(table[pos \div block_size], h, pos % block_size, d)
<1> USE LayoutConstants
<1> DEFINE b == table[pos \div block_size]
           o == pos % block_size
           slot == b * block_size + o
<1>1. o \in 0 .. block_size - 1 /\ b \in Nat
    BY SMT
<1> HIDE DEF b, o
<1>2. slot \in Nat
    BY <1>1, SMT
<1>3. /\ slot \div block_size \in Nat
      /\ slot % block_size \in 0 .. block_size - 1
      /\ slot = (slot \div block_size) * block_size + (slot % block_size)
  <2> HIDE DEF slot
  <2> QED
      BY <1>2, SMT
<1>4. slot \div block_size = b /\ slot % block_size = o
  <2>1. (slot \div block_size) * block_size + (slot % block_size) = b * block_size + o
      BY <1>3
  <2> DEFINE q == slot \div block_size
             r == slot % block_size
  <2>2. q \in Nat /\ r \in 0 .. block_size - 1 /\ q * block_size + r = b * block_size + o
      BY <2>1, <1>3
  <2> HIDE DEF q, r
  <2>3. q = b /\ r = o
      BY <2>2, <1>1, Digits
  <2> QED
      BY <2>3 DEF q, r
<1> QED
    BY <1>4 DEF dst_off, kv_off, slot_of, b, o

-----------------------------------------------------------------------------
(* The kernels that move cache blocks. *)

(* Indices of threads: quotients and remainders. *)
LEMMA Quotient ==
    ASSUME NEW x \in Nat, NEW m \in Nat \ {0}
    PROVE  /\ x \div m \in Nat /\ x % m \in 0 .. m - 1
           /\ x = (x \div m) * m + (x % m)
  BY SMT

LEMMA TimesMonotoneLe ==
    ASSUME NEW i \in Nat, NEW j \in Nat, i <= j, NEW n \in Nat
    PROVE  i * n <= j * n
  <1>1. PICK k \in Nat : j = i + k
    BY j - i \in Nat
  <1>2. j * n = i * n + k * n /\ k * n \in Nat /\ i * n \in Nat
    BY <1>1, SMT
  <1> QED BY <1>2

(* The largest multiple of m up to x. *)
LEMMA QuotientBounds ==
    ASSUME NEW x \in Nat, NEW m \in Nat \ {0}, NEW k \in Nat
    PROVE  k * m <= x <=> k <= x \div m
  <1> DEFINE q == x \div m
             r == x % m
  <1>1. q \in Nat /\ r \in 0 .. m - 1 /\ x = q * m + r
    BY Quotient, Zenon
  <1> HIDE DEF q, r
  <1>2. k * m \in Nat /\ q * m \in Nat
    BY <1>1
  <1>3. ASSUME k <= q PROVE k * m <= x
    BY <1>1, <1>2, <1>3, TimesMonotoneLe
  <1>4. ASSUME ~(k <= q) PROVE ~(k * m <= x)
    <2>1. q + 1 <= k /\ q + 1 \in Nat
      BY <1>1, <1>4
    <2>2. (q + 1) * m <= k * m
      BY <2>1, TimesMonotoneLe
    <2>3. (q + 1) * m = q * m + m
      BY <1>1, SMT
    <2> QED BY <1>1, <1>2, <2>2, <2>3
  <1> QED BY <1>3, <1>4 DEF q

(* The digits of a number below n * m. *)
LEMMA QuotientDigits ==
    ASSUME NEW n \in Nat, NEW m \in Nat \ {0}, NEW x \in 0 .. n * m - 1
    PROVE  /\ x \div m \in 0 .. n - 1 /\ x % m \in 0 .. m - 1
           /\ x = (x \div m) * m + (x % m)
  <1>1. n * m \in Nat
    BY SMT
  <1>2. x \in Nat /\ ~(n * m <= x)
    BY <1>1
  <1>3. ~(n <= x \div m)
    BY <1>2, QuotientBounds
  <1>4. x \div m \in Nat /\ x % m \in 0 .. m - 1 /\ x = (x \div m) * m + (x % m)
    BY <1>2, Quotient, Zenon
  <1>5. \A q \in Nat : ~(n <= q) => q \in 0 .. n - 1
    OBVIOUS
  <1> QED BY <1>3, <1>4, <1>5, Zenon

(* The sizes of a launch are numbers, and so are products of numbers. *)
LEMMA KernelNats == cpu_blocks \in Nat /\ threads \in Nat \ {0} /\ MaxTokens \in Nat
  BY KernelConstants, Zenon

LEMMA ProductNat ==
    ASSUME NEW a \in Nat, NEW b \in Nat
    PROVE  a * b \in Nat
  BY SMT

(* An element of a block by its offset, and by its head, place and index.  *)
LEMMA ElemsNat == elems_per_block \in Nat \ {0}
  <1>1. n_kv_heads * block_size \in Nat \ {0}
    BY LayoutConstants, SMT
  <1> QED BY <1>1, LayoutConstants, SMT DEF elems_per_block

LEMMA OffsetOfElement ==
    ASSUME NEW e \in BlockElements
    PROVE  \E i \in 0 .. elems_per_block - 1 :
               \A b \in Nat : At(b, e) = b * elems_per_block + i
  <1> USE LayoutConstants
  <1>1. PICK h \in 0 .. n_kv_heads - 1, o \in 0 .. block_size - 1, d \in 0 .. head_dim - 1 : e = <<h, o, d>>
    BY DEF BlockElements
  <1> DEFINE i == (h * block_size + o) * head_dim + d
  <1>2. n_kv_heads * block_size \in Nat /\ h * block_size + o \in 0 .. n_kv_heads * block_size - 1
    BY DigitsBound, SMT
  <1>3. i \in 0 .. elems_per_block - 1
    BY <1>2, DigitsBound DEF elems_per_block
  <1>4. ASSUME NEW b \in Nat PROVE At(b, e) = b * elems_per_block + i
    <2>1. kv_off(b, h, o, d) = b * (n_kv_heads * block_size * head_dim) + ((h * block_size + o) * head_dim + d)
      BY SMT DEF kv_off
    <2> QED BY <1>1, <2>1 DEF At, elems_per_block
  <1> QED BY <1>3, <1>4

LEMMA ElementOfOffset ==
    ASSUME NEW i \in 0 .. elems_per_block - 1
    PROVE  \E e \in BlockElements :
               \A b \in Nat : At(b, e) = b * elems_per_block + i
  <1> USE LayoutConstants
  <1>1. n_kv_heads * block_size \in Nat /\ i \in 0 .. (n_kv_heads * block_size) * head_dim - 1
    BY SMT DEF elems_per_block
  <1> DEFINE q == i \div head_dim
  <1>2. PICK d \in 0 .. head_dim - 1 : q \in 0 .. n_kv_heads * block_size - 1 /\ i = q * head_dim + d
    <2>1. /\ i \div head_dim \in 0 .. n_kv_heads * block_size - 1 /\ i % head_dim \in 0 .. head_dim - 1
          /\ i = (i \div head_dim) * head_dim + (i % head_dim)
      <3>1. PICK n \in Nat : n = n_kv_heads * block_size
        BY <1>1
      <3>2. head_dim \in Nat \ {0} /\ i \in 0 .. n * head_dim - 1
        BY <1>1, <3>1
      <3>3. /\ i \div head_dim \in 0 .. n - 1 /\ i % head_dim \in 0 .. head_dim - 1
            /\ i = (i \div head_dim) * head_dim + (i % head_dim)
        BY <3>2, QuotientDigits, Zenon
      <3> QED BY <3>1, <3>3, Zenon
    <2> QED BY <2>1, Zenon
  <1> HIDE DEF q
  <1>3. PICK h \in 0 .. n_kv_heads - 1, o \in 0 .. block_size - 1 : q = h * block_size + o
    <2>1. n_kv_heads \in Nat /\ block_size \in Nat \ {0}
      OBVIOUS
    <2>2. q \div block_size \in 0 .. n_kv_heads - 1 /\ q % block_size \in 0 .. block_size - 1
          /\ q = (q \div block_size) * block_size + (q % block_size)
      BY <1>2, <2>1, QuotientDigits, Zenon
    <2> QED BY <2>2, Zenon
  <1>4. <<h, o, d>> \in BlockElements
    BY DEF BlockElements
  <1>5. ASSUME NEW b \in Nat PROVE At(b, <<h, o, d>>) = b * elems_per_block + i
    <2>1. kv_off(b, h, o, d) = b * (n_kv_heads * block_size * head_dim) + ((h * block_size + o) * head_dim + d)
      BY SMT DEF kv_off
    <2> QED BY <1>2, <1>3, <2>1 DEF At, elems_per_block
  <1> QED BY <1>4, <1>5

(* The threads of a row of blocks reach every element, and the loop of a   *)
(* thread stays inside the block.                                          *)
LEMMA RowCovers ==
    /\ blocks_y \in Nat
    /\ elems_per_block <= blocks_y * threads
    /\ \A i \in 0 .. blocks_y * threads - 1 :
          \E y \in 0 .. blocks_y - 1, x \in 0 .. threads - 1 : i = x + y * threads
    /\ \A y \in 0 .. blocks_y - 1, x \in 0 .. threads - 1 :
          x + y * threads \in 0 .. blocks_y * threads - 1
  <1> USE KernelNats
  <1>1. PICK N \in Nat : N = elems_per_block + threads - 1
    BY ElemsNat
  <1>2. PICK q \in Nat : q = N \div threads
    BY <1>1, Quotient
  <1>3. PICK r \in 0 .. threads - 1 : N = q * threads + r
    BY <1>1, <1>2, Quotient, Zenon
  <1>4. blocks_y = q /\ q * threads \in Nat
    BY <1>1, <1>2, SMT DEF blocks_y
  <1>5. elems_per_block <= q * threads
    BY <1>1, <1>3, <1>4, ElemsNat
  <1>6. ASSUME NEW i \in 0 .. q * threads - 1
        PROVE  \E y \in 0 .. q - 1, x \in 0 .. threads - 1 : i = x + y * threads
    <2>1. PICK y \in 0 .. q - 1, x \in 0 .. threads - 1 : i = y * threads + x
      <3>1. i \div threads \in 0 .. q - 1 /\ i % threads \in 0 .. threads - 1
            /\ i = (i \div threads) * threads + (i % threads)
        BY <1>2, QuotientDigits, Zenon
      <3> QED BY <3>1, Zenon
    <2>2. y * threads \in Nat
      BY ProductNat
    <2>3. i = x + y * threads
      BY <2>1, <2>2
    <2> QED BY <2>3
  <1>7. ASSUME NEW y \in 0 .. q - 1, NEW x \in 0 .. threads - 1
        PROVE  x + y * threads \in 0 .. q * threads - 1
    <2>1. y * threads + x \in 0 .. q * threads - 1
      BY <1>2, DigitsBound
    <2>2. y * threads \in Nat
      BY ProductNat
    <2>3. x + y * threads = y * threads + x
      BY <2>2
    <2> QED BY <2>1, <2>3
  <1> QED BY <1>2, <1>4, <1>5, <1>6, <1>7

LEMMA StridedElements ==
    ASSUME NEW step \in Nat \ {0}, NEW from \in 0 .. step - 1
    PROVE  /\ Strided(from, step) \in Seq(0 .. elems_per_block - 1)
           /\ \A i \in 0 .. elems_per_block - 1 :
                 i % step = from => i \in Range(Strided(from, step))
  <1>1. PICK E \in Nat : E = elems_per_block
    BY ElemsNat
  <1>2. PICK N \in Nat : N = E - from + step - 1
    BY <1>1
  <1>3. PICK K \in Nat : K = N \div step
    BY <1>2, Quotient
  <1>4. Strided(from, step) = [k \in 1 .. K |-> from + (k - 1) * step]
    BY <1>1, <1>2, <1>3 DEF Strided
  <1>5. ASSUME NEW k \in Nat \ {0} PROVE (k - 1) * step \in Nat /\ k * step = (k - 1) * step + step
    BY SMT
  <1>6. ASSUME NEW k \in 1 .. K PROVE from + (k - 1) * step \in 0 .. E - 1
    <2>1. k * step <= N
      BY <1>2, <1>3, QuotientBounds
    <2> QED BY <1>1, <1>2, <1>5, <2>1
  <1>7. ASSUME NEW i \in 0 .. E - 1, i % step = from PROVE \E k \in 1 .. K : i = from + (k - 1) * step
    <2>1. PICK j \in Nat : i = j * step + from
      <3>1. i \in Nat
        BY <1>1
      <3>2. i \div step \in Nat /\ i = (i \div step) * step + (i % step)
        BY <3>1, Quotient, Zenon
      <3> QED BY <1>7, <3>2, Zenon
    <2>2. (j + 1) * step = j * step + step /\ j * step \in Nat
      BY <2>1, SMT
    <2>3. (j + 1) * step <= N
      BY <1>1, <1>2, <2>1, <2>2
    <2>4. j + 1 \in 1 .. K
      BY <1>2, <1>3, <2>3, QuotientBounds
    <2>5. i = from + ((j + 1) - 1) * step
      BY <2>1, <2>2
    <2> QED BY <2>4, <2>5
  <1>8. Strided(from, step) \in Seq(0 .. E - 1)
    BY <1>4, <1>6, SeqDef
  <1>9. ASSUME NEW i \in 0 .. E - 1, i % step = from PROVE i \in Range(Strided(from, step))
    <2>1. PICK k \in 1 .. K : i = from + (k - 1) * step
      BY <1>7, <1>9, Zenon
    <2>2. k \in DOMAIN Strided(from, step) /\ Strided(from, step)[k] = i
      BY <1>4, <2>1
    <2> QED BY <2>2, Zenon DEF Range
  <1> QED BY <1>1, <1>8, <1>9, Zenon

-----------------------------------------------------------------------------
(* Any order of the threads gives the same result when no copy writes what *)
(* another one reads, and copies with one destination have one source.     *)
Independent(I) ==
    \A p, q \in I : /\ p[1] = q[1] => p[2] = q[2]
                    /\ p[1] = q[2] => p[1] = p[2]

Done(p) == mem[p[1]] = p[2]

KernelInv ==
    /\ launch.kernel = "none" => mem = [c \in Cells |-> c]
    /\ mem \in [Cells -> Cells]
    /\ Intended(launch) \subseteq Cells \X Cells /\ Independent(Intended(launch))
    /\ \A t \in DOMAIN todo : todo[t] \in Seq(Intended(launch))
    /\ \A p \in Intended(launch) : Done(p) \/ \E t \in DOMAIN todo : p \in Range(todo[t])
    /\ \A p \in Intended(launch) : Done(p) \/ mem[p[1]] = p[1]
    /\ \A c \in Cells : (\A p \in Intended(launch) : p[1] # c) => mem[c] = c

(* What a launch owes the invariant: its threads make intended copies      *)
(* only, and all of them that change anything.                             *)
Carries(program, I) ==
    /\ I \subseteq Cells \X Cells /\ Independent(I)
    /\ \A t \in DOMAIN program : program[t] \in Seq(I)
    /\ \A p \in I : p[1] = p[2] \/ \E t \in DOMAIN program : p \in Range(program[t])

LEMMA LaunchKeeps ==
    ASSUME KernelInv, NEW args, NEW program, Launch(args, program), args.kernel # "none",
           Carries(program, Intended(args))
    PROVE  KernelInv'
  <1>1. /\ launch' = args /\ todo' = program /\ mem' = mem /\ mem = [c \in Cells |-> c]
    BY DEF Launch, KernelInv
  <1>2. PICK I : I = Intended(args)
    OBVIOUS
  <1>3. Intended(launch)' = I /\ Intended(launch') = I
    BY <1>1, <1>2
  <1>4. /\ I \subseteq Cells \X Cells /\ Independent(I)
        /\ \A t \in DOMAIN program : program[t] \in Seq(I)
        /\ \A p \in I : p[1] = p[2] \/ \E t \in DOMAIN program : p \in Range(program[t])
    BY <1>2, Zenon DEF Carries
  <1>5. \A p \in I : mem'[p[1]] = p[1]
    BY <1>1, <1>4
  <1>6. mem' \in [Cells -> Cells] /\ \A c \in Cells : mem'[c] = c
    BY <1>1
  <1>7. \A p \in I : Done(p)' \/ \E t \in DOMAIN todo' : p \in Range(todo'[t])
    BY <1>1, <1>4, <1>5, Zenon DEF Done
  <1>8. launch'.kernel # "none"
    BY <1>1
  <1> QED BY <1>1, <1>3, <1>4, <1>5, <1>6, <1>7, <1>8, Zenon DEF KernelInv

LEMMA ThreadKeeps ==
    ASSUME KernelInv, ThreadStep
    PROVE  KernelInv'
  <1>1. PICK t \in DOMAIN todo :
            /\ todo[t] # <<>>
            /\ mem' = [mem EXCEPT ![Head(todo[t])[1]] = mem[Head(todo[t])[2]]]
            /\ todo' = [todo EXCEPT ![t] = Tail(@)]
            /\ UNCHANGED launch
    BY Zenon DEF ThreadStep
  <1>2. PICK I, s : I = Intended(launch) /\ s = todo[t]
    OBVIOUS
  <1>3. /\ mem \in [Cells -> Cells] /\ I \subseteq Cells \X Cells /\ Independent(I)
        /\ \A u \in DOMAIN todo : todo[u] \in Seq(I)
        /\ \A p \in I : Done(p) \/ \E u \in DOMAIN todo : p \in Range(todo[u])
        /\ \A p \in I : Done(p) \/ mem[p[1]] = p[1]
        /\ \A c \in Cells : (\A p \in I : p[1] # c) => mem[c] = c
    BY <1>2, Zenon DEF KernelInv
  <1>4. Intended(launch') = I /\ Intended(launch)' = I
    BY <1>1, <1>2
  <1>5. /\ s \in Seq(I) /\ s # <<>> /\ Tail(s) \in Seq(I) /\ Head(s) \in I
        /\ \A p \in Range(s) : p = Head(s) \/ p \in Range(Tail(s))
    <2>1. s \in Seq(I) /\ s # <<>>
      BY <1>1, <1>2, <1>3
    <2>2. Tail(s) \in Seq(I) /\ Head(s) \in I /\ Head(s) = s[1]
      BY <2>1
    <2>3. ASSUME NEW i \in DOMAIN s PROVE s[i] = Head(s) \/ s[i] \in Range(Tail(s))
      <3>1. CASE i = 1
        BY <2>2, <3>1
      <3>2. CASE i # 1
        <4>1. i - 1 \in DOMAIN Tail(s) /\ Tail(s)[i - 1] = s[i]
          BY <2>1, <3>2
        <4> QED BY <4>1, Zenon DEF Range
      <3> QED BY <3>1, <3>2
    <2> QED BY <2>1, <2>2, <2>3, Zenon DEF Range
  <1>6. PICK q \in I : q = Head(s)
    BY <1>5
  <1>7. q[1] \in Cells /\ q[2] \in Cells /\ mem' = [mem EXCEPT ![q[1]] = mem[q[2]]]
    BY <1>1, <1>2, <1>3, <1>6
  (* What a thread reads has not changed since the launch. *)
  <1>8. mem[q[2]] = q[2]
    <2>1. CASE \A p \in I : p[1] # q[2]
      BY <1>3, <1>7, <2>1, Zenon
    <2>2. ASSUME NEW p \in I, p[1] = q[2] PROVE mem[q[2]] = q[2]
      <3>1. p[1] = p[2]
        BY <1>3, <2>2, Zenon DEF Independent
      <3> QED BY <1>3, <2>2, <3>1, Zenon DEF Done
    <2> QED BY <2>1, <2>2, Zenon
  <1>9. /\ mem' \in [Cells -> Cells] /\ mem'[q[1]] = q[2]
        /\ \A c \in Cells : c # q[1] => mem'[c] = mem[c]
    BY <1>3, <1>7, <1>8
  <1>10. ASSUME NEW p \in I, p[1] = q[1] PROVE mem'[p[1]] = p[2]
    BY <1>3, <1>9, <1>10, Zenon DEF Independent
  <1>11. ASSUME NEW p \in I, p[1] # q[1] PROVE mem'[p[1]] = mem[p[1]] /\ p # q
    BY <1>3, <1>9, <1>11
  <1>12. /\ DOMAIN todo' = DOMAIN todo /\ todo'[t] = Tail(s)
         /\ \A u \in DOMAIN todo : u # t => todo'[u] = todo[u]
    BY <1>1, <1>2
  <1>13. \A u \in DOMAIN todo' : todo'[u] \in Seq(I)
    BY <1>3, <1>5, <1>12, Zenon
  <1>14. ASSUME NEW p \in I PROVE Done(p)' \/ \E u \in DOMAIN todo' : p \in Range(todo'[u])
    <2>1. CASE p[1] = q[1]
      BY <1>10, <2>1, Zenon DEF Done
    <2>2. CASE p[1] # q[1] /\ Done(p)
      BY <1>11, <2>2, Zenon DEF Done
    <2>3. CASE p[1] # q[1] /\ \E u \in DOMAIN todo : p \in Range(todo[u])
      <3>1. PICK u \in DOMAIN todo : p \in Range(todo[u])
        BY <2>3
      <3>2. p # q
        BY <1>11, <2>3
      <3>3. p \in Range(todo'[u])
        BY <1>2, <1>5, <1>6, <1>12, <3>1, <3>2, Zenon
      <3> QED BY <1>12, <3>1, <3>3, Zenon
    <2> QED BY <1>3, <2>1, <2>2, <2>3, Zenon
  <1>15. ASSUME NEW p \in I PROVE Done(p)' \/ mem'[p[1]] = p[1]
    BY <1>3, <1>10, <1>11, Zenon DEF Done
  <1>16. ASSUME NEW c \in Cells, \A p \in I : p[1] # c PROVE mem'[c] = c
    BY <1>3, <1>9, <1>16, Zenon
  <1>17. launch.kernel # "none" \/ I = {}
    BY <1>2 DEF Intended
  <1>18. launch'.kernel # "none"
    BY <1>1, <1>6, <1>17
  <1> QED BY <1>3, <1>4, <1>9, <1>13, <1>14, <1>15, <1>16, <1>18, Zenon DEF KernelInv

-----------------------------------------------------------------------------
(* Addresses of elements. *)

LEMMA SameElement ==
    ASSUME NEW a \in Nat, NEW b \in Nat,
           NEW i \in 0 .. elems_per_block - 1, NEW j \in 0 .. elems_per_block - 1,
           a * elems_per_block + i = b * elems_per_block + j
    PROVE  a = b /\ i = j
  BY ElemsNat, Digits

LEMMA PoolRoom ==
    /\ value_base = num_blocks * elems_per_block
    /\ value_base \in Nat /\ pool_elems \in Nat
    /\ value_base + value_base <= pool_elems
  <1> USE LayoutConstants, PoolConstants
  <1>1. value_base = num_blocks * elems_per_block
    BY SMT DEF value_base, elems_per_block
  <1>2. PICK unit \in Nat : unit = num_blocks * (head_dim * n_kv_heads)
    <2>1. head_dim * n_kv_heads \in Nat
      BY SMT
    <2>2. num_blocks * (head_dim * n_kv_heads) \in Nat
      BY <2>1, SMT
    <2> QED BY <2>2
  <1>3. value_base = unit * block_size
    BY <1>2, SMT DEF value_base
  <1>4. pool_elems = 2 * ((unit * KV_BLOCK_SIZE) * n_layers)
    BY <1>2, SMT DEF pool_elems
  <1>5. unit * block_size <= unit * KV_BLOCK_SIZE
    BY SMT
  <1>6. unit * KV_BLOCK_SIZE <= (unit * KV_BLOCK_SIZE) * n_layers
    BY SMT
  <1>7. unit * block_size \in Nat /\ unit * KV_BLOCK_SIZE \in Nat
        /\ (unit * KV_BLOCK_SIZE) * n_layers \in Nat
    BY SMT
  <1> QED BY <1>1, <1>3, <1>4, <1>5, <1>6, <1>7

(* The cells of a block of the pool, and of one of the CPU cache. *)
LEMMA BlockCells ==
    ASSUME NEW i \in 0 .. elems_per_block - 1
    PROVE  /\ \A b \in 0 .. num_blocks - 1 :
                 /\ b * elems_per_block + i \in 0 .. value_base - 1
                 /\ KeyCell(b * elems_per_block + i) \in Cells
                 /\ ValueCell(b * elems_per_block + i) \in Cells
           /\ \A b \in 0 .. cpu_blocks - 1 : <<"cpu", b * elems_per_block + i>> \in Cells
  <1>1. ASSUME NEW n \in Nat, NEW b \in 0 .. n - 1
        PROVE  b * elems_per_block + i \in 0 .. n * elems_per_block - 1
    BY ElemsNat, DigitsBound
  <1>2. ASSUME NEW b \in 0 .. num_blocks - 1
        PROVE  /\ b * elems_per_block + i \in 0 .. value_base - 1
               /\ KeyCell(b * elems_per_block + i) \in Cells
               /\ ValueCell(b * elems_per_block + i) \in Cells
    <2>1. PICK a \in 0 .. value_base - 1 : a = b * elems_per_block + i
      BY <1>1, PoolRoom, PoolConstants
    <2>2. a \in 0 .. pool_elems - 1 /\ value_base + a \in 0 .. pool_elems - 1
      BY PoolRoom
    <2>3. KeyCell(a) \in Cells /\ ValueCell(a) \in Cells
      BY <2>2 DEF KeyCell, ValueCell, Cells
    <2> QED BY <2>1, <2>3
  <1>3. ASSUME NEW b \in 0 .. cpu_blocks - 1 PROVE <<"cpu", b * elems_per_block + i>> \in Cells
    <2>1. b * elems_per_block + i \in 0 .. cpu_blocks * elems_per_block - 1
      BY <1>1, KernelNats
    <2> QED BY <2>1 DEF Cells
  <1> QED BY <1>2, <1>3

LEMMA CellsDiffer ==
    ASSUME NEW a \in 0 .. value_base - 1, NEW b \in 0 .. value_base - 1
    PROVE  /\ KeyCell(a) = KeyCell(b) => a = b
           /\ ValueCell(a) = ValueCell(b) => a = b
           /\ KeyCell(a) # ValueCell(b) /\ ValueCell(b) # KeyCell(a)
  <1>1. value_base \in Nat
    BY PoolRoom
  <1>2. a # value_base + b /\ (value_base + a = value_base + b => a = b)
    BY <1>1
  <1> QED BY <1>2 DEF KeyCell, ValueCell

-----------------------------------------------------------------------------
(* copy_blocks and compact_kv_cache. *)

KeyMove(pair, i) ==
    <<KeyCell(pair[2] * elems_per_block + i), KeyCell(pair[1] * elems_per_block + i)>>

ValueMove(pair, i) ==
    <<ValueCell(pair[2] * elems_per_block + i), ValueCell(pair[1] * elems_per_block + i)>>

LEMMA CopyElementIs ==
    ASSUME NEW pair, NEW i
    PROVE  CopyElement(pair, i) = <<KeyMove(pair, i), ValueMove(pair, i)>>
  BY DEF CopyElement, KeyMove, ValueMove

(* What the caller asked for, element by element. *)
LEMMA MovesIntended ==
    ASSUME NEW m \in Mappings, NEW l, l.kernel \in {"copy", "compact"}, l.mapping = m
    PROVE  \A p : p \in Intended(l) <=>
              \E j \in DOMAIN m, i \in 0 .. elems_per_block - 1 :
                  p = KeyMove(m[j], i) \/ p = ValueMove(m[j], i)
  <1>1. Intended(l) =
            {<<KeyCell(At(pair[2], e)), KeyCell(At(pair[1], e))>> : pair \in Range(m), e \in BlockElements}
               \cup {<<ValueCell(At(pair[2], e)), ValueCell(At(pair[1], e))>> :
                        pair \in Range(m), e \in BlockElements}
    BY DEF Intended
  <1>2. \A j \in DOMAIN m : m[j] \in Range(m) /\ m[j][1] \in Nat /\ m[j][2] \in Nat
    <2>1. m \in Seq((0 .. num_blocks - 1) \X (0 .. num_blocks - 1))
      BY KernelConstants, Zenon
    <2>2. \A j \in DOMAIN m : m[j] \in (0 .. num_blocks - 1) \X (0 .. num_blocks - 1)
      BY <2>1
    <2> QED BY <2>2, PoolConstants DEF Range
  <1>3. ASSUME NEW p \in Intended(l)
        PROVE  \E j \in DOMAIN m, i \in 0 .. elems_per_block - 1 :
                  p = KeyMove(m[j], i) \/ p = ValueMove(m[j], i)
    <2>1. PICK pair \in Range(m), e \in BlockElements :
              \/ p = <<KeyCell(At(pair[2], e)), KeyCell(At(pair[1], e))>>
              \/ p = <<ValueCell(At(pair[2], e)), ValueCell(At(pair[1], e))>>
      BY <1>1, <1>3
    <2>2. PICK j \in DOMAIN m : pair = m[j]
      BY Zenon DEF Range
    <2>3. PICK i \in 0 .. elems_per_block - 1 : \A b \in Nat : At(b, e) = b * elems_per_block + i
      BY OffsetOfElement
    <2>4. At(pair[2], e) = pair[2] * elems_per_block + i /\ At(pair[1], e) = pair[1] * elems_per_block + i
      BY <1>2, <2>2, <2>3, Zenon
    <2> QED BY <2>1, <2>2, <2>4, Zenon DEF KeyMove, ValueMove
  <1>4. ASSUME NEW j \in DOMAIN m, NEW i \in 0 .. elems_per_block - 1
        PROVE  KeyMove(m[j], i) \in Intended(l) /\ ValueMove(m[j], i) \in Intended(l)
    <2>1. PICK e \in BlockElements : \A b \in Nat : At(b, e) = b * elems_per_block + i
      BY ElementOfOffset
    <2>2. PICK pair \in Range(m) : pair = m[j]
      BY <1>2
    <2>3. At(pair[2], e) = pair[2] * elems_per_block + i /\ At(pair[1], e) = pair[1] * elems_per_block + i
      BY <1>2, <2>1, <2>2, Zenon
    <2>4. /\ KeyMove(pair, i) = <<KeyCell(At(pair[2], e)), KeyCell(At(pair[1], e))>>
          /\ ValueMove(pair, i) = <<ValueCell(At(pair[2], e)), ValueCell(At(pair[1], e))>>
      BY <2>3, Zenon DEF KeyMove, ValueMove
    <2> QED BY <1>1, <2>2, <2>4
  <1> QED BY <1>3, <1>4, Zenon

LEMMA MovesSound ==
    ASSUME NEW m \in Mappings, Disjoint(m), NEW l, l.kernel \in {"copy", "compact"}, l.mapping = m
    PROVE  Intended(l) \subseteq Cells \X Cells /\ Independent(Intended(l))
  <1>0. \A p : p \in Intended(l) <=>
           \E j \in DOMAIN m, i \in 0 .. elems_per_block - 1 :
               p = KeyMove(m[j], i) \/ p = ValueMove(m[j], i)
    BY MovesIntended
  <1>1. ASSUME NEW j \in DOMAIN m
        PROVE  /\ m[j][1] \in 0 .. num_blocks - 1 /\ m[j][2] \in 0 .. num_blocks - 1
               /\ m[j][1] \in Nat /\ m[j][2] \in Nat
    <2>1. m \in Seq((0 .. num_blocks - 1) \X (0 .. num_blocks - 1))
      BY KernelConstants, Zenon
    <2>2. m[j] \in (0 .. num_blocks - 1) \X (0 .. num_blocks - 1)
      BY <2>1
    <2> QED BY <2>2, PoolConstants
  <1>2. ASSUME NEW j \in DOMAIN m, NEW i \in 0 .. elems_per_block - 1
        PROVE  KeyMove(m[j], i) \in Cells \X Cells /\ ValueMove(m[j], i) \in Cells \X Cells
    <2>1. /\ KeyCell(m[j][1] * elems_per_block + i) \in Cells /\ KeyCell(m[j][2] * elems_per_block + i) \in Cells
          /\ ValueCell(m[j][1] * elems_per_block + i) \in Cells /\ ValueCell(m[j][2] * elems_per_block + i) \in Cells
      BY <1>1, BlockCells, Zenon
    <2> QED BY <2>1 DEF KeyMove, ValueMove
  <1>3. Intended(l) \subseteq Cells \X Cells
    BY <1>0, <1>2
  (* Two elements at one address are one element of one pair's block. *)
  <1>4. ASSUME NEW j \in DOMAIN m, NEW k \in DOMAIN m, NEW s \in {1, 2},
               NEW i \in 0 .. elems_per_block - 1, NEW h \in 0 .. elems_per_block - 1,
               m[j][2] * elems_per_block + i = m[k][s] * elems_per_block + h
        PROVE  j = k /\ i = h /\ m[j][2] = m[j][s]
    <2>1. m[j][2] = m[k][s] /\ i = h
      BY <1>1, <1>4, SameElement
    <2>2. j = k
      BY <2>1 DEF Disjoint
    <2> QED BY <2>1, <2>2
  <1>5. ASSUME NEW p \in Intended(l), NEW q \in Intended(l)
        PROVE  (p[1] = q[1] => p[2] = q[2]) /\ (p[1] = q[2] => p[1] = p[2])
    <2>1. PICK j \in DOMAIN m, i \in 0 .. elems_per_block - 1 : p = KeyMove(m[j], i) \/ p = ValueMove(m[j], i)
      BY <1>0
    <2>2. PICK k \in DOMAIN m, h \in 0 .. elems_per_block - 1 : q = KeyMove(m[k], h) \/ q = ValueMove(m[k], h)
      BY <1>0
    <2>3. PICK pd \in 0 .. value_base - 1, ps \in 0 .. value_base - 1 :
              pd = m[j][2] * elems_per_block + i /\ ps = m[j][1] * elems_per_block + i
      BY <1>1, BlockCells, Zenon
    <2>4. PICK qd \in 0 .. value_base - 1, qs \in 0 .. value_base - 1 :
              qd = m[k][2] * elems_per_block + h /\ qs = m[k][1] * elems_per_block + h
      BY <1>1, BlockCells, Zenon
    <2>5. (pd = qd => ps = qs) /\ (pd = qs => pd = ps)
      <3>1. ASSUME pd = qd PROVE ps = qs
        BY <1>4, <2>3, <2>4, <3>1
      <3>2. ASSUME pd = qs PROVE pd = ps
        BY <1>4, <2>3, <2>4, <3>2
      <3> QED BY <3>1, <3>2
    <2>6. /\ p = <<KeyCell(pd), KeyCell(ps)>> \/ p = <<ValueCell(pd), ValueCell(ps)>>
          /\ q = <<KeyCell(qd), KeyCell(qs)>> \/ q = <<ValueCell(qd), ValueCell(qs)>>
      BY <2>1, <2>2, <2>3, <2>4, Zenon DEF KeyMove, ValueMove
    <2>7. /\ KeyCell(pd) = KeyCell(qd) => pd = qd
          /\ KeyCell(pd) = KeyCell(qs) => pd = qs
          /\ ValueCell(pd) = ValueCell(qd) => pd = qd
          /\ ValueCell(pd) = ValueCell(qs) => pd = qs
          /\ KeyCell(pd) # ValueCell(qd) /\ KeyCell(pd) # ValueCell(qs)
          /\ ValueCell(pd) # KeyCell(qd) /\ ValueCell(pd) # KeyCell(qs)
      BY CellsDiffer, Zenon
    <2> QED BY <2>5, <2>6, <2>7
  <1> QED BY <1>3, <1>5, Zenon DEF Independent

LEMMA PairElements ==
    ASSUME NEW I, NEW a \in I, NEW b \in I
    PROVE  <<a, b>> \in Seq(I) /\ a \in Range(<<a, b>>) /\ b \in Range(<<a, b>>)
  <1>1. <<a, b>> \in Seq(I) /\ 1 \in DOMAIN <<a, b>> /\ 2 \in DOMAIN <<a, b>>
    OBVIOUS
  <1>2. <<a, b>>[1] = a /\ <<a, b>>[2] = b
    OBVIOUS
  <1> QED BY <1>1, <1>2 DEF Range

LEMMA CopyCarries ==
    ASSUME NEW m \in Mappings, Disjoint(m)
    PROVE  Carries(copy_blocks(m), Intended([kernel |-> "copy", mapping |-> m]))
  <1>1. PICK l : l = [kernel |-> "copy", mapping |-> m]
    BY Zenon
  <1>2. l.kernel \in {"copy", "compact"} /\ l.mapping = m
    BY <1>1
  <1>3. PICK I : I = Intended(l)
    OBVIOUS
  <1>4. /\ I \subseteq Cells \X Cells /\ Independent(I)
        /\ \A p \in I : \E j \in DOMAIN m, i \in 0 .. elems_per_block - 1 :
              p = KeyMove(m[j], i) \/ p = ValueMove(m[j], i)
        /\ \A j \in DOMAIN m, i \in 0 .. elems_per_block - 1 :
              KeyMove(m[j], i) \in I /\ ValueMove(m[j], i) \in I
    BY <1>2, <1>3, MovesIntended, MovesSound
  <1>5. DOMAIN m = 1 .. Len(m)
    BY KernelConstants, LenProperties, Zenon
  <1>6. PICK prog : prog = copy_blocks(m)
    OBVIOUS
  <1>7. DOMAIN prog = (1 .. Len(m)) \X (0 .. blocks_y - 1) \X (0 .. threads - 1)
    BY <1>6 DEF copy_blocks
  <1>8. ASSUME NEW j \in 1 .. Len(m), NEW y \in 0 .. blocks_y - 1, NEW x \in 0 .. threads - 1
        PROVE  /\ <<j, y, x>> \in DOMAIN prog
               /\ prog[<<j, y, x>>] = IF x + y * threads < elems_per_block
                                      THEN CopyElement(m[j], x + y * threads) ELSE <<>>
    BY <1>6, <1>7 DEF copy_blocks
  <1>9. ASSUME NEW t \in DOMAIN prog PROVE prog[t] \in Seq(I)
    <2>1. PICK j \in 1 .. Len(m), y \in 0 .. blocks_y - 1, x \in 0 .. threads - 1 : t = <<j, y, x>>
      BY <1>7, <1>9
    <2>2. PICK i \in Nat : i = x + y * threads
      BY RowCovers
    <2>3. CASE ~(i < elems_per_block)
      <3>1. prog[t] = <<>>
        BY <1>8, <2>1, <2>2, <2>3, Zenon
      <3> QED BY <3>1
    <2>4. CASE i < elems_per_block
      <3>1. prog[t] = <<KeyMove(m[j], i), ValueMove(m[j], i)>>
        BY <1>8, <2>1, <2>2, <2>4, CopyElementIs, Zenon
      <3>2. i \in 0 .. elems_per_block - 1
        BY <2>4, ElemsNat
      <3>3. KeyMove(m[j], i) \in I /\ ValueMove(m[j], i) \in I
        BY <1>4, <1>5, <3>2, Zenon
      <3> QED BY <3>1, <3>3, PairElements
    <2> QED BY <2>3, <2>4
  <1>10. ASSUME NEW p \in I PROVE \E t \in DOMAIN prog : p \in Range(prog[t])
    <2>1. PICK j \in 1 .. Len(m), i \in 0 .. elems_per_block - 1 : p = KeyMove(m[j], i) \/ p = ValueMove(m[j], i)
      BY <1>4, <1>5, Zenon
    <2>2. blocks_y \in Nat /\ threads \in Nat /\ elems_per_block <= blocks_y * threads
      BY RowCovers, KernelConstants, Zenon
    <2>3. blocks_y * threads \in Nat
      BY <2>2, SMT
    <2>4. i \in 0 .. blocks_y * threads - 1
      BY <2>2, <2>3, ElemsNat
    <2>5. PICK y \in 0 .. blocks_y - 1, x \in 0 .. threads - 1 : i = x + y * threads
      BY <2>4, RowCovers, Zenon
    <2>6. i < elems_per_block
      BY ElemsNat
    <2>7. prog[<<j, y, x>>] = <<KeyMove(m[j], i), ValueMove(m[j], i)>> /\ <<j, y, x>> \in DOMAIN prog
      BY <1>8, <2>5, <2>6, CopyElementIs, Zenon
    <2>8. KeyMove(m[j], i) \in I /\ ValueMove(m[j], i) \in I
      BY <1>4, <1>5, Zenon
    <2> QED BY <2>1, <2>7, <2>8, PairElements, Zenon
  <1> QED BY <1>1, <1>3, <1>4, <1>6, <1>9, <1>10, Zenon DEF Carries

(* The two copies per iteration of compact_kv_cache's loop. *)
LEMMA TwoPerIndex ==
    ASSUME NEW n \in Nat
    PROVE  /\ \A k \in 1 .. 2 * n : (k + 1) \div 2 \in 1 .. n /\ 2 - (k % 2) \in {1, 2}
           /\ \A k \in 1 .. n : /\ 2 * k - 1 \in 1 .. 2 * n /\ 2 * k \in 1 .. 2 * n
                                /\ ((2 * k - 1) + 1) \div 2 = k /\ 2 - ((2 * k - 1) % 2) = 1
                                /\ (2 * k + 1) \div 2 = k /\ 2 - ((2 * k) % 2) = 2
  BY SMT

LEMMA CompactCarries ==
    ASSUME NEW m \in Mappings, Disjoint(m)
    PROVE  Carries(compact_kv_cache(m), Intended([kernel |-> "compact", mapping |-> m]))
  <1>1. PICK l : l = [kernel |-> "compact", mapping |-> m]
    BY Zenon
  <1>2. l.kernel \in {"copy", "compact"} /\ l.mapping = m
    BY <1>1
  <1>3. PICK I : I = Intended(l)
    OBVIOUS
  <1>4. /\ I \subseteq Cells \X Cells /\ Independent(I)
        /\ \A p \in I : \E j \in DOMAIN m, i \in 0 .. elems_per_block - 1 :
              p = KeyMove(m[j], i) \/ p = ValueMove(m[j], i)
        /\ \A j \in DOMAIN m, i \in 0 .. elems_per_block - 1 :
              KeyMove(m[j], i) \in I /\ ValueMove(m[j], i) \in I
    BY <1>2, <1>3, MovesIntended, MovesSound
  <1>5. DOMAIN m = 1 .. Len(m)
    BY KernelConstants, LenProperties, Zenon
  <1>6. PICK prog : prog = compact_kv_cache(m)
    OBVIOUS
  <1>7. DOMAIN prog = (1 .. Len(m)) \X (0 .. blocks_y - 1) \X (0 .. threads - 1)
    BY <1>6 DEF compact_kv_cache
  <1>8. PICK step \in Nat \ {0} : step = threads * blocks_y /\ step = blocks_y * threads
    <2>1. blocks_y \in Nat /\ threads \in Nat /\ elems_per_block <= blocks_y * threads
      BY RowCovers, KernelConstants, Zenon
    <2>2. blocks_y * threads \in Nat /\ threads * blocks_y = blocks_y * threads
      BY <2>1, SMT
    <2>3. blocks_y * threads # 0
      BY <2>1, <2>2, ElemsNat
    <2> QED BY <2>2, <2>3
  <1> DEFINE is(y, x) == Strided(x + y * threads, step)
  <1>9. ASSUME NEW j \in 1 .. Len(m), NEW y \in 0 .. blocks_y - 1, NEW x \in 0 .. threads - 1
        PROVE  /\ <<j, y, x>> \in DOMAIN prog
               /\ m[j][1] = m[j][2] => prog[<<j, y, x>>] = <<>>
               /\ m[j][1] # m[j][2] =>
                     prog[<<j, y, x>>] = [k \in 1 .. 2 * Len(is(y, x)) |->
                         <<KeyMove(m[j], is(y, x)[(k + 1) \div 2]),
                           ValueMove(m[j], is(y, x)[(k + 1) \div 2])>>[2 - (k % 2)]]
    <2>1. <<j, y, x>> \in DOMAIN prog
      BY <1>7
    <2>2. prog[<<j, y, x>>] =
              IF m[j][1] = m[j][2] THEN <<>>
              ELSE [k \in 1 .. 2 * Len(is(y, x)) |->
                       CopyElement(m[j], is(y, x)[(k + 1) \div 2])[2 - (k % 2)]]
      BY <1>6, <1>8, <2>1, <1>7, Zenon DEF compact_kv_cache
    <2> HIDE DEF is
    <2>3. [k \in 1 .. 2 * Len(is(y, x)) |-> CopyElement(m[j], is(y, x)[(k + 1) \div 2])[2 - (k % 2)]]
            = [k \in 1 .. 2 * Len(is(y, x)) |->
                  <<KeyMove(m[j], is(y, x)[(k + 1) \div 2]),
                    ValueMove(m[j], is(y, x)[(k + 1) \div 2])>>[2 - (k % 2)]]
      BY CopyElementIs, Zenon
    <2> QED BY <2>1, <2>2, <2>3, Zenon
  <1>10. ASSUME NEW y \in 0 .. blocks_y - 1, NEW x \in 0 .. threads - 1
         PROVE  /\ is(y, x) \in Seq(0 .. elems_per_block - 1)
                /\ \A i \in 0 .. elems_per_block - 1 :
                      i % step = x + y * threads => i \in Range(is(y, x))
    <2>1. x + y * threads \in 0 .. step - 1
      BY <1>8, RowCovers, Zenon
    <2> QED BY <2>1, StridedElements, Zenon
  <1> HIDE DEF is
  <1>11. ASSUME NEW t \in DOMAIN prog PROVE prog[t] \in Seq(I)
    <2>1. PICK j \in 1 .. Len(m), y \in 0 .. blocks_y - 1, x \in 0 .. threads - 1 : t = <<j, y, x>>
      BY <1>7, <1>11
    <2>2. CASE m[j][1] = m[j][2]
      <3>1. prog[t] = <<>>
        BY <1>9, <2>1, <2>2, Zenon
      <3> QED BY <3>1
    <2>3. CASE m[j][1] # m[j][2]
      <3>1. PICK s \in Seq(0 .. elems_per_block - 1) : s = is(y, x)
        BY <1>10
      <3>2. PICK n \in Nat : n = Len(s) /\ DOMAIN s = 1 .. n
        BY <3>1
      <3>3. prog[t] = [k \in 1 .. 2 * n |->
                          <<KeyMove(m[j], s[(k + 1) \div 2]), ValueMove(m[j], s[(k + 1) \div 2])>>[2 - (k % 2)]]
        <4>1. prog[<<j, y, x>>] = [k \in 1 .. 2 * Len(is(y, x)) |->
                         <<KeyMove(m[j], is(y, x)[(k + 1) \div 2]),
                           ValueMove(m[j], is(y, x)[(k + 1) \div 2])>>[2 - (k % 2)]]
          BY <1>9, <2>3, Zenon
        <4> QED BY <2>1, <3>1, <3>2, <4>1
      <3>4. ASSUME NEW k \in 1 .. 2 * n
            PROVE  <<KeyMove(m[j], s[(k + 1) \div 2]), ValueMove(m[j], s[(k + 1) \div 2])>>[2 - (k % 2)] \in I
        <4>1. (k + 1) \div 2 \in 1 .. n /\ 2 - (k % 2) \in {1, 2}
          BY TwoPerIndex, Zenon
        <4>2. s[(k + 1) \div 2] \in 0 .. elems_per_block - 1
          BY <3>1, <3>2, <4>1, ElementOfSeq, Zenon
        <4>3. PICK u, v \in I : u = KeyMove(m[j], s[(k + 1) \div 2]) /\ v = ValueMove(m[j], s[(k + 1) \div 2])
          BY <1>4, <1>5, <4>2, Zenon
        <4>4. \A w \in {1, 2} : <<u, v>>[w] \in I
          OBVIOUS
        <4> QED BY <4>1, <4>3, <4>4, Zenon
      <3>5. PICK N \in Nat : N = 2 * n
        BY <3>2
      <3>6. prog[t] \in [1 .. N -> I]
        BY <3>3, <3>4, <3>5, Zenon
      <3>7. Seq(I) = UNION {[1 .. k -> I] : k \in Nat}
        BY SeqDef, Zenon
      <3> QED BY <3>5, <3>6, <3>7, Zenon
    <2> QED BY <2>2, <2>3
  <1>12. ASSUME NEW p \in I PROVE p[1] = p[2] \/ \E t \in DOMAIN prog : p \in Range(prog[t])
    <2>1. PICK j \in 1 .. Len(m), i \in 0 .. elems_per_block - 1 : p = KeyMove(m[j], i) \/ p = ValueMove(m[j], i)
      BY <1>4, <1>5, Zenon
    <2>2. CASE m[j][1] = m[j][2]
      BY <2>1, <2>2 DEF KeyMove, ValueMove
    <2>3. CASE m[j][1] # m[j][2]
      <3>1. i \in Nat
        BY ElemsNat
      <3>2. i % step \in 0 .. blocks_y * threads - 1
        BY <1>8, <3>1, Quotient, Zenon
      <3>3. PICK y \in 0 .. blocks_y - 1, x \in 0 .. threads - 1 : i % step = x + y * threads
        BY <3>2, RowCovers, Zenon
      <3>4. PICK s \in Seq(0 .. elems_per_block - 1) : s = is(y, x) /\ i \in Range(s)
        BY <1>10, <3>3, Zenon
      <3>5. PICK n \in Nat : n = Len(s) /\ DOMAIN s = 1 .. n
        BY <3>4
      <3>6. PICK k \in 1 .. n : s[k] = i
        BY <3>4, <3>5 DEF Range
      <3>7. PICK f : f = prog[<<j, y, x>>]
        OBVIOUS
      <3>8. f = [h \in 1 .. 2 * n |->
                    <<KeyMove(m[j], s[(h + 1) \div 2]), ValueMove(m[j], s[(h + 1) \div 2])>>[2 - (h % 2)]]
        <4>1. prog[<<j, y, x>>] = [h \in 1 .. 2 * Len(is(y, x)) |->
                         <<KeyMove(m[j], is(y, x)[(h + 1) \div 2]),
                           ValueMove(m[j], is(y, x)[(h + 1) \div 2])>>[2 - (h % 2)]]
          BY <1>9, <2>3, Zenon
        <4> QED BY <3>4, <3>5, <3>7, <4>1
      <3>9. /\ 2 * k - 1 \in 1 .. 2 * n /\ 2 * k \in 1 .. 2 * n
            /\ ((2 * k - 1) + 1) \div 2 = k /\ 2 - ((2 * k - 1) % 2) = 1
            /\ (2 * k + 1) \div 2 = k /\ 2 - ((2 * k) % 2) = 2
        BY TwoPerIndex, Zenon
      <3>10. DOMAIN f = 1 .. 2 * n
        BY <3>8, Zenon
      <3>11. f[2 * k - 1] = <<KeyMove(m[j], i), ValueMove(m[j], i)>>[1]
        BY <3>6, <3>8, <3>9, Zenon
      <3>12. f[2 * k] = <<KeyMove(m[j], i), ValueMove(m[j], i)>>[2]
        BY <3>6, <3>8, <3>9, Zenon
      <3>13. \A u, v : <<u, v>>[1] = u /\ <<u, v>>[2] = v
        OBVIOUS
      <3>14. p \in Range(f)
        BY <2>1, <3>9, <3>10, <3>11, <3>12, <3>13, Zenon DEF Range
      <3> QED BY <1>9, <3>7, <3>14, Zenon
    <2> QED BY <2>2, <2>3
  <1> QED BY <1>1, <1>3, <1>4, <1>6, <1>11, <1>12, Zenon DEF Carries

-----------------------------------------------------------------------------
(* swap_blocks and memset_blocks: one row of threads per block. *)

(* The program whose thread <<j, x>> makes the copies F[<<j, i>>] for the  *)
(* elements i that thread x of the row walks through.                      *)
Row(n, F) ==
    [t \in (1 .. n) \X (0 .. threads - 1) |->
        [k \in DOMAIN Strided(t[2], threads) |-> F[<<t[1], Strided(t[2], threads)[k]>>]]]

LEMMA RowProgram ==
    ASSUME NEW n \in Nat, NEW I, NEW F \in [(1 .. n) \X (0 .. elems_per_block - 1) -> I],
           NEW prog, prog = Row(n, F)
    PROVE  /\ \A t \in DOMAIN prog : prog[t] \in Seq(I)
           /\ \A j \in 1 .. n, i \in 0 .. elems_per_block - 1 :
                 \E t \in DOMAIN prog : F[<<j, i>>] \in Range(prog[t])
  <1>1. threads \in Nat \ {0}
    BY KernelNats, Zenon
  <1>2. ASSUME NEW j \in 1 .. n, NEW x \in 0 .. threads - 1
        PROVE  /\ <<j, x>> \in DOMAIN prog
               /\ prog[<<j, x>>] = [k \in DOMAIN Strided(x, threads) |-> F[<<j, Strided(x, threads)[k]>>]]
    BY Zenon DEF Row
  <1>3. ASSUME NEW t \in DOMAIN prog PROVE prog[t] \in Seq(I)
    <2>1. PICK j \in 1 .. n, x \in 0 .. threads - 1 : t = <<j, x>>
      BY DEF Row
    <2>2. PICK s \in Seq(0 .. elems_per_block - 1) : s = Strided(x, threads)
      BY <1>1, StridedElements, Zenon
    <2>3. PICK N \in Nat : DOMAIN s = 1 .. N /\ N = Len(s)
      BY <2>2
    <2>4. prog[t] = [k \in 1 .. N |-> F[<<j, s[k]>>]]
      BY <1>2, <2>1, <2>2, <2>3
    <2>5. ASSUME NEW k \in 1 .. N PROVE F[<<j, s[k]>>] \in I
      <3>1. s[k] \in 0 .. elems_per_block - 1
        BY <2>2, <2>3, ElementOfSeq, Zenon
      <3> QED BY <3>1
    <2>6. prog[t] \in [1 .. N -> I]
      BY <2>4, <2>5, Zenon
    <2>7. Seq(I) = UNION {[1 .. k -> I] : k \in Nat}
      BY SeqDef, Zenon
    <2> QED BY <2>6, <2>7, Zenon
  <1>4. ASSUME NEW j \in 1 .. n, NEW i \in 0 .. elems_per_block - 1
        PROVE  \E t \in DOMAIN prog : F[<<j, i>>] \in Range(prog[t])
    <2>1. i \in Nat
      BY ElemsNat
    <2>2. PICK x \in 0 .. threads - 1 : x = i % threads
      BY <1>1, <2>1, Quotient, Zenon
    <2>3. PICK k \in DOMAIN Strided(x, threads) : Strided(x, threads)[k] = i
      <3>1. \A f, v : v \in Range(f) => \E k \in DOMAIN f : f[k] = v
        BY Zenon DEF Range
      <3>2. i \in Range(Strided(x, threads))
        BY <1>1, <2>2, StridedElements
      <3> QED BY <3>1, <3>2, Zenon
    <2>4. F[<<j, i>>] \in Range(prog[<<j, x>>])
      <3>1. PICK f : f = prog[<<j, x>>]
        OBVIOUS
      <3>2. f = [h \in DOMAIN Strided(x, threads) |-> F[<<j, Strided(x, threads)[h]>>]]
        BY <1>2, <3>1, Zenon
      <3>3. k \in DOMAIN f /\ f[k] = F[<<j, i>>]
        BY <2>3, <3>2, Zenon
      <3> QED BY <3>1, <3>3, Zenon DEF Range
    <2> QED BY <1>2, <2>4, Zenon
  <1> QED BY <1>3, <1>4, Zenon

(* The blocks a mapping names. *)
LEMMA MappingBlocks ==
    ASSUME NEW m \in Mappings
    PROVE  /\ Len(m) \in Nat /\ DOMAIN m = 1 .. Len(m)
           /\ \A j \in 1 .. Len(m) : /\ m[j][1] \in 0 .. num_blocks - 1 /\ m[j][2] \in 0 .. num_blocks - 1
                                     /\ m[j][1] \in Nat /\ m[j][2] \in Nat /\ m[j] \in Range(m)
  <1>1. m \in Seq((0 .. num_blocks - 1) \X (0 .. num_blocks - 1))
    BY KernelConstants, Zenon
  <1>2. \A j \in DOMAIN m : m[j] \in (0 .. num_blocks - 1) \X (0 .. num_blocks - 1)
    BY <1>1
  <1> QED BY <1>1, <1>2, PoolConstants DEF Range

(* Element i of the j-th block that swap_blocks moves. *)
SwapMove(dst, src, pair, i) ==
    <<<<dst, pair[2] * elems_per_block + i>>, <<src, pair[1] * elems_per_block + i>>>>

LEMMA SwapCarries ==
    ASSUME NEW m \in Mappings, NEW dst \in {"gpu", "cpu"}, NEW src,
           src = IF dst = "gpu" THEN "cpu" ELSE "gpu",
           \A j \in DOMAIN m : m[j][IF dst = "cpu" THEN 2 ELSE 1] < cpu_blocks,
           \A j, k \in DOMAIN m : j # k => m[j][2] # m[k][2]
    PROVE  Carries(swap_blocks(src, dst, m),
                   Intended([kernel |-> "swap", mapping |-> m, src |-> src, dst |-> dst]))
  <1>1. PICK I : I = Intended([kernel |-> "swap", mapping |-> m, src |-> src, dst |-> dst])
    OBVIOUS
  <1>2. I = {<<<<dst, At(pair[2], e)>>, <<src, At(pair[1], e)>>>> : pair \in Range(m), e \in BlockElements}
    BY <1>1 DEF Intended
  <1>3. PICK n \in Nat : n = Len(m) /\ DOMAIN m = 1 .. n
    BY MappingBlocks
  <1>4. \A j \in 1 .. n : /\ m[j][1] \in 0 .. num_blocks - 1 /\ m[j][2] \in 0 .. num_blocks - 1
                          /\ m[j][1] \in Nat /\ m[j][2] \in Nat /\ m[j] \in Range(m)
    BY <1>3, MappingBlocks, Zenon
  <1>5. ASSUME NEW p \in I
        PROVE  \E j \in 1 .. n, i \in 0 .. elems_per_block - 1 : p = SwapMove(dst, src, m[j], i)
    <2>1. PICK pair \in Range(m), e \in BlockElements :
              p = <<<<dst, At(pair[2], e)>>, <<src, At(pair[1], e)>>>>
      BY <1>2, <1>5
    <2>2. PICK j \in 1 .. n : pair = m[j]
      BY <1>3, Zenon DEF Range
    <2>3. PICK i \in 0 .. elems_per_block - 1 : \A b \in Nat : At(b, e) = b * elems_per_block + i
      BY OffsetOfElement
    <2>4. At(pair[2], e) = pair[2] * elems_per_block + i /\ At(pair[1], e) = pair[1] * elems_per_block + i
      BY <1>4, <2>2, <2>3, Zenon
    <2> QED BY <2>1, <2>2, <2>4, Zenon DEF SwapMove
  <1>6. ASSUME NEW j \in 1 .. n, NEW i \in 0 .. elems_per_block - 1
        PROVE  SwapMove(dst, src, m[j], i) \in I
    <2>1. PICK e \in BlockElements : \A b \in Nat : At(b, e) = b * elems_per_block + i
      BY ElementOfOffset
    <2>2. PICK pair \in Range(m) : pair = m[j]
      BY <1>4
    <2>3. At(pair[2], e) = pair[2] * elems_per_block + i /\ At(pair[1], e) = pair[1] * elems_per_block + i
      BY <1>4, <2>1, <2>2, Zenon
    <2>4. SwapMove(dst, src, pair, i) = <<<<dst, At(pair[2], e)>>, <<src, At(pair[1], e)>>>>
      BY <2>3, Zenon DEF SwapMove
    <2> QED BY <1>2, <2>2, <2>4
  <1>7. ASSUME NEW j \in 1 .. n, NEW i \in 0 .. elems_per_block - 1
        PROVE  SwapMove(dst, src, m[j], i) \in Cells \X Cells
    <2>1. \A b \in 0 .. num_blocks - 1 : <<"gpu", b * elems_per_block + i>> \in Cells
      BY BlockCells, Zenon DEF KeyCell
    <2>2. \A b \in 0 .. cpu_blocks - 1 : <<"cpu", b * elems_per_block + i>> \in Cells
      BY BlockCells, Zenon
    <2>3. CASE dst = "gpu"
      <3>1. m[j][1] \in 0 .. cpu_blocks - 1 /\ src = "cpu"
        BY <1>3, <1>4, <2>3, KernelNats
      <3> QED BY <1>4, <2>1, <2>2, <2>3, <3>1 DEF SwapMove
    <2>4. CASE dst = "cpu"
      <3>1. m[j][2] \in 0 .. cpu_blocks - 1 /\ src = "gpu"
        BY <1>3, <1>4, <2>4, KernelNats
      <3> QED BY <1>4, <2>1, <2>2, <2>4, <3>1 DEF SwapMove
    <2> QED BY <2>3, <2>4
  <1>8. I \subseteq Cells \X Cells
    BY <1>5, <1>7
  <1>9. ASSUME NEW p \in I, NEW q \in I
        PROVE  (p[1] = q[1] => p[2] = q[2]) /\ (p[1] = q[2] => p[1] = p[2])
    <2>1. PICK j \in 1 .. n, i \in 0 .. elems_per_block - 1 : p = SwapMove(dst, src, m[j], i)
      BY <1>5
    <2>2. PICK k \in 1 .. n, h \in 0 .. elems_per_block - 1 : q = SwapMove(dst, src, m[k], h)
      BY <1>5
    <2>3. dst # src
      OBVIOUS
    <2>4. ASSUME m[j][2] * elems_per_block + i = m[k][2] * elems_per_block + h PROVE j = k /\ i = h
      <3>1. m[j][2] = m[k][2] /\ i = h
        BY <1>4, <2>4, SameElement
      <3> QED BY <1>3, <3>1, Zenon
    <2> QED BY <2>1, <2>2, <2>3, <2>4 DEF SwapMove
  <1>10. Independent(I)
    BY <1>9, Zenon DEF Independent
  <1>11. PICK F : F = [z \in (1 .. n) \X (0 .. elems_per_block - 1) |-> SwapMove(dst, src, m[z[1]], z[2])]
    BY Zenon
  <1>12. /\ F \in [(1 .. n) \X (0 .. elems_per_block - 1) -> I]
         /\ \A j \in 1 .. n, i \in 0 .. elems_per_block - 1 : F[<<j, i>>] = SwapMove(dst, src, m[j], i)
    BY <1>6, <1>11
  <1>13. PICK prog : prog = swap_blocks(src, dst, m)
    OBVIOUS
  <1>14. prog = Row(n, F)
    <2>1. prog = [t \in (1 .. n) \X (0 .. threads - 1) |->
                    [k \in DOMAIN Strided(t[2], threads) |->
                        SwapMove(dst, src, m[t[1]], Strided(t[2], threads)[k])]]
      BY <1>3, <1>13 DEF swap_blocks, SwapMove
    <2>2. ASSUME NEW t \in (1 .. n) \X (0 .. threads - 1), NEW k \in DOMAIN Strided(t[2], threads)
          PROVE  F[<<t[1], Strided(t[2], threads)[k]>>] = SwapMove(dst, src, m[t[1]], Strided(t[2], threads)[k])
      <3>1. t[1] \in 1 .. n /\ t[2] \in 0 .. threads - 1
        OBVIOUS
      <3>2. Strided(t[2], threads) \in Seq(0 .. elems_per_block - 1)
        BY <3>1, KernelConstants, StridedElements, Zenon
      <3>3. Strided(t[2], threads)[k] \in 0 .. elems_per_block - 1
        BY <2>2, <3>2, ElementOfSeq, LenProperties, Zenon
      <3> QED BY <1>12, <3>1, <3>3, Zenon
    <2> QED BY <2>1, <2>2, Zenon DEF Row
  <1>15. /\ \A t \in DOMAIN prog : prog[t] \in Seq(I)
         /\ \A j \in 1 .. n, i \in 0 .. elems_per_block - 1 :
               \E t \in DOMAIN prog : F[<<j, i>>] \in Range(prog[t])
    BY <1>12, <1>14, RowProgram, Zenon
  <1>16. ASSUME NEW p \in I PROVE \E t \in DOMAIN prog : p \in Range(prog[t])
    <2>1. PICK j \in 1 .. n, i \in 0 .. elems_per_block - 1 : p = SwapMove(dst, src, m[j], i)
      BY <1>5, <1>16
    <2>2. p = F[<<j, i>>]
      BY <1>12, <2>1, Zenon
    <2> QED BY <1>15, <2>2, Zenon
  <1> QED BY <1>1, <1>8, <1>10, <1>13, <1>15, <1>16, Zenon DEF Carries

(* Element i of a block that memset_blocks clears. *)
Zeroed(b, i) == <<KeyCell(b * elems_per_block + i), <<"zero", 0>>>>

LEMMA MemsetCarries ==
    ASSUME NEW m \in Mappings, NEW ids, ids = [j \in DOMAIN m |-> m[j][1]]
    PROVE  Carries(memset_blocks(ids), Intended([kernel |-> "memset", ids |-> ids]))
  <1>1. PICK I : I = Intended([kernel |-> "memset", ids |-> ids])
    OBVIOUS
  <1>2. I = {<<KeyCell(At(b, e)), <<"zero", 0>>>> : b \in Range(ids), e \in BlockElements}
    BY <1>1 DEF Intended
  <1>3. PICK n \in Nat : n = Len(m) /\ DOMAIN m = 1 .. n
    BY MappingBlocks
  <1>4. DOMAIN ids = 1 .. n /\ \A j \in 1 .. n : ids[j] \in 0 .. num_blocks - 1 /\ ids[j] \in Nat
    <2>1. \A j \in 1 .. n : m[j][1] \in 0 .. num_blocks - 1 /\ m[j][1] \in Nat
      BY <1>3, MappingBlocks, Zenon
    <2> QED BY <1>3, <2>1
  <1>5. Len(ids) = n
    BY <1>3, <1>4
  <1>6. ASSUME NEW p \in I
        PROVE  \E j \in 1 .. n, i \in 0 .. elems_per_block - 1 : p = Zeroed(ids[j], i)
    <2>1. PICK b \in Range(ids), e \in BlockElements : p = <<KeyCell(At(b, e)), <<"zero", 0>>>>
      BY <1>2, <1>6
    <2>2. PICK j \in 1 .. n : b = ids[j]
      BY <1>4, Zenon DEF Range
    <2>3. PICK i \in 0 .. elems_per_block - 1 : \A c \in Nat : At(c, e) = c * elems_per_block + i
      BY OffsetOfElement
    <2>4. At(b, e) = b * elems_per_block + i
      BY <1>4, <2>2, <2>3, Zenon
    <2> QED BY <2>1, <2>2, <2>4, Zenon DEF Zeroed
  <1>7. ASSUME NEW j \in 1 .. n, NEW i \in 0 .. elems_per_block - 1
        PROVE  Zeroed(ids[j], i) \in I
    <2>1. PICK e \in BlockElements : \A b \in Nat : At(b, e) = b * elems_per_block + i
      BY ElementOfOffset
    <2>2. PICK b \in Range(ids) : b = ids[j]
      BY <1>4, Zenon DEF Range
    <2>3. At(b, e) = b * elems_per_block + i
      BY <1>4, <2>1, <2>2, Zenon
    <2>4. Zeroed(b, i) = <<KeyCell(At(b, e)), <<"zero", 0>>>>
      BY <2>3, Zenon DEF Zeroed
    <2> QED BY <1>2, <2>2, <2>4
  <1>8. I \subseteq Cells \X Cells
    <2>1. <<"zero", 0>> \in Cells
      BY DEF Cells
    <2>2. ASSUME NEW j \in 1 .. n, NEW i \in 0 .. elems_per_block - 1
          PROVE  KeyCell(ids[j] * elems_per_block + i) \in Cells
      BY <1>4, BlockCells, Zenon
    <2> QED BY <1>6, <2>1, <2>2 DEF Zeroed
  <1>9. Independent(I)
    <2>1. \A a : KeyCell(a) # <<"zero", 0>>
      BY DEF KeyCell
    <2>2. \A p \in I : p[2] = <<"zero", 0>> /\ p[1] # <<"zero", 0>>
      BY <1>2, <2>1
    <2> QED BY <2>2, Zenon DEF Independent
  <1>10. PICK F : F = [z \in (1 .. n) \X (0 .. elems_per_block - 1) |-> Zeroed(ids[z[1]], z[2])]
    BY Zenon
  <1>11. /\ F \in [(1 .. n) \X (0 .. elems_per_block - 1) -> I]
         /\ \A j \in 1 .. n, i \in 0 .. elems_per_block - 1 : F[<<j, i>>] = Zeroed(ids[j], i)
    BY <1>7, <1>10
  <1>12. PICK prog : prog = memset_blocks(ids)
    OBVIOUS
  <1>13. prog = Row(n, F)
    <2>1. prog = [t \in (1 .. n) \X (0 .. threads - 1) |->
                    [k \in DOMAIN Strided(t[2], threads) |-> Zeroed(ids[t[1]], Strided(t[2], threads)[k])]]
      BY <1>5, <1>12 DEF memset_blocks, Zeroed
    <2>2. ASSUME NEW t \in (1 .. n) \X (0 .. threads - 1), NEW k \in DOMAIN Strided(t[2], threads)
          PROVE  F[<<t[1], Strided(t[2], threads)[k]>>] = Zeroed(ids[t[1]], Strided(t[2], threads)[k])
      <3>1. t[1] \in 1 .. n /\ t[2] \in 0 .. threads - 1
        OBVIOUS
      <3>2. Strided(t[2], threads) \in Seq(0 .. elems_per_block - 1)
        BY <3>1, KernelConstants, StridedElements, Zenon
      <3>3. Strided(t[2], threads)[k] \in 0 .. elems_per_block - 1
        BY <2>2, <3>2, ElementOfSeq, LenProperties, Zenon
      <3> QED BY <1>11, <3>1, <3>3, Zenon
    <2>3. \A t \in (1 .. n) \X (0 .. threads - 1) :
              [k \in DOMAIN Strided(t[2], threads) |-> F[<<t[1], Strided(t[2], threads)[k]>>]]
                = [k \in DOMAIN Strided(t[2], threads) |-> Zeroed(ids[t[1]], Strided(t[2], threads)[k])]
      BY <2>2, Zenon
    <2> QED BY <2>1, <2>3, Zenon DEF Row
  <1>14. /\ \A t \in DOMAIN prog : prog[t] \in Seq(I)
         /\ \A j \in 1 .. n, i \in 0 .. elems_per_block - 1 :
               \E t \in DOMAIN prog : F[<<j, i>>] \in Range(prog[t])
    BY <1>11, <1>13, RowProgram, Zenon
  <1>15. ASSUME NEW p \in I PROVE \E t \in DOMAIN prog : p \in Range(prog[t])
    <2>1. PICK j \in 1 .. n, i \in 0 .. elems_per_block - 1 : p = Zeroed(ids[j], i)
      BY <1>6, <1>15
    <2>2. p = F[<<j, i>>]
      BY <1>11, <2>1, Zenon
    <2> QED BY <1>14, <2>2, Zenon
  <1> QED BY <1>1, <1>8, <1>9, <1>12, <1>14, <1>15, Zenon DEF Carries

-----------------------------------------------------------------------------
(* reshape_and_cache. *)

(* The n tokens from an offset in the b-th block on. *)
Positions(b, offset, n) == [i \in 1 .. n |-> b * block_size + offset + i - 1]

(* Token i sits in a block of its table. *)
Placed(table, positions, i) ==
    /\ positions[i] \in Nat
    /\ positions[i] \div block_size \in DOMAIN table
    /\ table[positions[i] \div block_size] \in 0 .. num_blocks - 1
    /\ positions[i] % block_size \in 0 .. block_size - 1

(* The tokens of a launch sit in blocks of their table. *)
LEMMA PositionsInTable ==
    ASSUME NEW table \in Tables, NEW b \in DOMAIN table, NEW offset \in 0 .. block_size - 1,
           NEW n \in 1 .. MaxTokens, NEW positions, positions = Positions(b, offset, n),
           positions[n] \div block_size \in DOMAIN table
    PROVE  /\ DOMAIN positions = 1 .. n /\ positions \in Seq(Nat)
           /\ \A i \in 1 .. n : Placed(table, positions, i)
           /\ \A i, j \in 1 .. n : positions[i] = positions[j] => i = j
  <1> USE LayoutConstants
  <1>1. table \in [DOMAIN table -> 0 .. num_blocks - 1]
        /\ \A i \in DOMAIN table : i \in Nat /\ 0 .. i \subseteq DOMAIN table
    BY KernelConstants, Zenon
  <1>2. PICK start \in Nat : start = b * block_size + offset
    <2>1. b \in Nat /\ offset \in Nat
      BY <1>1
    <2>2. b * block_size \in Nat
      BY <2>1, SMT
    <2> QED BY <2>1, <2>2
  <1>3. n \in Nat /\ \A i \in 1 .. n : positions[i] = start + i - 1 /\ positions[i] \in Nat /\ positions[i] <= positions[n]
    <2>1. n \in Nat
      BY KernelNats
    <2>2. \A i \in 1 .. n : positions[i] = start + i - 1
      BY <1>2 DEF Positions
    <2>3. n \in 1 .. n /\ positions[n] = start + n - 1
      BY <2>1, <2>2
    <2>4. \A i \in 1 .. n : start + i - 1 \in Nat /\ start + i - 1 <= start + n - 1
      BY <2>1
    <2> QED BY <2>1, <2>2, <2>3, <2>4, Zenon
  <1>0. DOMAIN positions = 1 .. n /\ positions \in Seq(Nat)
    <2>1. DOMAIN positions = 1 .. n /\ positions = [i \in 1 .. n |-> positions[i]]
      BY DEF Positions
    <2>2. positions \in [1 .. n -> Nat]
      BY <1>3, <2>1, Zenon
    <2>3. Seq(Nat) = UNION {[1 .. k -> Nat] : k \in Nat}
      BY SeqDef, Zenon
    <2> QED BY <1>3, <2>1, <2>2, <2>3, Zenon
  <1>12. \A i, j \in 1 .. n : positions[i] = positions[j] => i = j
    BY <1>2, <1>3
  <1> SUFFICES ASSUME NEW i \in 1 .. n PROVE Placed(table, positions, i)
    BY <1>0, <1>12, Zenon
  <1>4. PICK p \in Nat, last \in Nat : p = positions[i] /\ last = positions[n] /\ p <= last
    BY <1>3
  <1>5. PICK q \in Nat : q = p \div block_size /\ q * block_size <= p
    <2>0. /\ p \div block_size \in Nat /\ p % block_size \in 0 .. block_size - 1
          /\ p = (p \div block_size) * block_size + (p % block_size)
      BY Quotient, Zenon
    <2>1. PICK q \in Nat, r \in 0 .. block_size - 1 : q = p \div block_size /\ p = q * block_size + r
      BY <2>0, Zenon
    <2>2. q * block_size \in Nat
      BY SMT
    <2>3. q * block_size <= p
      BY <2>1, <2>2
    <2> QED BY <2>1, <2>3
  <1>6. q <= last \div block_size
    <2>1. q * block_size <= last
      BY <1>4, <1>5, SMT
    <2> QED BY <2>1, QuotientBounds
  <1>7. last \div block_size \in DOMAIN table /\ last \div block_size \in Nat
    BY <1>1, <1>4
  <1>8. q \in 0 .. (last \div block_size)
    BY <1>6, <1>7
  <1>9. q \in DOMAIN table
    BY <1>1, <1>7, <1>8, Zenon
  <1>10. table[q] \in 0 .. num_blocks - 1
    BY <1>1, <1>9, Zenon
  <1>11. p % block_size \in 0 .. block_size - 1
    BY Quotient, Zenon
  <1> QED BY <1>4, <1>5, <1>9, <1>10, <1>11, Zenon DEF Placed

(* What a launch of n tokens copies, <<token, head, dimension>> by         *)
(* <<token, head, dimension>>: where to, and from where.                   *)
Points(n) == (1 .. n) \X (0 .. n_kv_heads - 1) \X (0 .. head_dim - 1)

PointTo(table, positions, x) ==
    kv_off(table[positions[x[1]] \div block_size], x[2], positions[x[1]] % block_size, x[3])

PointFrom(x) == src_off(x[1] - 1, x[2], x[3])

KeyWrite(table, positions, x) == <<KeyCell(PointTo(table, positions, x)), <<"key", PointFrom(x)>>>>

ValueWrite(table, positions, x) == <<ValueCell(PointTo(table, positions, x)), <<"value", PointFrom(x)>>>>

LEMMA SourceCells ==
    ASSUME NEW n \in 1 .. MaxTokens, NEW x \in Points(n)
    PROVE  <<"key", PointFrom(x)>> \in Cells /\ <<"value", PointFrom(x)>> \in Cells
  <1> USE LayoutConstants
  <1>1. PICK i \in 1 .. n, h \in 0 .. n_kv_heads - 1, d \in 0 .. head_dim - 1 : x = <<i, h, d>>
    BY DEF Points
  <1>2. MaxTokens \in Nat /\ i - 1 \in 0 .. MaxTokens - 1
    BY KernelNats
  <1>3. (i - 1) * n_kv_heads + h \in 0 .. MaxTokens * n_kv_heads - 1
    BY <1>2, DigitsBound
  <1>4. MaxTokens * n_kv_heads \in Nat
    BY <1>2, SMT
  <1>5. src_off(i - 1, h, d) \in 0 .. (MaxTokens * n_kv_heads) * head_dim - 1
    BY <1>3, <1>4, DigitsBound DEF src_off
  <1>6. PointFrom(x) = src_off(i - 1, h, d)
    BY <1>1 DEF PointFrom
  <1> QED BY <1>5, <1>6 DEF Cells

(* Two tokens, heads or dimensions never share an address. *)
LEMMA PointsApart ==
    ASSUME NEW table \in Tables, NEW positions, NEW n \in Nat,
           \A i \in 1 .. n : Placed(table, positions, i),
           \A i, j \in 1 .. n : positions[i] = positions[j] => i = j,
           NEW x \in Points(n), NEW y \in Points(n),
           PointTo(table, positions, x) = PointTo(table, positions, y)
    PROVE  x = y
  <1>0. PICK i \in 1 .. n, h1 \in 0 .. n_kv_heads - 1, d1 \in 0 .. head_dim - 1 : x = <<i, h1, d1>>
    BY DEF Points
  <1>8. PICK j \in 1 .. n, h2 \in 0 .. n_kv_heads - 1, d2 \in 0 .. head_dim - 1 : y = <<j, h2, d2>>
    BY DEF Points
  <1>1. PICK p \in Nat, q \in Nat : p = positions[i] /\ q = positions[j]
    BY Zenon DEF Placed
  <1>2. PICK b \in Nat, c \in Nat : b = table[p \div block_size] /\ c = table[q \div block_size]
    BY <1>1, PoolConstants DEF Placed
  <1>3. b = c /\ h1 = h2 /\ p % block_size = q % block_size /\ d1 = d2
    <2>1. p % block_size \in 0 .. block_size - 1 /\ q % block_size \in 0 .. block_size - 1
      BY <1>1, Zenon DEF Placed
    <2>2. PICK o1 \in 0 .. block_size - 1, o2 \in 0 .. block_size - 1 :
              o1 = p % block_size /\ o2 = q % block_size
      BY <2>1
    <2>3. kv_off(b, h1, o1, d1) = kv_off(c, h2, o2, d2)
      BY <1>0, <1>8, <1>1, <1>2, <2>2 DEF PointTo
    <2>4. b = c /\ h1 = h2 /\ o1 = o2 /\ d1 = d2
      BY <2>3, LayoutInjective, SMTT(30)
    <2> QED BY <2>2, <2>4, Zenon
  <1>4. p \div block_size = q \div block_size
    <2>1. \A u, v \in DOMAIN table : table[u] = table[v] => u = v
      BY KernelConstants, Zenon DEF IsInjective
    <2> QED BY <1>1, <1>2, <1>3, <2>1, Zenon DEF Placed
  <1>5. /\ p = (p \div block_size) * block_size + (p % block_size)
        /\ q = (q \div block_size) * block_size + (q % block_size)
    BY Quotient, LayoutConstants
  <1>6. p = q
    BY <1>3, <1>4, <1>5, Zenon
  <1> QED BY <1>0, <1>8, <1>1, <1>3, <1>6, Zenon

LEMMA ReshapeCarries ==
    ASSUME NEW table \in Tables, NEW b \in DOMAIN table, NEW offset \in 0 .. block_size - 1,
           NEW n \in 1 .. MaxTokens, NEW positions, positions = Positions(b, offset, n),
           positions[n] \div block_size \in DOMAIN table
    PROVE  Carries(reshape_and_cache(table, positions),
                   Intended([kernel |-> "reshape", table |-> table, positions |-> positions]))
  <1> DEFINE To(x) == PointTo(table, positions, x)
             K(x) == KeyWrite(table, positions, x)
             V(x) == ValueWrite(table, positions, x)
  <1>1. PICK I : I = Intended([kernel |-> "reshape", table |-> table, positions |-> positions])
    OBVIOUS
  <1>2. /\ DOMAIN positions = 1 .. n /\ positions \in Seq(Nat)
        /\ \A i \in 1 .. n : Placed(table, positions, i)
        /\ \A i, j \in 1 .. n : positions[i] = positions[j] => i = j
    BY PositionsInTable
  <1>3. n \in Nat /\ DOMAIN positions = 1 .. n /\ Len(positions) = n
    <2>1. n \in Nat
      BY KernelNats
    <2> QED BY <1>2, <2>1
  <1>4. \A p : p \in I <=> \E x \in Points(n) : p = K(x) \/ p = V(x)
    <2> DEFINE KeyOf(i, e) == K(<<i, e[1], e[3]>>)
               ValueOf(i, e) == V(<<i, e[1], e[3]>>)
    <2>1. I = {KeyOf(i, e) : i \in 1 .. n, e \in BlockElements}
                \cup {ValueOf(i, e) : i \in 1 .. n, e \in BlockElements}
      BY <1>1, <1>3 DEF Intended, KeyWrite, ValueWrite, PointTo, PointFrom
    <2> HIDE DEF K, V, KeyOf, ValueOf
    <2>2. ASSUME NEW p \in I PROVE \E x \in Points(n) : p = K(x) \/ p = V(x)
      <3>1. PICK i \in 1 .. n, e \in BlockElements : p = KeyOf(i, e) \/ p = ValueOf(i, e)
        BY <2>1, <2>2
      <3>2. <<i, e[1], e[3]>> \in Points(n)
        BY DEF BlockElements, Points
      <3> QED BY <3>1, <3>2, Zenon DEF KeyOf, ValueOf
    <2>3. ASSUME NEW x \in Points(n) PROVE K(x) \in I /\ V(x) \in I
      <3>1. PICK i \in 1 .. n, h \in 0 .. n_kv_heads - 1, d \in 0 .. head_dim - 1 : x = <<i, h, d>>
        BY DEF Points
      <3>2. 0 \in 0 .. block_size - 1
        BY LayoutConstants
      <3>3. PICK e \in BlockElements : e = <<h, 0, d>>
        BY <3>2, Zenon DEF BlockElements
      <3>4. x = <<i, e[1], e[3]>>
        BY <3>1, <3>3
      <3>5. KeyOf(i, e) \in I /\ ValueOf(i, e) \in I
        BY <2>1
      <3> QED BY <3>4, <3>5, Zenon DEF KeyOf, ValueOf
    <2> QED BY <2>2, <2>3, Zenon
  <1>5. ASSUME NEW x \in Points(n)
        PROVE  To(x) \in 0 .. value_base - 1 /\ K(x) \in Cells \X Cells /\ V(x) \in Cells \X Cells
    <2>1. PICK i \in 1 .. n, h \in 0 .. n_kv_heads - 1, d \in 0 .. head_dim - 1 : x = <<i, h, d>>
      BY DEF Points
    <2>2. PICK a : a = kv_off(table[positions[i] \div block_size], h, positions[i] % block_size, d)
      OBVIOUS
    <2>3. a = To(x)
      BY <2>1, <2>2 DEF PointTo
    <2>4. a \in 0 .. value_base - 1 /\ value_base + a < pool_elems
      BY <1>2, <2>2, LayoutInside, Zenon DEF Placed
    <2> HIDE DEF To
    <2>5. KeyCell(a) \in Cells /\ ValueCell(a) \in Cells
      <3>1. a \in 0 .. pool_elems - 1 /\ value_base + a \in 0 .. pool_elems - 1
        BY <2>4, PoolRoom
      <3> QED BY <3>1 DEF KeyCell, ValueCell, Cells
    <2>6. <<"key", PointFrom(x)>> \in Cells /\ <<"value", PointFrom(x)>> \in Cells
      BY SourceCells
    <2>7. K(x) = <<KeyCell(a), <<"key", PointFrom(x)>>>> /\ V(x) = <<ValueCell(a), <<"value", PointFrom(x)>>>>
      BY <2>3, Zenon DEF K, V, KeyWrite, ValueWrite, To
    <2> HIDE DEF K, V
    <2> QED BY <2>3, <2>4, <2>5, <2>6, <2>7
  <1> HIDE DEF To
  <1>6. ASSUME NEW x \in Points(n), NEW y \in Points(n), To(x) = To(y) PROVE x = y
    BY <1>2, <1>3, <1>6, PointsApart DEF To
  <1>7. \A x : K(x) = <<KeyCell(To(x)), <<"key", PointFrom(x)>>>> /\ V(x) = <<ValueCell(To(x)), <<"value", PointFrom(x)>>>>
    BY Zenon DEF To, KeyWrite, ValueWrite
  <1> HIDE DEF K, V
  <1>8. I \subseteq Cells \X Cells
    BY <1>4, <1>5
  <1>9. ASSUME NEW p \in I, NEW q \in I
        PROVE  (p[1] = q[1] => p[2] = q[2]) /\ (p[1] = q[2] => p[1] = p[2])
    <2>1. PICK x \in Points(n) : p = K(x) \/ p = V(x)
      BY <1>4
    <2>2. PICK y \in Points(n) : q = K(y) \/ q = V(y)
      BY <1>4
    <2>3. PICK a \in 0 .. value_base - 1, c \in 0 .. value_base - 1 : a = To(x) /\ c = To(y)
      BY <1>5, Zenon
    <2>4. PICK s, r : s = PointFrom(x) /\ r = PointFrom(y)
      OBVIOUS
    <2>5. a = c => s = r
      BY <1>6, <2>3, <2>4, Zenon
    <2>6. /\ p = <<KeyCell(a), <<"key", s>>>> \/ p = <<ValueCell(a), <<"value", s>>>>
          /\ q = <<KeyCell(c), <<"key", r>>>> \/ q = <<ValueCell(c), <<"value", r>>>>
      BY <1>7, <2>1, <2>2, <2>3, <2>4, Zenon
    <2>7. /\ KeyCell(a) = KeyCell(c) => a = c
          /\ ValueCell(a) = ValueCell(c) => a = c
          /\ KeyCell(a) # ValueCell(c) /\ ValueCell(a) # KeyCell(c)
      BY CellsDiffer, Zenon
    <2>8. /\ KeyCell(a) # <<"key", r>> /\ KeyCell(a) # <<"value", r>>
          /\ ValueCell(a) # <<"key", r>> /\ ValueCell(a) # <<"value", r>>
      BY DEF KeyCell, ValueCell
    <2>9. p[1] # q[2]
      BY <2>6, <2>8
    <2>10. p[1] = q[1] => p[2] = q[2]
      BY <2>5, <2>6, <2>7
    <2> QED BY <2>9, <2>10, Zenon
  <1>10. PICK prog : prog = reshape_and_cache(table, positions)
    OBVIOUS
  <1>11. DOMAIN prog = (0 .. n - 1) \X (0 .. n_kv_heads - 1) \X (0 .. head_dim - 1)
    BY <1>3, <1>10 DEF reshape_and_cache
  <1>12. ASSUME NEW i \in 1 .. n, NEW h \in 0 .. n_kv_heads - 1, NEW d \in 0 .. head_dim - 1
         PROVE  /\ <<i - 1, h, d>> \in DOMAIN prog /\ <<i, h, d>> \in Points(n)
                /\ prog[<<i - 1, h, d>>] = <<K(<<i, h, d>>), V(<<i, h, d>>)>>
    <2>1. i - 1 \in 0 .. n - 1 /\ (i - 1) + 1 = i
      BY <1>3
    <2>2. <<i - 1, h, d>> \in DOMAIN prog /\ <<i, h, d>> \in Points(n)
      BY <1>11, <2>1 DEF Points
    <2>3. prog[<<i - 1, h, d>>] =
             <<<<KeyCell(dst_off(slot_of(table, positions[i]), h, d)), <<"key", src_off(i - 1, h, d)>>>>,
               <<ValueCell(dst_off(slot_of(table, positions[i]), h, d)), <<"value", src_off(i - 1, h, d)>>>>>>
      BY <1>3, <1>10, <2>1, Zenon DEF reshape_and_cache
    <2>4. dst_off(slot_of(table, positions[i]), h, d) = To(<<i, h, d>>)
      <3>1. positions[i] \in Nat /\ table[positions[i] \div block_size] \in Nat
        <4>1. \A a \in 0 .. num_blocks - 1 : a \in Nat
          BY PoolConstants
        <4> QED BY <1>2, <4>1, Zenon DEF Placed
      <3>2. To(<<i, h, d>>) = kv_off(table[positions[i] \div block_size], h, positions[i] % block_size, d)
        BY DEF To, PointTo
      <3> QED BY <3>1, <3>2, WriteReadAgree, Zenon
    <2>5. PointFrom(<<i, h, d>>) = src_off(i - 1, h, d)
      BY DEF PointFrom
    <2> QED BY <1>7, <2>2, <2>3, <2>4, <2>5, Zenon
  <1>13. ASSUME NEW t \in DOMAIN prog PROVE prog[t] \in Seq(I)
    <2>1. PICK z \in 0 .. n - 1, h \in 0 .. n_kv_heads - 1, d \in 0 .. head_dim - 1 : t = <<z, h, d>>
      BY <1>11, <1>13
    <2>2. PICK i \in 1 .. n : z = i - 1
      <3>1. z + 1 \in 1 .. n /\ z = (z + 1) - 1
        BY <1>3
      <3> QED BY <3>1, Zenon
    <2>3. PICK x \in Points(n) : prog[t] = <<K(x), V(x)>>
      BY <1>12, <2>1, <2>2, Zenon
    <2>4. K(x) \in I /\ V(x) \in I
      BY <1>4
    <2> QED BY <2>3, <2>4, PairElements, Zenon
  <1>14. ASSUME NEW p \in I PROVE \E t \in DOMAIN prog : p \in Range(prog[t])
    <2>1. PICK x \in Points(n) : p = K(x) \/ p = V(x)
      BY <1>4, <1>14
    <2>2. PICK t \in DOMAIN prog : prog[t] = <<K(x), V(x)>>
      <3>1. PICK i \in 1 .. n, h \in 0 .. n_kv_heads - 1, d \in 0 .. head_dim - 1 : x = <<i, h, d>>
        BY DEF Points
      <3> QED BY <1>12, <3>1, Zenon
    <2>3. K(x) \in I /\ V(x) \in I
      BY <1>4
    <2>4. p \in Range(prog[t])
      BY <2>1, <2>2, <2>3, PairElements, Zenon
    <2> QED BY <2>4, Zenon
  <1> QED BY <1>1, <1>8, <1>9, <1>10, <1>13, <1>14, Zenon DEF Carries, Independent

-----------------------------------------------------------------------------
(* The launches and the threads keep the invariant. *)
THEOREM KernelAlways == KernelSpec => []KernelInv
  <1>1. KernelInit => KernelInv
    <2> SUFFICES ASSUME KernelInit PROVE KernelInv
      OBVIOUS
    <2>1. launch.kernel = "none" /\ todo = <<>> /\ mem = [c \in Cells |-> c]
      BY DEF KernelInit
    <2>2. Intended(launch) = {}
      BY <2>1 DEF Intended
    <2> QED BY <2>1, <2>2 DEF KernelInv, Independent, Done
  <1>2. KernelInv /\ [KernelNext]_kernelVars => KernelInv'
    <2> SUFFICES ASSUME KernelInv, [KernelNext]_kernelVars PROVE KernelInv'
      OBVIOUS
    <2>1. CASE LaunchReshape
      <3>1. PICK table \in Tables, offset \in 0 .. block_size - 1, n \in 1 .. MaxTokens :
            \E b \in DOMAIN table :
                LET positions == [i \in 1 .. n |-> b * block_size + offset + i - 1]
                IN /\ positions[n] \div block_size \in DOMAIN table
                   /\ Launch([kernel |-> "reshape", table |-> table, positions |-> positions],
                             reshape_and_cache(table, positions))
        BY <2>1, Zenon DEF LaunchReshape
      <3>0. PICK b \in DOMAIN table :
                LET positions == [i \in 1 .. n |-> b * block_size + offset + i - 1]
                IN /\ positions[n] \div block_size \in DOMAIN table
                   /\ Launch([kernel |-> "reshape", table |-> table, positions |-> positions],
                             reshape_and_cache(table, positions))
        BY <3>1, Zenon
      <3>2. PICK positions :
                /\ positions = Positions(b, offset, n)
                /\ positions[n] \div block_size \in DOMAIN table
                /\ Launch([kernel |-> "reshape", table |-> table, positions |-> positions],
                          reshape_and_cache(table, positions))
        BY <3>0, Zenon DEF Positions
      <3>3. Carries(reshape_and_cache(table, positions),
                    Intended([kernel |-> "reshape", table |-> table, positions |-> positions]))
        BY <3>2, ReshapeCarries, Zenon
      <3>4. [kernel |-> "reshape", table |-> table, positions |-> positions].kernel # "none"
        OBVIOUS
      <3> QED BY <3>2, <3>3, <3>4, LaunchKeeps, Zenon
    <2>2. CASE LaunchCopy
      <3>1. PICK m \in Mappings : Disjoint(m) /\ Launch([kernel |-> "copy", mapping |-> m], copy_blocks(m))
        BY <2>2, Zenon DEF LaunchCopy
      <3>2. [kernel |-> "copy", mapping |-> m].kernel # "none"
        OBVIOUS
      <3> QED BY <3>1, <3>2, CopyCarries, LaunchKeeps, Zenon
    <2>3. CASE LaunchCompact
      <3>1. PICK m \in Mappings :
                Disjoint(m) /\ Launch([kernel |-> "compact", mapping |-> m], compact_kv_cache(m))
        BY <2>3, Zenon DEF LaunchCompact
      <3>2. [kernel |-> "compact", mapping |-> m].kernel # "none"
        OBVIOUS
      <3> QED BY <3>1, <3>2, CompactCarries, LaunchKeeps, Zenon
    <2>4. CASE LaunchSwap
      <3>0. PICK m \in Mappings, dst \in {"gpu", "cpu"} :
                LET s == IF dst = "gpu" THEN "cpu" ELSE "gpu"
                    side == IF dst = "cpu" THEN 2 ELSE 1
                IN /\ \A i \in DOMAIN m : m[i][side] < cpu_blocks
                   /\ \A i, j \in DOMAIN m : i # j => m[i][2] # m[j][2]
                   /\ Launch([kernel |-> "swap", mapping |-> m, src |-> s, dst |-> dst], swap_blocks(s, dst, m))
        BY <2>4, Zenon DEF LaunchSwap
      <3>1. PICK src :
                /\ src = IF dst = "gpu" THEN "cpu" ELSE "gpu"
                /\ \A i \in DOMAIN m : m[i][IF dst = "cpu" THEN 2 ELSE 1] < cpu_blocks
                /\ \A i, j \in DOMAIN m : i # j => m[i][2] # m[j][2]
                /\ Launch([kernel |-> "swap", mapping |-> m, src |-> src, dst |-> dst], swap_blocks(src, dst, m))
        BY <3>0, Zenon
      <3>2. Carries(swap_blocks(src, dst, m),
                    Intended([kernel |-> "swap", mapping |-> m, src |-> src, dst |-> dst]))
        BY <3>1, SwapCarries, Zenon
      <3>3. [kernel |-> "swap", mapping |-> m, src |-> src, dst |-> dst].kernel # "none"
        OBVIOUS
      <3> QED BY <3>1, <3>2, <3>3, LaunchKeeps, Zenon
    <2>5. CASE LaunchMemset
      <3>0. PICK m \in Mappings :
                LET is == [i \in DOMAIN m |-> m[i][1]]
                IN Launch([kernel |-> "memset", ids |-> is], memset_blocks(is))
        BY <2>5, Zenon DEF LaunchMemset
      <3>1. PICK ids : /\ ids = [i \in DOMAIN m |-> m[i][1]]
                       /\ Launch([kernel |-> "memset", ids |-> ids], memset_blocks(ids))
        BY <3>0, Zenon
      <3>2. Carries(memset_blocks(ids), Intended([kernel |-> "memset", ids |-> ids]))
        BY <3>1, MemsetCarries, Zenon
      <3>3. [kernel |-> "memset", ids |-> ids].kernel # "none"
        OBVIOUS
      <3> QED BY <3>1, <3>2, <3>3, LaunchKeeps, Zenon
    <2>6. CASE ThreadStep
      BY <2>6, ThreadKeeps
    <2>7. CASE UNCHANGED kernelVars
      <3>1. launch' = launch /\ todo' = todo /\ mem' = mem
        BY <2>7 DEF kernelVars
      <3> QED BY <3>1 DEF KernelInv, Done
    <2> QED BY <2>1, <2>2, <2>3, <2>4, <2>5, <2>6, <2>7, Zenon DEF KernelNext
  <1> QED BY <1>1, <1>2, PTL DEF KernelSpec

(* No thread of any launch, for any block geometry, thread count and       *)
(* mapping, reads or writes outside the buffers it was given.              *)
THEOREM InBoundsAlways == KernelSpec => []InBounds
  <1>1. KernelInv => InBounds
    <2> SUFFICES ASSUME KernelInv, NEW t \in DOMAIN todo, NEW i \in DOMAIN todo[t]
                 PROVE  todo[t][i] \in Cells \X Cells
      BY DEF InBounds
    <2>1. PICK I, s : I = Intended(launch) /\ s = todo[t]
      OBVIOUS
    <2>2. I \subseteq Cells \X Cells /\ s \in Seq(I)
      BY <2>1, Zenon DEF KernelInv
    <2>3. s[i] \in I
      BY <2>1, <2>2
    <2> QED BY <2>1, <2>2, <2>3, Zenon
  <1> QED BY <1>1, KernelAlways, PTL

(* When the threads of a launch are done, in whatever order they ran, the  *)
(* blocks named hold what the caller asked for and nothing else changed.   *)
THEOREM KernelsExactAlways == KernelSpec => []KernelsExact
  <1>1. KernelInv => KernelsExact
    <2> SUFFICES ASSUME KernelInv, \A t \in DOMAIN todo : todo[t] = <<>>
                 PROVE  /\ \A p \in Intended(launch) : mem[p[1]] = p[2]
                        /\ \A c \in Cells \ {p[1] : p \in Intended(launch)} : mem[c] = c
      BY Zenon DEF KernelsExact
    <2>1. Range(<<>>) = {}
      BY DEF Range
    <2>2. \A p \in Intended(launch) : mem[p[1]] = p[2]
      BY <2>1, Zenon DEF KernelInv, Done
    <2>3. \A c \in Cells \ {p[1] : p \in Intended(launch)} : mem[c] = c
      BY Zenon DEF KernelInv
    <2> QED BY <2>2, <2>3, Zenon
  <1> QED BY <1>1, KernelAlways, PTL

-----------------------------------------------------------------------------
(***************************************************************************)
(* The trace file is complete and well formed for every threshold, every   *)
(* set of threads and event names, and every interleaving of the calls.    *)
(* The three properties are inductive together: the commas need to know    *)
(* that first_event says whether the file is empty, and completeness needs *)
(* the lengths that a write leaves.                                        *)
(***************************************************************************)

Event == [tid : Threads, name : Names]

Written == [comma : BOOLEAN, event : Event]

TraceInv == TraceTypeOK /\ TraceComplete /\ TraceWellFormed

(* What a sequence followed by another one holds. *)
LEMMA Concatenated ==
    ASSUME NEW S, NEW s \in Seq(S), NEW t \in Seq(S)
    PROVE  /\ s \o t \in Seq(S)
           /\ Len(s \o t) = Len(s) + Len(t)
           /\ \A i \in 1 .. Len(s) : (s \o t)[i] = s[i]
           /\ \A i \in 1 .. Len(t) : (s \o t)[Len(s) + i] = t[i]
<1>1. Len(s) \in Nat /\ Len(t) \in Nat
    BY LenProperties
<1> QED
    BY <1>1, ConcatProperties, SMT

LEMMA Appended ==
    ASSUME NEW S, NEW s \in Seq(S), NEW e \in S
    PROVE  /\ Append(s, e) \in Seq(S)
           /\ Len(Append(s, e)) = Len(s) + 1
           /\ \A i \in 1 .. Len(s) : Append(s, e)[i] = s[i]
           /\ Append(s, e)[Len(s) + 1] = e
    BY AppendProperties, SMT

(* Writing a buffer to an open file appends its events in order, each with *)
(* the comma it needs.                                                     *)
LEMMA WriteFacts ==
    ASSUME TraceInv, NEW buffer \in Seq(Event), WriteEvents(buffer), is_open
    PROVE  /\ file' \in Seq(Written) /\ first_event' \in BOOLEAN
           /\ Len(file') = Len(file) + Len(buffer)
           /\ \A i \in 1 .. Len(file) : file'[i] = file[i]
           /\ \A i \in 1 .. Len(buffer) : file'[Len(file) + i].event = buffer[i]
           /\ first_event' = (file' = <<>>)
           /\ \A i \in 1 .. Len(file') : file'[i].comma = (i > 1)
<1> DEFINE written == [i \in 1 .. Len(buffer) |->
                        [comma |-> ~first_event \/ i > 1, event |-> buffer[i]]]
<1>1. /\ file \in Seq(Written) /\ first_event \in BOOLEAN
      /\ first_event = (file = <<>>)
      /\ \A i \in 1 .. Len(file) : file[i].comma = (i > 1)
      /\ Len(file) \in Nat /\ Len(buffer) \in Nat
    BY LenProperties DEF TraceInv, TraceTypeOK, TraceWellFormed, Written, Event
<1>2. \A i \in 1 .. Len(buffer) : buffer[i] \in Event
    BY ElementOfSeq, <1>1
<1>3. written \in Seq(Written) /\ Len(written) = Len(buffer)
  <2>1. \A i \in 1 .. Len(buffer) :
           [comma |-> ~first_event \/ i > 1, event |-> buffer[i]] \in Written
      BY <1>1, <1>2 DEF Written
  <2>2. written \in [1 .. Len(buffer) -> Written]
      BY <2>1, Zenon
  <2> QED
      BY <2>2, <1>1, IsASeq, LenProperties, SMT
<1>4. PICK block \in Seq(Written) : block = written
    BY <1>3, Zenon
<1>5. file' = file \o block /\ first_event' = (first_event /\ buffer = <<>>)
    BY <1>4, Zenon DEF WriteEvents
<1>6. /\ Len(block) = Len(buffer)
      /\ \A i \in 1 .. Len(buffer) :
            block[i].event = buffer[i] /\ block[i].comma = (~first_event \/ i > 1)
    BY <1>3, <1>4
<1> HIDE DEF written
<1>7. /\ file' \in Seq(Written) /\ Len(file') = Len(file) + Len(buffer)
      /\ \A i \in 1 .. Len(file) : file'[i] = file[i]
      /\ \A i \in 1 .. Len(buffer) : file'[Len(file) + i] = block[i]
  <2>1. /\ file \o block \in Seq(Written)
        /\ Len(file \o block) = Len(file) + Len(block)
        /\ \A i \in 1 .. Len(file) : (file \o block)[i] = file[i]
        /\ \A i \in 1 .. Len(block) : (file \o block)[Len(file) + i] = block[i]
      BY <1>1, Concatenated
  <2> QED
      BY <2>1, <1>6, <1>5, Zenon
<1>8. (file = <<>> <=> Len(file) = 0) /\ (buffer = <<>> <=> Len(buffer) = 0)
      /\ (file' = <<>> <=> Len(file') = 0)
    BY <1>1, <1>7, EmptySeq
<1>9. first_event' = (file' = <<>>)
  <2>1. Len(file') = 0 <=> (Len(file) = 0 /\ Len(buffer) = 0)
      BY <1>1, <1>7, SMT
  <2> QED
      BY <2>1, <1>1, <1>5, <1>8, Zenon
<1>10. Len(file) \in Nat /\ Len(buffer) \in Nat /\ Len(file') = Len(file) + Len(buffer)
    BY <1>1, <1>7
<1>11. ASSUME NEW i \in 1 .. Len(file') PROVE file'[i].comma = (i > 1)
  <2>1. CASE i <= Len(file)
    <3>1. i \in 1 .. Len(file)
        BY <2>1, <1>10, SMT
    <3> QED
        BY <3>1, <1>1, <1>7, Zenon
  <2>2. CASE i > Len(file)
    <3>1. PICK j \in 1 .. Len(buffer) : i = Len(file) + j
      <4>1. i - Len(file) \in 1 .. Len(buffer) /\ i = Len(file) + (i - Len(file))
          BY <2>2, <1>10, SMT
      <4> QED
          BY <4>1, Zenon
    <3>2. file'[i].comma = (~first_event \/ j > 1)
        BY <3>1, <1>7, <1>6
    <3>3. (~first_event \/ j > 1) <=> (i > 1)
      <4>1. first_event <=> Len(file) = 0
          BY <1>1, <1>8, Zenon
      <4>2. (~(Len(file) = 0) \/ j > 1) <=> (i > 1)
          BY <3>1, <1>10, SMT
      <4> QED
          BY <4>1, <4>2, Zenon
    <3> QED
        BY <3>2, <3>3
  <2> QED
      BY <2>1, <2>2, <1>1, SMT
<1> QED
    BY <1>1, <1>5, <1>7, <1>6, <1>9, <1>11

LEMMA AddEventKeeps ==
    ASSUME TraceInv, NEW e \in Event, add_event(e)
    PROVE  TraceInv'
<1>1. /\ e \in Event /\ events \in Seq(Event) /\ added \in Seq(Event) /\ file \in Seq(Written)
      /\ is_open \in BOOLEAN /\ first_event \in BOOLEAN /\ closed = FALSE
      /\ Len(events) < FlushAt
    BY DEF TraceInv, TraceTypeOK, Event, Written, add_event
<1>2. /\ added' = Append(added, e) /\ is_open' = is_open /\ closed' = FALSE
    BY <1>1 DEF add_event
<1>3. /\ added' \in Seq(Event) /\ Len(added') = Len(added) + 1
      /\ \A i \in 1 .. Len(added) : added'[i] = added[i]
      /\ added'[Len(added) + 1] = e
    BY <1>1, <1>2, Appended
<1>4. /\ Append(events, e) \in Seq(Event) /\ Len(Append(events, e)) = Len(events) + 1
      /\ \A i \in 1 .. Len(events) : Append(events, e)[i] = events[i]
      /\ Append(events, e)[Len(events) + 1] = e
    BY <1>1, Appended
<1>5. Len(events) \in Nat /\ Len(added) \in Nat /\ Len(file) \in Nat
    BY <1>1, LenProperties
<1>6. is_open => /\ Len(added) = Len(file) + Len(events)
                 /\ \A i \in 1 .. Len(file) : file[i].event = added[i]
                 /\ \A i \in 1 .. Len(events) : events[i] = added[Len(file) + i]
    BY DEF TraceInv, TraceComplete
<1>7. CASE Len(events) + 1 >= FlushAt
  <2>1. WriteEvents(Append(events, e)) /\ events' = <<>>
      BY <1>7 DEF add_event
  <2>2. events' \in Seq(Event) /\ Len(events') = 0
      BY <2>1, EmptySeq
  <2>3. CASE is_open
    <3>1. /\ Len(added) = Len(file) + Len(events)
          /\ \A i \in 1 .. Len(file) : file[i].event = added[i]
          /\ \A i \in 1 .. Len(events) : events[i] = added[Len(file) + i]
        BY <2>3, <1>6, Zenon
    <3>2. /\ Len(added) = Len(file) + Len(events) /\ Len(added') = Len(added) + 1
          /\ Len(Append(events, e)) = Len(events) + 1
        BY <3>1, <1>3, <1>4, Zenon
    <3>3. /\ file' \in Seq(Written) /\ first_event' \in BOOLEAN
          /\ Len(file') = Len(file) + Len(Append(events, e))
          /\ \A i \in 1 .. Len(file) : file'[i] = file[i]
          /\ \A i \in 1 .. Len(Append(events, e)) :
                file'[Len(file) + i].event = Append(events, e)[i]
          /\ first_event' = (file' = <<>>)
          /\ \A i \in 1 .. Len(file') : file'[i].comma = (i > 1)
        BY <2>1, <2>3, <1>4, WriteFacts, Zenon
    <3>4. Len(added') = Len(file') + Len(events')
      <4>1. Len(file') = Len(file) + Len(Append(events, e)) /\ Len(events') = 0
          BY <3>3, <2>2
      <4> QED
          BY <4>1, <3>2, <1>5, SMT
    <3>5. ASSUME NEW i \in 1 .. Len(file') PROVE file'[i].event = added'[i]
      <4>1. CASE i <= Len(file)
        <5>1. i \in 1 .. Len(file) /\ i \in 1 .. Len(added)
            BY <4>1, <3>2, <1>5, SMT
        <5> QED
            BY <5>1, <3>3, <3>1, <1>3
      <4>2. CASE i > Len(file) /\ i <= Len(file) + Len(events)
        <5>1. PICK j \in 1 .. Len(events) : i = Len(file) + j
          <6>1. i - Len(file) \in 1 .. Len(events) /\ i = Len(file) + (i - Len(file))
              BY <4>2, <1>5, <3>3, <1>4, SMT
          <6> QED
              BY <6>1, Zenon
        <5>2. file'[i].event = Append(events, e)[j] /\ Append(events, e)[j] = events[j]
          <6>1. j \in 1 .. Len(Append(events, e))
              BY <1>4, <1>5, SMT
          <6> QED
              BY <6>1, <5>1, <3>3, <1>4
        <5>3. i \in 1 .. Len(added)
            BY <5>1, <3>2, <1>5, SMT
        <5>4. added'[i] = added[i] /\ events[j] = added[i]
            BY <5>1, <5>3, <2>3, <1>3, <1>6
        <5> QED
            BY <5>2, <5>4
      <4>3. CASE i = Len(file) + Len(events) + 1
        <5>1. Len(events) + 1 \in 1 .. Len(Append(events, e))
              /\ i = Len(file) + (Len(events) + 1) /\ i = Len(added) + 1
            BY <4>3, <3>2, <1>5, SMT
        <5>2. file'[i].event = e
            BY <5>1, <3>3, <1>4
        <5> QED
            BY <5>1, <5>2, <1>3
      <4>4. i <= Len(file) \/ (i > Len(file) /\ i <= Len(file) + Len(events)) \/ i = Len(file) + Len(events) + 1
        <5>1. Len(file') = Len(file) + (Len(events) + 1)
            BY <3>2, <3>3, Zenon
        <5> QED
            BY <5>1, <1>5, SMT
      <4> QED
          BY <4>1, <4>2, <4>3, <4>4, Zenon
    <3>6. \A i \in 1 .. Len(events') : events'[i] = added'[Len(file') + i]
        BY <2>2, SMT
    <3>7. Len(events') < FlushAt
        BY <2>2, TraceConstants, SMT
    <3> QED
        BY <3>3, <3>4, <3>5, <3>6, <3>7, <2>1, <2>2, <1>1, <1>2, <1>3, Zenon
           DEF TraceInv, TraceTypeOK, TraceComplete, TraceWellFormed, Event, Written
  <2>4. CASE ~is_open
    <3>1. file' = file /\ first_event' = first_event
        BY <2>1, <2>4 DEF WriteEvents
    <3>2. Len(events') < FlushAt
        BY <2>2, TraceConstants, SMT
    <3> QED
        BY <3>1, <3>2, <2>1, <2>2, <2>4, <1>1, <1>2, <1>3, Zenon
           DEF TraceInv, TraceTypeOK, TraceComplete, TraceWellFormed, Event, Written
  <2> QED
      BY <2>3, <2>4
<1>8. CASE ~(Len(events) + 1 >= FlushAt)
  <2>1. events' = Append(events, e) /\ file' = file /\ first_event' = first_event
      BY <1>8 DEF add_event
  <2>2. Len(events') < FlushAt
      BY <2>1, <1>4, <1>5, <1>8, TraceConstants, SMT
  <2>3. ASSUME is_open
        PROVE  /\ Len(added') = Len(file') + Len(events')
               /\ \A i \in 1 .. Len(file') : file'[i].event = added'[i]
               /\ \A i \in 1 .. Len(events') : events'[i] = added'[Len(file') + i]
    <3>1. Len(added) = Len(file) + Len(events) /\ Len(added') = Len(added) + 1
        BY <2>3, <1>3, <1>6, Zenon
    <3>2. Len(added') = Len(file) + (Len(events) + 1)
        BY <3>1, <1>5, SMT
    <3>3. \A i \in 1 .. Len(file) : i \in 1 .. Len(added)
        BY <3>1, <1>5, SMT
    <3>4. ASSUME NEW i \in 1 .. Len(events) + 1
          PROVE  Append(events, e)[i] = added'[Len(file) + i]
      <4>1. CASE i = Len(events) + 1
        <5>1. Len(file) + i = Len(added) + 1
            BY <4>1, <3>1, <1>5, SMT
        <5> QED
            BY <4>1, <5>1, <1>3, <1>4, Zenon
      <4>2. CASE i # Len(events) + 1
        <5>1. i \in 1 .. Len(events) /\ Len(file) + i \in 1 .. Len(added)
            BY <4>2, <3>1, <1>5, SMT
        <5> QED
            BY <5>1, <2>3, <1>3, <1>4, <1>6
      <4> QED
          BY <4>1, <4>2
    <3> QED
        BY <3>2, <3>3, <3>4, <2>1, <2>3, <1>3, <1>4, <1>6, Zenon
  <2> QED
      BY <2>1, <2>2, <2>3, <1>1, <1>2, <1>3, <1>4, Zenon
         DEF TraceInv, TraceTypeOK, TraceComplete, TraceWellFormed, Event, Written
<1> QED
    BY <1>7, <1>8

(* flush and the destructor write out all that is buffered. *)
LEMMA FlushKeeps ==
    ASSUME TraceInv, WriteEvents(events), events' = <<>>, closed' \in BOOLEAN,
           UNCHANGED <<is_open, added>>
    PROVE  TraceInv'
<1>1. /\ events \in Seq(Event) /\ added \in Seq(Event) /\ file \in Seq(Written)
      /\ is_open \in BOOLEAN /\ first_event \in BOOLEAN
    BY DEF TraceInv, TraceTypeOK, Event, Written
<1>2. /\ Len(events) \in Nat /\ Len(added) \in Nat /\ Len(file) \in Nat
    BY <1>1, LenProperties
<1>3. /\ events' \in Seq(Event) /\ Len(events') = 0 /\ Len(events') < FlushAt
  <2>1. events' \in Seq(Event) /\ Len(events') = 0
      BY EmptySeq
  <2> QED
      BY <2>1, TraceConstants
<1>4. CASE ~is_open
  <2>1. file' = file /\ first_event' = first_event
      BY <1>4 DEF WriteEvents
  <2> QED
      BY <2>1, <1>1, <1>3, <1>4, Zenon
         DEF TraceInv, TraceTypeOK, TraceComplete, TraceWellFormed, Event, Written
<1>5. CASE is_open
  <2>1. /\ file' \in Seq(Written) /\ first_event' \in BOOLEAN
        /\ Len(file') = Len(file) + Len(events)
        /\ \A i \in 1 .. Len(file) : file'[i] = file[i]
        /\ \A i \in 1 .. Len(events) : file'[Len(file) + i].event = events[i]
        /\ first_event' = (file' = <<>>)
        /\ \A i \in 1 .. Len(file') : file'[i].comma = (i > 1)
      BY <1>1, <1>5, WriteFacts
  <2>2. /\ Len(added) = Len(file) + Len(events)
        /\ \A i \in 1 .. Len(file) : file[i].event = added[i]
        /\ \A i \in 1 .. Len(events) : events[i] = added[Len(file) + i]
      BY <1>5 DEF TraceInv, TraceComplete
  <2>3. Len(added') = Len(file') + Len(events')
    <3>1. Len(added') = Len(file') /\ Len(file') \in Nat
        BY <2>1, <2>2, <1>2, SMT
    <3> QED
        BY <3>1, <1>3, SMT
  <2>4. ASSUME NEW i \in 1 .. Len(file') PROVE file'[i].event = added'[i]
    <3>1. CASE i <= Len(file)
      <4>1. i \in 1 .. Len(file)
          BY <3>1, <1>2, SMT
      <4> QED
          BY <4>1, <2>1, <2>2
    <3>2. CASE ~(i <= Len(file))
      <4>1. PICK j \in 1 .. Len(events) : i = Len(file) + j
        <5>1. Len(file') = Len(file) + Len(events)
            BY <2>1
        <5>2. i - Len(file) \in 1 .. Len(events) /\ i = Len(file) + (i - Len(file))
            BY <3>2, <5>1, <1>2, SMT
        <5> QED
            BY <5>2, Zenon
      <4> QED
          BY <4>1, <2>1, <2>2
    <3> QED
        BY <3>1, <3>2
  <2>5. \A i \in 1 .. Len(events') : events'[i] = added'[Len(file') + i]
      BY <1>3, SMT
  <2> QED
      BY <2>1, <2>3, <2>4, <2>5, <1>1, <1>3, Zenon
         DEF TraceInv, TraceTypeOK, TraceComplete, TraceWellFormed, Event, Written
<1> QED
    BY <1>1, <1>4, <1>5

LEMMA TraceInductive == TraceSpec => []TraceInv
<1>1. TraceInit => TraceInv
  <2> SUFFICES ASSUME TraceInit PROVE TraceInv
      OBVIOUS
  <2>1. /\ is_open \in BOOLEAN /\ events = <<>> /\ file = <<>> /\ added = <<>>
        /\ first_event = TRUE /\ closed = FALSE
      BY DEF TraceInit
  <2>2. /\ events \in Seq(Event) /\ added \in Seq(Event) /\ file \in Seq(Written)
        /\ Len(events) = 0 /\ Len(added) = 0 /\ Len(file) = 0
      BY <2>1, EmptySeq
  <2>3. TraceTypeOK
    <3>1. Len(events) < FlushAt
        BY <2>2, TraceConstants
    <3> QED
        BY <3>1, <2>1, <2>2, Zenon DEF TraceTypeOK, Event, Written
  <2>4. TraceComplete
      BY <2>1, <2>2, SMT DEF TraceComplete
  <2>5. TraceWellFormed
    <3>1. \A i \in 1 .. Len(file) : FALSE
        BY <2>2, SMT
    <3> QED
        BY <3>1, <2>1, Zenon DEF TraceWellFormed
  <2> QED
      BY <2>3, <2>4, <2>5 DEF TraceInv
<1>2. TraceInv /\ [TraceNext]_traceVars => TraceInv'
  <2> SUFFICES ASSUME TraceInv, [TraceNext]_traceVars PROVE TraceInv'
      OBVIOUS
  <2>1. ASSUME NEW t \in Threads, NEW n \in Names, add_event([tid |-> t, name |-> n])
        PROVE  TraceInv'
    <3>1. [tid |-> t, name |-> n] \in Event
        BY DEF Event
    <3> QED
        BY <2>1, <3>1, AddEventKeeps
  <2>2. CASE flush
    <3>1. WriteEvents(events) /\ events' = <<>> /\ closed' \in BOOLEAN
          /\ UNCHANGED <<is_open, added>>
        BY <2>2 DEF flush, TraceInv, TraceTypeOK
    <3> QED
        BY <3>1, FlushKeeps
  <2>3. CASE Destroy
    <3>1. WriteEvents(events) /\ events' = <<>> /\ closed' \in BOOLEAN
          /\ UNCHANGED <<is_open, added>>
        BY <2>3 DEF Destroy
    <3> QED
        BY <3>1, FlushKeeps
  <2>4. CASE UNCHANGED traceVars
      BY <2>4 DEF traceVars, TraceInv, TraceTypeOK, TraceComplete, TraceWellFormed
  <2> QED
      BY <2>1, <2>2, <2>3, <2>4, Zenon DEF TraceNext
<1> QED
    BY <1>1, <1>2, PTL DEF TraceSpec

(* add_event, flush and the destructor, called by any threads in any       *)
(* order, lose, duplicate and reorder no event.                            *)
THEOREM TraceIsComplete == TraceSpec => []TraceComplete
<1>1. TraceInv => TraceComplete
    BY DEF TraceInv
<1> QED
    BY <1>1, TraceInductive, PTL

(* write_event puts a comma before every event but the first, so that the  *)
(* file is a JSON array whatever the batches it was written in.            *)
THEOREM TraceIsWellFormed == TraceSpec => []TraceWellFormed
<1>1. TraceInv => TraceWellFormed
    BY DEF TraceInv
<1> QED
    BY <1>1, TraceInductive, PTL

(* Between calls fewer events are buffered than the threshold of add_event.*)
THEOREM TraceBufferBounded == TraceSpec => []TraceTypeOK
<1>1. TraceInv => TraceTypeOK
    BY DEF TraceInv
<1> QED
    BY <1>1, TraceInductive, PTL

=============================================================================
