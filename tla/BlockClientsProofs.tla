--------------------------- MODULE BlockClientsProofs -------------------------
(***************************************************************************)
(* The block manager's accounting, for pools of any size, any set of       *)
(* sequences and any number of pins.                                       *)
(*                                                                         *)
(* Types, free-list exactness, reference-count exactness and the fact that *)
(* a block is recorded at most once need one another: a block popped from  *)
(* the free list is nobody's because its count is zero, its count is zero  *)
(* because the list is exact, and free_blocks may push what it drops to    *)
(* zero because nothing else is recorded there.  Their conjunction is      *)
(* inductive as it stands.  With it, the block manager implements the      *)
(* abstract pool of BlockPool.                                             *)
(***************************************************************************)
EXTENDS BlockClients, BlockManagerProofs

(* The inductive invariant. *)
Accounting == TypeOK /\ FreeListExact /\ RefCountExact /\ RecordedOnce

(* The constructor's state satisfies the accounting. *)
LEMMA InitAccounting == Init => Accounting
  <1> SUFFICES ASSUME Init PROVE Accounting
    OBVIOUS
  <1>1. /\ BMInit /\ pins = [b \in Blocks |-> 0]
    BY Zenon DEF Init
  <1>2. BMTypeOK /\ FreeListExact /\ RecordedOnce /\ \A b \in Blocks : ~Recorded(b)
    BY <1>1, BMInitExact, Zenon
  <1>3. TypeOK /\ RefCountExact
    BY <1>1, <1>2 DEF BMInit, TypeOK, RefCountExact
  <1> QED BY <1>2, <1>3, Zenon DEF Accounting

-----------------------------------------------------------------------------
(* RefCountExact by cases, without the conditional. *)
CountCases ==
    \A b \in Blocks : /\ Recorded(b) => ref_count[b] = pins[b] + 1
                      /\ ~Recorded(b) => ref_count[b] = pins[b]

(* The two formulations of the exact count agree for typed states. *)
LEMMA CountEquivalent == TypeOK => (RefCountExact <=> CountCases)
  <1> SUFFICES ASSUME TypeOK, NEW b \in Blocks
               PROVE  (ref_count[b] = pins[b] + (IF Recorded(b) THEN 1 ELSE 0))
                        <=> /\ Recorded(b) => ref_count[b] = pins[b] + 1
                            /\ ~Recorded(b) => ref_count[b] = pins[b]
    BY DEF RefCountExact, CountCases
  <1>1. pins[b] \in Nat
    BY DEF TypeOK, BMTypeOK
  <1>2. CASE Recorded(b)
    BY <1>1, <1>2
  <1>3. CASE ~Recorded(b)
    BY <1>1, <1>3
  <1> QED BY <1>2, <1>3

(* allocate_block, failing or not. *)
LEMMA AllocateStep ==
    ASSUME Accounting, NEW s \in SeqIds, NEW d \in Device, Allocate(s, d)
    PROVE  Accounting'
  <1> USE DEF Accounting
  <1> BMTypeOK
    BY DEF TypeOK
  <1>1. CASE free_list[d] = <<>>
    <2>1. UNCHANGED clientVars
      BY <1>1 DEF Allocate, allocate_block, clientVars, bmVars
    <2> QED BY <2>1 DEF clientVars, bmVars, TypeOK, BMTypeOK, FreeListExact, RefCountExact,
                        RecordedOnce, Recorded
  <1>2. CASE free_list[d] # <<>>
    <2> DEFINE c == PoppedBlock(d)
    <2>1. /\ TakeBack(s, d)
          /\ ref_count' = [ref_count EXCEPT ![c] = 1]
          /\ freeing' = freeing /\ pins' = pins
      BY <1>2 DEF Allocate, allocate_block
    <2>2. /\ c \in Blocks /\ c[1] = d /\ ref_count[c] = 0
          /\ free_list' \in [Device -> Seq(Blocks)]
          /\ \A e \in Device :
                /\ IsInjective(free_list'[e])
                /\ Range(free_list'[e]) = Range(free_list[e]) \ {c}
      BY <1>2, <2>1, TakeIsFree, Zenon
    <2>3. seq_block_map' = [seq_block_map EXCEPT ![s] = Append(@, c)]
      BY <2>1 DEF TakeBack
    <2> HIDE DEF c
    <2>4. pins[c] = 0 /\ ~Recorded(c)
      BY <2>2, CountEquivalent DEF CountCases, TypeOK, BMTypeOK
    <2>5. /\ seq_block_map' \in [SeqIds -> Seq(Blocks)]
          /\ RecordedOnce'
          /\ \A b \in Blocks : Recorded(b)' <=> (Recorded(b) \/ b = c)
      BY <2>2, <2>3, <2>4, RecordNew, Zenon
    <2>6. \A b \in Blocks : ref_count'[b] = IF b = c THEN 1 ELSE ref_count[b]
      BY <2>1, <2>2 DEF TypeOK, BMTypeOK
    <2>7. FreeListExact'
      BY <2>2, <2>6, TakeKeepsLists
    <2>8. TypeOK'
      <3>1. ref_count' \in [Blocks -> Nat]
        BY <2>1, <2>2 DEF TypeOK, BMTypeOK
      <3>2. \A e \in Device : \A i \in DOMAIN free_list'[e] : free_list'[e][i][1] = e
        BY <2>7 DEF FreeListExact, Range
      <3> QED BY <2>1, <2>2, <2>5, <3>1, <3>2 DEF TypeOK, BMTypeOK
    <2>9. CountCases'
      BY <2>1, <2>4, <2>5, <2>6, CountEquivalent DEF CountCases
    <2>10. RefCountExact'
      BY <2>8, <2>9, CountEquivalent, PTL
    <2> QED BY <2>5, <2>7, <2>8, <2>10
  <1> QED BY <1>1, <1>2

(* increment_ref of a block in use. *)
LEMMA PinStep ==
    ASSUME Accounting, NEW b \in Blocks, Pin(b)
    PROVE  Accounting'
  <1> USE DEF Accounting
  <1>1. /\ ref_count' = [ref_count EXCEPT ![b] = @ + 1] /\ ref_count[b] > 0
        /\ pins' = [pins EXCEPT ![b] = @ + 1]
        /\ UNCHANGED <<free_list, seq_block_map, freeing>>
    BY DEF Pin, increment_ref
  <1>2. \A c \in Blocks : /\ ref_count'[c] = IF c = b THEN ref_count[c] + 1 ELSE ref_count[c]
                          /\ pins'[c] = IF c = b THEN pins[c] + 1 ELSE pins[c]
    BY <1>1 DEF TypeOK, BMTypeOK
  <1>3. TypeOK'
    BY <1>1 DEF TypeOK, BMTypeOK
  <1>4. \A c \in Blocks : ref_count'[c] = 0 <=> ref_count[c] = 0
    BY <1>1, <1>2 DEF TypeOK, BMTypeOK
  <1>5. FreeListExact'
    BY <1>1, <1>4 DEF FreeListExact
  <1>6. \A c \in Blocks : Recorded(c)' <=> Recorded(c)
    BY <1>1 DEF Recorded
  <1>7. CountCases'
    BY <1>2, <1>6, CountEquivalent, SMTT(30) DEF CountCases, TypeOK, BMTypeOK
  <1>8. RecordedOnce'
    BY <1>1 DEF RecordedOnce
  <1>9. RefCountExact'
    BY <1>3, <1>7, CountEquivalent, PTL
  <1> QED BY <1>3, <1>5, <1>8, <1>9

(* decrement_ref and free_block of a pinned block. *)
LEMMA UnpinStep ==
    ASSUME Accounting, NEW b \in Blocks, UnpinByDecrement(b) \/ UnpinByFree(b)
    PROVE  Accounting'
  <1> USE DEF Accounting
  <1> BMTypeOK
    BY DEF TypeOK
  <1>1. /\ pins[b] > 0 /\ DropRef(b)
        /\ pins' = [pins EXCEPT ![b] = @ - 1]
        /\ UNCHANGED <<seq_block_map, freeing>>
    BY DEF UnpinByDecrement, UnpinByFree, decrement_ref, free_block
  <1>2. ref_count[b] > 0
    <2>1. CountCases
      BY CountEquivalent
    <2>2. ref_count[b] = pins[b] \/ ref_count[b] = pins[b] + 1
      BY <2>1 DEF CountCases
    <2>3. pins[b] \in Nat
      BY DEF TypeOK, BMTypeOK
    <2> QED BY <1>1, <2>2, <2>3
  <1>3. /\ ref_count' = [ref_count EXCEPT ![b] = @ - 1]
        /\ ref_count' \in [Blocks -> Nat]
        /\ free_list' \in [Device -> Seq(Blocks)]
        /\ FreeListExact'
    BY <1>1, <1>2, DropKeepsList
  <1>4. \A c \in Blocks : /\ ref_count'[c] = IF c = b THEN ref_count[c] - 1 ELSE ref_count[c]
                          /\ pins'[c] = IF c = b THEN pins[c] - 1 ELSE pins[c]
    BY <1>1, <1>3 DEF TypeOK, BMTypeOK
  <1>5. TypeOK'
    <2>1. pins' \in [Blocks -> Nat]
      BY <1>1 DEF TypeOK, BMTypeOK
    <2>2. \A e \in Device : \A i \in DOMAIN free_list'[e] : free_list'[e][i][1] = e
      BY <1>3 DEF FreeListExact, Range
    <2> QED BY <1>1, <1>3, <2>1, <2>2 DEF TypeOK, BMTypeOK
  <1>6. \A c \in Blocks : Recorded(c)' <=> Recorded(c)
    BY <1>1 DEF Recorded
  <1>7. CountCases'
    <2> SUFFICES ASSUME NEW c \in Blocks
                 PROVE  /\ Recorded(c) => ref_count'[c] = pins'[c] + 1
                        /\ ~Recorded(c) => ref_count'[c] = pins'[c]
      BY <1>6 DEF CountCases
    <2>1. /\ Recorded(c) => ref_count[c] = pins[c] + 1
          /\ ~Recorded(c) => ref_count[c] = pins[c]
      BY CountEquivalent DEF CountCases
    <2>2. pins[c] \in Nat
      BY DEF TypeOK, BMTypeOK
    <2> QED BY <1>4, <2>1, <2>2
  <1>8. RecordedOnce'
    BY <1>1 DEF RecordedOnce
  <1>9. RefCountExact'
    BY <1>5, <1>7, CountEquivalent, PTL
  <1> QED BY <1>3, <1>5, <1>8, <1>9

(* copy_on_write by a sequence that spends its pin: the block itself when  *)
(* that pin is the only reference, nothing when the pool is exhausted, a   *)
(* fresh block otherwise.                                                  *)
LEMMA ForkStep ==
    ASSUME Accounting, NEW b \in Blocks, NEW s \in SeqIds, Fork(b, s)
    PROVE  Accounting'
  <1> USE DEF Accounting
  <1> BMTypeOK
    BY DEF TypeOK
  <1>1. pins[b] > 0 /\ copy_on_write(b, s) /\ freeing' = freeing
    BY DEF Fork, copy_on_write
  <1>2. /\ pins[b] \in Nat /\ ref_count[b] \in Nat
        /\ Recorded(b) => ref_count[b] = pins[b] + 1
        /\ ~Recorded(b) => ref_count[b] = pins[b]
    BY CountEquivalent DEF CountCases, TypeOK, BMTypeOK
  <1>3. b[1] \in Device
    BY BlockFacts
  <1>4. CASE ref_count[b] = 1
    <2>1. /\ seq_block_map' = [seq_block_map EXCEPT ![s] = Append(@, b)]
          /\ UNCHANGED <<ref_count, free_list>>
      BY <1>1, <1>4 DEF copy_on_write
    <2>2. pins' = [pins EXCEPT ![b] = @ - 1]
      <3>1. CowResult(b) = b /\ b # INVALID_BLOCK
        BY <1>4, BlockFacts DEF CowResult
      <3> QED BY <3>1 DEF Fork
    <2>3. ~Recorded(b) /\ pins[b] = 1
      BY <1>1, <1>2, <1>4
    <2>4. /\ seq_block_map' \in [SeqIds -> Seq(Blocks)]
          /\ RecordedOnce'
          /\ \A c \in Blocks : Recorded(c)' <=> (Recorded(c) \/ c = b)
      BY <2>1, <2>3, RecordNew, Zenon
    <2>5. pins' \in [Blocks -> Nat]
          /\ \A c \in Blocks : pins'[c] = IF c = b THEN 0 ELSE pins[c]
      BY <2>2, <2>3 DEF TypeOK, BMTypeOK
    <2>6. TypeOK'
      BY <1>1, <2>1, <2>4, <2>5 DEF TypeOK, BMTypeOK
    <2>7. FreeListExact'
      BY <2>1 DEF FreeListExact
    <2>8. CountCases'
      BY <1>4, <2>1, <2>4, <2>5, CountEquivalent DEF CountCases
    <2>9. RefCountExact'
      BY <2>6, <2>8, CountEquivalent, PTL
    <2> QED BY <2>4, <2>6, <2>7, <2>9
  <1>5. CASE ref_count[b] # 1 /\ free_list[b[1]] = <<>>
    <2>1. UNCHANGED <<ref_count, free_list, seq_block_map>>
      BY <1>1, <1>5 DEF copy_on_write
    <2>2. CowResult(b) = INVALID_BLOCK
      BY <1>5 DEF CowResult, PoppedBlock
    <2>3. pins' = pins
      BY <2>2 DEF Fork
    <2> QED BY <1>1, <2>1, <2>3 DEF TypeOK, BMTypeOK, FreeListExact, RefCountExact, RecordedOnce,
                                    Recorded
  <1>6. CASE ref_count[b] # 1 /\ free_list[b[1]] # <<>>
    <2> DEFINE c == PoppedBlock(b[1])
    <2>1. /\ TakeBack(s, b[1])
          /\ ref_count' = [ref_count EXCEPT ![c] = 1, ![b] = @ - 1]
      BY <1>1, <1>6 DEF copy_on_write
    <2>2. /\ c \in Blocks /\ ref_count[c] = 0
          /\ free_list' \in [Device -> Seq(Blocks)]
          /\ \A e \in Device :
                /\ IsInjective(free_list'[e])
                /\ Range(free_list'[e]) = Range(free_list[e]) \ {c}
      BY <1>3, <1>6, <2>1, TakeIsFree, Zenon
    <2>3. seq_block_map' = [seq_block_map EXCEPT ![s] = Append(@, c)]
      BY <2>1 DEF TakeBack
    <2>4. CowResult(b) = c
      BY <1>6 DEF CowResult
    <2> HIDE DEF c
    <2>5. pins' = [pins EXCEPT ![b] = @ - 1]
      BY <2>2, <2>4, BlockFacts DEF Fork
    <2>6. ref_count[b] >= 2 /\ c # b
      BY <1>1, <1>2, <1>6, <2>2, SMTT(30)
    <2>7. pins[c] = 0 /\ ~Recorded(c)
      BY <2>2, CountEquivalent DEF CountCases, TypeOK, BMTypeOK
    <2>8. /\ seq_block_map' \in [SeqIds -> Seq(Blocks)]
          /\ RecordedOnce'
          /\ \A a \in Blocks : Recorded(a)' <=> (Recorded(a) \/ a = c)
      BY <2>2, <2>3, <2>7, RecordNew, Zenon
    <2>9. /\ ref_count'[c] = 1 /\ ref_count'[b] = ref_count[b] - 1
          /\ \A a \in Blocks \ {b, c} : ref_count'[a] = ref_count[a]
          /\ ref_count' \in [Blocks -> Nat]
      <3> DEFINE taken == [ref_count EXCEPT ![c] = 1]
      <3>1. ref_count' = [taken EXCEPT ![b] = taken[b] - 1]
        BY <2>1, <2>2, <2>6, Zenon DEF TypeOK, BMTypeOK
      <3>2. /\ taken \in [Blocks -> Nat] /\ taken[c] = 1 /\ taken[b] = ref_count[b]
            /\ \A a \in Blocks \ {b, c} : taken[a] = ref_count[a]
        BY <2>2, <2>6 DEF TypeOK, BMTypeOK
      <3> HIDE DEF taken
      <3>3. taken[b] - 1 \in Nat
        BY <1>2, <2>6, <3>2
      <3> QED BY <2>2, <2>6, <3>1, <3>2, <3>3
    <2>10. /\ pins'[b] = pins[b] - 1
           /\ \A a \in Blocks \ {b} : pins'[a] = pins[a]
           /\ pins' \in [Blocks -> Nat]
      BY <1>1, <1>2, <2>5 DEF TypeOK, BMTypeOK
    <2>11. \A a \in Blocks : ref_count'[a] = 0 <=> (ref_count[a] = 0 /\ a # c)
      BY <1>2, <2>6, <2>9, SMTT(30)
    <2>12. FreeListExact'
      BY <2>2, <2>11, TakeKeepsLists, SMTT(30)
    <2>13. TypeOK'
      <3>1. \A e \in Device : \A i \in DOMAIN free_list'[e] : free_list'[e][i][1] = e
        BY <2>12 DEF FreeListExact, Range
      <3> QED BY <1>1, <2>2, <2>8, <2>9, <2>10, <3>1, SMTT(30) DEF TypeOK, BMTypeOK
    <2>14. CountCases'
      <3> SUFFICES ASSUME NEW a \in Blocks
                   PROVE  /\ Recorded(a) \/ a = c => ref_count'[a] = pins'[a] + 1
                          /\ ~(Recorded(a) \/ a = c) => ref_count'[a] = pins'[a]
        BY <2>8 DEF CountCases
      <3>1. CASE a = c
        BY <2>6, <2>7, <2>9, <2>10, <3>1
      <3>2. CASE a = b
        BY <1>2, <2>6, <2>9, <2>10, <3>2
      <3>3. CASE a # b /\ a # c
        <4>1. ref_count'[a] = ref_count[a] /\ pins'[a] = pins[a]
          BY <2>9, <2>10, <3>3, SMTT(30)
        <4> QED BY <3>3, <4>1, CountEquivalent DEF CountCases
      <3> QED BY <3>1, <3>2, <3>3
    <2>15. RefCountExact'
      BY <2>13, <2>14, CountEquivalent, PTL
    <2> QED BY <2>8, <2>12, <2>13, <2>15
  <1> QED BY <1>4, <1>5, <1>6

(* One iteration of free_blocks, or its return. *)
LEMMA FreeStep ==
    ASSUME Accounting, FreeSeqStep
    PROVE  Accounting'
  <1> USE DEF Accounting
  <1> BMTypeOK
    BY DEF TypeOK
  <1>1. CASE FreeBlocksReturn /\ UNCHANGED pins
    BY <1>1 DEF FreeBlocksReturn, TypeOK, BMTypeOK, FreeListExact, RefCountExact, RecordedOnce, Recorded
  <1>2. CASE FreeBlocksNext /\ UNCHANGED pins
    <2> DEFINE s == freeing
               c == Head(seq_block_map[s])
    <2>1. /\ s \in SeqIds /\ seq_block_map[s] # <<>> /\ DropRef(c)
          /\ seq_block_map' = [seq_block_map EXCEPT ![s] = Tail(@)]
          /\ freeing' = freeing /\ pins' = pins
      BY <1>2 DEF FreeBlocksNext, TypeOK, BMTypeOK
    <2> HIDE DEF s
    <2>2. /\ c \in Blocks /\ Recorded(c)
          /\ seq_block_map' \in [SeqIds -> Seq(Blocks)]
          /\ RecordedOnce'
          /\ \A b \in Blocks : Recorded(b)' <=> (Recorded(b) /\ b # c)
      BY <2>1, Unrecord, Zenon
    <2> HIDE DEF c
    <2>3. ref_count[c] = pins[c] + 1 /\ pins[c] \in Nat
      BY <2>2, CountEquivalent DEF CountCases, TypeOK, BMTypeOK
    <2>4. /\ ref_count' = [ref_count EXCEPT ![c] = @ - 1]
          /\ ref_count' \in [Blocks -> Nat]
          /\ free_list' \in [Device -> Seq(Blocks)]
          /\ FreeListExact'
      BY <2>1, <2>2, <2>3, DropKeepsList
    <2>5. TypeOK'
      <3>1. \A e \in Device : \A i \in DOMAIN free_list'[e] : free_list'[e][i][1] = e
        BY <2>4 DEF FreeListExact, Range
      <3> QED BY <2>1, <2>2, <2>4, <3>1, SMTT(30) DEF TypeOK, BMTypeOK
    <2>6. CountCases'
      <3> SUFFICES ASSUME NEW a \in Blocks
                   PROVE  /\ Recorded(a) /\ a # c => ref_count'[a] = pins[a] + 1
                          /\ ~(Recorded(a) /\ a # c) => ref_count'[a] = pins[a]
        BY <2>1, <2>2 DEF CountCases
      <3>1. CASE a = c
        BY <2>2, <2>3, <2>4, <3>1 DEF TypeOK, BMTypeOK
      <3>2. CASE a # c
        <4>1. ref_count'[a] = ref_count[a]
          BY <2>4, <3>2 DEF TypeOK, BMTypeOK
        <4> QED BY <3>2, <4>1, CountEquivalent DEF CountCases
      <3> QED BY <3>1, <3>2
    <2>7. RefCountExact'
      BY <2>5, <2>6, CountEquivalent, PTL
    <2> QED BY <2>2, <2>4, <2>5, <2>7
  <1> QED BY <1>1, <1>2 DEF FreeSeqStep

(* Every call of the contract keeps the accounting. *)
LEMMA NextAccounting == Accounting /\ [Next]_clientVars => Accounting'
  <1> SUFFICES ASSUME Accounting, [Next]_clientVars PROVE Accounting'
    OBVIOUS
  <1>1. ASSUME NEW s \in SeqIds, NEW d \in Device, Allocate(s, d) PROVE Accounting'
    BY <1>1, AllocateStep
  <1>2. ASSUME NEW b \in Blocks, Pin(b) PROVE Accounting'
    BY <1>2, PinStep
  <1>3. ASSUME NEW b \in Blocks, UnpinByDecrement(b) \/ UnpinByFree(b) PROVE Accounting'
    BY <1>3, UnpinStep
  <1>4. ASSUME NEW b \in Blocks, NEW s \in SeqIds, Fork(b, s) PROVE Accounting'
    BY <1>4, ForkStep
  <1>5. ASSUME NEW s \in SeqIds, FreeSeq(s) PROVE Accounting'
    BY <1>5 DEF FreeSeq, EnterFreeBlocks, Accounting, TypeOK, BMTypeOK, FreeListExact,
                RefCountExact, RecordedOnce, Recorded
  <1>6. CASE FreeSeqStep
    BY <1>6, FreeStep, SMTT(30)
  <1>7. CASE UNCHANGED clientVars
    BY <1>7 DEF clientVars, bmVars, Accounting, TypeOK, BMTypeOK, FreeListExact, RefCountExact,
                RecordedOnce, Recorded
  <1> QED BY <1>1, <1>2, <1>3, <1>4, <1>5, <1>6, <1>7, SMTT(30) DEF Next

(* The conjunction is an invariant of the block manager under its contract. *)
THEOREM AccountingInvariant == Spec => []Accounting
  <1>1. Init => Accounting
    BY InitAccounting
  <1>2. Accounting /\ [Next]_clientVars => Accounting'
    BY NextAccounting
  <1> QED BY <1>1, <1>2, PTL DEF Spec

(* Counts never go negative, and lists and records hold blocks, whatever   *)
(* calls of the contract are made in whatever order.                       *)
THEOREM TypeCorrect == Spec => []TypeOK
  <1>1. Accounting => TypeOK
    BY DEF Accounting
  <1> QED BY <1>1, AccountingInvariant, PTL

(* The free lists hold exactly the unreferenced blocks, each once: no      *)
(* block is handed out twice, and none is lost.                            *)
THEOREM FreeListsExact == Spec => []FreeListExact
  <1>1. Accounting => FreeListExact
    BY DEF Accounting
  <1> QED BY <1>1, AccountingInvariant, PTL

(* A block's count is its pins plus its record: it is released exactly     *)
(* when the last of them is given back.                                    *)
THEOREM RefCountsExact == Spec => []RefCountExact
  <1>1. Accounting => RefCountExact
    BY DEF Accounting
  <1> QED BY <1>1, AccountingInvariant, PTL

(* No block is recorded twice: free_blocks of one sequence never releases  *)
(* a block of another.                                                     *)
THEOREM RecordsDisjoint == Spec => []RecordedOnce
  <1>1. Accounting => RecordedOnce
    BY DEF Accounting
  <1> QED BY <1>1, AccountingInvariant, PTL

-----------------------------------------------------------------------------
(* Refinement.  The mapping gives a block the one sequence it is recorded  *)
(* under and that is not inside free_blocks.  That sequence is unique      *)
(* because of the accounting (Accounting), so the holder is described by   *)
(* membership in seq_block_map alone (HoldIs), and every step maps to a    *)
(* step of the pool or to a stutter.                                       *)

(* HolderOf for a given map and a given sequence inside free_blocks. *)
Hold(map, f, b) ==
    IF \E s \in SeqIds \ {f} : b \in Range(map[s])
    THEN CHOOSE s \in SeqIds \ {f} : b \in Range(map[s])
    ELSE NoSeq

(* No block is in the entries of two sequences. *)
Unique(map) ==
    \A s, t \in SeqIds : \A b \in Blocks : b \in Range(map[s]) /\ b \in Range(map[t]) => s = t

(* The holder is the sequence that has the block, or nobody. *)
LEMMA HoldIs ==
    ASSUME NEW map, NEW f, NEW b \in Blocks, Unique(map)
    PROVE  /\ \A s \in SeqIds : (Hold(map, f, b) = s) <=> (s # f /\ b \in Range(map[s]))
           /\ (Hold(map, f, b) = NoSeq) <=> (\A s \in SeqIds \ {f} : b \notin Range(map[s]))
           /\ Hold(map, f, b) \in SeqIds \cup {NoSeq}
<1>1. CASE \E s \in SeqIds \ {f} : b \in Range(map[s])
  <2>1. PICK s \in SeqIds \ {f} : b \in Range(map[s]) /\ Hold(map, f, b) = s
      BY <1>1, Zenon DEF Hold
  <2>2. s # NoSeq
      BY BlockConstants
  <2>3. \A t \in SeqIds : b \in Range(map[t]) => t = s
      BY <2>1 DEF Unique
  <2> QED
      BY <2>1, <2>2, <2>3
<1>2. CASE ~ \E s \in SeqIds \ {f} : b \in Range(map[s])
  <2>1. Hold(map, f, b) = NoSeq
      BY <1>2, Zenon DEF Hold
  <2> QED
      BY <1>2, <2>1, BlockConstants
<1> QED
    BY <1>1, <1>2

(* Two maps in which the same sequences hold b give it the same holder. *)
LEMMA HoldSame ==
    ASSUME NEW m1, NEW f1, NEW m2, NEW f2, NEW b \in Blocks, Unique(m1), Unique(m2),
           \A s \in SeqIds : (s # f1 /\ b \in Range(m1[s])) <=> (s # f2 /\ b \in Range(m2[s]))
    PROVE  Hold(m1, f1, b) = Hold(m2, f2, b)
<1>1. CASE Hold(m1, f1, b) = NoSeq
  <2>1. \A s \in SeqIds \ {f1} : b \notin Range(m1[s])
      BY <1>1, HoldIs
  <2>2. \A s \in SeqIds \ {f2} : b \notin Range(m2[s])
      BY <2>1
  <2> QED
      BY <1>1, <2>2, HoldIs
<1>2. CASE Hold(m1, f1, b) # NoSeq
  <2>1. PICK s \in SeqIds : Hold(m1, f1, b) = s
      BY <1>2, HoldIs
  <2>2. s # f1 /\ b \in Range(m1[s])
      BY <2>1, HoldIs
  <2>3. s # f2 /\ b \in Range(m2[s])
      BY <2>2
  <2> QED
      BY <2>1, <2>3, HoldIs
<1> QED
    BY <1>1, <1>2

holders == [b \in Blocks |-> HolderOf(b)]

LEMMA HoldersAre == \A b \in Blocks : holders[b] = Hold(seq_block_map, freeing, b)
    BY Zenon DEF holders, HolderOf, Hold

(* The accounting makes holders unique. *)
LEMMA AccountingUnique == Accounting => Unique(seq_block_map)
<1> SUFFICES ASSUME Accounting, NEW s \in SeqIds, NEW t \in SeqIds, NEW b \in Blocks,
                    b \in Range(seq_block_map[s]), b \in Range(seq_block_map[t])
             PROVE  s = t
    BY DEF Unique
<1>1. OnceUnderOne
    BY OnceEquivalent DEF Accounting
<1> QED
    BY <1>1 DEF OnceUnderOne

(* Outside free_blocks a block is in use exactly when it is referenced. *)
LEMMA InUseIs ==
    ASSUME Accounting, freeing = NoSeq, NEW b \in Blocks
    PROVE  /\ (holders[b] = NoSeq) <=> ~Recorded(b)
           /\ Pool!InUse(b) <=> ref_count[b] > 0
           /\ ref_count[b] \in Nat /\ pins[b] \in Nat
           /\ Recorded(b) => ref_count[b] = pins[b] + 1
           /\ ~Recorded(b) => ref_count[b] = pins[b]
<1>1. /\ ref_count[b] \in Nat /\ pins[b] \in Nat
      /\ Recorded(b) => ref_count[b] = pins[b] + 1
      /\ ~Recorded(b) => ref_count[b] = pins[b]
    BY CountEquivalent DEF Accounting, CountCases, TypeOK, BMTypeOK
<1>2. (holders[b] = NoSeq) <=> ~Recorded(b)
  <2>1. SeqIds \ {freeing} = SeqIds
      BY BlockConstants
  <2>2. (Hold(seq_block_map, freeing, b) = NoSeq)
           <=> (\A s \in SeqIds \ {freeing} : b \notin Range(seq_block_map[s]))
      BY AccountingUnique, HoldIs
  <2> QED
      BY <2>1, <2>2, HoldersAre DEF Recorded
<1>3. Pool!InUse(b) <=> (holders[b] # NoSeq \/ pins[b] > 0)
    BY DEF Pool!InUse, holders
<1>4. (Recorded(b) \/ pins[b] > 0) <=> ref_count[b] > 0
  <2>1. CASE Recorded(b)
      BY <2>1, <1>1
  <2>2. CASE ~Recorded(b)
      BY <2>2, <1>1
  <2> QED
      BY <2>1, <2>2
<1> QED
    BY <1>1, <1>2, <1>3, <1>4

-----------------------------------------------------------------------------
(* The same two facts about the state after a step. *)
LEMMA HoldersAfter == \A b \in Blocks : holders'[b] = Hold(seq_block_map', freeing', b)
    BY Zenon DEF holders, HolderOf, Hold

LEMMA UniqueAfter == Accounting' => Unique(seq_block_map')
<1> SUFFICES ASSUME Accounting', NEW s \in SeqIds, NEW t \in SeqIds, NEW b \in Blocks,
                    b \in Range(seq_block_map'[s]), b \in Range(seq_block_map'[t])
             PROVE  s = t
    BY DEF Unique
<1>1. RecordedOnce' <=> OnceUnderOne'
    BY OnceEquivalent, PTL
<1>2. OnceUnderOne'
    BY <1>1 DEF Accounting
<1> QED
    BY <1>2 DEF OnceUnderOne

(* A step keeps a block's holder when the same sequences have the block.   *)
LEMMA HolderKept ==
    ASSUME Unique(seq_block_map), Unique(seq_block_map'), NEW b \in Blocks,
           \A s \in SeqIds : (s # freeing' /\ b \in Range(seq_block_map'[s]))
                              <=> (s # freeing /\ b \in Range(seq_block_map[s]))
    PROVE  holders'[b] = holders[b]
<1>1. Hold(seq_block_map', freeing', b) = Hold(seq_block_map, freeing, b)
    BY HoldSame
<1> QED
    BY <1>1, HoldersAfter, HoldersAre

(* A step that leaves the map alone leaves the holders alone. *)
LEMMA HoldersKept ==
    ASSUME UNCHANGED <<seq_block_map, freeing>>
    PROVE  holders' = holders
    BY Zenon DEF holders, HolderOf

(* Recording an unrecorded block under s makes s its holder. *)
LEMMA HoldersRecorded ==
    ASSUME Accounting, Accounting', freeing = NoSeq, freeing' = NoSeq,
           NEW s \in SeqIds, NEW c \in Blocks, ~Recorded(c),
           seq_block_map' = [seq_block_map EXCEPT ![s] = Append(@, c)]
    PROVE  holders' = [holders EXCEPT ![c] = s]
<1>1. Unique(seq_block_map) /\ Unique(seq_block_map') /\ s # NoSeq
    BY AccountingUnique, UniqueAfter, BlockConstants
<1>2. /\ Range(seq_block_map'[s]) = Range(seq_block_map[s]) \cup {c}
      /\ \A t \in SeqIds : t # s => Range(seq_block_map'[t]) = Range(seq_block_map[t])
  <2>1. seq_block_map \in [SeqIds -> Seq(Blocks)]
      BY DEF Accounting, TypeOK, BMTypeOK
  <2>2. /\ seq_block_map'[s] = Append(seq_block_map[s], c)
        /\ \A t \in SeqIds : t # s => seq_block_map'[t] = seq_block_map[t]
      BY <2>1
  <2>3. seq_block_map[s] \in Seq(Blocks)
      BY <2>1
  <2>4. Range(Append(seq_block_map[s], c)) = Range(seq_block_map[s]) \cup {c}
      BY <2>3, AppendElements
  <2> QED
      BY <2>2, <2>4, Zenon
<1>3. holders'[c] = s
  <2>1. c \in Range(seq_block_map'[s])
      BY <1>2
  <2>2. Hold(seq_block_map', freeing', c) = s
      BY <1>1, <2>1, HoldIs, Zenon
  <2> QED
      BY <2>2, HoldersAfter, Zenon
<1>4. ASSUME NEW b \in Blocks, b # c PROVE holders'[b] = holders[b]
  <2>1. \A t \in SeqIds : b \in Range(seq_block_map'[t]) <=> b \in Range(seq_block_map[t])
      BY <1>2, <1>4
  <2>2. \A t \in SeqIds : (t # freeing' /\ b \in Range(seq_block_map'[t]))
                            <=> (t # freeing /\ b \in Range(seq_block_map[t]))
      BY <2>1
  <2> QED
      BY <1>1, <2>2, HolderKept
<1>5. holders = [b \in Blocks |-> holders[b]] /\ holders' = [b \in Blocks |-> holders'[b]]
    BY DEF holders
<1> QED
    BY <1>3, <1>4, <1>5

(* Entering free_blocks gives up everything recorded under s at once. *)
LEMMA HoldersReleased ==
    ASSUME Accounting, freeing = NoSeq, NEW s \in SeqIds, freeing' = s,
           UNCHANGED seq_block_map
    PROVE  holders' = [b \in Blocks |-> IF holders[b] = s THEN NoSeq ELSE holders[b]]
<1>1. Unique(seq_block_map) /\ Unique(seq_block_map') /\ s # NoSeq
    BY AccountingUnique, BlockConstants
<1>2. ASSUME NEW b \in Blocks
      PROVE  holders'[b] = IF holders[b] = s THEN NoSeq ELSE holders[b]
  <2>1. holders[b] = Hold(seq_block_map, NoSeq, b) /\ holders'[b] = Hold(seq_block_map, s, b)
      BY HoldersAre, HoldersAfter
  <2>2. CASE b \in Range(seq_block_map[s])
    <3>1. Hold(seq_block_map, NoSeq, b) = s
        BY <1>1, <2>2, HoldIs
    <3>2. \A t \in SeqIds \ {s} : b \notin Range(seq_block_map[t])
        BY <1>1, <2>2 DEF Unique
    <3>3. Hold(seq_block_map, s, b) = NoSeq
        BY <1>1, <3>2, HoldIs
    <3> QED
        BY <2>1, <3>1, <3>3
  <2>3. CASE b \notin Range(seq_block_map[s])
    <3>1. Hold(seq_block_map, NoSeq, b) # s
        BY <1>1, <2>3, HoldIs
    <3>2. \A t \in SeqIds : (t # NoSeq /\ b \in Range(seq_block_map[t]))
                              <=> (t # s /\ b \in Range(seq_block_map[t]))
        BY <2>3, BlockConstants
    <3>3. Hold(seq_block_map, NoSeq, b) = Hold(seq_block_map, s, b)
        BY <1>1, <3>2, HoldSame
    <3> QED
        BY <2>1, <3>1, <3>3
  <2> QED
      BY <2>2, <2>3
<1>3. holders' = [b \in Blocks |-> holders'[b]]
    BY DEF holders
<1> QED
    BY <1>2, <1>3

(* Inside the loop only the freed sequence's own entry changes, which the  *)
(* mapping no longer looks at.                                             *)
LEMMA HoldersInLoop ==
    ASSUME Accounting, Accounting', freeing \in SeqIds, FreeBlocksNext
    PROVE  holders' = holders
<1>1. Unique(seq_block_map) /\ Unique(seq_block_map') /\ freeing' = freeing
    BY AccountingUnique, UniqueAfter DEF FreeBlocksNext
<1>2. \A t \in SeqIds \ {freeing} : seq_block_map'[t] = seq_block_map[t]
    BY DEF FreeBlocksNext, Accounting, TypeOK, BMTypeOK
<1>3. ASSUME NEW b \in Blocks PROVE holders'[b] = holders[b]
  <2>1. \A t \in SeqIds : (t # freeing' /\ b \in Range(seq_block_map'[t]))
                            <=> (t # freeing /\ b \in Range(seq_block_map[t]))
      BY <1>1, <1>2
  <2> QED
      BY <1>1, <2>1, HolderKept
<1>4. holders = [b \in Blocks |-> holders[b]] /\ holders' = [b \in Blocks |-> holders'[b]]
    BY DEF holders
<1> QED
    BY <1>3, <1>4

(* Leaving the loop, the entry is empty: nothing is held under it.         *)
LEMMA HoldersReturned ==
    ASSUME Accounting, freeing \in SeqIds, FreeBlocksReturn
    PROVE  holders' = holders
<1>1. /\ Unique(seq_block_map) /\ Unique(seq_block_map')
      /\ freeing' = NoSeq /\ seq_block_map' = seq_block_map
      /\ Range(seq_block_map[freeing]) = {}
    BY AccountingUnique DEF FreeBlocksReturn, Range
<1>2. ASSUME NEW b \in Blocks PROVE holders'[b] = holders[b]
  <2>1. \A t \in SeqIds : (t # freeing' /\ b \in Range(seq_block_map'[t]))
                            <=> (t # freeing /\ b \in Range(seq_block_map[t]))
      BY <1>1, BlockConstants
  <2> QED
      BY <1>1, <2>1, HolderKept
<1>3. holders = [b \in Blocks |-> holders[b]] /\ holders' = [b \in Blocks |-> holders'[b]]
    BY DEF holders
<1> QED
    BY <1>2, <1>3

-----------------------------------------------------------------------------
(* A step of the pool, or a stutter, under the refinement mapping. *)
PoolStep == [Pool!Next]_(Pool!poolVars)

LEMMA PoolStutter == holders' = holders /\ pins' = pins => PoolStep
    BY Zenon DEF PoolStep, Pool!poolVars, holders

(* allocate_block hands out a block of the pool, or fails and changes      *)
(* nothing.                                                                *)
LEMMA AllocateRefines ==
    ASSUME Accounting, Accounting', NEW s \in SeqIds, NEW d \in Device, Allocate(s, d)
    PROVE  PoolStep
<1>1. freeing = NoSeq /\ freeing' = NoSeq /\ pins' = pins
    BY DEF Allocate, allocate_block
<1>2. CASE free_list[d] = <<>>
  <2>1. UNCHANGED <<seq_block_map, freeing>>
      BY <1>2 DEF Allocate, allocate_block
  <2> QED
      BY <1>1, <2>1, HoldersKept, PoolStutter
<1>3. CASE free_list[d] # <<>>
  <2>1. TakeBack(s, d)
      BY <1>3 DEF Allocate, allocate_block
  <2>2. PICK c \in Blocks : c = PoppedBlock(d) /\ ref_count[c] = 0
      BY <1>3, <2>1, TakeIsFree DEF Accounting, TypeOK
  <2>3. ~Recorded(c) /\ ~Pool!InUse(c)
      BY <1>1, <2>2, InUseIs
  <2>4. seq_block_map' = [seq_block_map EXCEPT ![s] = Append(@, c)]
      BY <2>1, <2>2 DEF TakeBack
  <2>5. holders' = [holders EXCEPT ![c] = s]
      BY <1>1, <2>3, <2>4, HoldersRecorded, Zenon
  <2>6. Pool!Allocate(s, c)
      BY <1>1, <2>3, <2>5, Zenon DEF Pool!Allocate, holders
  <2> QED
      BY <2>6, Zenon DEF PoolStep, Pool!Next
<1> QED
    BY <1>2, <1>3

(* A reference is taken only on a block in use. *)
LEMMA PinRefines ==
    ASSUME Accounting, NEW b \in Blocks, Pin(b)
    PROVE  PoolStep
<1>1. /\ freeing = NoSeq /\ ref_count[b] > 0
      /\ UNCHANGED <<seq_block_map, freeing>>
      /\ pins' = [pins EXCEPT ![b] = @ + 1]
    BY DEF Pin, increment_ref
<1>2. Pool!InUse(b)
    BY <1>1, InUseIs
<1>3. holders' = holders
    BY <1>1, HoldersKept
<1>4. Pool!Pin(b)
    BY <1>1, <1>2, <1>3, Zenon DEF Pool!Pin, holders
<1> QED
    BY <1>4, Zenon DEF PoolStep, Pool!Next

(* Giving a reference back does not look at the map. *)
LEMMA UnpinRefines ==
    ASSUME NEW b \in Blocks, UnpinByDecrement(b) \/ UnpinByFree(b)
    PROVE  PoolStep
<1>1. /\ pins[b] > 0 /\ pins' = [pins EXCEPT ![b] = @ - 1]
      /\ UNCHANGED <<seq_block_map, freeing>>
    BY DEF UnpinByDecrement, UnpinByFree, decrement_ref, free_block
<1>2. holders' = holders
    BY <1>1, HoldersKept
<1>3. Pool!Unpin(b)
    BY <1>1, <1>2, Zenon DEF Pool!Unpin, holders
<1> QED
    BY <1>3, Zenon DEF PoolStep, Pool!Next

(* copy_on_write trades the pin for the block itself when that is its only *)
(* reference and for a free block otherwise; without one it does nothing.  *)
LEMMA ForkRefines ==
    ASSUME Accounting, Accounting', NEW b \in Blocks, NEW s \in SeqIds, Fork(b, s)
    PROVE  PoolStep
<1>1. freeing = NoSeq /\ freeing' = NoSeq /\ pins[b] > 0 /\ b[1] \in Device
    BY BlockFacts DEF Fork, copy_on_write
<1>2. /\ (holders[b] = NoSeq) <=> ~Recorded(b)
      /\ ref_count[b] \in Nat /\ pins[b] \in Nat
      /\ Recorded(b) => ref_count[b] = pins[b] + 1
      /\ ~Recorded(b) => ref_count[b] = pins[b]
    BY <1>1, InUseIs
<1>3. (holders[b] = NoSeq /\ pins[b] = 1) <=> ref_count[b] = 1
  <2>1. CASE Recorded(b)
    <3>1. holders[b] # NoSeq /\ ref_count[b] # 1
        BY <1>1, <1>2, <2>1
    <3> QED
        BY <3>1
  <2>2. CASE ~Recorded(b)
    <3>1. holders[b] = NoSeq /\ ref_count[b] = pins[b]
        BY <1>2, <2>2
    <3> QED
        BY <3>1
  <2> QED
      BY <2>1, <2>2
<1>4. ASSUME NEW c \in Blocks, ~Recorded(c),
             IF ref_count[b] = 1 THEN c = b ELSE ~Pool!InUse(c),
             pins' = [pins EXCEPT ![b] = @ - 1],
             seq_block_map' = [seq_block_map EXCEPT ![s] = Append(@, c)]
      PROVE  PoolStep
  <2>1. holders' = [holders EXCEPT ![c] = s]
      BY <1>1, <1>4, HoldersRecorded, Zenon
  <2>2. IF holders[b] = NoSeq /\ pins[b] = 1 THEN c = b ELSE ~Pool!InUse(c)
      BY <1>3, <1>4, Zenon
  <2>3. Pool!Trade(b, s, c)
      BY <1>1, <1>4, <2>1, <2>2, Zenon DEF Pool!Trade, holders
  <2> QED
      BY <1>4, <2>3, Zenon DEF PoolStep, Pool!Next
<1>5. CASE ref_count[b] = 1
  <2>1. /\ seq_block_map' = [seq_block_map EXCEPT ![s] = Append(@, b)]
        /\ pins' = [pins EXCEPT ![b] = @ - 1]
      BY <1>5, BlockFacts DEF Fork, copy_on_write, CowResult
  <2>2. ~Recorded(b)
      BY <1>2, <1>3, <1>5
  <2> QED
      BY <1>4, <1>5, <2>1, <2>2, Zenon
<1>6. CASE ref_count[b] # 1 /\ free_list[b[1]] = <<>>
  <2>1. UNCHANGED <<seq_block_map, freeing, pins>>
      BY <1>6 DEF Fork, copy_on_write, CowResult, PoppedBlock
  <2> QED
      BY <2>1, HoldersKept, PoolStutter
<1>7. CASE ref_count[b] # 1 /\ free_list[b[1]] # <<>>
  <2>1. TakeBack(s, b[1])
      BY <1>7 DEF Fork, copy_on_write
  <2>2. PICK c \in Blocks : c = PoppedBlock(b[1]) /\ ref_count[c] = 0
      BY <1>1, <1>7, <2>1, TakeIsFree DEF Accounting, TypeOK
  <2>3. ~Recorded(c) /\ ~Pool!InUse(c)
      BY <1>1, <2>2, InUseIs
  <2>4. seq_block_map' = [seq_block_map EXCEPT ![s] = Append(@, c)]
      BY <2>1, <2>2 DEF TakeBack
  <2>5. pins' = [pins EXCEPT ![b] = @ - 1]
      BY <1>7, <2>2, BlockFacts DEF Fork, CowResult
  <2> QED
      BY <1>4, <1>7, <2>3, <2>4, <2>5, Zenon
<1> QED
    BY <1>5, <1>6, <1>7

(* free_blocks is one release, at its start; the loop is invisible.        *)
LEMMA FreeRefines ==
    ASSUME Accounting, Accounting', (\E s \in SeqIds : FreeSeq(s)) \/ FreeSeqStep
    PROVE  PoolStep
<1>1. ASSUME NEW s \in SeqIds, FreeSeq(s) PROVE PoolStep
  <2>1. freeing = NoSeq /\ freeing' = s /\ UNCHANGED <<seq_block_map, pins>>
      BY <1>1 DEF FreeSeq, EnterFreeBlocks
  <2>2. holders' = [b \in Blocks |-> IF holders[b] = s THEN NoSeq ELSE holders[b]]
      BY <2>1, HoldersReleased
  <2>3. Pool!Release(s)
      BY <2>1, <2>2, Zenon DEF Pool!Release, holders
  <2> QED
      BY <2>3, Zenon DEF PoolStep, Pool!Next
<1>2. ASSUME FreeSeqStep PROVE PoolStep
  <2>1. freeing \in SeqIds /\ pins' = pins
      BY <1>2 DEF FreeSeqStep, FreeBlocksNext, FreeBlocksReturn, Accounting, TypeOK, BMTypeOK
  <2>2. holders' = holders
      BY <1>2, <2>1, HoldersInLoop, HoldersReturned DEF FreeSeqStep
  <2> QED
      BY <2>1, <2>2, PoolStutter
<1> QED
    BY <1>1, <1>2

(* Every step of the block manager is a step of the pool or a stutter. *)
LEMMA StepRefines == Accounting /\ Accounting' /\ [Next]_clientVars => PoolStep
<1> SUFFICES ASSUME Accounting, Accounting', [Next]_clientVars PROVE PoolStep
    OBVIOUS
<1>1. CASE UNCHANGED clientVars
    BY <1>1, HoldersKept, PoolStutter DEF clientVars, bmVars
<1>2. CASE Next
    BY <1>2, AllocateRefines, PinRefines, UnpinRefines, ForkRefines, FreeRefines, Zenon DEF Next
<1> QED
    BY <1>1, <1>2

(* Initially nothing is held. *)
LEMMA InitRefines == Init => Pool!Init
<1> SUFFICES ASSUME Init PROVE Pool!Init
    OBVIOUS
<1>1. \A s \in SeqIds : Range(seq_block_map[s]) = {}
    BY DEF Init, BMInit, Range
<1>2. \A b \in Blocks : HolderOf(b) = NoSeq
    BY <1>1, Zenon DEF HolderOf
<1>3. pins = [b \in Blocks |-> 0]
    BY DEF Init
<1> QED
    BY <1>2, <1>3, Zenon DEF Pool!Init

(* For any number of blocks, sequences and pins, the block manager         *)
(* implements the pool: whatever calls are made in whatever order, a block *)
(* in use is never handed out, and free_blocks gives up exactly the        *)
(* sequence's own blocks.                                                  *)
THEOREM ImplementsPool == Spec => RefinesPool
<1>1. Init => Pool!Init
    BY InitRefines
<1>2. Accounting /\ Accounting' /\ [Next]_clientVars => [Pool!Next]_(Pool!poolVars)
    BY StepRefines DEF PoolStep
<1> QED
    BY <1>1, <1>2, AccountingInvariant, PTL DEF Spec, RefinesPool, Pool!Spec

=============================================================================
