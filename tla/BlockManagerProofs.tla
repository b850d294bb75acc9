------------------------- MODULE BlockManagerProofs -------------------------
(***************************************************************************)
(* What the proofs about the block manager's clients share: facts about    *)
(* sequences without repetitions (queues, free lists, records), and what   *)
(* one operation of the block manager does to its lists and records.       *)
(***************************************************************************)
EXTENDS BlockManager, SequenceTheorems, TLAPS

(* Facts about sequences: what Append, PopBack and Tail do to the set of     *)
(* elements, and to a sequence without repetitions.                        *)
LEMMA RangeInSet ==
    ASSUME NEW S, NEW s \in Seq(S)
    PROVE  Range(s) \subseteq S
  BY LenProperties, ElementOfSeq DEF Range

(* Appending adds the element, and keeps a sequence injective if it is new. *)
LEMMA AppendElements ==
    ASSUME NEW S, NEW s \in Seq(S), NEW e \in S
    PROVE  /\ Append(s, e) \in Seq(S)
           /\ Range(Append(s, e)) = Range(s) \cup {e}
           /\ IsInjective(s) /\ e \notin Range(s) => IsInjective(Append(s, e))
  <1> DEFINE t == Append(s, e)
  <1>1. /\ t \in Seq(S) /\ Len(t) = Len(s) + 1 /\ Len(s) \in Nat
        /\ DOMAIN s = 1 .. Len(s) /\ DOMAIN t = 1 .. Len(s) + 1
        /\ \A i \in 1 .. Len(s) : t[i] = s[i]
        /\ t[Len(s) + 1] = e
    BY AppendProperties, LenProperties
  <1> HIDE DEF t
  <1>2. \A i \in DOMAIN t : i \in DOMAIN s \/ i = Len(s) + 1
    BY <1>1
  <1>3. Range(t) = Range(s) \cup {e}
    BY <1>1, <1>2 DEF Range
  <1>4. IsInjective(s) /\ e \notin Range(s) => IsInjective(t)
    BY <1>1, <1>2 DEF IsInjective, Range
  <1> QED BY <1>1, <1>3, <1>4 DEF t

(* pop_free takes off the last element, and of an injective list only that. *)
LEMMA PopBackElements ==
    ASSUME NEW S, NEW s \in Seq(S), s # <<>>, IsInjective(s)
    PROVE  /\ PopBack(s) \in Seq(S)
           /\ Back(s) \in S /\ Back(s) \in Range(s)
           /\ Range(PopBack(s)) = Range(s) \ {Back(s)}
           /\ IsInjective(PopBack(s))
  <1> DEFINE t == PopBack(s)
  <1>1. Len(s) \in Nat \ {0} /\ DOMAIN s = 1 .. Len(s) /\ \A i \in 1 .. Len(s) : s[i] \in S
    BY EmptySeq, LenProperties, ElementOfSeq
  <1>2. /\ t \in Seq(S) /\ Len(t) = Len(s) - 1
        /\ \A i \in 1 .. Len(s) - 1 : t[i] = s[i]
    <2>1. \A i \in 1 .. Len(s) - 1 : s[i] \in S
      BY <1>1
    <2>2. Len(s) - 1 \in Int
      BY <1>1
    <2> QED BY <1>1, <2>1, <2>2, SubSeqProperties DEF PopBack
  <1>3. DOMAIN t = 1 .. Len(s) - 1
    BY <1>2, LenProperties
  <1> HIDE DEF t
  <1>4. \A i \in DOMAIN s : i \in DOMAIN t \/ i = Len(s)
    BY <1>1, <1>3
  <1>5. \A i \in DOMAIN t : i \in DOMAIN s /\ i # Len(s) /\ t[i] = s[i]
    BY <1>1, <1>2, <1>3
  <1>6. Len(s) \in DOMAIN s
    BY <1>1
  <1>7. Range(t) = Range(s) \ {Back(s)}
    BY <1>4, <1>5, <1>6 DEF Range, IsInjective, Back
  <1>8. IsInjective(t)
    BY <1>5 DEF IsInjective
  <1> QED BY <1>1, <1>2, <1>6, <1>7, <1>8, Zenon DEF t, Back, Range

(* The free_blocks loop takes off the first element, and only that. *)
LEMMA TailElements ==
    ASSUME NEW S, NEW s \in Seq(S), s # <<>>, IsInjective(s)
    PROVE  /\ Tail(s) \in Seq(S)
           /\ Head(s) \in S /\ Head(s) \in Range(s)
           /\ Range(Tail(s)) = Range(s) \ {Head(s)}
           /\ IsInjective(Tail(s))
  <1> DEFINE t == Tail(s)
  <1>1. Len(s) \in Nat \ {0} /\ DOMAIN s = 1 .. Len(s) /\ Head(s) = s[1]
    BY EmptySeq, LenProperties
  <1>2. /\ t \in Seq(S) /\ Len(t) = Len(s) - 1 /\ Head(s) \in S
        /\ \A i \in 1 .. Len(s) - 1 : t[i] = s[i + 1]
    BY HeadTailProperties
  <1>3. DOMAIN t = 1 .. Len(s) - 1
    BY <1>2, LenProperties
  <1> HIDE DEF t
  <1>4. \A i \in DOMAIN s : i = 1 \/ (i - 1 \in DOMAIN t /\ s[i] = t[i - 1])
    BY <1>1, <1>2, <1>3
  <1>5. \A i \in DOMAIN t : i + 1 \in DOMAIN s /\ i + 1 # 1 /\ t[i] = s[i + 1]
    BY <1>1, <1>2, <1>3
  <1>6. 1 \in DOMAIN s
    BY <1>1
  <1>7. Range(t) = Range(s) \ {Head(s)}
    BY <1>1, <1>4, <1>5, <1>6 DEF Range, IsInjective
  <1>8. \A i, j \in DOMAIN t : t[i] = t[j] => i = j
    BY <1>1, <1>3, <1>5 DEF IsInjective
  <1> QED BY <1>1, <1>2, <1>6, <1>7, <1>8 DEF t, Range, IsInjective

(* Concatenating two sequences without common elements. *)
LEMMA ConcatElements ==
    ASSUME NEW S, NEW s \in Seq(S), NEW t \in Seq(S)
    PROVE  /\ s \o t \in Seq(S)
           /\ Range(s \o t) = Range(s) \cup Range(t)
           /\ IsInjective(s) /\ IsInjective(t) /\ Range(s) \cap Range(t) = {}
                => IsInjective(s \o t)
  <1> DEFINE c == s \o t
  <1>1. /\ c \in Seq(S) /\ Len(s) \in Nat /\ Len(t) \in Nat
        /\ DOMAIN s = 1 .. Len(s) /\ DOMAIN t = 1 .. Len(t)
        /\ DOMAIN c = 1 .. Len(s) + Len(t)
        /\ \A i \in 1 .. Len(s) + Len(t) : c[i] = IF i <= Len(s) THEN s[i] ELSE t[i - Len(s)]
    BY ConcatProperties, LenProperties
  <1> HIDE DEF c
  <1>2. /\ \A i \in DOMAIN s : i \in DOMAIN c /\ c[i] = s[i]
        /\ \A i \in DOMAIN t : i + Len(s) \in DOMAIN c /\ c[i + Len(s)] = t[i]
        /\ \A i \in DOMAIN c : \/ i \in DOMAIN s /\ c[i] = s[i]
                               \/ i - Len(s) \in DOMAIN t /\ c[i] = t[i - Len(s)]
    BY <1>1
  <1>3. Range(c) = Range(s) \cup Range(t)
    BY <1>2 DEF Range
  <1>4. ASSUME IsInjective(s), IsInjective(t), Range(s) \cap Range(t) = {},
               NEW i \in DOMAIN c, NEW j \in DOMAIN c, c[i] = c[j]
        PROVE  i = j
    <2>1. \A k \in DOMAIN s, n \in DOMAIN t : s[k] # t[n]
      BY <1>4, Zenon DEF Range
    <2>2. CASE i \in DOMAIN s /\ c[i] = s[i]
      <3>1. j \in DOMAIN s /\ c[j] = s[j]
        BY <1>2, <1>4, <2>1, <2>2, Zenon
      <3> QED BY <1>4, <2>2, <3>1, Zenon DEF IsInjective
    <2>3. CASE i - Len(s) \in DOMAIN t /\ c[i] = t[i - Len(s)]
      <3>1. j - Len(s) \in DOMAIN t /\ c[j] = t[j - Len(s)]
        BY <1>2, <1>4, <2>1, <2>3, Zenon
      <3>2. i - Len(s) = j - Len(s)
        BY <1>4, <2>3, <3>1, Zenon DEF IsInjective
      <3> QED BY <1>1, <3>2
    <2> QED BY <1>2, <2>2, <2>3
  <1> QED BY <1>1, <1>3, <1>4 DEF c, IsInjective

(* Putting one element in front. *)
LEMMA PrependElements ==
    ASSUME NEW S, NEW s \in Seq(S), NEW e \in S
    PROVE  /\ <<e>> \o s \in Seq(S)
           /\ Range(<<e>> \o s) = Range(s) \cup {e}
           /\ IsInjective(s) /\ e \notin Range(s) => IsInjective(<<e>> \o s)
  <1> DEFINE o == <<e>>
  <1>1. o \in Seq(S) /\ Range(o) = {e} /\ IsInjective(o)
    BY DEF Range, IsInjective
  <1> HIDE DEF o
  <1>2. /\ o \o s \in Seq(S)
        /\ Range(o \o s) = Range(o) \cup Range(s)
        /\ IsInjective(o) /\ IsInjective(s) /\ Range(o) \cap Range(s) = {}
             => IsInjective(o \o s)
    BY <1>1, ConcatElements
  <1> QED BY <1>1, <1>2 DEF o

-----------------------------------------------------------------------------
(* Blocks by their definition: every block names its device, and           *)
(* INVALID_BLOCK is none of them.                                          *)
LEMMA BlockFacts ==
    /\ \A b \in Blocks : b[1] \in Device
    /\ INVALID_BLOCK \notin Blocks
    /\ \A d \in Device : \A i \in 0 .. NumBlocks(d) - 1 : <<d, i>> \in Blocks
    /\ \A b \in Blocks : \E d \in Device : \E i \in 0 .. NumBlocks(d) - 1 : b = <<d, i>>
    /\ \A d \in Device : NumBlocks(d) \in Nat
  BY BlockConstants DEF Blocks, Device, INVALID_BLOCK, NumBlocks

(* RecordedOnce in terms of the sets of recorded blocks. *)
OnceUnderOne ==
    /\ \A s \in SeqIds : IsInjective(seq_block_map[s])
    /\ \A s, t \in SeqIds :
           s # t => Range(seq_block_map[s]) \cap Range(seq_block_map[t]) = {}

(* The two formulations of "recorded once" agree. *)
LEMMA OnceEquivalent == RecordedOnce <=> OnceUnderOne
  <1>1. ASSUME RecordedOnce PROVE OnceUnderOne
    <2>1. ASSUME NEW s \in SeqIds PROVE IsInjective(seq_block_map[s])
      BY <1>1, <2>1 DEF RecordedOnce, IsInjective
    <2>2. ASSUME NEW s \in SeqIds, NEW t \in SeqIds, s # t
          PROVE  Range(seq_block_map[s]) \cap Range(seq_block_map[t]) = {}
      BY <1>1, <2>2 DEF RecordedOnce, Range
    <2> QED
      BY <2>1, <2>2 DEF OnceUnderOne
  <1>2. ASSUME OnceUnderOne PROVE RecordedOnce
    <2> SUFFICES ASSUME NEW s \in SeqIds, NEW t \in SeqIds,
                        NEW i \in DOMAIN seq_block_map[s],
                        NEW j \in DOMAIN seq_block_map[t],
                        seq_block_map[s][i] = seq_block_map[t][j]
                 PROVE  s = t /\ i = j
      BY DEF RecordedOnce
    <2>1. /\ seq_block_map[s][i] \in Range(seq_block_map[s])
          /\ seq_block_map[t][j] \in Range(seq_block_map[t])
      BY DEF Range
    <2>2. s = t
      BY <1>2, <2>1 DEF OnceUnderOne
    <2>3. IsInjective(seq_block_map[s])
      BY <1>2 DEF OnceUnderOne
    <2> QED
      BY <2>2, <2>3 DEF IsInjective
  <1> QED
    BY <1>1, <1>2

-----------------------------------------------------------------------------
(* Dropping a reference that is held keeps the free list exact: the block  *)
(* is pushed just when its count reaches zero, and was not in the list.    *)
LEMMA DropKeepsList ==
    ASSUME BMTypeOK, FreeListExact, NEW b \in Blocks, ref_count[b] > 0, DropRef(b)
    PROVE  /\ ref_count' = [ref_count EXCEPT ![b] = @ - 1]
           /\ ref_count' \in [Blocks -> Nat]
           /\ free_list' \in [Device -> Seq(Blocks)]
           /\ FreeListExact'
  <1> USE DEF BMTypeOK
  <1>1. ref_count' = [ref_count EXCEPT ![b] = @ - 1] /\ ref_count' \in [Blocks -> Nat]
    <2>1. ref_count[b] \in Nat /\ ref_count[b] - 1 \in Nat
      BY SMT
    <2>2. CASE ref_count[b] = 1
      <3>1. ref_count' = [ref_count EXCEPT ![b] = 0]
        BY <2>2 DEF DropRef
      <3> QED BY <2>1, <2>2, <3>1
    <2>3. CASE ref_count[b] # 1
      <3>1. ~(ref_count[b] - 1 <= 0)
        BY <2>1, <2>3
      <3>2. ref_count' = [ref_count EXCEPT ![b] = @ - 1]
        BY <3>1 DEF DropRef
      <3> QED BY <2>1, <3>2
    <2> QED BY <2>2, <2>3
  <1>2. b[1] \in Device
    BY BlockFacts
  <1>3. CASE ref_count[b] = 1
    <2> DEFINE f == Append(free_list[b[1]], b)
    <2>1. free_list' = [free_list EXCEPT ![b[1]] = f]
      BY <1>3 DEF DropRef
    <2>2. b \notin Range(free_list[b[1]])
      BY <1>2, <1>3 DEF FreeListExact
    <2>3. /\ f \in Seq(Blocks)
          /\ Range(f) = Range(free_list[b[1]]) \cup {b}
          /\ IsInjective(f)
      BY <1>2, <2>2, AppendElements DEF FreeListExact
    <2> HIDE DEF f
    <2>4. \A c \in Blocks : ref_count'[c] = 0 <=> (ref_count[c] = 0 \/ c = b)
      BY <1>1, <1>3
    <2>5. free_list' \in [Device -> Seq(Blocks)]
      BY <2>1, <2>3, Zenon
    <2>6. ASSUME NEW d \in Device
          PROVE  /\ IsInjective(free_list'[d])
                 /\ Range(free_list'[d]) = {c \in Blocks : c[1] = d /\ ref_count'[c] = 0}
      <3>1. CASE d = b[1]
        <4>1. free_list'[d] = f
          BY <2>1, <3>1
        <4> QED BY <2>3, <2>4, <3>1, <4>1 DEF FreeListExact
      <3>2. CASE d # b[1]
        <4>1. free_list'[d] = free_list[d]
          BY <2>1, <3>2
        <4> QED BY <2>4, <3>2, <4>1 DEF FreeListExact
      <3> QED BY <3>1, <3>2
    <2> QED BY <1>1, <2>5, <2>6 DEF FreeListExact
  <1>4. CASE ref_count[b] # 1
    <2>1. free_list' = free_list
      BY <1>4 DEF DropRef
    <2>2. \A c \in Blocks : ref_count'[c] = 0 <=> ref_count[c] = 0
      BY <1>1, <1>4
    <2> QED BY <1>1, <2>1, <2>2 DEF FreeListExact
  <1> QED BY <1>3, <1>4

(* pop_free of a nonempty list returns a block of the device that nobody   *)
(* references, and takes exactly that block out of the lists.              *)
LEMMA TakeIsFree ==
    ASSUME BMTypeOK, FreeListExact, NEW s \in SeqIds, NEW d \in Device,
           free_list[d] # <<>>, TakeBack(s, d)
    PROVE  /\ PoppedBlock(d) \in Blocks /\ PoppedBlock(d)[1] = d
           /\ ref_count[PoppedBlock(d)] = 0
           /\ free_list' \in [Device -> Seq(Blocks)]
           /\ \A e \in Device :
                 /\ IsInjective(free_list'[e])
                 /\ Range(free_list'[e]) = Range(free_list[e]) \ {PoppedBlock(d)}
  <1> DEFINE c == PoppedBlock(d)
  <1>1. c = Back(free_list[d]) /\ free_list' = [free_list EXCEPT ![d] = PopBack(free_list[d])]
    BY DEF PoppedBlock, TakeBack
  <1>2. /\ PopBack(free_list[d]) \in Seq(Blocks)
        /\ c \in Blocks /\ c \in Range(free_list[d])
        /\ Range(PopBack(free_list[d])) = Range(free_list[d]) \ {c}
        /\ IsInjective(PopBack(free_list[d]))
    <2>1. free_list[d] \in Seq(Blocks) /\ IsInjective(free_list[d])
      BY DEF BMTypeOK, FreeListExact
    <2> HIDE DEF c
    <2> QED BY <1>1, <2>1, PopBackElements
  <1> HIDE DEF c
  <1>3. c[1] = d /\ ref_count[c] = 0
    BY <1>2 DEF FreeListExact
  <1>4. ASSUME NEW e \in Device
        PROVE  /\ IsInjective(free_list'[e])
               /\ Range(free_list'[e]) = Range(free_list[e]) \ {c}
    <2>1. CASE e = d
      <3>1. free_list'[e] = PopBack(free_list[d])
        BY <1>1, <2>1 DEF BMTypeOK
      <3> QED BY <1>2, <2>1, <3>1
    <2>2. CASE e # d
      <3>1. free_list'[e] = free_list[e]
        BY <1>1, <2>2 DEF BMTypeOK
      <3>2. c \notin Range(free_list[e])
        BY <1>3, <2>2 DEF FreeListExact
      <3> QED BY <3>1, <3>2 DEF FreeListExact
    <2> QED BY <2>1, <2>2
  <1>5. free_list' \in [Device -> Seq(Blocks)]
    BY <1>1, <1>2 DEF BMTypeOK
  <1> QED BY <1>2, <1>3, <1>4, <1>5 DEF c

(* Recording a block that nobody has recorded keeps blocks recorded once.  *)
LEMMA RecordNew ==
    ASSUME BMTypeOK, RecordedOnce, NEW s \in SeqIds, NEW c \in Blocks, ~Recorded(c),
           seq_block_map' = [seq_block_map EXCEPT ![s] = Append(@, c)]
    PROVE  /\ seq_block_map' \in [SeqIds -> Seq(Blocks)]
           /\ RecordedOnce'
           /\ \A b \in Blocks : Recorded(b)' <=> (Recorded(b) \/ b = c)
  <1> DEFINE m == Append(seq_block_map[s], c)
  <1>1. seq_block_map' = [seq_block_map EXCEPT ![s] = m]
    OBVIOUS
  <1>2. \A t \in SeqIds : c \notin Range(seq_block_map[t])
    BY DEF Recorded
  <1>3. OnceUnderOne
    BY OnceEquivalent
  <1>4. m \in Seq(Blocks) /\ Range(m) = Range(seq_block_map[s]) \cup {c} /\ IsInjective(m)
    BY <1>2, <1>3, AppendElements DEF BMTypeOK, OnceUnderOne
  <1> HIDE DEF m
  <1>5. /\ seq_block_map'[s] = m
        /\ \A t \in SeqIds \ {s} : seq_block_map'[t] = seq_block_map[t]
        /\ seq_block_map' \in [SeqIds -> Seq(Blocks)]
    BY <1>1, <1>4 DEF BMTypeOK
  <1>6. OnceUnderOne'
    <2>1. \A t \in SeqIds : IsInjective(seq_block_map'[t])
      BY <1>3, <1>4, <1>5, Zenon DEF OnceUnderOne
    <2>2. \A t \in SeqIds \ {s} : Range(m) \cap Range(seq_block_map[t]) = {}
      BY <1>2, <1>3, <1>4, Zenon DEF OnceUnderOne
    <2>3. \A t, u \in SeqIds :
             t # u => Range(seq_block_map'[t]) \cap Range(seq_block_map'[u]) = {}
      BY <1>3, <1>5, <2>2, Zenon DEF OnceUnderOne
    <2> QED BY <2>1, <2>3, Zenon DEF OnceUnderOne
  <1>7. \A b \in Blocks : Recorded(b)' <=> (Recorded(b) \/ b = c)
    BY <1>4, <1>5, Zenon DEF Recorded
  <1>8. RecordedOnce'
    BY <1>6, OnceEquivalent, PTL
  <1> QED BY <1>5, <1>7, <1>8

(* Taking the first entry off a sequence's record leaves the block         *)
(* unrecorded, because it was recorded once.                               *)
LEMMA Unrecord ==
    ASSUME BMTypeOK, RecordedOnce, NEW s \in SeqIds, seq_block_map[s] # <<>>,
           seq_block_map' = [seq_block_map EXCEPT ![s] = Tail(@)]
    PROVE  /\ Head(seq_block_map[s]) \in Blocks /\ Recorded(Head(seq_block_map[s]))
           /\ seq_block_map' \in [SeqIds -> Seq(Blocks)]
           /\ RecordedOnce'
           /\ \A b \in Blocks :
                 Recorded(b)' <=> (Recorded(b) /\ b # Head(seq_block_map[s]))
  <1> DEFINE m == Tail(seq_block_map[s])
             c == Head(seq_block_map[s])
  <1>1. seq_block_map' = [seq_block_map EXCEPT ![s] = m]
    OBVIOUS
  <1>2. OnceUnderOne
    BY OnceEquivalent
  <1>3. /\ m \in Seq(Blocks) /\ c \in Blocks /\ c \in Range(seq_block_map[s])
        /\ Range(m) = Range(seq_block_map[s]) \ {c} /\ IsInjective(m)
    BY <1>2, TailElements DEF BMTypeOK, OnceUnderOne
  <1> HIDE DEF m, c
  <1>4. /\ seq_block_map'[s] = m
        /\ \A t \in SeqIds \ {s} : seq_block_map'[t] = seq_block_map[t]
        /\ seq_block_map' \in [SeqIds -> Seq(Blocks)]
    BY <1>1, <1>3 DEF BMTypeOK
  <1>5. \A t \in SeqIds \ {s} : c \notin Range(seq_block_map[t])
    BY <1>2, <1>3, Zenon DEF OnceUnderOne
  <1>6. OnceUnderOne'
    BY <1>2, <1>3, <1>4, Zenon DEF OnceUnderOne
  <1>7. \A b \in Blocks : Recorded(b)' <=> (Recorded(b) /\ b # c)
    BY <1>3, <1>4, <1>5, Zenon DEF Recorded
  <1>8. RecordedOnce'
    BY <1>6, OnceEquivalent, PTL
  <1> QED BY <1>3, <1>4, <1>7, <1>8 DEF c, Recorded

(* Taking a free block c into use, with a count of 1, keeps the lists exact. *)
LEMMA TakeKeepsLists ==
    ASSUME BMTypeOK, FreeListExact, NEW c \in Blocks,
           \A e \in Device :
                 /\ IsInjective(free_list'[e])
                 /\ Range(free_list'[e]) = Range(free_list[e]) \ {c},
           \A b \in Blocks : ref_count'[b] = 0 <=> (ref_count[b] = 0 /\ b # c)
    PROVE  FreeListExact'
  BY DEF FreeListExact

-----------------------------------------------------------------------------
(* Types, without any contract of the callers: an operation keeps the      *)
(* types, allocate_block takes one block of the device off its list unless *)
(* the list is empty, and the other operations only lengthen the lists.    *)
LEMMA AllocateTypes ==
    ASSUME BMTypeOK, NEW s \in SeqIds, NEW d \in Device, allocate_block(s, d)
    PROVE  /\ BMTypeOK'
           /\ PoppedBlock(d) \in Blocks \cup {INVALID_BLOCK}
           /\ free_list[d] # <<>> =>
                 /\ PoppedBlock(d) \in Blocks /\ PoppedBlock(d)[1] = d
                 /\ Len(free_list'[d]) = Len(free_list[d]) - 1
           /\ \A e \in Device \ {d} : free_list'[e] = free_list[e]
  <1>1. CASE free_list[d] = <<>>
    BY <1>1 DEF allocate_block, PoppedBlock, BMTypeOK
  <1>2. CASE free_list[d] # <<>>
    <2> DEFINE f == free_list[d]
               c == PoppedBlock(d)
               p == PopBack(f)
               m == Append(seq_block_map[s], c)
    <2>1. f \in Seq(Blocks) /\ f # <<>> /\ c = f[Len(f)] /\ \A i \in DOMAIN f : f[i][1] = d
      BY <1>2 DEF BMTypeOK, PoppedBlock, Back
    <2> HIDE DEF f, c
    <2>2. /\ Len(f) \in Nat \ {0} /\ DOMAIN f = 1 .. Len(f) /\ \A i \in DOMAIN f : f[i] \in Blocks
      BY <2>1, EmptySeq, LenProperties, ElementOfSeq
    <2>3. c \in Blocks /\ c[1] = d
      BY <2>1, <2>2
    <2>4. /\ p \in Seq(Blocks) /\ Len(p) = Len(f) - 1
          /\ \A i \in 1 .. Len(f) - 1 : p[i] = f[i]
      <3>1. \A i \in 1 .. Len(f) - 1 : f[i] \in Blocks
        BY <2>2
      <3>2. Len(f) - 1 \in Int
        BY <2>2
      <3> QED BY <2>2, <3>1, <3>2, SubSeqProperties DEF PopBack
    <2>5. \A i \in DOMAIN p : p[i][1] = d
      BY <2>1, <2>2, <2>4, LenProperties
    <2>6. m \in Seq(Blocks)
      BY <2>3, AppendProperties DEF BMTypeOK
    <2>7. /\ free_list' = [free_list EXCEPT ![d] = p]
          /\ seq_block_map' = [seq_block_map EXCEPT ![s] = m]
          /\ ref_count' = [ref_count EXCEPT ![c] = 1] /\ freeing' = freeing
      BY <1>2 DEF allocate_block, TakeBack, f, c
    <2> HIDE DEF p, m
    <2>8. /\ free_list'[d] = p /\ \A e \in Device \ {d} : free_list'[e] = free_list[e]
          /\ free_list' \in [Device -> Seq(Blocks)]
      BY <2>4, <2>7 DEF BMTypeOK
    <2>9. ref_count' \in [Blocks -> Nat] /\ seq_block_map' \in [SeqIds -> Seq(Blocks)]
      BY <2>3, <2>6, <2>7 DEF BMTypeOK
    <2>10. \A e \in Device : \A i \in DOMAIN free_list'[e] : free_list'[e][i][1] = e
      BY <2>5, <2>8, Zenon DEF BMTypeOK
    <2>11. BMTypeOK'
      BY <2>7, <2>8, <2>9, <2>10 DEF BMTypeOK
    <2> QED BY <2>3, <2>4, <2>8, <2>11 DEF c, f
  <1> QED BY <1>1, <1>2

LEMMA DropTypes ==
    ASSUME BMTypeOK, NEW b \in Blocks, DropRef(b)
    PROVE  /\ ref_count' \in [Blocks -> Nat] /\ free_list' \in [Device -> Seq(Blocks)]
           /\ \A d \in Device : \A i \in DOMAIN free_list'[d] : free_list'[d][i][1] = d
           /\ \A d \in Device : Len(free_list'[d]) >= Len(free_list[d])
  <1>1. b[1] \in Device /\ ref_count[b] \in Nat
    BY BlockFacts DEF BMTypeOK
  <1>2. \A d \in Device : Len(free_list[d]) \in Nat
    BY LenProperties DEF BMTypeOK
  <1>3. CASE ref_count[b] - 1 <= 0
    <2> DEFINE f == free_list[b[1]]
               g == Append(f, b)
    <2>1. f \in Seq(Blocks) /\ \A i \in DOMAIN f : f[i][1] = b[1]
      BY <1>1 DEF BMTypeOK
    <2> HIDE DEF f
    <2>2. /\ g \in Seq(Blocks) /\ Len(g) = Len(f) + 1 /\ Len(f) \in Nat
          /\ DOMAIN f = 1 .. Len(f) /\ DOMAIN g = 1 .. Len(f) + 1
          /\ \A i \in 1 .. Len(f) : g[i] = f[i]
          /\ g[Len(f) + 1] = b
      BY <2>1, AppendProperties, LenProperties
    <2> HIDE DEF g
    <2>3. \A i \in DOMAIN g : g[i][1] = b[1]
      BY <2>1, <2>2
    <2>4. free_list' = [free_list EXCEPT ![b[1]] = g] /\ ref_count' = [ref_count EXCEPT ![b] = 0]
      BY <1>3 DEF DropRef, f, g
    <2>5. /\ free_list'[b[1]] = g /\ \A d \in Device \ {b[1]} : free_list'[d] = free_list[d]
          /\ free_list' \in [Device -> Seq(Blocks)]
      BY <1>1, <2>2, <2>4 DEF BMTypeOK
    <2>6. ref_count' \in [Blocks -> Nat]
      BY <2>4 DEF BMTypeOK
    <2>7. \A d \in Device : Len(free_list'[d]) >= Len(free_list[d])
      BY <1>2, <2>2, <2>5 DEF f
    <2> QED BY <2>3, <2>5, <2>6, <2>7, Zenon DEF BMTypeOK
  <1>4. CASE ~(ref_count[b] - 1 <= 0)
    <2>1. ref_count' = [ref_count EXCEPT ![b] = @ - 1] /\ free_list' = free_list
      BY <1>4 DEF DropRef
    <2>2. ref_count[b] - 1 \in Nat
      BY <1>1, <1>4
    <2> QED BY <1>2, <2>1, <2>2 DEF BMTypeOK
  <1> QED BY <1>3, <1>4

LEMMA FreeBlocksTypes ==
    ASSUME BMTypeOK, FreeBlocksNext \/ FreeBlocksReturn
    PROVE  BMTypeOK' /\ \A d \in Device : Len(free_list'[d]) >= Len(free_list[d])
  <1>1. CASE FreeBlocksReturn
    BY <1>1, LenProperties DEF FreeBlocksReturn, BMTypeOK
  <1>2. CASE FreeBlocksNext
    <2> DEFINE m == seq_block_map[freeing]
    <2>1. /\ freeing \in SeqIds /\ m \in Seq(Blocks) /\ m # <<>> /\ DropRef(Head(m))
          /\ seq_block_map' = [seq_block_map EXCEPT ![freeing] = Tail(m)] /\ freeing' = freeing
      BY <1>2 DEF FreeBlocksNext, BMTypeOK
    <2> HIDE DEF m
    <2>2. Head(m) \in Blocks /\ Tail(m) \in Seq(Blocks)
      BY <2>1, HeadTailProperties
    <2>3. seq_block_map' \in [SeqIds -> Seq(Blocks)]
      BY <2>1, <2>2 DEF BMTypeOK
    <2> QED BY <2>1, <2>2, <2>3, DropTypes DEF BMTypeOK
  <1> QED BY <1>1, <1>2

(* The constructor's state: typed, the free lists hold every block of the  *)
(* device once, and nothing is recorded.                                   *)
LEMMA BMInitExact ==
    ASSUME BMInit
    PROVE  BMTypeOK /\ FreeListExact /\ RecordedOnce /\ \A b \in Blocks : ~Recorded(b)
  <1> USE DEF BMInit
  <1>1. \A s \in SeqIds : seq_block_map[s] = <<>> /\ Range(seq_block_map[s]) = {}
    BY DEF Range
  <1>2. ASSUME NEW d \in Device
        PROVE  /\ free_list[d] \in Seq(Blocks)
               /\ DOMAIN free_list[d] = 1 .. NumBlocks(d)
               /\ \A i \in 1 .. NumBlocks(d) : free_list[d][i] = <<d, NumBlocks(d) - i>>
    <2>1. free_list[d] = [i \in 1 .. NumBlocks(d) |-> <<d, NumBlocks(d) - i>>]
      OBVIOUS
    <2>2. NumBlocks(d) \in Nat
      BY BlockFacts
    <2>3. \A i \in 1 .. NumBlocks(d) : NumBlocks(d) - i \in 0 .. NumBlocks(d) - 1
      BY <2>2
    <2>4. \A i \in 1 .. NumBlocks(d) : <<d, NumBlocks(d) - i>> \in Blocks
      BY <2>3, BlockFacts
    <2>5. free_list[d] \in [1 .. NumBlocks(d) -> Blocks]
      BY <2>1, <2>4
    <2> QED BY <2>1, <2>2, <2>5, SeqDef, ZenonT(30)
  <1>3. BMTypeOK
    <2>1. free_list \in [Device -> Seq(Blocks)]
      BY <1>2
    <2>2. \A d \in Device : \A i \in DOMAIN free_list[d] : free_list[d][i][1] = d
      BY <1>2
    <2> QED BY <1>1, <2>1, <2>2 DEF BMTypeOK
  <1>4. FreeListExact
    <2> SUFFICES ASSUME NEW d \in Device
                 PROVE  /\ IsInjective(free_list[d])
                        /\ Range(free_list[d]) = {b \in Blocks : b[1] = d /\ ref_count[b] = 0}
      BY DEF FreeListExact
    <2>1. NumBlocks(d) \in Nat
      BY BlockFacts
    <2>2. IsInjective(free_list[d])
      BY <1>2, <2>1 DEF IsInjective
    <2>3. ASSUME NEW b \in Blocks, b[1] = d
          PROVE  b \in Range(free_list[d])
      <3>1. PICK i \in 0 .. NumBlocks(d) - 1 : b = <<d, i>>
        BY <2>3, BlockFacts
      <3>2. /\ NumBlocks(d) - i \in 1 .. NumBlocks(d)
            /\ NumBlocks(d) - (NumBlocks(d) - i) = i
        BY <2>1
      <3> QED BY <1>2, <3>1, <3>2 DEF Range
    <2>4. ASSUME NEW b \in Range(free_list[d])
          PROVE  b \in Blocks /\ b[1] = d
      <3>1. PICK i \in DOMAIN free_list[d] : b = free_list[d][i]
        BY <2>4 DEF Range
      <3>2. b[1] = d
        BY <1>3, <3>1 DEF BMTypeOK
      <3>3. free_list[d] \in Seq(Blocks)
        BY <1>2
      <3>4. b \in Blocks
        BY <2>4, <3>3, RangeInSet
      <3> QED BY <3>2, <3>4
    <2> QED BY <2>2, <2>3, <2>4
  <1>5. \A b \in Blocks : ~Recorded(b)
    BY <1>1, Zenon DEF Recorded
  <1>6. OnceUnderOne
    BY <1>1 DEF OnceUnderOne, IsInjective
  <1> QED BY <1>3, <1>4, <1>5, <1>6, OnceEquivalent, Zenon

=============================================================================
