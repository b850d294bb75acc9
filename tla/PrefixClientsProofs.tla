------------------------- MODULE PrefixClientsProofs -------------------------
(***************************************************************************)
(* The prefix cache, proved for any prompts, any number of sequences and   *)
(* any pool.                                                               *)
(*                                                                         *)
(* The trie: cached prefixes have no holes, because insert goes down the   *)
(* path and what it has still to go through comes after the nodes above it *)
(* (InsertsWhole); evict_lru gives up the oldest released nodes, because   *)
(* what it has still to go through is older than every other candidate     *)
(* (EvictLine).                                                            *)
(*                                                                         *)
(* The references: as long as evict_lru was called at most once, a block's *)
(* count is one for the sequence that records it plus one for each node    *)
(* the cache holds it for (RefsInv).  insert may take its reference        *)
(* because the block still belongs to the inserting sequence               *)
(* (InsertsOwned), and evict_lru may drop one because every node it has    *)
(* still to go through is held.                                            *)
(***************************************************************************)
EXTENDS PrefixClients, BlockManagerProofs, FiniteSetTheorems

-----------------------------------------------------------------------------
(* Paths and the order of last_access. *)

LEMMA PathFacts ==
    ASSUME NEW p \in Paths
    PROVE  /\ Len(p) \in Nat \ {0}
           /\ \A i \in 1 .. Len(p) : SubSeq(p, 1, i) \in Paths /\ Len(SubSeq(p, 1, i)) = i
           /\ SubSeq(p, 1, Len(p)) = p
           /\ \A i \in 1 .. Len(p) : \A j \in 1 .. i : SubSeq(SubSeq(p, 1, i), 1, j) = SubSeq(p, 1, j)
  <1>1. PICK S : p \in Seq(S) /\ p # <<>>
    BY PathConstants
  <1>2. Len(p) \in Nat \ {0}
    BY <1>1
  <1>3. \A i \in 1 .. Len(p) : SubSeq(p, 1, i) \in Paths
    BY PathConstants, Zenon
  <1>4. \A i \in 1 .. Len(p) : /\ SubSeq(p, 1, i) \in Seq(S) /\ Len(SubSeq(p, 1, i)) = i
                               /\ \A k \in 1 .. i : SubSeq(p, 1, i)[k] = p[k]
    BY <1>1, <1>2
  <1>5. SubSeq(p, 1, Len(p)) = p
    BY <1>1, <1>2, <1>4
  <1>6. ASSUME NEW i \in 1 .. Len(p), NEW j \in 1 .. i
        PROVE  SubSeq(SubSeq(p, 1, i), 1, j) = SubSeq(p, 1, j)
    <2>1. j \in 1 .. Len(p)
      BY <1>2
    <2>2. PICK q : q = SubSeq(p, 1, i)
      BY Zenon
    <2>3. q \in Seq(S) /\ Len(q) = i /\ \A k \in 1 .. i : q[k] = p[k]
      BY <1>4, <2>2
    <2>4. SubSeq(q, 1, j) \in Seq(S) /\ Len(SubSeq(q, 1, j)) = j /\ \A k \in 1 .. j : SubSeq(q, 1, j)[k] = p[k]
      BY <1>2, <2>3
    <2>5. SubSeq(p, 1, j) \in Seq(S) /\ Len(SubSeq(p, 1, j)) = j /\ \A k \in 1 .. j : SubSeq(p, 1, j)[k] = p[k]
      BY <1>4, <2>1
    <2>6. SubSeq(q, 1, j) = SubSeq(p, 1, j)
      BY <2>4, <2>5
    <2> QED BY <2>2, <2>6
  <1> QED BY <1>2, <1>3, <1>4, <1>5, <1>6

(* Giving the nodes of W, none as deep as another, the newest time stamps  *)
(* in order of depth leaves the nodes in one line.                         *)
LEMMA TouchInLine ==
    ASSUME InLine(Cached, newer), NEW W \in SUBSET Paths,
           \A p, q \in W : Len(p) = Len(q) => p = q
    PROVE  InLine(Cached \cup W, Touch(W))
  <1> DEFINE n == Touch(W)
             C == Cached \cup W
  <1>1. /\ \A p \in W : n[p] = {q \in W : Len(q) > Len(p)}
        /\ \A p \in Cached \ W : n[p] = newer[p] \cup W
        /\ \A p \in Paths \ C : n[p] = {}
        /\ Cached \subseteq Paths /\ DOMAIN n = Paths
    BY DEF Touch, Cached
  <1>2. \A p \in Cached : newer[p] \subseteq Cached
    BY <1>1 DEF InLine
  <1>3. n \in [Paths -> SUBSET C]
    BY <1>1, <1>2 DEF Touch
  <1>4. \A p \in W : Len(p) \in Nat
    BY PathFacts
  <1> HIDE DEF n
  <1>5. ASSUME NEW p \in C, NEW q \in C PROVE q \in n[p] <=> p # q /\ p \notin n[q]
    <2>1. CASE p \in W /\ q \in W
      <3>1. q \in n[p] <=> Len(q) > Len(p)
        BY <1>1, <2>1, Zenon
      <3>2. p \in n[q] <=> Len(p) > Len(q)
        BY <1>1, <2>1, Zenon
      <3> QED BY <1>4, <2>1, <3>1, <3>2
    <2>2. CASE p \in W /\ q \notin W
      <3>1. q \notin n[p] /\ n[q] = newer[q] \cup W
        BY <1>1, <2>2
      <3> QED BY <2>2, <3>1
    <2>3. CASE p \notin W /\ q \in W
      <3>1. p \notin n[q] /\ n[p] = newer[p] \cup W
        BY <1>1, <2>3
      <3> QED BY <2>3, <3>1
    <2>4. CASE p \notin W /\ q \notin W
      <3>1. p \in Cached \ W /\ q \in Cached \ W
        BY <2>4, Zenon
      <3>2. q \in newer[p] <=> p # q /\ p \notin newer[q]
        BY <3>1, Zenon DEF InLine
      <3>3. n[p] = newer[p] \cup W /\ n[q] = newer[q] \cup W
        BY <1>1, <3>1
      <3> QED BY <3>1, <3>2, <3>3
    <2> QED BY <2>1, <2>2, <2>3, <2>4, Zenon
  <1>6. ASSUME NEW p \in C, NEW q \in n[p] PROVE n[q] \subseteq n[p]
    <2>1. CASE p \in W
      <3>1. q \in W /\ Len(q) > Len(p)
        BY <1>1, <2>1, Zenon
      <3>2. ASSUME NEW r \in n[q] PROVE r \in n[p]
        <4>1. r \in W /\ Len(r) > Len(q)
          BY <1>1, <3>1, <3>2, Zenon
        <4>2. Len(r) > Len(p)
          BY <1>4, <2>1, <3>1, <4>1
        <4> QED BY <1>1, <2>1, <4>1, <4>2, Zenon
      <3> QED BY <3>2, Zenon
    <2>2. CASE p \notin W /\ q \in W
      BY <1>1, <2>2, Zenon
    <2>3. CASE p \notin W /\ q \notin W
      <3>1. p \in Cached \ W /\ q \in newer[p]
        BY <1>1, <2>3, Zenon
      <3>2. q \in Cached \ W /\ newer[q] \subseteq newer[p]
        BY <1>2, <2>3, <3>1, Zenon DEF InLine
      <3> QED BY <1>1, <3>1, <3>2, ZenonT(30)
    <2> QED BY <2>1, <2>2, <2>3, Zenon
  <1> QED BY <1>1, <1>3, <1>5, <1>6, Zenon DEF InLine, n

(* The nodes on the way down a prompt are of different depths. *)
LEMMA WalkDown ==
    ASSUME NEW p \in Paths
    PROVE  /\ Walk(p) \subseteq Cached /\ Cached \subseteq Paths
           /\ \A q, r \in Walk(p) : Len(q) = Len(r) => q = r
  <1>1. Walk(p) \subseteq Cached /\ Cached \subseteq Paths
    BY DEF Walk, Cached
  <1>2. ASSUME NEW q \in Walk(p), NEW r \in Walk(p), Len(q) = Len(r) PROVE q = r
    <2>1. PICK i \in 1 .. Len(p) : q = SubSeq(p, 1, i)
      BY Zenon DEF Walk
    <2>2. PICK j \in 1 .. Len(p) : r = SubSeq(p, 1, j)
      BY Zenon DEF Walk
    <2>3. i = j
      <3>1. Len(q) = i /\ Len(r) = j
        BY <2>1, <2>2, PathFacts
      <3> QED BY <1>2, <3>1, Zenon
    <2> QED BY <2>1, <2>2, <2>3, Zenon
  <1> QED BY <1>1, <1>2

(* What insert goes through. *)
LEMMA InsertShape ==
    ASSUME NEW p \in Paths, NEW blocks \in Seq(Blocks), EnterInsert(p, blocks)
    PROVE  /\ inserting' \in Seq(Paths \X Blocks)
           /\ \A i \in DOMAIN inserting' :
                 /\ i \in 1 .. Len(p) /\ i \in DOMAIN blocks
                 /\ inserting'[i][1] = SubSeq(p, 1, i) /\ inserting'[i][2] = blocks[i]
                 /\ \A j \in 1 .. i : j \in DOMAIN inserting'
  <1>1. Len(p) \in Nat /\ Len(blocks) \in Nat /\ DOMAIN blocks = 1 .. Len(blocks)
    BY PathFacts
  <1>2. PICK m \in Nat : m = Min({Len(p), Len(blocks)}) /\ m <= Len(p) /\ m <= Len(blocks)
    <2> DEFINE S == {Len(p), Len(blocks)}
    <2>1. \E x \in S : \A y \in S : x =< y
      BY <1>1
    <2> HIDE DEF S
    <2>2. Min(S) \in S /\ \A y \in S : Min(S) =< y
      BY <2>1, Zenon DEF Min
    <2> QED BY <1>1, <2>2 DEF S
  <1>3. inserting' = [i \in 1 .. m |-> <<SubSeq(p, 1, i), blocks[i]>>]
    BY <1>2, Zenon DEF EnterInsert
  <1>4. \A i \in 1 .. m : i \in 1 .. Len(p) /\ i \in 1 .. Len(blocks)
    BY <1>1, <1>2
  <1>5. \A i \in 1 .. m : SubSeq(p, 1, i) \in Paths /\ blocks[i] \in Blocks
    BY <1>4, PathFacts
  <1>6. inserting' \in Seq(Paths \X Blocks) /\ DOMAIN inserting' = 1 .. m
    <2>1. inserting' \in [1 .. m -> Paths \X Blocks]
      BY <1>3, <1>5, Zenon
    <2>2. inserting' \in Seq(Paths \X Blocks)
      <3>1. PICK T : T = Paths \X Blocks
        BY Zenon
      <3>2. PICK f : f = inserting'
        OBVIOUS
      <3>3. f \in [1 .. m -> T] /\ m \in Nat
        BY <1>2, <2>1, <3>1, <3>2, Zenon
      <3>4. Seq(T) = UNION {[1 .. n -> T] : n \in Nat}
        BY SeqDef, Zenon
      <3>5. f \in Seq(T)
        BY <3>3, <3>4, Zenon
      <3> QED BY <3>1, <3>2, <3>5, Zenon
    <2> QED BY <2>1, <2>2, Zenon
  <1>7. \A i \in 1 .. m : inserting'[i][1] = SubSeq(p, 1, i) /\ inserting'[i][2] = blocks[i]
    BY <1>3
  <1>8. \A i \in 1 .. m : \A j \in 1 .. i : j \in 1 .. m
    BY <1>2
  <1> QED BY <1>1, <1>4, <1>6, <1>7, <1>8

-----------------------------------------------------------------------------
(* Types. *)

Types == BMTypeOK /\ TypeOK

LEMMA TypesInit == Init => Types
  <1> SUFFICES ASSUME Init PROVE Types
    OBVIOUS
  <1>1. BMTypeOK
    BY BMInitExact, Zenon DEF Init
  <1>2. Cached = {}
    BY DEF Init, PrefixInit, Cached
  <1>3. /\ block_id \in [Paths -> Blocks \cup {INVALID_BLOCK}] /\ node_refs \in [Paths -> Int]
        /\ inserting \in Seq(Paths \X Blocks) /\ content \in [Blocks -> Paths \cup {<<>>}]
        /\ evicting = {} /\ using = {} /\ held = {} /\ evict_calls \in Nat
    BY DEF Init, PrefixInit
  <1>4. InLine(Cached, newer)
    BY <1>2 DEF Init, PrefixInit, InLine
  <1> QED BY <1>1, <1>3, <1>4 DEF Types, TypeOK

(* Steps that leave the trie as it is. *)
LEMMA TypesKept ==
    ASSUME Types, BMTypeOK', UNCHANGED <<block_id, newer, using, held, evict_calls>>,
           node_refs' \in [Paths -> Int], content' \in [Blocks -> Paths \cup {<<>>}],
           inserting' \in Seq(Paths \X Blocks), evicting' \subseteq Cached
    PROVE  Types'
  <1>1. Cached' = Cached
    BY Zenon DEF Cached
  <1>2. InLine(Cached, newer)'
    BY <1>1, Zenon DEF Types, TypeOK, InLine
  <1> QED BY <1>1, <1>2, Zenon DEF Types, TypeOK

LEMMA TypesInsert ==
    ASSUME Types, InInsert
    PROVE  /\ Types'
           /\ Head(inserting)[1] \in Paths /\ Head(inserting)[2] \in Blocks
           /\ Cached' = Cached \cup {Head(inserting)[1]}
           /\ \A p \in Cached : block_id'[p] = block_id[p]
           /\ Head(inserting)[1] \notin Cached => block_id'[Head(inserting)[1]] = Head(inserting)[2]
           /\ newer' = Touch({Head(inserting)[1]})
  <1> USE DEF Types, TypeOK
  <1>1. PICK p, b : p = Head(inserting)[1] /\ b = Head(inserting)[2]
    OBVIOUS
  <1>2. /\ inserting # <<>> /\ inserting' = Tail(inserting) /\ UNCHANGED <<evicting, content, using, evict_calls>>
        /\ newer' = Touch({p})
        /\ held' = IF block_id[p] = INVALID_BLOCK THEN held \cup {p} ELSE held
        /\ IF block_id[p] = INVALID_BLOCK
           THEN /\ block_id' = [block_id EXCEPT ![p] = b]
                /\ node_refs' = [node_refs EXCEPT ![p] = 1]
                /\ increment_ref(b)
           ELSE UNCHANGED <<block_id, node_refs, bmVars>>
    BY <1>1, Zenon DEF InInsert, InsertNext
  <1>3. p \in Paths /\ b \in Blocks /\ Tail(inserting) \in Seq(Paths \X Blocks)
    <2>1. inserting \in Seq(Paths \X Blocks) /\ inserting # <<>>
      BY <1>2, Zenon
    <2>2. Head(inserting) \in Paths \X Blocks /\ Tail(inserting) \in Seq(Paths \X Blocks)
      BY <2>1
    <2> QED BY <1>1, <2>2
  <1>4. b # INVALID_BLOCK
    BY <1>3, BlockFacts, Zenon
  <1>5. /\ block_id' \in [Paths -> Blocks \cup {INVALID_BLOCK}] /\ node_refs' \in [Paths -> Int]
        /\ \A q \in Paths \ {p} : block_id'[q] = block_id[q]
        /\ block_id[p] = INVALID_BLOCK => block_id'[p] = b
        /\ block_id[p] # INVALID_BLOCK => block_id'[p] = block_id[p]
    <2>1. CASE block_id[p] # INVALID_BLOCK
      BY <1>2, <1>3, <2>1, Zenon
    <2>2. CASE block_id[p] = INVALID_BLOCK
      <3>1. block_id' = [block_id EXCEPT ![p] = b] /\ node_refs' = [node_refs EXCEPT ![p] = 1]
        BY <1>2, <2>2, Zenon
      <3>2. block_id \in [Paths -> Blocks \cup {INVALID_BLOCK}] /\ node_refs \in [Paths -> Int]
        OBVIOUS
      <3> HIDE DEF TypeOK, Types
      <3> QED BY <1>3, <2>2, <3>1, <3>2
    <2> QED BY <2>1, <2>2
  <1>6. Cached' = Cached \cup {p} /\ Cached \subseteq Paths
    BY <1>3, <1>4, <1>5 DEF Cached
  <1>7. InLine(Cached, newer)'
    <2>1. InLine(Cached \cup {p}, Touch({p}))
      BY <1>3, TouchInLine, Zenon
    <2>2. InLine(Cached', newer')
      BY <1>2, <1>6, <2>1
    <2> QED BY <2>2, Zenon DEF InLine
  <1>8. BMTypeOK'
    <2>1. CASE UNCHANGED bmVars
      BY <2>1, Zenon DEF BMTypeOK, bmVars
    <2>2. CASE increment_ref(b)
      <3>1. ref_count' \in [Blocks -> Nat]
        BY <1>3, <2>2 DEF increment_ref, BMTypeOK
      <3> QED BY <2>2, <3>1, Zenon DEF increment_ref, BMTypeOK
    <2> QED BY <1>2, <2>1, <2>2, Zenon
  <1>9. evicting' \subseteq Cached' /\ held' \subseteq Cached' /\ using' \subseteq SeqIds
    BY <1>2, <1>6
  <1>10. Types'
    BY <1>2, <1>3, <1>5, <1>7, <1>8, <1>9, Zenon
  <1>11. \A q \in Cached : block_id'[q] = block_id[q]
    BY <1>5, <1>6 DEF Cached
  <1>12. p \notin Cached => block_id'[p] = b
    BY <1>3, <1>5, Zenon DEF Cached
  <1> QED BY <1>1, <1>2, <1>3, <1>6, <1>10, <1>11, <1>12, Zenon

LEMMA TypesStep ==
    ASSUME Types, [Next]_clientVars
    PROVE  Types'
  <1> USE DEF clientVars, prefixVars, trieVars, bmVars
  <1>1. ASSUME NEW s \in SeqIds, Prefill(s) PROVE Types'
    <2>1. /\ allocate_block(s, "CUDA") /\ Len(seq_block_map[s]) < Len(Prompt[s])
          /\ UNCHANGED <<prefixVars, using, held, evict_calls>>
          /\ content' = IF free_list["CUDA"] = <<>> THEN content
                        ELSE [content EXCEPT ![PoppedBlock("CUDA")] =
                                 SubSeq(Prompt[s], 1, Len(seq_block_map[s]) + 1)]
      BY <1>1, Zenon DEF Prefill
    <2>2. BMTypeOK' /\ (free_list["CUDA"] # <<>> => PoppedBlock("CUDA") \in Blocks)
      <3>1. "CUDA" \in Device
        BY DEF Device
      <3> QED BY <2>1, <3>1, AllocateTypes, Zenon DEF Types
    <2>3. SubSeq(Prompt[s], 1, Len(seq_block_map[s]) + 1) \in Paths
      <3>1. Prompt[s] \in Paths /\ Len(Prompt[s]) \in Nat /\ Len(seq_block_map[s]) \in Nat
        BY PromptConstants, PathFacts DEF Types, BMTypeOK
      <3>2. Len(seq_block_map[s]) + 1 \in 1 .. Len(Prompt[s])
        BY <2>1, <3>1
      <3> QED BY <3>1, <3>2, PathFacts
    <2>4. content' \in [Blocks -> Paths \cup {<<>>}]
      <3>1. CASE free_list["CUDA"] = <<>>
        BY <2>1, <3>1, Zenon DEF Types, TypeOK
      <3>2. CASE free_list["CUDA"] # <<>>
        BY <2>1, <2>2, <2>3, <3>2 DEF Types, TypeOK
      <3> QED BY <3>1, <3>2
    <2> QED BY <2>1, <2>2, <2>4, TypesKept, Zenon DEF Types, TypeOK
  <1>2. ASSUME NEW s \in SeqIds, Insert(s) PROVE Types'
    <2>1. /\ EnterInsert(Prompt[s], seq_block_map[s]) /\ UNCHANGED <<bmVars, content, held, evict_calls>>
          /\ UNCHANGED <<trieVars, evicting>> /\ using' = using \cup {s}
      BY <1>2, Zenon DEF Insert, EnterInsert
    <2>2. inserting' \in Seq(Paths \X Blocks)
      BY <2>1, PromptConstants, InsertShape DEF Types, BMTypeOK
    <2>3. Cached' = Cached
      BY <2>1, Zenon DEF Cached
    <2>4. InLine(Cached, newer)'
      BY <2>1, <2>3, Zenon DEF Types, TypeOK, InLine
    <2>5. BMTypeOK' /\ using' \subseteq SeqIds
      BY <2>1, Zenon DEF Types, TypeOK, BMTypeOK
    <2> QED BY <2>1, <2>2, <2>3, <2>4, <2>5, Zenon DEF Types, TypeOK
  <1>3. ASSUME NEW s \in SeqIds, Lookup(s) PROVE Types'
    <2>1. newer' = Touch(Walk(Prompt[s])) /\ UNCHANGED <<block_id, node_refs, inserting, evicting>>
          /\ UNCHANGED <<bmVars, content, using, held, evict_calls>>
      BY <1>3, Zenon DEF Lookup, lookup
    <2>2. Cached' = Cached
      BY <2>1, Zenon DEF Cached
    <2>3. InLine(Cached', newer')
      <3>1. PICK W : W = Walk(Prompt[s])
        OBVIOUS
      <3>2. /\ W \subseteq Cached /\ W \in SUBSET Paths
            /\ \A q, r \in W : Len(q) = Len(r) => q = r
        BY <3>1, WalkDown, PromptConstants
      <3>3. InLine(Cached \cup W, Touch(W))
        BY <3>2, TouchInLine, Zenon DEF Types, TypeOK
      <3>4. Cached \cup W = Cached
        BY <3>2
      <3> QED BY <2>1, <2>2, <3>1, <3>3, <3>4
    <2>4. InLine(Cached, newer)'
      BY <2>3, Zenon DEF InLine
    <2>5. BMTypeOK'
      BY <2>1, Zenon DEF Types, BMTypeOK
    <2> QED BY <2>1, <2>2, <2>4, <2>5, Zenon DEF Types, TypeOK
  <1>4. ASSUME NEW s \in SeqIds, Release(s) PROVE Types'
    <2>1. /\ node_refs' = [q \in Paths |-> node_refs[q] - (IF q \in Walk(Prompt[s]) THEN 1 ELSE 0)]
          /\ UNCHANGED <<block_id, newer, inserting, evicting, bmVars, content, held, evict_calls>>
          /\ using' = using \ {s}
      BY <1>4, Zenon DEF Release, release
    <2>2. node_refs' \in [Paths -> Int]
      BY <2>1 DEF Types, TypeOK
    <2>3. Cached' = Cached
      BY <2>1, Zenon DEF Cached
    <2>4. InLine(Cached, newer)'
      BY <2>1, <2>3, Zenon DEF Types, TypeOK, InLine
    <2>5. BMTypeOK' /\ using' \subseteq SeqIds
      BY <2>1, Zenon DEF Types, TypeOK, BMTypeOK
    <2> QED BY <2>1, <2>2, <2>3, <2>4, <2>5, Zenon DEF Types, TypeOK
  <1>5. ASSUME NEW s \in SeqIds, FreeSeq(s) PROVE Types'
    <2>1. freeing' = s /\ UNCHANGED <<ref_count, free_list, seq_block_map, prefixVars, content, using, held, evict_calls>>
      BY <1>5, Zenon DEF FreeSeq, EnterFreeBlocks
    <2>2. BMTypeOK'
      BY <1>5, <2>1, Zenon DEF Types, BMTypeOK
    <2> QED BY <2>1, <2>2, TypesKept, Zenon DEF Types, TypeOK
  <1>6. ASSUME NEW n \in 1 .. Cardinality(Paths), Evict(n) PROVE Types'
    <2>1. /\ evicting' \subseteq Candidates /\ evict_calls' = evict_calls + 1
          /\ UNCHANGED <<trieVars, inserting, bmVars, content, using, held>>
      BY <1>6, Zenon DEF Evict, EnterEvict
    <2>2. Cached' = Cached /\ evicting' \subseteq Cached
      BY <2>1, Zenon DEF Cached, Candidates
    <2>3. evict_calls' \in Nat
      BY <2>1 DEF Types, TypeOK
    <2>4. InLine(Cached, newer)'
      BY <2>1, <2>2, Zenon DEF Types, TypeOK, InLine
    <2>5. BMTypeOK'
      BY <2>1, Zenon DEF Types, BMTypeOK
    <2> QED BY <2>1, <2>2, <2>3, <2>4, <2>5, Zenon DEF Types, TypeOK
  <1>7. ASSUME NEW p \in evicting, InEvict(p) PROVE Types'
    <2>1. /\ decrement_ref(block_id[p]) /\ evicting' = evicting \ {p} /\ held' = held \ {p}
          /\ UNCHANGED <<trieVars, inserting, content, using, evict_calls>>
      BY <1>7, Zenon DEF InEvict, EvictNext
    <2>2. Cached' = Cached
      BY <2>1, Zenon DEF Cached
    <2>3. block_id[p] \in Blocks
      BY Zenon DEF Types, TypeOK, Cached
    <2>4. BMTypeOK'
      <3>1. DropRef(block_id[p]) /\ UNCHANGED <<seq_block_map, freeing>>
        BY <2>1, Zenon DEF decrement_ref
      <3> QED BY <2>3, <3>1, DropTypes, Zenon DEF Types, BMTypeOK
    <2>5. InLine(Cached, newer)'
      BY <2>1, <2>2, Zenon DEF Types, TypeOK, InLine
    <2> QED BY <2>1, <2>2, <2>4, <2>5, Zenon DEF Types, TypeOK
  <1>8. CASE FreeSeqStep
    <2>1. BMTypeOK' /\ UNCHANGED <<prefixVars, content, using, held, evict_calls>>
      BY <1>8, FreeBlocksTypes, Zenon DEF FreeSeqStep, Types
    <2> QED BY <2>1, TypesKept, Zenon DEF Types, TypeOK
  <1>9. CASE UNCHANGED clientVars
    <2>1. BMTypeOK'
      BY <1>9, Zenon DEF Types, BMTypeOK
    <2> QED BY <1>9, <2>1, TypesKept, Zenon DEF Types, TypeOK
  <1> QED BY <1>1, <1>2, <1>3, <1>4, <1>5, <1>6, <1>7, <1>8, <1>9, TypesInsert, Zenon DEF Next

(* The state of the prefix cache is well typed, and its time stamps order  *)
(* the nodes that have a block, for any prompts and any pool.              *)
THEOREM TypesAlways == Spec => [](BMTypeOK /\ TypeOK)
  <1>1. Spec => []Types
    BY TypesInit, TypesStep, PTL DEF Spec
  <1> QED BY <1>1, PTL DEF Types

-----------------------------------------------------------------------------
(* The trie. *)

(* What insert has still to go through comes after the nodes above it. *)
InsertsWhole ==
    \A j \in DOMAIN inserting : \A i \in 1 .. Len(inserting[j][1]) :
        \/ SubSeq(inserting[j][1], 1, i) \in Cached
        \/ \E k \in 1 .. j : inserting[k][1] = SubSeq(inserting[j][1], 1, i)

(* What evict_lru has still to go through was released, and is older than  *)
(* every other released node the cache holds.                              *)
EvictLine ==
    /\ evicting \subseteq Candidates
    /\ \A p \in evicting : \A q \in (held \cap Candidates) \ evicting : q \in newer[p]

TrieInv ==
    /\ inserting = <<>> \/ evicting = {}
    /\ InsertsWhole /\ PrefixClosed /\ EvictLine

LEMMA WholeKept ==
    ASSUME InsertsWhole, Cached' = Cached, inserting' = inserting
    PROVE  InsertsWhole'
  <1>1. PICK I, C : I = inserting /\ C = Cached
    OBVIOUS
  <1>2. \A j \in DOMAIN I : \A i \in 1 .. Len(I[j][1]) :
            SubSeq(I[j][1], 1, i) \in C \/ \E k \in 1 .. j : I[k][1] = SubSeq(I[j][1], 1, i)
    BY <1>1, Zenon DEF InsertsWhole
  <1>3. inserting' = I /\ Cached' = C
    BY <1>1
  <1> QED BY <1>2, <1>3, Zenon DEF InsertsWhole

LEMMA TrieKept ==
    ASSUME TrieInv, UNCHANGED <<trieVars, inserting, evicting, held>>
    PROVE  TrieInv'
  <1>1. Cached' = Cached /\ Candidates' = Candidates
    BY Zenon DEF trieVars, Cached, Candidates
  <1>2. InsertsWhole' /\ PrefixClosed'
    BY <1>1, WholeKept, Zenon DEF TrieInv, PrefixClosed
  <1>3. EvictLine'
    BY <1>1, Zenon DEF TrieInv, EvictLine, trieVars
  <1> QED BY <1>2, <1>3, Zenon DEF TrieInv

LEMMA TrieInsert ==
    ASSUME Types, TrieInv, InInsert
    PROVE  TrieInv'
  <1>1. PICK p : p = Head(inserting)[1]
    OBVIOUS
  <1>2. /\ inserting # <<>> /\ inserting' = Tail(inserting) /\ evicting' = evicting
        /\ evicting = {} /\ inserting \in Seq(Paths \X Blocks)
    BY Zenon DEF InInsert, InsertNext, TrieInv, Types, TypeOK
  <1>3. Cached' = Cached \cup {p}
    BY <1>1, TypesInsert, Zenon
  <1>4. EvictLine'
    BY <1>2 DEF EvictLine
  <1>5. PICK n \in Nat : n = Len(inserting) /\ DOMAIN inserting = 1 .. n /\ n >= 1
    BY <1>2
  <1>6. /\ DOMAIN inserting' = 1 .. n - 1
        /\ \A j \in 1 .. n - 1 : inserting'[j] = inserting[j + 1] /\ j + 1 \in 1 .. n
        /\ p = inserting[1][1]
    BY <1>1, <1>2, <1>5
  <1>7. InsertsWhole'
    <2> SUFFICES ASSUME NEW j \in 1 .. n - 1, NEW i \in 1 .. Len(inserting'[j][1])
                 PROVE  \/ SubSeq(inserting'[j][1], 1, i) \in Cached'
                        \/ \E k \in 1 .. j : inserting'[k][1] = SubSeq(inserting'[j][1], 1, i)
      BY <1>6, Zenon DEF InsertsWhole
    <2>1. PICK r : r = SubSeq(inserting[j + 1][1], 1, i)
      BY Zenon
    <2>2. inserting'[j] = inserting[j + 1] /\ j + 1 \in 1 .. n
      BY <1>6
    <2>3. r \in Cached \/ \E k \in 1 .. j + 1 : inserting[k][1] = r
      BY <1>5, <2>1, <2>2, Zenon DEF TrieInv, InsertsWhole
    <2>4. ASSUME NEW k \in 1 .. j + 1, inserting[k][1] = r
          PROVE  r = p \/ \E l \in 1 .. j : inserting'[l][1] = r
      <3>1. CASE k = 1
        BY <1>6, <2>4, <3>1
      <3>2. CASE k # 1
        <4>1. k - 1 \in 1 .. j /\ k - 1 \in 1 .. n - 1 /\ (k - 1) + 1 = k
          BY <1>5, <3>2
        <4>2. inserting'[k - 1][1] = r
          BY <1>6, <2>4, <4>1
        <4> QED BY <4>1, <4>2, Zenon
      <3> QED BY <3>1, <3>2
    <2> QED BY <1>3, <2>1, <2>2, <2>3, <2>4, Zenon
  <1>8. PrefixClosed'
    <2> SUFFICES ASSUME NEW q \in Cached', NEW i \in 1 .. Len(q)
                 PROVE  SubSeq(q, 1, i) \in Cached'
      BY Zenon DEF PrefixClosed
    <2>1. CASE q \in Cached
      BY <1>3, <2>1, Zenon DEF TrieInv, PrefixClosed
    <2>2. CASE q = p
      <3>1. 1 \in DOMAIN inserting /\ \A k \in 1 .. 1 : k = 1
        BY <1>5
      <3>2. SubSeq(p, 1, i) \in Cached \/ p = SubSeq(p, 1, i)
        BY <1>6, <2>2, <3>1, Zenon DEF TrieInv, InsertsWhole
      <3> QED BY <1>3, <2>2, <3>2, Zenon
    <2> QED BY <1>3, <2>1, <2>2, Zenon
  <1> QED BY <1>2, <1>4, <1>7, <1>8, Zenon DEF TrieInv

LEMMA TrieStep ==
    ASSUME Types, TrieInv, [Next]_clientVars
    PROVE  TrieInv'
  <1>1. ASSUME NEW s \in SeqIds, Prefill(s) \/ FreeSeq(s) PROVE TrieInv'
    BY <1>1, TrieKept, Zenon DEF Prefill, FreeSeq, prefixVars
  <1>2. ASSUME NEW s \in SeqIds, Insert(s) PROVE TrieInv'
    <2>1. EnterInsert(Prompt[s], seq_block_map[s]) /\ UNCHANGED <<trieVars, evicting>> /\ evicting = {}
      BY <1>2, Zenon DEF Insert, EnterInsert, Unlocked
    <2>2. Cached' = Cached /\ PrefixClosed' /\ EvictLine'
      BY <2>1 DEF trieVars, Cached, TrieInv, PrefixClosed, EvictLine
    <2>3. \A j \in DOMAIN inserting' : \A i \in 1 .. Len(inserting'[j][1]) :
              \E k \in 1 .. j : inserting'[k][1] = SubSeq(inserting'[j][1], 1, i)
      <3>1. Prompt[s] \in Paths /\ seq_block_map[s] \in Seq(Blocks)
        BY PromptConstants DEF Types, BMTypeOK
      <3> SUFFICES ASSUME NEW j \in DOMAIN inserting', NEW i \in 1 .. Len(inserting'[j][1])
                   PROVE  \E k \in 1 .. j : inserting'[k][1] = SubSeq(inserting'[j][1], 1, i)
        OBVIOUS
      <3>2. PICK p \in Paths : p = Prompt[s]
        BY <3>1
      <3>3. \A k \in DOMAIN inserting' :
                k \in 1 .. Len(p) /\ inserting'[k][1] = SubSeq(p, 1, k) /\ \A l \in 1 .. k : l \in DOMAIN inserting'
        BY <2>1, <3>1, <3>2, InsertShape, Zenon
      <3>4. Len(inserting'[j][1]) = j /\ i \in 1 .. j
        BY <3>3, PathFacts, ZenonT(20)
      <3>5. SubSeq(inserting'[j][1], 1, i) = SubSeq(p, 1, i) /\ inserting'[i][1] = SubSeq(p, 1, i)
        <4>1. inserting'[j][1] = SubSeq(p, 1, j) /\ j \in 1 .. Len(p) /\ i \in DOMAIN inserting'
          BY <3>3, <3>4, Zenon
        <4>2. SubSeq(SubSeq(p, 1, j), 1, i) = SubSeq(p, 1, i)
          BY <3>4, <4>1, PathFacts
        <4> QED BY <3>3, <4>1, <4>2, Zenon
      <3> QED BY <3>4, <3>5, Zenon
    <2>4. InsertsWhole'
      BY <2>3, Zenon DEF InsertsWhole
    <2> QED BY <2>1, <2>2, <2>4, Zenon DEF TrieInv
  <1>3. ASSUME NEW s \in SeqIds, Lookup(s) \/ Release(s) PROVE TrieInv'
    <2>1. UNCHANGED <<block_id, inserting, evicting>> /\ evicting = {} /\ inserting = <<>>
      BY <1>3, Zenon DEF Lookup, Release, lookup, release, Unlocked
    <2>2. Cached' = Cached /\ PrefixClosed' /\ EvictLine'
      BY <2>1 DEF Cached, TrieInv, PrefixClosed, EvictLine
    <2>3. InsertsWhole'
      BY <2>1, <2>2, WholeKept, Zenon DEF TrieInv
    <2> QED BY <2>1, <2>2, <2>3, Zenon DEF TrieInv
  <1>4. ASSUME NEW n \in 1 .. Cardinality(Paths), Evict(n) PROVE TrieInv'
    <2>1. PICK E \in SUBSET Candidates : Oldest(E) /\ evicting' = E
      BY <1>4, Zenon DEF Evict, EnterEvict
    <2>2. UNCHANGED <<trieVars, inserting, held>> /\ inserting = <<>>
      BY <1>4, Zenon DEF Evict, EnterEvict, Unlocked
    <2>3. Cached' = Cached /\ Candidates' = Candidates /\ PrefixClosed'
      BY <2>2, Zenon DEF trieVars, Cached, Candidates, TrieInv, PrefixClosed
    <2>4. EvictLine'
      BY <2>1, <2>2, <2>3, Zenon DEF EvictLine, Oldest, trieVars
    <2>5. InsertsWhole'
      BY <2>2, <2>3, WholeKept, Zenon DEF TrieInv
    <2> QED BY <2>2, <2>3, <2>4, <2>5, Zenon DEF TrieInv
  <1>5. ASSUME NEW p \in evicting, InEvict(p) PROVE TrieInv'
    <2>1. UNCHANGED <<trieVars, inserting>> /\ evicting' = evicting \ {p} /\ held' = held \ {p}
      BY <1>5, Zenon DEF InEvict, EvictNext
    <2>2. Cached' = Cached /\ Candidates' = Candidates /\ PrefixClosed'
      BY <2>1, Zenon DEF trieVars, Cached, Candidates, TrieInv, PrefixClosed
    <2>3. EvictLine'
      BY <2>1, <2>2, Zenon DEF TrieInv, EvictLine, trieVars
    <2>4. inserting' = <<>>
      BY <2>1, Zenon DEF TrieInv
    <2>5. InsertsWhole'
      BY <2>1, <2>2, WholeKept, Zenon DEF TrieInv
    <2> QED BY <2>2, <2>3, <2>4, <2>5, Zenon DEF TrieInv
  <1>6. CASE FreeSeqStep \/ UNCHANGED clientVars
    BY <1>6, TrieKept, Zenon DEF FreeSeqStep, prefixVars, clientVars
  <1> QED BY <1>1, <1>2, <1>3, <1>4, <1>5, <1>6, TrieInsert, Zenon DEF Next

LEMMA TrieInit == Init => TrieInv
  <1> SUFFICES ASSUME Init PROVE TrieInv
    OBVIOUS
  <1>1. Cached = {} /\ inserting = <<>> /\ evicting = {}
    BY DEF Init, PrefixInit, Cached
  <1>2. DOMAIN inserting = {}
    BY <1>1
  <1> QED BY <1>1, <1>2, Zenon DEF TrieInv, InsertsWhole, PrefixClosed, EvictLine

LEMMA TrieAlways == Spec => [](Types /\ TrieInv)
  BY TypesInit, TypesStep, TrieInit, TrieStep, PTL DEF Spec

(* lookup's blocks always cover a prefix from token 0 without gaps,        *)
(* whatever inserts, evictions and releases of any prompts interleave.     *)
THEOREM PrefixClosedAlways == Spec => []PrefixClosed
  <1>1. TrieInv => PrefixClosed
    BY DEF TrieInv
  <1> QED BY <1>1, TrieAlways, PTL

(* Every reference evict_lru gives back is of the least recently used      *)
(* released node that the cache still holds, for any number of calls.      *)
THEOREM EvictsOldestAlways == Spec => EvictsOldest
  <1> DEFINE Step == \A p \in held \ held' :
                       /\ node_refs[p] <= 0
                       /\ \A q \in held : node_refs[q] <= 0 /\ q # p => q \in newer[p]
  <1>1. ASSUME Types, TrieInv, [Next]_clientVars PROVE [Step]_clientVars
    <2>1. ASSUME NEW p \in evicting, InEvict(p) PROVE Step
      <3>1. held' = held \ {p} /\ evicting \ {p} \subseteq newer[p]
        BY <2>1, Zenon DEF InEvict, EvictNext
      <3>2. p \in Candidates /\ held \subseteq Cached /\ EvictLine
        BY <1>1, <2>1 DEF TrieInv, EvictLine, Types, TypeOK
      <3>3. ASSUME NEW q \in held, node_refs[q] <= 0, q # p PROVE q \in newer[p]
        <4>1. q \in held \cap Candidates
          BY <3>2, <3>3 DEF Candidates
        <4> QED BY <2>1, <3>1, <3>2, <3>3, <4>1, Zenon DEF EvictLine
      <3> QED BY <3>1, <3>2, <3>3, Zenon DEF Candidates
    <2>2. ASSUME UNCHANGED held PROVE Step
      BY <2>2
    <2>3. ASSUME InInsert PROVE Step
      <3>1. held \subseteq held'
        BY <2>3 DEF InInsert
      <3> QED BY <3>1
    <2> HIDE DEF Step
    <2> QED BY <1>1, <2>1, <2>2, <2>3, Zenon
         DEF Next, Prefill, Insert, Lookup, Release, FreeSeq, Evict, FreeSeqStep
  <1> QED BY <1>1, TrieAlways, PTL DEF Spec, EvictsOldest

-----------------------------------------------------------------------------
(* References. *)

Holders(b) == {p \in held : block_id[p] = b}

Own(b) == IF Recorded(b) THEN 1 ELSE 0

RefsCount == \A b \in Blocks : ref_count[b] = Own(b) + Cardinality(Holders(b))

(* The blocks of a sequence hold the prefixes of its prompt, in order. *)
Filled ==
    \A s \in SeqIds \ {freeing} :
        /\ Len(seq_block_map[s]) <= Len(Prompt[s])
        /\ \A i \in DOMAIN seq_block_map[s] :
              content[seq_block_map[s][i]] = SubSeq(Prompt[s], 1, i)

(* insert's blocks hold what it says and belong to a sequence that is not  *)
(* being freed, so the reference the cache takes is to a block in use.     *)
InsertsOwned ==
    \A j \in DOMAIN inserting :
        /\ content[inserting[j][2]] = inserting[j][1]
        /\ \E s \in SeqIds \ {freeing} : inserting[j][2] \in Range(seq_block_map[s])

Exact ==
    /\ RecordedOnce /\ FreeListExact /\ RefsCount
    /\ Filled /\ InsertsOwned /\ HeldExact

(* As long as evict_lru was called at most once; before that the cache     *)
(* holds a reference for every node with a block.                          *)
RefsInv ==
    evict_calls <= 1 =>
        /\ evict_calls = 0 => held = Cached /\ evicting = {}
        /\ evicting \subseteq held
        /\ Exact

LEMMA HoldersFinite ==
    ASSUME Types, NEW b
    PROVE  IsFiniteSet(Holders(b)) /\ Cardinality(Holders(b)) \in Nat
  <1>1. Holders(b) \subseteq Paths
    BY DEF Types, TypeOK, Cached, Holders
  <1>2. IsFiniteSet(Holders(b))
    BY <1>1, PathConstants, FS_Subset, Zenon
  <1> QED BY <1>2, FS_CardinalityType, Zenon

(* A block with count zero is neither recorded nor held, and conversely. *)
LEMMA CountOfBlock ==
    ASSUME Types, RefsCount, NEW b \in Blocks
    PROVE  /\ ref_count[b] \in Nat
           /\ Recorded(b) => ref_count[b] > 0
           /\ \A p \in Holders(b) : ref_count[b] > 0
           /\ ref_count[b] = 0 => ~Recorded(b) /\ Holders(b) = {}
  <1>1. PICK n \in Nat : n = Cardinality(Holders(b)) /\ (n = 0 => Holders(b) = {})
    BY HoldersFinite, FS_EmptySet, Zenon
  <1>2. ref_count[b] = Own(b) + n
    BY <1>1, Zenon DEF RefsCount
  <1>3. Recorded(b) => Own(b) = 1
    BY Zenon DEF Own
  <1>4. ~Recorded(b) => Own(b) = 0
    BY Zenon DEF Own
  <1>5. ref_count[b] = 0 => ~Recorded(b) /\ n = 0
    BY <1>2, <1>3, <1>4
  <1>6. Recorded(b) => ref_count[b] > 0
    BY <1>2, <1>3
  <1>7. n # 0 => ref_count[b] > 0
    BY <1>2, <1>3, <1>4
  <1>8. ref_count[b] \in Nat
    BY DEF Types, BMTypeOK
  <1> QED BY <1>1, <1>5, <1>6, <1>7, <1>8, Zenon

(* Steps that touch neither the blocks nor what is known of them. *)
LEMMA ExactKept ==
    ASSUME Exact, UNCHANGED <<ref_count, free_list, seq_block_map, content, held>>,
           freeing' = freeing, UNCHANGED block_id, InsertsOwned'
    PROVE  Exact'
  <1>1. RecordedOnce' /\ FreeListExact' /\ \A b : Recorded(b)' <=> Recorded(b)
    <2>1. RecordedOnce'
      BY DEF Exact, RecordedOnce
    <2>2. FreeListExact'
      BY DEF Exact, FreeListExact
    <2> QED BY <2>1, <2>2, Zenon DEF Recorded
  <1>2. ASSUME NEW b PROVE Holders(b)' = Holders(b) /\ Own(b)' = Own(b)
    BY <1>1, Zenon DEF Holders, Own
  <1>3. RefsCount'
    BY <1>2, Zenon DEF Exact, RefsCount
  <1>4. Filled'
    BY Zenon DEF Exact, Filled
  <1>5. HeldExact'
    BY Zenon DEF Exact, HeldExact
  <1> QED BY <1>1, <1>3, <1>4, <1>5, Zenon DEF Exact

LEMMA OwnedKept ==
    ASSUME InsertsOwned, UNCHANGED <<seq_block_map, content, inserting, freeing>>
    PROVE  InsertsOwned'
  BY Zenon DEF InsertsOwned

LEMMA ExactPrefill ==
    ASSUME Types, Exact, NEW s \in SeqIds, Prefill(s)
    PROVE  Exact'
  <1>1. /\ allocate_block(s, "CUDA") /\ UNCHANGED <<prefixVars, using, held, evict_calls>>
        /\ Len(seq_block_map[s]) < Len(Prompt[s]) /\ freeing = NoSeq /\ freeing' = freeing
        /\ "CUDA" \in Device
    BY Zenon DEF Prefill, allocate_block, Device
  <1>2. UNCHANGED <<block_id, inserting, evicting, held>>
    BY <1>1, Zenon DEF prefixVars, trieVars
  <1>3. CASE free_list["CUDA"] = <<>>
    <2>1. UNCHANGED <<ref_count, free_list, seq_block_map, content>>
      BY <1>3, Zenon DEF Prefill, allocate_block
    <2> QED BY <1>1, <1>2, <2>1, OwnedKept, ExactKept, Zenon DEF Exact
  <1>4. CASE free_list["CUDA"] # <<>>
    <2>1. PICK c : c = PoppedBlock("CUDA")
      OBVIOUS
    <2>2. /\ TakeBack(s, "CUDA") /\ ref_count' = [ref_count EXCEPT ![c] = 1]
          /\ seq_block_map' = [seq_block_map EXCEPT ![s] = Append(@, c)]
          /\ content' = [content EXCEPT ![c] = SubSeq(Prompt[s], 1, Len(seq_block_map[s]) + 1)]
      BY <1>4, <2>1, Zenon DEF Prefill, allocate_block, TakeBack
    <2>3. /\ c \in Blocks /\ ref_count[c] = 0
          /\ \A e \in Device :
                /\ IsInjective(free_list'[e])
                /\ Range(free_list'[e]) = Range(free_list[e]) \ {c}
      BY <1>1, <1>4, <2>1, <2>2, TakeIsFree, Zenon DEF Types, Exact
    <2>4. ~Recorded(c) /\ Holders(c) = {}
      BY <2>3, CountOfBlock, Zenon DEF Exact
    <2>5. RecordedOnce' /\ \A b \in Blocks : Recorded(b)' <=> (Recorded(b) \/ b = c)
      BY <2>2, <2>3, <2>4, RecordNew, Zenon DEF Types, Exact
    <2>6. /\ \A b \in Blocks \ {c} : ref_count'[b] = ref_count[b] /\ content'[b] = content[b]
          /\ ref_count'[c] = 1
      BY <2>2, <2>3 DEF Types, TypeOK, BMTypeOK
    <2>7. FreeListExact'
      <3>1. \A b \in Blocks : ref_count'[b] = 0 <=> (ref_count[b] = 0 /\ b # c)
        BY <2>6
      <3> QED BY <2>3, <3>1, TakeKeepsLists, Zenon DEF Types, Exact
    <2>8. \A b : Holders(b)' = Holders(b)
      BY <1>2, Zenon DEF Holders
    <2>9. RefsCount'
      <3> SUFFICES ASSUME NEW b \in Blocks
                   PROVE  ref_count'[b] = Own(b)' + Cardinality(Holders(b)')
        BY Zenon DEF RefsCount
      <3>1. CASE b = c
        <4>1. Own(b)' = 1
          BY <2>5, <3>1, Zenon DEF Own
        <4>2. Cardinality(Holders(b)') = 0
          BY <2>4, <2>8, <3>1, FS_EmptySet, Zenon
        <4> QED BY <2>6, <3>1, <4>1, <4>2
      <3>2. CASE b # c
        <4>1. Own(b)' = Own(b) /\ ref_count'[b] = ref_count[b]
          BY <2>5, <2>6, <3>2, Zenon DEF Own
        <4> QED BY <2>8, <4>1, Zenon DEF Exact, RefsCount
      <3> QED BY <3>1, <3>2
    <2>10. \A t \in SeqIds : \A i \in DOMAIN seq_block_map[t] :
              /\ seq_block_map[t][i] \in Blocks \ {c}
              /\ content'[seq_block_map[t][i]] = content[seq_block_map[t][i]]
      <3> SUFFICES ASSUME NEW t \in SeqIds, NEW i \in DOMAIN seq_block_map[t]
                   PROVE  /\ seq_block_map[t][i] \in Blocks \ {c}
                          /\ content'[seq_block_map[t][i]] = content[seq_block_map[t][i]]
        OBVIOUS
      <3>1. seq_block_map[t][i] \in Range(seq_block_map[t])
        BY Zenon DEF Range
      <3>2. seq_block_map[t] \in Seq(Blocks)
        BY DEF Types, BMTypeOK
      <3>3. seq_block_map[t][i] \in Blocks /\ seq_block_map[t][i] # c
        BY <2>4, <3>1, <3>2, RangeInSet, Zenon DEF Recorded
      <3> QED BY <2>6, <3>3
    <2>11. PICK m : m = seq_block_map[s]
      OBVIOUS
    <2>12. /\ m \in Seq(Blocks) /\ Len(m) \in Nat /\ DOMAIN m = 1 .. Len(m)
           /\ seq_block_map'[s] = Append(m, c)
           /\ \A t \in SeqIds \ {s} : seq_block_map'[t] = seq_block_map[t]
      BY <2>2, <2>11 DEF Types, BMTypeOK
    <2>13. Filled'
      <3> SUFFICES ASSUME NEW t \in SeqIds \ {freeing'}
                   PROVE  /\ Len(seq_block_map'[t]) <= Len(Prompt[t])
                          /\ \A i \in DOMAIN seq_block_map'[t] :
                                content'[seq_block_map'[t][i]] = SubSeq(Prompt[t], 1, i)
        BY Zenon DEF Filled
      <3>1. /\ t \in SeqIds /\ Len(seq_block_map[t]) <= Len(Prompt[t])
            /\ \A i \in DOMAIN seq_block_map[t] :
                  content[seq_block_map[t][i]] = SubSeq(Prompt[t], 1, i)
        BY <1>1, Zenon DEF Exact, Filled
      <3>2. CASE t # s
        <4>1. seq_block_map'[t] = seq_block_map[t]
          BY <2>12, <3>1, <3>2
        <4>2. \A i \in DOMAIN seq_block_map[t] :
                  content'[seq_block_map[t][i]] = SubSeq(Prompt[t], 1, i)
          BY <2>10, <3>1
        <4> QED BY <3>1, <4>1, <4>2, Zenon
      <3>3. CASE t = s
        <4>1. Len(m) < Len(Prompt[s]) /\ Len(Prompt[s]) \in Nat
          BY <1>1, <2>11, PromptConstants, PathFacts
        <4>2. Len(Append(m, c)) = Len(m) + 1 /\ DOMAIN Append(m, c) = 1 .. Len(m) + 1
          BY <2>3, <2>12
        <4>3. Len(seq_block_map'[t]) <= Len(Prompt[t])
          BY <2>12, <3>3, <4>1, <4>2
        <4>4. ASSUME NEW i \in 1 .. Len(m) + 1
              PROVE  content'[Append(m, c)[i]] = SubSeq(Prompt[s], 1, i)
          <5>1. CASE i = Len(m) + 1
            <6>1. Append(m, c)[i] = c
              BY <2>3, <2>12, <5>1
            <6>2. content'[c] = SubSeq(Prompt[s], 1, Len(m) + 1)
              BY <2>2, <2>3, <2>11 DEF Types, TypeOK
            <6> QED BY <5>1, <6>1, <6>2
          <5>2. CASE i # Len(m) + 1
            <6>1. i \in 1 .. Len(m) /\ Append(m, c)[i] = m[i]
              BY <2>3, <2>12, <5>2
            <6>2. content[m[i]] = SubSeq(Prompt[s], 1, i) /\ content'[m[i]] = content[m[i]]
              BY <2>10, <2>11, <2>12, <3>1, <3>3, <6>1
            <6> QED BY <6>1, <6>2, Zenon
          <5> QED BY <5>1, <5>2
        <4> QED BY <2>12, <3>3, <4>2, <4>3, <4>4, Zenon
      <3> QED BY <3>2, <3>3
    <2>14. InsertsOwned'
      <3> SUFFICES ASSUME NEW j \in DOMAIN inserting
                   PROVE  /\ content'[inserting[j][2]] = inserting[j][1]
                          /\ \E t \in SeqIds \ {freeing} : inserting[j][2] \in Range(seq_block_map'[t])
        BY <1>1, <1>2, Zenon DEF InsertsOwned
      <3>1. PICK t \in SeqIds \ {freeing} : inserting[j][2] \in Range(seq_block_map[t])
        BY Zenon DEF Exact, InsertsOwned
      <3>2. content[inserting[j][2]] = inserting[j][1]
        BY Zenon DEF Exact, InsertsOwned
      <3>3. PICK i \in DOMAIN seq_block_map[t] : inserting[j][2] = seq_block_map[t][i]
        BY <3>1, Zenon DEF Range
      <3>4. content'[inserting[j][2]] = inserting[j][1]
        BY <2>10, <3>2, <3>3
      <3>5. inserting[j][2] \in Range(seq_block_map'[t])
        <4>1. Range(Append(m, c)) = Range(m) \cup {c}
          BY <2>3, <2>12, AppendElements
        <4> QED BY <2>11, <2>12, <3>1, <4>1, Zenon
      <3> QED BY <3>4, <3>5, Zenon
    <2>15. HeldExact'
      <3> SUFFICES ASSUME NEW p \in held
                   PROVE  content'[block_id[p]] = p
        BY <1>2, Zenon DEF HeldExact
      <3>1. block_id[p] \in Blocks \ {c}
        BY <2>4 DEF Holders, Types, TypeOK, Cached
      <3> QED BY <2>6, <3>1, Zenon DEF Exact, HeldExact
    <2> QED BY <2>5, <2>7, <2>9, <2>13, <2>14, <2>15, Zenon DEF Exact
  <1> QED BY <1>3, <1>4

LEMMA ExactInsert ==
    ASSUME Types, Exact, NEW s \in SeqIds, Insert(s)
    PROVE  Exact'
  <1>1. /\ EnterInsert(Prompt[s], seq_block_map[s]) /\ UNCHANGED <<bmVars, content, held, trieVars>>
        /\ freeing # s
    BY Zenon DEF Insert, EnterInsert
  <1>2. UNCHANGED <<ref_count, free_list, seq_block_map, freeing, content, held, block_id>>
    BY <1>1, Zenon DEF bmVars, trieVars
  <1>3. Prompt[s] \in Paths /\ seq_block_map[s] \in Seq(Blocks)
    BY PromptConstants DEF Types, BMTypeOK
  <1>4. InsertsOwned'
    <2> SUFFICES ASSUME NEW j \in DOMAIN inserting'
                 PROVE  /\ content[inserting'[j][2]] = inserting'[j][1]
                        /\ \E t \in SeqIds \ {freeing} : inserting'[j][2] \in Range(seq_block_map[t])
      BY <1>2, Zenon DEF InsertsOwned
    <2>1. /\ j \in DOMAIN seq_block_map[s]
          /\ inserting'[j][1] = SubSeq(Prompt[s], 1, j) /\ inserting'[j][2] = seq_block_map[s][j]
      BY <1>1, <1>3, InsertShape, Zenon
    <2>2. content[seq_block_map[s][j]] = SubSeq(Prompt[s], 1, j)
      BY <1>1, <2>1, Zenon DEF Exact, Filled
    <2>3. inserting'[j][2] \in Range(seq_block_map[s])
      BY <2>1, Zenon DEF Range
    <2> QED BY <1>1, <2>1, <2>2, <2>3, Zenon
  <1> QED BY <1>2, <1>4, ExactKept, Zenon

(* insert gives a node without a block the block of a sequence, with a     *)
(* reference of its own.                                                   *)
LEMMA ExactInInsert ==
    ASSUME Types, Exact, InInsert
    PROVE  Exact'
  <1>1. PICK p, b : p = Head(inserting)[1] /\ b = Head(inserting)[2]
    OBVIOUS
  <1>2. /\ inserting # <<>> /\ inserting' = Tail(inserting) /\ UNCHANGED content
        /\ held' = IF block_id[p] = INVALID_BLOCK THEN held \cup {p} ELSE held
        /\ block_id[p] # INVALID_BLOCK => UNCHANGED <<block_id, bmVars>>
        /\ block_id[p] = INVALID_BLOCK => increment_ref(b)
    BY <1>1, Zenon DEF InInsert, InsertNext
  <1>3. p \in Paths /\ b \in Blocks /\ inserting \in Seq(Paths \X Blocks)
    BY <1>1, TypesInsert, Zenon DEF Types, TypeOK
  <1>4. UNCHANGED <<seq_block_map, free_list, freeing>>
    BY <1>2, Zenon DEF increment_ref, bmVars
  <1>5. /\ p = inserting[1][1] /\ b = inserting[1][2] /\ 1 \in DOMAIN inserting
        /\ \A j \in DOMAIN inserting' : inserting'[j] = inserting[j + 1] /\ j + 1 \in DOMAIN inserting
    BY <1>1, <1>2, <1>3
  <1>6. InsertsOwned'
    BY <1>2, <1>4, <1>5, ZenonT(30) DEF Exact, InsertsOwned
  <1>7. content[b] = p /\ Recorded(b)
    BY <1>5, Zenon DEF Exact, InsertsOwned, Recorded
  <1>8. CASE block_id[p] # INVALID_BLOCK
    <2>1. UNCHANGED <<block_id, ref_count, free_list, seq_block_map, freeing, content, held>>
      BY <1>2, <1>8, Zenon DEF bmVars
    <2> QED BY <1>6, <2>1, ExactKept, Zenon
  <1>9. CASE block_id[p] = INVALID_BLOCK
    <2>1. /\ ref_count' = [ref_count EXCEPT ![b] = @ + 1] /\ held' = held \cup {p}
      BY <1>2, <1>9, Zenon DEF increment_ref
    <2>2. p \notin Cached /\ p \notin held
      BY <1>9 DEF Cached, Types, TypeOK
    <2>3. block_id'[p] = b /\ \A q \in held : block_id'[q] = block_id[q]
      BY <1>1, <2>2, TypesInsert, Zenon DEF Types, TypeOK
    <2>4. ref_count[b] \in Nat /\ ref_count[b] > 0
      BY <1>3, <1>7, CountOfBlock, Zenon DEF Exact
    <2>5. ref_count'[b] = ref_count[b] + 1 /\ \A c \in Blocks \ {b} : ref_count'[c] = ref_count[c]
      BY <1>3, <2>1 DEF Types, BMTypeOK
    <2>6. RecordedOnce' /\ \A c : Recorded(c)' <=> Recorded(c)
      <3>1. RecordedOnce'
        BY <1>4 DEF Exact, RecordedOnce
      <3> QED BY <1>4, <3>1, Zenon DEF Recorded
    <2>7. FreeListExact'
      <3>1. \A c \in Blocks : ref_count'[c] = 0 <=> ref_count[c] = 0
        BY <2>4, <2>5
      <3> QED BY <1>4, <3>1 DEF Exact, FreeListExact
    <2>8. RefsCount'
      <3> SUFFICES ASSUME NEW c \in Blocks
                   PROVE  ref_count'[c] = Own(c)' + Cardinality(Holders(c)')
        BY Zenon DEF RefsCount
      <3>1. Own(c)' = Own(c) /\ ref_count[c] = Own(c) + Cardinality(Holders(c))
        BY <2>6, Zenon DEF Own, Exact, RefsCount
      <3>2. Own(c) \in Nat /\ IsFiniteSet(Holders(c)) /\ Cardinality(Holders(c)) \in Nat
        BY HoldersFinite DEF Own
      <3>3. CASE c = b
        <4>1. Holders(c)' = Holders(c) \cup {p} /\ p \notin Holders(c)
          BY <2>1, <2>2, <2>3, <3>3 DEF Holders
        <4>2. Cardinality(Holders(c)') = Cardinality(Holders(c)) + 1
          BY <3>2, <4>1, FS_AddElement, Zenon
        <4> QED BY <2>5, <3>1, <3>2, <3>3, <4>2
      <3>4. CASE c # b
        <4>1. Holders(c)' = Holders(c)
          BY <2>1, <2>2, <2>3, <3>4 DEF Holders
        <4> QED BY <2>5, <3>1, <3>4, <4>1
      <3> QED BY <3>3, <3>4
    <2>9. Filled'
      BY <1>2, <1>4, Zenon DEF Exact, Filled
    <2>10. HeldExact'
      BY <1>2, <1>7, <2>1, <2>3, Zenon DEF Exact, HeldExact
    <2> QED BY <1>6, <2>6, <2>7, <2>8, <2>9, <2>10, Zenon DEF Exact
  <1> QED BY <1>8, <1>9

(* evict_lru gives back the reference of a node that has one. *)
LEMMA ExactInEvict ==
    ASSUME Types, Exact, NEW p \in held, InEvict(p)
    PROVE  Exact'
  <1>1. /\ DropRef(block_id[p]) /\ UNCHANGED <<seq_block_map, freeing, content, inserting, block_id>>
        /\ held' = held \ {p}
    BY Zenon DEF InEvict, EvictNext, decrement_ref, trieVars
  <1>2. PICK b \in Blocks : b = block_id[p]
    BY DEF Types, TypeOK, Cached
  <1>3. ref_count[b] \in Nat /\ ref_count[b] > 0
    <2>1. p \in Holders(b)
      BY <1>2, Zenon DEF Holders
    <2> QED BY <2>1, CountOfBlock, Zenon DEF Exact
  <1>4. ref_count' = [ref_count EXCEPT ![b] = @ - 1] /\ FreeListExact'
    BY <1>1, <1>2, <1>3, DropKeepsList, Zenon DEF Types, Exact
  <1>5. ref_count'[b] = ref_count[b] - 1 /\ \A c \in Blocks \ {b} : ref_count'[c] = ref_count[c]
    BY <1>4 DEF Types, BMTypeOK
  <1>6. RecordedOnce' /\ \A c : Recorded(c)' <=> Recorded(c)
    <2>1. RecordedOnce'
      BY <1>1 DEF Exact, RecordedOnce
    <2> QED BY <1>1, <2>1, Zenon DEF Recorded
  <1>7. RefsCount'
    <2> SUFFICES ASSUME NEW c \in Blocks
                 PROVE  ref_count'[c] = Own(c)' + Cardinality(Holders(c)')
      BY Zenon DEF RefsCount
    <2>1. Own(c)' = Own(c) /\ ref_count[c] = Own(c) + Cardinality(Holders(c))
      BY <1>6, Zenon DEF Own, Exact, RefsCount
    <2>2. Own(c) \in Nat /\ IsFiniteSet(Holders(c)) /\ Cardinality(Holders(c)) \in Nat
      BY HoldersFinite DEF Own
    <2>3. CASE c = b
      <3>1. Holders(c)' = Holders(c) \ {p} /\ p \in Holders(c)
        BY <1>1, <1>2, <2>3 DEF Holders
      <3>2. Cardinality(Holders(c)') = Cardinality(Holders(c)) - 1
        BY <2>2, <3>1, FS_RemoveElement, Zenon
      <3> QED BY <1>5, <2>1, <2>2, <2>3, <3>2
    <2>4. CASE c # b
      <3>1. Holders(c)' = Holders(c)
        BY <1>1, <1>2, <2>4 DEF Holders
      <3> QED BY <1>5, <2>1, <2>4, <3>1
    <2> QED BY <2>3, <2>4
  <1>8. Filled'
    BY <1>1, Zenon DEF Exact, Filled
  <1>9. HeldExact'
    BY <1>1, Zenon DEF Exact, HeldExact
  <1>10. InsertsOwned'
    BY <1>1, OwnedKept, Zenon DEF Exact
  <1> QED BY <1>4, <1>6, <1>7, <1>8, <1>9, <1>10, Zenon DEF Exact

(* free_blocks gives back the reference of the sequence and forgets the    *)
(* block in one step; a node that holds the block keeps it from the list.  *)
LEMMA ExactFree ==
    ASSUME Types, Exact, FreeSeqStep
    PROVE  Exact'
  <1>1. /\ UNCHANGED <<block_id, inserting, content, held>> /\ freeing # NoSeq
        /\ FreeBlocksNext \/ FreeBlocksReturn
    BY Zenon DEF FreeSeqStep, FreeBlocksNext, FreeBlocksReturn, prefixVars, trieVars
  <1>2. PICK f \in SeqIds : f = freeing
    BY <1>1, Zenon DEF Types, BMTypeOK
  <1>3. \A c : Holders(c)' = Holders(c)
    BY <1>1, Zenon DEF Holders
  <1>4. HeldExact'
    BY <1>1, Zenon DEF Exact, HeldExact
  <1>5. CASE FreeBlocksNext
    <2>1. PICK h : h = Head(seq_block_map[f])
      OBVIOUS
    <2>2. /\ seq_block_map[f] # <<>> /\ DropRef(h) /\ freeing' = freeing
          /\ seq_block_map' = [seq_block_map EXCEPT ![f] = Tail(@)]
      BY <1>2, <1>5, <2>1, Zenon DEF FreeBlocksNext
    <2>3. /\ h \in Blocks /\ Recorded(h) /\ RecordedOnce'
          /\ \A c \in Blocks : Recorded(c)' <=> (Recorded(c) /\ c # h)
      BY <2>1, <2>2, Unrecord, Zenon DEF Types, Exact
    <2>4. ref_count[h] \in Nat /\ ref_count[h] > 0
      BY <2>3, CountOfBlock, Zenon DEF Exact
    <2>5. ref_count' = [ref_count EXCEPT ![h] = @ - 1] /\ FreeListExact'
      BY <2>2, <2>3, <2>4, DropKeepsList, Zenon DEF Types, Exact
    <2>6. ref_count'[h] = ref_count[h] - 1 /\ \A c \in Blocks \ {h} : ref_count'[c] = ref_count[c]
      BY <2>3, <2>5 DEF Types, BMTypeOK
    <2>7. RefsCount'
      <3> SUFFICES ASSUME NEW c \in Blocks
                   PROVE  ref_count'[c] = Own(c)' + Cardinality(Holders(c)')
        BY Zenon DEF RefsCount
      <3>1. ref_count[c] = Own(c) + Cardinality(Holders(c)) /\ Cardinality(Holders(c)) \in Nat
        BY HoldersFinite, Zenon DEF Exact, RefsCount
      <3>2. CASE c = h
        <4>1. Own(c) = 1 /\ Own(c)' = 0
          BY <2>3, <3>2, Zenon DEF Own
        <4> QED BY <1>3, <2>6, <3>1, <3>2, <4>1
      <3>3. CASE c # h
        <4>1. Own(c)' = Own(c)
          BY <2>3, <3>3, Zenon DEF Own
        <4> QED BY <1>3, <2>6, <3>1, <3>3, <4>1
      <3> QED BY <3>2, <3>3
    <2>8. \A t \in SeqIds \ {freeing} : seq_block_map'[t] = seq_block_map[t]
      BY <1>2, <2>2 DEF Types, BMTypeOK
    <2>9. Filled'
      <3> SUFFICES ASSUME NEW t \in SeqIds \ {freeing}
                   PROVE  /\ Len(seq_block_map'[t]) <= Len(Prompt[t])
                          /\ \A i \in DOMAIN seq_block_map'[t] :
                                content[seq_block_map'[t][i]] = SubSeq(Prompt[t], 1, i)
        BY <1>1, <2>2, Zenon DEF Filled
      <3>1. seq_block_map'[t] = seq_block_map[t]
        BY <2>8, Zenon
      <3> QED BY <3>1, Zenon DEF Exact, Filled
    <2>10. InsertsOwned'
      <3> SUFFICES ASSUME NEW j \in DOMAIN inserting
                   PROVE  /\ content[inserting[j][2]] = inserting[j][1]
                          /\ \E t \in SeqIds \ {freeing} : inserting[j][2] \in Range(seq_block_map'[t])
        BY <1>1, <2>2, Zenon DEF InsertsOwned
      <3> QED BY <2>8, Zenon DEF Exact, InsertsOwned
    <2> QED BY <1>4, <2>3, <2>5, <2>7, <2>9, <2>10, Zenon DEF Exact
  <1>6. CASE FreeBlocksReturn
    <2>1. /\ seq_block_map[f] = <<>> /\ freeing' = NoSeq
          /\ UNCHANGED <<ref_count, free_list, seq_block_map>>
      BY <1>2, <1>6, Zenon DEF FreeBlocksReturn
    <2>2. RecordedOnce' /\ FreeListExact' /\ RefsCount'
      <3>1. RecordedOnce'
        BY <2>1 DEF Exact, RecordedOnce
      <3>2. FreeListExact'
        BY <2>1 DEF Exact, FreeListExact
      <3>3. ASSUME NEW c PROVE Own(c)' = Own(c)
        BY <2>1, Zenon DEF Own, Recorded
      <3>4. RefsCount'
        BY <1>3, <2>1, <3>3, Zenon DEF Exact, RefsCount
      <3> QED BY <3>1, <3>2, <3>4
    <2>3. Filled'
      <3> SUFFICES ASSUME NEW t \in SeqIds
                   PROVE  /\ Len(seq_block_map[t]) <= Len(Prompt[t])
                          /\ \A i \in DOMAIN seq_block_map[t] :
                                content[seq_block_map[t][i]] = SubSeq(Prompt[t], 1, i)
        BY <1>1, <2>1, Zenon DEF Filled
      <3>1. CASE t = f
        <4>1. Len(Prompt[t]) \in Nat
          BY PromptConstants, PathFacts
        <4> QED BY <2>1, <3>1, <4>1
      <3>2. CASE t # f
        BY <1>2, <3>2, Zenon DEF Exact, Filled
      <3> QED BY <3>1, <3>2
    <2>4. InsertsOwned'
      <3>1. \A t \in SeqIds \ {freeing} : t \in SeqIds \ {freeing'}
        BY <2>1, BlockConstants, Zenon
      <3> QED BY <1>1, <2>1, <3>1, Zenon DEF Exact, InsertsOwned
    <2> QED BY <1>4, <2>2, <2>3, <2>4, Zenon DEF Exact
  <1> QED BY <1>1, <1>5, <1>6

LEMMA ExactFreeSeq ==
    ASSUME Types, Exact, NEW s \in SeqIds, FreeSeq(s)
    PROVE  Exact'
  <1>1. /\ UNCHANGED <<ref_count, free_list, seq_block_map, block_id, inserting, content, held>>
        /\ freeing = NoSeq /\ freeing' = s
        /\ \A j \in DOMAIN inserting : inserting[j][2] \notin Range(seq_block_map[s])
    BY Zenon DEF FreeSeq, EnterFreeBlocks, prefixVars, trieVars
  <1>2. RecordedOnce' /\ FreeListExact' /\ RefsCount'
    <2>1. RecordedOnce'
      BY <1>1 DEF Exact, RecordedOnce
    <2>2. FreeListExact'
      BY <1>1 DEF Exact, FreeListExact
    <2>3. ASSUME NEW c PROVE Own(c)' = Own(c) /\ Holders(c)' = Holders(c)
      BY <1>1, Zenon DEF Own, Recorded, Holders
    <2>4. RefsCount'
      BY <1>1, <2>3, Zenon DEF Exact, RefsCount
    <2> QED BY <2>1, <2>2, <2>4
  <1>3. \A t \in SeqIds : t \in SeqIds \ {freeing}
    BY <1>1, BlockConstants, Zenon
  <1>4. Filled'
    BY <1>1, <1>3, Zenon DEF Exact, Filled
  <1>5. InsertsOwned'
    <2> SUFFICES ASSUME NEW j \in DOMAIN inserting
                 PROVE  /\ content[inserting[j][2]] = inserting[j][1]
                        /\ \E t \in SeqIds \ {s} : inserting[j][2] \in Range(seq_block_map[t])
      BY <1>1, Zenon DEF InsertsOwned
    <2>1. PICK t \in SeqIds : inserting[j][2] \in Range(seq_block_map[t])
      BY Zenon DEF Exact, InsertsOwned
    <2> QED BY <1>1, <2>1, Zenon DEF Exact, InsertsOwned
  <1>6. HeldExact'
    BY <1>1, Zenon DEF Exact, HeldExact
  <1> QED BY <1>2, <1>4, <1>5, <1>6, Zenon DEF Exact

LEMMA RefsStep ==
    ASSUME Types, RefsInv, [Next]_clientVars
    PROVE  RefsInv'
  <1> SUFFICES ASSUME evict_calls' <= 1
               PROVE  /\ evict_calls' = 0 => held' = Cached' /\ evicting' = {}
                      /\ evicting' \subseteq held'
                      /\ Exact'
    BY Zenon DEF RefsInv
  <1>1. evict_calls \in Nat /\ (evict_calls' = evict_calls \/ evict_calls' = evict_calls + 1)
    <2>1. evict_calls' = evict_calls \/ \E n \in 1 .. Cardinality(Paths) : Evict(n)
      BY Zenon DEF Next, Prefill, Insert, Lookup, Release, FreeSeq, InEvict, InInsert, FreeSeqStep, clientVars
    <2> QED BY <2>1, Zenon DEF Evict, Types, TypeOK
  <1>2. /\ evict_calls = 0 => held = Cached /\ evicting = {}
        /\ evicting \subseteq held /\ Exact
    <2>1. evict_calls <= 1
      BY <1>1
    <2> QED BY <2>1, Zenon DEF RefsInv
  <1>3. ASSUME UNCHANGED <<block_id, evicting, held, evict_calls>>
        PROVE  /\ evict_calls' = 0 => held' = Cached' /\ evicting' = {}
               /\ evicting' \subseteq held'
    <2>1. Cached' = Cached
      BY <1>3, Zenon DEF Cached
    <2> QED BY <1>2, <1>3, <2>1, Zenon
  <1> DEFINE Goal == /\ evict_calls' = 0 => held' = Cached' /\ evicting' = {}
                     /\ evicting' \subseteq held'
                     /\ Exact'
  <1>4. ASSUME NEW s \in SeqIds, Prefill(s) \/ FreeSeq(s) \/ Insert(s) PROVE Goal
    <2>1. UNCHANGED <<block_id, evicting, held, evict_calls>>
      BY <1>4, Zenon DEF Prefill, FreeSeq, Insert, EnterInsert, prefixVars, trieVars
    <2>2. Exact'
      BY <1>2, <1>4, ExactPrefill, ExactFreeSeq, ExactInsert, Zenon
    <2> QED BY <1>3, <2>1, <2>2, Zenon
  <1>5. ASSUME NEW s \in SeqIds, Lookup(s) \/ Release(s) PROVE Goal
    <2>1. UNCHANGED <<block_id, inserting, evicting, bmVars, content, held, evict_calls>>
      BY <1>5, Zenon DEF Lookup, Release, lookup, release
    <2>2. UNCHANGED <<ref_count, free_list, seq_block_map, freeing>>
      BY <2>1, Zenon DEF bmVars
    <2>3. Exact'
      BY <1>2, <2>1, <2>2, OwnedKept, ExactKept, Zenon DEF Exact
    <2> QED BY <1>3, <2>1, <2>3, Zenon
  <1>6. ASSUME NEW n \in 1 .. Cardinality(Paths), Evict(n) PROVE Goal
    <2>1. UNCHANGED <<block_id, inserting, bmVars, content, held>> /\ evicting' \subseteq Cached
      BY <1>6, Zenon DEF Evict, EnterEvict, trieVars, Candidates
    <2>2. UNCHANGED <<ref_count, free_list, seq_block_map, freeing>>
      BY <2>1, Zenon DEF bmVars
    <2>3. Exact'
      BY <1>2, <2>1, <2>2, OwnedKept, ExactKept, Zenon DEF Exact
    <2>4. evict_calls = 0 /\ evict_calls' = 1
      <3>1. evict_calls' = evict_calls + 1
        BY <1>6, Zenon DEF Evict
      <3> QED BY <1>1, <3>1
    <2>5. evict_calls' # 0
      BY <2>4
    <2> QED BY <1>2, <2>1, <2>3, <2>4, <2>5, Zenon
  <1>7. ASSUME NEW p \in evicting, InEvict(p) PROVE Goal
    <2>1. p \in held /\ evict_calls # 0
      BY <1>2, Zenon
    <2>2. evicting' = evicting \ {p} /\ held' = held \ {p} /\ evict_calls' = evict_calls
      BY <1>7, Zenon DEF InEvict, EvictNext
    <2>3. Exact'
      BY <1>2, <1>7, <2>1, ExactInEvict, Zenon
    <2> QED BY <1>2, <2>1, <2>2, <2>3, Zenon
  <1>8. ASSUME InInsert PROVE Goal
    <2>1. PICK p \in Paths : /\ p = Head(inserting)[1] /\ Cached' = Cached \cup {p}
      BY <1>8, TypesInsert, Zenon
    <2>2. /\ held' = IF block_id[p] = INVALID_BLOCK THEN held \cup {p} ELSE held
          /\ UNCHANGED <<evicting, evict_calls>>
      BY <1>8, <2>1, Zenon DEF InInsert, InsertNext
    <2>3. evicting' \subseteq held'
      BY <1>2, <2>2, Zenon
    <2>4. evict_calls' = 0 => held' = Cached' /\ evicting' = {}
      BY <1>2, <2>1, <2>2 DEF Cached
    <2> QED BY <1>2, <1>8, <2>3, <2>4, ExactInInsert, Zenon
  <1>9. ASSUME FreeSeqStep PROVE Goal
    <2>1. UNCHANGED <<block_id, evicting, held, evict_calls>>
      BY <1>9, Zenon DEF FreeSeqStep, prefixVars, trieVars
    <2> QED BY <1>2, <1>3, <1>9, <2>1, ExactFree, Zenon
  <1>10. ASSUME UNCHANGED clientVars PROVE Goal
    <2>1. UNCHANGED <<block_id, evicting, inserting, held, evict_calls, content, ref_count, free_list,
                      seq_block_map, freeing>>
      BY <1>10, Zenon DEF clientVars, bmVars, prefixVars, trieVars
    <2>2. Exact'
      BY <1>2, <2>1, OwnedKept, ExactKept, Zenon DEF Exact
    <2> QED BY <1>3, <2>1, <2>2, Zenon
  <1> HIDE DEF Goal
  <1>11. Goal
    BY <1>4, <1>5, <1>6, <1>7, <1>8, <1>9, <1>10, Zenon DEF Next
  <1> QED BY <1>11, Zenon DEF Goal

LEMMA RefsInit == Init => RefsInv
  <1> SUFFICES ASSUME Init PROVE RefsInv
    OBVIOUS
  <1>1. /\ Cached = {} /\ inserting = <<>> /\ evicting = {} /\ held = {}
        /\ ref_count = [b \in Blocks |-> 0] /\ seq_block_map = [s \in SeqIds |-> <<>>]
    BY DEF Init, PrefixInit, Cached, BMInit
  <1>2. FreeListExact /\ RecordedOnce /\ \A b \in Blocks : ~Recorded(b)
    BY BMInitExact, Zenon DEF Init
  <1>3. RefsCount
    <2> SUFFICES ASSUME NEW b \in Blocks PROVE ref_count[b] = Own(b) + Cardinality(Holders(b))
      BY DEF RefsCount
    <2>1. Own(b) = 0
      BY <1>2, Zenon DEF Own
    <2>2. Holders(b) = {}
      BY <1>1 DEF Holders
    <2> QED BY <1>1, <2>1, <2>2, FS_EmptySet
  <1>4. Filled
    <2> SUFFICES ASSUME NEW s \in SeqIds
                 PROVE  Len(seq_block_map[s]) <= Len(Prompt[s]) /\ DOMAIN seq_block_map[s] = {}
      BY Zenon DEF Filled
    <2>1. Len(Prompt[s]) \in Nat
      BY PromptConstants, PathFacts
    <2> QED BY <1>1, <2>1
  <1>5. InsertsOwned /\ HeldExact
    BY <1>1 DEF InsertsOwned, HeldExact
  <1> QED BY <1>1, <1>2, <1>3, <1>4, <1>5, Zenon DEF RefsInv, Exact

(* The accounting behind CacheRefsExact and HeldExact holds for all         *)
(* interleavings of insert, evict_lru, release, lookup and free_blocks.    *)
THEOREM RefsAlways == Spec => [](Types /\ RefsInv)
  BY TypesInit, TypesStep, RefsInit, RefsStep, PTL DEF Spec

(* As long as evict_lru was called at most once, counts, records, the      *)
(* cache's own references and the free lists agree, whatever the           *)
(* sequences, insert, release and free_blocks interleave.                  *)
THEOREM CacheRefsExactAlways == Spec => [](evict_calls <= 1 => CacheRefsExact)
  <1>1. ASSUME Types, RefsInv, evict_calls <= 1 PROVE CacheRefsExact
    <2>1. Exact
      BY <1>1, Zenon DEF RefsInv
    <2> SUFFICES ASSUME NEW b \in Blocks
                 PROVE  Cardinality({s \in SeqIds : b \in Range(seq_block_map[s])}) = Own(b)
      BY <2>1, Zenon DEF CacheRefsExact, Exact, RefsCount, Holders
    <2>2. CASE ~Recorded(b)
      <3>1. {s \in SeqIds : b \in Range(seq_block_map[s])} = {}
        BY <2>2, Zenon DEF Recorded
      <3> QED BY <2>2, <3>1, FS_EmptySet, Zenon DEF Own
    <2>3. CASE Recorded(b)
      <3>1. PICK s \in SeqIds : b \in Range(seq_block_map[s])
        BY <2>3, Zenon DEF Recorded
      <3>2. ASSUME NEW t \in SeqIds, b \in Range(seq_block_map[t]) PROVE t = s
        <4>1. PICK i \in DOMAIN seq_block_map[s] : b = seq_block_map[s][i]
          BY <3>1, Zenon DEF Range
        <4>2. PICK j \in DOMAIN seq_block_map[t] : b = seq_block_map[t][j]
          BY <3>2, Zenon DEF Range
        <4> QED BY <2>1, <4>1, <4>2, Zenon DEF Exact, RecordedOnce
      <3>3. {t \in SeqIds : b \in Range(seq_block_map[t])} = {s}
        BY <3>1, <3>2
      <3> QED BY <2>3, <3>3, FS_Singleton, Zenon DEF Own
    <2> QED BY <2>2, <2>3
  <1> QED BY <1>1, RefsAlways, PTL

(* As long as evict_lru was called at most once, the block of a node the   *)
(* cache holds still has the keys and values of the node's prefix.         *)
THEOREM HeldExactAlways == Spec => [](evict_calls <= 1 => HeldExact)
  <1>1. RefsInv => (evict_calls <= 1 => HeldExact)
    BY DEF RefsInv, Exact
  <1> QED BY <1>1, RefsAlways, PTL

=============================================================================
