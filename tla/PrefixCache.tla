----------------------------- MODULE PrefixCache ----------------------------
(***************************************************************************)
(* The prefix cache (kv_cache/prefix_cache.cpp): a trie over tokens whose  *)
(* nodes at block boundaries name the KV block of the prefix that ends     *)
(* there.  Only those nodes matter to any operation, so a node is named by *)
(* its path, the sequence of whole blocks of tokens ("chunks") that leads  *)
(* to it; tokens after the last whole block are dropped, as the code does. *)
(* A node without a block stands for one that was never created: insert    *)
(* gives every boundary node it passes a block.                            *)
(*                                                                         *)
(* PrefixCache::mu_ is held for a whole operation, BlockManager::mu_ only  *)
(* for each call into the block manager.  insert and evict_lru therefore   *)
(* take one step per such call; `inserting` and `evicting` are the work    *)
(* left of the call that holds PrefixCache::mu_.                           *)
(*                                                                         *)
(* last_access is a unique, growing time stamp, of which only the order    *)
(* matters: newer[p] are the nodes that were accessed after p.  The hit    *)
(* statistics are left out: no operation reads them.                       *)
(***************************************************************************)
EXTENDS BlockManager, FiniteSets

CONSTANT Paths      \* the block-aligned prefixes that occur, closed under prefix

ASSUME PathConstants ==
    /\ IsFiniteSet(Paths)
    /\ \A p \in Paths :
          /\ p \in Seq(Range(p)) /\ p # <<>>
          /\ \A i \in 1 .. Len(p) : SubSeq(p, 1, i) \in Paths

VARIABLES
    block_id,   \* PrefixTrieNode::block_id of every node
    node_refs,  \* PrefixTrieNode::ref_count
    newer,      \* the order of last_access of the nodes that have a block
    inserting,  \* <<node, block>> pairs insert has still to go through
    evicting    \* nodes evict_lru has still to go through

trieVars == <<block_id, node_refs, newer>>
prefixVars == <<trieVars, inserting, evicting>>

PrefixInit ==
    /\ block_id = [p \in Paths |-> INVALID_BLOCK]
    /\ node_refs = [p \in Paths |-> 0]
    /\ newer = [p \in Paths |-> {}]
    /\ inserting = <<>>
    /\ evicting = {}

(* Nobody holds PrefixCache::mu_. *)
Unlocked == inserting = <<>> /\ evicting = {}

Cached == {p \in Paths : block_id[p] # INVALID_BLOCK}

(* Mutant: the clock ticks once per call, for all nodes on the way down. *)
TouchOneTick(W) ==
    [p \in Paths |->
        IF p \in W THEN {} ELSE IF p \in Cached THEN newer[p] \cup W ELSE {}]

(* node->last_access = ++access_clock_, for the nodes of W on the way down. *)
Touch(W) ==
    [p \in Paths |->
        IF p \in W THEN {q \in W : Len(q) > Len(p)}
        ELSE IF p \in Cached THEN newer[p] \cup W ELSE {}]

(* The boundary nodes on the way down p, as far as there are children. *)
Walk(p) == {SubSeq(p, 1, i) : i \in 1 .. Len(p)} \cap Cached

(* The caller receives the blocks of Walk(p). *)
lookup(p) ==
    /\ Unlocked
    /\ newer' = Touch(Walk(p))
    /\ UNCHANGED <<block_id, node_refs, inserting, evicting>>

(* Mutant: a block is stored one boundary too deep. *)
InsertOneTooDeep(p, blocks) ==
    /\ Unlocked
    /\ inserting' = [i \in 1 .. Min({Len(p) - 1, Len(blocks)}) |->
                        <<SubSeq(p, 1, i + 1), blocks[i]>>]
    /\ UNCHANGED <<trieVars, evicting>>

(* insert(p, blocks): the loop ends with the tokens or with the blocks. *)
EnterInsert(p, blocks) ==
    /\ Unlocked
    /\ inserting' = [i \in 1 .. Min({Len(p), Len(blocks)}) |->
                        <<SubSeq(p, 1, i), blocks[i]>>]
    /\ UNCHANGED <<trieVars, evicting>>

(* Mutant: the cache takes no reference of its own. *)
InsertBorrows ==
    /\ inserting # <<>> /\ freeing = NoSeq
    /\ LET p == Head(inserting)[1]
           b == Head(inserting)[2]
       IN  /\ block_id' = [block_id EXCEPT ![p] = IF @ = INVALID_BLOCK THEN b ELSE @]
           /\ node_refs' = [node_refs EXCEPT ![p] = IF block_id[p] = INVALID_BLOCK THEN 1 ELSE @]
           /\ newer' = Touch({p})
    /\ inserting' = Tail(inserting)
    /\ UNCHANGED <<bmVars, evicting>>

InsertNext ==
    /\ inserting # <<>>
    /\ LET p == Head(inserting)[1]
           b == Head(inserting)[2]
       IN  /\ IF block_id[p] = INVALID_BLOCK
              THEN /\ block_id' = [block_id EXCEPT ![p] = b]
                   /\ node_refs' = [node_refs EXCEPT ![p] = 1]
                   /\ increment_ref(b)
              ELSE UNCHANGED <<block_id, node_refs, bmVars>>
           /\ newer' = Touch({p})
    /\ inserting' = Tail(inserting)
    /\ UNCHANGED evicting

release(p) ==
    /\ Unlocked
    /\ node_refs' = [q \in Paths |->
           node_refs[q] - (IF q \in Walk(p) THEN 1 ELSE 0)]
    /\ UNCHANGED <<block_id, newer, inserting, evicting>>

(* collect_eviction_candidates: a node stays one after it was evicted. *)
Candidates == {p \in Cached : node_refs[p] <= 0}

(* Mutant: the most recently used candidates are taken. *)
Newest(E) == \A p \in E : Candidates \cap newer[p] \subseteq E

(* E is a beginning of the candidates sorted by time stamp. *)
Oldest(E) == \A p \in E : Candidates \ E \subseteq newer[p]

EnterEvict(num_blocks_to_free) ==
    /\ Unlocked
    /\ \E E \in SUBSET Candidates :
           /\ Cardinality(E) = Min({num_blocks_to_free, Cardinality(Candidates)})
           /\ Oldest(E)
           /\ evicting' = E
    /\ UNCHANGED <<trieVars, inserting>>

(* The candidate whose turn it is.  The node keeps its block_id. *)
EvictNext(p) ==
    /\ p \in evicting /\ evicting \ {p} \subseteq newer[p]
    /\ decrement_ref(block_id[p])
    /\ evicting' = evicting \ {p}
    /\ UNCHANGED <<trieVars, inserting>>

=============================================================================
