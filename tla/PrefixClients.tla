---------------------------- MODULE PrefixClients ---------------------------
(***************************************************************************)
(* The prefix cache and the block manager with sequences that share        *)
(* prefixes.  A sequence allocates a block for each chunk of its prompt,   *)
(* may insert them into the cache, and then both releases the prompt and   *)
(* frees its blocks, in either order; another thread looks prompts up and  *)
(* evicts at any time.  Sequences give back only what they took: release   *)
(* once for each insert, and free_block is not called.                     *)
(*                                                                         *)
(* `content` is what the model adds to the code's state: the prefix whose  *)
(* keys and values were last written into a block.  `held` are the nodes   *)
(* whose reference the cache took and has not given back.                  *)
(***************************************************************************)
EXTENDS PrefixCache

CONSTANTS
    Prompt,         \* the prompt of every sequence, as a sequence of chunks
    MaxEvictCalls,  \* bound on the calls of evict_lru
    MinNodeRefs     \* bound on how far release takes a node's count below zero

ASSUME PromptConstants ==
    /\ \A s \in SeqIds : Prompt[s] \in Paths
    /\ MaxEvictCalls \in Nat
    /\ MinNodeRefs \in Int

VARIABLES content, using, held, evict_calls

clientVars == <<bmVars, prefixVars, content, using, held, evict_calls>>

Init ==
    /\ BMInit
    /\ PrefixInit
    /\ content = [b \in Blocks |-> <<>>]
    /\ using = {}       \* sequences that inserted and have not released
    /\ held = {}
    /\ evict_calls = 0

(* Allocate a block for the next chunk of the prompt and fill it. *)
Prefill(s) ==
    /\ s \notin using
    /\ Len(seq_block_map[s]) < Len(Prompt[s])
    /\ allocate_block(s, "CUDA")
    /\ content' = IF free_list["CUDA"] = <<>>
                  THEN content
                  ELSE [content EXCEPT ![PoppedBlock("CUDA")] =
                           SubSeq(Prompt[s], 1, Len(seq_block_map[s]) + 1)]
    /\ UNCHANGED <<prefixVars, using, held, evict_calls>>

Insert(s) ==
    /\ s \notin using
    /\ freeing # s
    /\ seq_block_map[s] # <<>>
    /\ EnterInsert(Prompt[s], seq_block_map[s])
    /\ using' = using \cup {s}
    /\ UNCHANGED <<bmVars, content, held, evict_calls>>

InInsert ==
    /\ InsertNext
    /\ held' = IF block_id[Head(inserting)[1]] = INVALID_BLOCK
               THEN held \cup {Head(inserting)[1]}
               ELSE held
    /\ UNCHANGED <<content, using, evict_calls>>

Lookup(s) ==
    /\ lookup(Prompt[s])
    /\ UNCHANGED <<bmVars, content, using, held, evict_calls>>

Release(s) ==
    /\ s \in using
    /\ \A p \in Walk(Prompt[s]) : node_refs[p] > MinNodeRefs
    /\ release(Prompt[s])
    /\ using' = using \ {s}
    /\ UNCHANGED <<bmVars, content, held, evict_calls>>

Evict(n) ==
    /\ evict_calls < MaxEvictCalls
    /\ EnterEvict(n)
    /\ evict_calls' = evict_calls + 1
    /\ UNCHANGED <<bmVars, content, using, held>>

InEvict(p) ==
    /\ EvictNext(p)
    /\ held' = held \ {p}
    /\ UNCHANGED <<content, using, evict_calls>>

(* A sequence does not free its blocks in the middle of inserting them. *)
FreeSeq(s) ==
    /\ \A i \in DOMAIN inserting : inserting[i][2] \notin Range(seq_block_map[s])
    /\ EnterFreeBlocks(s)
    /\ UNCHANGED <<ref_count, free_list, seq_block_map>>
    /\ UNCHANGED <<prefixVars, content, using, held, evict_calls>>

FreeSeqStep ==
    /\ FreeBlocksNext \/ FreeBlocksReturn
    /\ UNCHANGED <<prefixVars, content, using, held, evict_calls>>

Next ==
    \/ \E s \in SeqIds :
           Prefill(s) \/ Insert(s) \/ Lookup(s) \/ Release(s) \/ FreeSeq(s)
    \/ \E n \in 1 .. Cardinality(Paths) : Evict(n)
    \/ \E p \in evicting : InEvict(p)
    \/ InInsert \/ FreeSeqStep

Spec == Init /\ [][Next]_clientVars

-----------------------------------------------------------------------------
(* n puts the nodes of C, and only those, in one line: n[p] come after p.  *)
InLine(C, n) ==
    /\ n \in [Paths -> SUBSET C]
    /\ \A p \in Paths \ C : n[p] = {}
    /\ \A p, q \in C : q \in n[p] <=> p # q /\ p \notin n[q]
    /\ \A p \in C : \A q \in n[p] : n[q] \subseteq n[p]

(* The types of the prefix cache's state; the time stamps put the nodes    *)
(* that have a block in one line.                                          *)
TypeOK ==
    /\ block_id \in [Paths -> Blocks \cup {INVALID_BLOCK}]
    /\ node_refs \in [Paths -> Int]
    /\ InLine(Cached, newer)
    /\ inserting \in Seq(Paths \X Blocks)
    /\ evicting \subseteq Cached
    /\ content \in [Blocks -> Paths \cup {<<>>}]
    /\ using \subseteq SeqIds /\ held \subseteq Cached
    /\ evict_calls \in Nat

(* A block's count is one for the sequence it is recorded under plus one   *)
(* for every node whose reference the cache still has, and a free list     *)
(* holds exactly the blocks with count zero, once each.                    *)
CacheRefsExact ==
    /\ \A b \in Blocks :
           ref_count[b] =
               Cardinality({s \in SeqIds : b \in Range(seq_block_map[s])})
                   + Cardinality({p \in held : block_id[p] = b})
    /\ FreeListExact

(* While the cache has its reference, a node's block holds the keys and    *)
(* values of the node's prefix: no sequence was given the block to write,  *)
(* whatever was freed and allocated since.                                 *)
HeldExact == \A p \in held : content[block_id[p]] = p

(* "Reuses KV blocks for shared prompt prefixes": lookup returns for a     *)
(* prefix only the block that holds the keys and values of that prefix.    *)
LookupExact == \A p \in Cached : content[block_id[p]] = p

(* The cache keeps whole prefixes: the way to a node with a block passes   *)
(* only nodes with blocks, so lookup's blocks are contiguous from token 0. *)
PrefixClosed == \A p \in Cached : \A i \in 1 .. Len(p) : SubSeq(p, 1, i) \in Cached

(* evict_lru gives up the least recently used of the released nodes it     *)
(* still holds, one after the other.                                       *)
EvictsOldest ==
    [][\A p \in held \ held' :
          /\ node_refs[p] <= 0
          /\ \A q \in held : node_refs[q] <= 0 /\ q # p =>
                 q \in newer[p]]_clientVars

=============================================================================
