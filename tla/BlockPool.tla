----------------------------- MODULE BlockPool ------------------------------
(***************************************************************************)
(* What the block manager promises its callers, without free lists or      *)
(* reference counts.  A block has at most one holder, the sequence that    *)
(* free_blocks will release it for, and any number of pins, the references *)
(* taken with increment_ref.  A block in use is never handed out again;    *)
(* any block not in use may be.                                            *)
(***************************************************************************)
EXTENDS Naturals

CONSTANTS Blocks, SeqIds, NoSeq

VARIABLES holder, pins

poolVars == <<holder, pins>>

InUse(b) == holder[b] # NoSeq \/ pins[b] > 0

Init ==
    /\ holder = [b \in Blocks |-> NoSeq]
    /\ pins = [b \in Blocks |-> 0]

Allocate(s, b) ==
    /\ ~InUse(b)
    /\ holder' = [holder EXCEPT ![b] = s]
    /\ UNCHANGED pins

Pin(b) ==
    /\ InUse(b)
    /\ pins' = [pins EXCEPT ![b] = @ + 1]
    /\ UNCHANGED holder

Unpin(b) ==
    /\ pins[b] > 0
    /\ pins' = [pins EXCEPT ![b] = @ - 1]
    /\ UNCHANGED holder

(* A pin of b is traded for a block of s's own: b itself when that pin is  *)
(* its only use, a fresh block c otherwise.                                *)
Trade(b, s, c) ==
    /\ pins[b] > 0
    /\ IF holder[b] = NoSeq /\ pins[b] = 1 THEN c = b ELSE ~InUse(c)
    /\ pins' = [pins EXCEPT ![b] = @ - 1]
    /\ holder' = [holder EXCEPT ![c] = s]

Release(s) ==
    /\ holder' = [b \in Blocks |-> IF holder[b] = s THEN NoSeq ELSE holder[b]]
    /\ UNCHANGED pins

Next ==
    \/ \E s \in SeqIds : Release(s)
    \/ \E b \in Blocks : Pin(b) \/ Unpin(b)
    \/ \E s \in SeqIds, b \in Blocks : Allocate(s, b)
    \/ \E s \in SeqIds, b, c \in Blocks : Trade(b, s, c)

Spec == Init /\ [][Next]_poolVars

=============================================================================
