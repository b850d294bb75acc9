------------------------------ MODULE Sampling ------------------------------
(***************************************************************************)
(* BatchDecodeEngine::sample for one entry of the batch.  Where a sort     *)
(* leaves the order of equal elements open every order is possible, and    *)
(* the random draw is any number of its interval.                          *)
(***************************************************************************)
EXTENDS Softmax, Sequences, FiniteSets, FiniteSetsExt, SequencesExt

CONSTANTS
    vocab_size,
    Logits,         \* the logits a token may have
    Temperatures,   \* they divide every logit; 0 is below 1e-6
    TopKs,          \* top_k
    TopPs           \* top_p, as a pair <<numerator, denominator>>

VARIABLE sampled    \* the last draw: [logits, sp, token]

Vocab == 0 .. vocab_size - 1

SampleInit == sampled = <<>>

(* std::max_element: the first of the largest. *)
Greedy(logits) ==
    Min({v \in Vocab : \A u \in Vocab : logits[u] <= logits[v]})

(* What a descending sort by key may leave. *)
Sorted(S, key) ==
    {s \in SetToSeqs(S) : \A j \in 1 .. Len(s) - 1 : key[s[j]] >= key[s[j + 1]]}

(* scored after partial_sort and resize. *)
TopK(scaled, k) ==
    IF 0 < k /\ k < vocab_size
    THEN {SubSeq(s, 1, k) : s \in Sorted(Vocab, scaled)}
    ELSE {[j \in 1 .. vocab_size |-> j - 1]}

CumSum(s, w, j) == MapThenSumSet(LAMBDA n : w[s[n]], 1 .. j)

(* Mutant: the cut is one past the token that reaches top_p. *)
TopPOneMore(s, w, p) ==
    IF p[1] >= p[2]
    THEN {s}
    ELSE {SubSeq(t, 1, Min({Len(t), 1 + Min({j \in 1 .. Len(t) :
                CumSum(t, w, j) * p[2] >= p[1] * CumSum(t, w, Len(t))})})) :
             t \in Sorted(ToSet(s), w)}

(* scored after the nucleus cut: the shortest prefix that reaches top_p. *)
TopP(s, w, p) ==
    IF p[1] >= p[2]
    THEN {s}
    ELSE {SubSeq(t, 1, Min({j \in 1 .. Len(t) :
                CumSum(t, w, j) * p[2] >= p[1] * CumSum(t, w, Len(t))})) :
             t \in Sorted(ToSet(s), w)}

(* The first token whose running sum reaches the draw.  There is one: the  *)
(* code falls back on the first token only when rounding leaves none.      *)
Draw(s, w, r) ==
    s[Min({j \in 1 .. Len(s) : CumSum(s, w, j) >= r})]

sample ==
    \E logits \in [Vocab -> Logits], temperature \in Temperatures, k \in TopKs, p \in TopPs :
        LET sp == [temperature |-> temperature, top_k |-> k, top_p |-> p]
        IN IF temperature = 0
           THEN sampled' = [logits |-> logits, sp |-> sp, token |-> Greedy(logits)]
           ELSE LET scaled == [v \in Vocab |-> logits[v] \div temperature]
                IN \E s \in TopK(scaled, k) :
                      LET w == [v \in Vocab |-> Exp(scaled[v] - scaled[s[1]])]
                      IN \E t \in TopP(s, w, p) : \E r \in 0 .. CumSum(t, w, Len(t)) :
                            sampled' = [logits |-> logits, sp |-> sp, token |-> Draw(t, w, r)]

-----------------------------------------------------------------------------
(* The token drawn is one that top-k and nucleus sampling allow, as these  *)
(* are defined without sorting: greedy decoding takes a largest logit;     *)
(* otherwise fewer than top_k tokens are more likely, and among the top_k  *)
(* those more likely have together less than top_p of the probability.     *)
SampleInSupport ==
    sampled # <<>> =>
        LET logit  == sampled.logits
            sp     == sampled.sp
            Above(v) == {u \in Vocab : logit[u] > logit[v]}
            Weight(u) == Exp((logit[u] - Max({logit[v] : v \in Vocab})) \div sp.temperature)
            k      == IF 0 < sp.top_k /\ sp.top_k < vocab_size THEN sp.top_k ELSE vocab_size
            Kept   == CHOOSE S \in kSubset(k, Vocab) :
                         \A u \in S, v \in Vocab \ S : logit[u] >= logit[v]
            v      == sampled.token
        IN IF sp.temperature = 0
           THEN Above(v) = {}
           ELSE /\ Cardinality(Above(v)) < k
                /\ MapThenSumSet(Weight, Above(v)) * sp.top_p[2]
                      < sp.top_p[1] * MapThenSumSet(Weight, Kept)

=============================================================================
