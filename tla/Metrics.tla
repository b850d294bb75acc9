------------------------------ MODULE Metrics -------------------------------
(***************************************************************************)
(* The accumulators of profiler/metrics.h as operators on records.         *)
(*                                                                         *)
(* Samples are whole milliseconds.  The doubles of RunningStats are exact  *)
(* multiples of 1/Scale, where Scale is divisible by every sample count in *)
(* use: a mean of n samples is then an integer number of 1/Scale, and m2_  *)
(* one of 1/Scale^2.  Rounding is left out.                                *)
(***************************************************************************)
EXTENDS Integers, Sequences, SequencesExt, FiniteSetsExt

CONSTANTS
    MaxSamples, \* bound on the samples of one accumulator
    Scale,      \* the unit of a mean is 1/Scale
    HistMax,    \* ProfilerConfig::histogram_max; histogram_min is 0
    HistBins    \* ProfilerConfig::histogram_bins

ASSUME MetricsConstants ==
    /\ {MaxSamples, Scale, HistMax, HistBins} \subseteq Nat \ {0}
    /\ \A n \in 1 .. MaxSamples : Scale % n = 0
    /\ HistMax % HistBins = 0

-----------------------------------------------------------------------------
(* min_ and max_ start beyond any sample. *)
Beyond == 1000000

NoStats == [count |-> 0, mean |-> 0, m2 |-> 0, min |-> Beyond, max |-> -Beyond]

(* Mutant: both factors of m2_'s increment use the new mean. *)
UpdateOneDelta(s, x) ==
    LET n    == s.count + 1
        mean == s.mean + (Scale * x - s.mean) \div n
        d    == Scale * x - mean
    IN [count |-> n, mean |-> mean, m2 |-> s.m2 + d * d,
        min |-> Min({s.min, x}), max |-> Max({s.max, x})]

(* RunningStats::update, Welford's online algorithm. *)
update(s, x) ==
    LET n      == s.count + 1
        delta  == Scale * x - s.mean
        mean   == s.mean + delta \div n
        delta2 == Scale * x - mean
    IN [count |-> n, mean |-> mean, m2 |-> s.m2 + delta * delta2,
        min |-> Min({s.min, x}), max |-> Max({s.max, x})]

-----------------------------------------------------------------------------
bin_width == HistMax \div HistBins

NoSamples == [bins |-> [i \in 0 .. HistBins - 1 |-> 0], overflow |-> 0, total |-> 0]

(* Histogram::record.  No sample is below histogram_min: it is a duration. *)
record(h, x) ==
    IF x >= HistMax
    THEN [h EXCEPT !.overflow = @ + 1]
    ELSE LET idx == Min({x \div bin_width, HistBins - 1})
         IN [h EXCEPT !.bins[idx] = @ + 1, !.total = @ + 1]

Cumulative(h, i) == MapThenSumSet(LAMBDA j : h.bins[j], 0 .. i)

(* Mutant: the search stops one sample late. *)
PercentileBeyond(h, p) ==
    LET target == (p * h.total) \div 100
        Reached(i) == Cumulative(h, i) > target
    IN CASE h.total = 0 -> 0
         [] h.total > 0 /\ \E i \in 0 .. HistBins - 1 : Reached(i) ->
                (2 * Min({i \in 0 .. HistBins - 1 : Reached(i)}) + 1) * bin_width
         [] OTHER -> 2 * HistMax

(* Twice what Histogram::percentile returns: the middle of the first bin   *)
(* at which the cumulative count reaches the truncated target.             *)
percentile(h, p) ==
    LET target == (p * h.total) \div 100
        Reached(i) == Cumulative(h, i) >= target
    IN CASE h.total = 0 -> 0
         [] h.total > 0 /\ \E i \in 0 .. HistBins - 1 : Reached(i) ->
                (2 * Min({i \in 0 .. HistBins - 1 : Reached(i)}) + 1) * bin_width
         [] OTHER -> 2 * HistMax

-----------------------------------------------------------------------------
NoThroughput == [total_tokens |-> 0, total_time |-> 0, intervals |-> 0]

record_tokens(m, n) == [m EXCEPT !.total_tokens = @ + n]

record_interval(m, ms) == [m EXCEPT !.total_time = @ + ms, !.intervals = @ + 1]

=============================================================================
