---------------------------- MODULE ProfiledLoop ----------------------------
(***************************************************************************)
(* The serving loop with the profiler attached, as run_throughput_bench    *)
(* sets it up: the driver submits requests 0, 1, ... at the top of its     *)
(* loop while fewer than NumConcurrent are waiting or running; the decode  *)
(* engine calls begin_step, mark and end_step, the driver the record_      *)
(* operations, and another thread traces events of its own through         *)
(* Profiler::trace_writer().  Nobody aborts requests.                      *)
(***************************************************************************)
EXTENDS ServingLoop, Profiler

CONSTANTS
    NumRequests,    \* BenchConfig::num_requests
    NumConcurrent,  \* BenchConfig::num_concurrent
    Latencies,  \* the step times in milliseconds when there is no trace
    TracedTime, \* the step time when there is one
    MaxResets   \* bound on the calls of Profiler::reset

ASSUME ProfiledConstants ==
    /\ {NumRequests, NumConcurrent, MaxResets} \subseteq Nat
    /\ SeqIds = 0 .. NumRequests - 1 /\ Requests = SeqIds

VARIABLES
    probe,      \* the engine thread's place among the calls to the profiler
    rec,        \* index of the group the driver's recording loops are at
    stats,      \* BatchDecodeEngine::stats_
    helper,     \* the tracing thread's next operation
    resets,     \* number of resets
    samples,    \* history: the step times since the last reset
    tracked,    \* history: the requests started since the last reset
    lost        \* history: how often a preemption discarded a request's output

probeVars   == <<probe, rec, stats>>
historyVars == <<resets, samples, tracked, lost>>
allVars == <<vars, traceVars, profVars, probeVars, helper, historyVars>>

LoopInit ==
    /\ Init /\ TraceInit /\ ProfInit
    /\ ~enable_tracing => ~is_open
    /\ probe = "idle" /\ rec = 1
    /\ stats = [total_steps |-> 0, total_prefill_tokens |-> 0, total_decode_tokens |-> 0]
    /\ helper = IF enable_tracing THEN "span" ELSE "done"
    /\ resets = 0 /\ samples = <<>>
    /\ tracked = {} /\ lost = [r \in SeqIds |-> 0]

(* The driver's inner loop: next_id is the number of submissions so far. *)
SubmitsMore ==
    /\ Len(arrivals) < NumRequests
    /\ Len(running) + Len(waiting) < NumConcurrent

Start ==
    /\ phase = "schedule" /\ SubmitsMore
    /\ Submit(Len(arrivals))
    /\ record_request_start(Len(arrivals))
    /\ tracked' = tracked \cup {Len(arrivals)}
    /\ UNCHANGED <<probeVars, helper, resets, samples, lost>>

(* The part of the loop that does not touch the profiler. *)
Loop ==
    /\ \/ CallSchedule /\ ~SubmitsMore
       \/ InSchedule \/ AfterSchedule
       \/ BuildNext \/ BuildReturn \/ UpdateSkip \/ UpdateCheck \/ UpdateAppend
       \/ InFreeFinishedLoop \/ AfterFreeFinished \/ InFreeBlocks
    /\ lost' = [r \in SeqIds |-> IF output_tokens[r] # <<>> /\ output_tokens'[r] = <<>>
                                 THEN lost[r] + 1 ELSE lost[r]]
    /\ UNCHANGED <<traceVars, profVars, probeVars, helper, resets, samples, tracked>>

-----------------------------------------------------------------------------
(* BatchDecodeEngine::step and the calls it makes. *)
StepBegin ==
    /\ phase = "step" /\ probe = "idle" /\ batch # <<>>
    /\ begin_step("engine", Len(batch))
    /\ probe' = "kv_cache_prepared"
    /\ UNCHANGED <<vars, rec, stats, helper, historyVars>>

StepMark ==
    /\ probe \in {"kv_cache_prepared", "attention_done"}
    /\ mark("engine")
    /\ probe' = IF probe = "attention_done" THEN "sample" ELSE "attention_done"
    /\ UNCHANGED <<vars, rec, stats, helper, historyVars>>

(* Mutant: a recomputed prompt is counted as decoding. *)
RecomputedIsDecode(e) == lost[e[1]] = 0 /\ e[2] < PromptLen[e[1]]

(* BatchEntry::is_prefill: build_batch lists a prompt's positions while a  *)
(* sequence has no output, and one position beyond the prompt afterwards.  *)
IsPrefill(e) == e[2] < PromptLen[e[1]]

StepEnd(step_time) ==
    /\ probe = "sample" /\ Len(samples) < MaxSamples
    /\ Step
    /\ LET prefill == Len(SelectSeq(batch, IsPrefill))
       IN stats' = [total_steps |-> stats.total_steps + 1,
                    total_prefill_tokens |-> stats.total_prefill_tokens + prefill,
                    total_decode_tokens |-> stats.total_decode_tokens + Len(batch) - prefill]
    /\ end_step("engine", step_time)
    /\ probe' = "usage"
    /\ samples' = Append(samples, step_time)
    /\ UNCHANGED <<rec, helper, resets, tracked, lost>>

StepReturn ==
    /\ probe = "usage"
    /\ end_step_usage("engine")
    /\ probe' = "idle"
    /\ UNCHANGED <<vars, rec, stats, helper, historyVars>>

-----------------------------------------------------------------------------
(* The driver after update_after_decode: a loop that records first tokens, *)
(* and one that records finished requests.                                 *)
CallRecord ==
    /\ probe = "idle" /\ UpdateReturn
    /\ probe' = "first_tokens" /\ rec' = 1
    /\ UNCHANGED <<traceVars, profVars, stats, helper, historyVars>>

RecordFirstToken ==
    /\ probe = "first_tokens" /\ rec <= Len(scheduled)
    /\ IF Len(output_tokens[scheduled[rec]]) = 1
       THEN record_first_token(scheduled[rec])
       ELSE UNCHANGED <<profVars, traceVars>>
    /\ rec' = rec + 1
    /\ UNCHANGED <<vars, probe, stats, helper, historyVars>>

RecordEndLoop ==
    /\ probe = "first_tokens" /\ rec > Len(scheduled)
    /\ probe' = "request_ends" /\ rec' = 1
    /\ UNCHANGED <<vars, traceVars, profVars, stats, helper, historyVars>>

RecordRequestEnd ==
    /\ probe = "request_ends" /\ rec <= Len(scheduled)
    /\ LET r == scheduled[rec]
       IN IF Finished(r)
          THEN record_request_end("engine", r, Len(output_tokens[r]))
          ELSE UNCHANGED <<profVars, traceVars>>
    /\ rec' = rec + 1
    /\ UNCHANGED <<vars, probe, stats, helper, historyVars>>

RecordReturn ==
    /\ probe = "request_ends" /\ rec > Len(scheduled)
    /\ CallFreeFinished
    /\ probe' = "idle"
    /\ UNCHANGED <<traceVars, profVars, rec, stats, helper, historyVars>>

(* Metrics are reset between two steps, as in test_profiler_reset, where   *)
(* nothing is traced.                                                      *)
Reset ==
    /\ resets < MaxResets /\ ~enable_tracing
    /\ phase = "schedule" /\ Unlocked /\ ~SubmitsMore
    /\ reset
    /\ resets' = resets + 1
    /\ samples' = <<>> /\ tracked' = {}
    /\ UNCHANGED <<vars, probeVars, helper, lost>>

-----------------------------------------------------------------------------
(* The tracing thread: the destructor of a TraceSpan, a flush, and one of  *)
(* the record_ operations that only trace.  Its steps commute with those   *)
(* of the loop that do not trace, so they are taken at the others only.    *)
Helper(from, to) ==
    /\ phase \in {"step", "free", "stopped"} \/ (phase = "schedule" /\ ~HasPending)
    /\ helper = from /\ helper' = to
    /\ UNCHANGED <<vars, profVars, probeVars, historyVars>>

HelperSpan == Helper("span", "flush") /\ add_event([tid |-> "helper", name |-> "span"])

HelperFlush == Helper("flush", "record") /\ flush

HelperRecord ==
    /\ Helper("record", "done")
    /\ record_prefill("helper") \/ record_decode("helper")

(* The loop is over and both threads are done: ~Profiler. *)
Over ==
    /\ \/ phase = "stopped"
       \/ phase = "schedule" /\ ~HasPending /\ \A r \in SeqIds : status[r] # "NEW"
    /\ freeing = NoSeq /\ probe = "idle" /\ helper = "done"

DestroyProfiler ==
    /\ Over
    /\ Destroy
    /\ UNCHANGED <<vars, profVars, probeVars, helper, historyVars>>

LoopNext ==
    \/ Start
    \/ Loop
    \/ StepBegin \/ StepMark \/ StepReturn
    \/ \E t \in IF enable_tracing THEN {TracedTime} ELSE Latencies : StepEnd(t)
    \/ CallRecord \/ RecordFirstToken \/ RecordEndLoop \/ RecordRequestEnd \/ RecordReturn
    \/ Reset
    \/ HelperSpan \/ HelperFlush \/ HelperRecord
    \/ DestroyProfiler
    \/ closed /\ UNCHANGED allVars

LoopSpec == LoopInit /\ [][LoopNext]_allVars

-----------------------------------------------------------------------------
BetweenSteps == phase = "schedule" /\ Unlocked

(* Welford's update, over any step times, gives the count, mean, variance, *)
(* minimum and maximum of exactly the steps since the last reset.          *)
LatencyExact ==
    LET n   == Len(samples)
        sum == FoldLeft(LAMBDA x, y : x + y, 0, samples)
        sq  == FoldLeft(LAMBDA x, y : x + y * y, 0, samples)
    IN /\ step_latency.count = n /\ throughput.intervals = n
       /\ throughput.total_time = sum
       /\ n * step_latency.mean = Scale * sum
       /\ n * step_latency.m2 = Scale * Scale * (n * sq - sum * sum)
       /\ n > 0 => /\ step_latency.min = Min(ToSet(samples))
                   /\ step_latency.max = Max(ToSet(samples))

(* A percentile of snapshot() is the bin of the sample of that rank among  *)
(* the samples below histogram_max, whenever the truncated rank is not 0;  *)
(* the samples above are counted as overflow and in no percentile.         *)
PercentilesExact ==
    LET inRange == SortSeq(SelectSeq(samples, LAMBDA x : x < HistMax), <)
        Rank(p) == (p * Len(inRange)) \div 100
    IN /\ latency_hist.overflow = Len(samples) - Len(inRange)
       /\ \A p \in DOMAIN snapshot_percentiles :
            Rank(p) > 0 =>
                LET reported == snapshot_percentiles[p]
                    sample   == 2 * inRange[Rank(p)]
                IN reported - bin_width <= sample /\ sample < reported + bin_width

(* Between two iterations of the driver's loop every request started since *)
(* the last reset is either active or served, served requests are counted  *)
(* once, and each of more than one token gave one TPOT sample, however     *)
(* often it was preempted.                                                 *)
ServedExact ==
    BetweenSteps =>
        LET served == {r \in tracked : Finished(r) \/ status[r] = "GONE"}
        IN /\ {r \in SeqIds : active_requests[r] # "absent"} = tracked \ served
           /\ total_requests = Cardinality(served)
           /\ tpot_count = Cardinality({r \in served : Len(output_tokens[r]) > 1})

(* Every request started since the last reset that has got its first token *)
(* has given a TTFT sample, and there are no others, as long as RECOMPUTE  *)
(* has discarded no output: the driver takes any output of length one for  *)
(* the first token.  Requests from before the reset give none.             *)
TtftOnce ==
    BetweenSteps =>
        LET begun == {r \in tracked : lost[r] > 0 \/ output_tokens[r] # <<>>}
        IN /\ ttft_count >= Cardinality(begun)
           /\ (\A r \in tracked : lost[r] = 0) => ttft_count = Cardinality(begun)

(* The engine's own statistics account for every prompt exactly once per   *)
(* start and restart, and agree with the profiler's token count.           *)
WorkAccounted ==
    BetweenSteps =>
        /\ stats.total_prefill_tokens =
             MapThenSumSet(LAMBDA r : PromptLen[r] * (lost[r] + (IF output_tokens[r] = <<>> THEN 0 ELSE 1)),
                           SeqIds)
        /\ resets = 0 => throughput.total_tokens =
                            stats.total_prefill_tokens + stats.total_decode_tokens

=============================================================================
