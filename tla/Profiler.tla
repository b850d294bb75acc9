------------------------------ MODULE Profiler ------------------------------
(***************************************************************************)
(* The profiler (profiler/profiler.cpp): step and request records, and the *)
(* trace events each call emits.  It has no lock: the engine thread is the *)
(* only one that calls the operations that change the accumulators, and    *)
(* record_prefill, record_decode and the trace writer's own operations     *)
(* touch the trace writer alone.  A call that emits an event is one step;  *)
(* end_step emits two, and another thread's event may come in between.     *)
(*                                                                         *)
(* A request's record keeps whether its first token was seen; the time     *)
(* stamps and the means of ttft_stats_ and tpot_stats_ are left out, and   *)
(* their number of samples is kept.                                        *)
(***************************************************************************)
EXTENDS Metrics, TraceWriter

CONSTANT Requests       \* the request ids of the callers

VARIABLES
    enable_tracing,     \* ProfilerConfig::enable_tracing
    step_latency,       \* step_latency_
    latency_hist,       \* latency_hist_
    throughput,         \* throughput_
    ttft_count,         \* ttft_stats_.count()
    tpot_count,         \* tpot_stats_.count()
    active_requests,    \* active_requests_: "absent", "started" or "first_token"
    total_requests      \* total_requests_

stepVars    == <<step_latency, latency_hist, throughput>>
requestVars == <<ttft_count, tpot_count, active_requests, total_requests>>
profVars    == <<enable_tracing, stepVars, requestVars>>

Cleared ==
    /\ step_latency' = NoStats
    /\ latency_hist' = NoSamples
    /\ throughput' = NoThroughput
    /\ ttft_count' = 0 /\ tpot_count' = 0 /\ total_requests' = 0
    /\ active_requests' = [r \in Requests |-> "absent"]

ProfInit ==
    /\ enable_tracing \in BOOLEAN
    /\ step_latency = NoStats
    /\ latency_hist = NoSamples
    /\ throughput = NoThroughput
    /\ ttft_count = 0 /\ tpot_count = 0 /\ total_requests = 0
    /\ active_requests = [r \in Requests |-> "absent"]

(* if (trace_writer_) trace_writer_->add_event(...) *)
Emit(tid, name) ==
    IF enable_tracing
    THEN add_event([tid |-> tid, name |-> name])
    ELSE UNCHANGED traceVars

begin_step(tid, num_tokens) ==
    /\ throughput' = record_tokens(throughput, num_tokens)
    /\ Emit(tid, "begin")
    /\ UNCHANGED <<enable_tracing, step_latency, latency_hist, requestVars>>

mark(tid) == Emit(tid, "mark") /\ UNCHANGED profVars

(* end_step up to its first event, and the usage counter after it. *)
end_step(tid, step_time) ==
    /\ step_latency' = update(step_latency, step_time)
    /\ latency_hist' = record(latency_hist, step_time)
    /\ throughput' = record_interval(throughput, step_time)
    /\ Emit(tid, "end")
    /\ UNCHANGED <<enable_tracing, requestVars>>

end_step_usage(tid) == Emit(tid, "usage") /\ UNCHANGED profVars

record_request_start(r) ==
    /\ active_requests' = [active_requests EXCEPT ![r] = "started"]
    /\ UNCHANGED <<enable_tracing, stepVars, ttft_count, tpot_count, total_requests, traceVars>>

(* Mutant: the request is not looked for, and a record made if there is none. *)
FirstTokenUnchecked(r) ==
    /\ active_requests' = [active_requests EXCEPT ![r] = "first_token"]
    /\ ttft_count' = ttft_count + 1
    /\ UNCHANGED <<enable_tracing, stepVars, tpot_count, total_requests, traceVars>>

(* Every call for an active request adds a sample, a second one too. *)
record_first_token(r) ==
    /\ IF active_requests[r] = "absent"
       THEN UNCHANGED <<active_requests, ttft_count>>
       ELSE /\ active_requests' = [active_requests EXCEPT ![r] = "first_token"]
            /\ ttft_count' = ttft_count + 1
    /\ UNCHANGED <<enable_tracing, stepVars, tpot_count, total_requests, traceVars>>

(* Mutant: the record is not erased. *)
RequestEndKeeps(tid, r, output_len) ==
    /\ IF active_requests[r] = "absent"
       THEN UNCHANGED <<tpot_count, total_requests, traceVars>>
       ELSE /\ tpot_count' = IF active_requests[r] = "first_token" /\ output_len > 1
                             THEN tpot_count + 1 ELSE tpot_count
            /\ total_requests' = total_requests + 1
            /\ Emit(tid, "completed")
    /\ UNCHANGED <<enable_tracing, stepVars, ttft_count, active_requests>>

record_request_end(tid, r, output_len) ==
    /\ IF active_requests[r] = "absent"
       THEN UNCHANGED <<tpot_count, total_requests, active_requests, traceVars>>
       ELSE /\ tpot_count' = IF active_requests[r] = "first_token" /\ output_len > 1
                             THEN tpot_count + 1 ELSE tpot_count
            /\ total_requests' = total_requests + 1
            /\ active_requests' = [active_requests EXCEPT ![r] = "absent"]
            /\ Emit(tid, "completed")
    /\ UNCHANGED <<enable_tracing, stepVars, ttft_count>>

record_prefill(tid) == Emit(tid, "prefill") /\ UNCHANGED profVars

record_decode(tid) == Emit(tid, "decode") /\ UNCHANGED profVars

(* The trace writer is not reset. *)
reset == Cleared /\ UNCHANGED <<enable_tracing, traceVars>>

(* The latency percentiles of snapshot(), doubled. *)
snapshot_percentiles == [p \in {50, 90, 95, 99} |-> percentile(latency_hist, p)]

=============================================================================
