------------------------------ MODULE MCDevice ------------------------------
(***************************************************************************)
(* The device side of the engine: the pool, the cache kernels, attention   *)
(* and sampling.  The engine uses the pool's memory whole (base_ptr) and   *)
(* issues one operation after the other on one stream, so a behaviour is   *)
(* a use of the pool, or one launch, or one draw.                          *)
(***************************************************************************)
EXTENDS CacheKernels, PagedAttention, Sampling

CONSTANTS c1, c2

MCClients == {c1, c2}

Functions2(a, b) == [n \in 0 .. 1 |-> IF n = 0 THEN a ELSE b]

MCTables == {Functions2(2, 0), Functions2(1, 2)}

MCMappings ==
    {<<<<a, b>>>> : a, b \in 0 .. 2}
        \cup {<<<<0, 1>>, <<0, 2>>>>, <<<<2, 0>>, <<1, 1>>>>, <<<<0, 1>>, <<1, 2>>>>}

MCContexts == {<<1, 1>>, <<3, 3>>, <<4, 4>>, <<5, 5>>, <<3, 5>>}

MCContextsV1 == {<<3, 3>>, <<5, 5>>}

MCContextsV2 == {<<6, 6>>}

MCTopPs == {<<1, 4>>, <<1, 2>>, <<3, 4>>, <<1, 1>>}

Init == PoolInit /\ KernelInit /\ AttentionInit /\ SampleInit

NoPool == free_stack = FullStack /\ \A c \in Clients : held[c] = {}
NoKernel == launch.kernel = "none"
NoAttention == kernel = "none"
NoSample == sampled = <<>>

Pool ==
    /\ NoKernel /\ NoAttention /\ NoSample
    /\ PoolNext
    /\ UNCHANGED <<kernelVars, attentionVars, sampled>>

Kernel(A) ==
    /\ NoPool /\ NoAttention /\ NoSample
    /\ A
    /\ UNCHANGED <<poolVars, attentionVars, sampled>>

Attention(A) ==
    /\ NoPool /\ NoKernel /\ NoSample
    /\ A
    /\ UNCHANGED <<poolVars, kernelVars, sampled>>

Sample ==
    /\ NoPool /\ NoKernel /\ NoAttention /\ NoSample
    /\ sample
    /\ UNCHANGED <<poolVars, kernelVars, attentionVars>>

Over ==
    /\ \/ ~NoKernel /\ \A t \in DOMAIN todo : todo[t] = <<>>
       \/ kernel \in {"done", "undefined"}
       \/ ~NoSample
    /\ UNCHANGED <<poolVars, kernelVars, attentionVars, sampled>>

Next ==
    \/ Pool
    \/ Kernel(LaunchReshape)
    \/ Kernel(LaunchCopy)
    \/ Kernel(LaunchCompact)
    \/ Kernel(LaunchSwap)
    \/ Kernel(LaunchMemset)
    \/ Kernel(ThreadStep)
    \/ Attention(LaunchAttention)
    \/ Attention(execute_attention_cpu)
    \/ Attention(\E w \in DOMAIN barriers : WarpStep(w))
    \/ Attention(V1Write)
    \/ Attention(V2Reduce)
    \/ Sample
    \/ Over

Spec == Init /\ [][Next]_<<poolVars, kernelVars, attentionVars, sampled>>

=============================================================================
