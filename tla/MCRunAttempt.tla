---------------------------- MODULE MCRunAttempt ----------------------------
(* Every model with and without resuming, a schedule of two interruptions, *)
(* and the models that a fault can do something to.                        *)
EXTENDS RunAttempt

Plain(m, b, p, f) ==
  [model |-> m, budget |-> b, pickup |-> p, schedule |-> <<>>, faults |-> f]
Scheduled(m) ==
  [model |-> m, budget |-> 3, pickup |-> TRUE, schedule |-> <<1, 2>>, faults |-> {}]

MCConfigs ==
  {Plain(m, 2, TRUE, {}) : m \in Models}
    \cup {Plain("triton", 1, FALSE, {}), Plain("swmm", 0, TRUE, {})}
    \cup {Scheduled("triton"), Scheduled("tritonswmm")}
    \cup {Plain("triton", 1, TRUE, {"gpu_refusal", "lost_consume"}),
          Plain("tritonswmm", 1, TRUE, {"gpu_refusal"}),
          Plain("triton", 2, TRUE, {"slow_consume"}), Plain("triton", 1, FALSE, {"overlap"}),
          Plain("triton", 1, TRUE, {"uncounted"}), Plain("tritonswmm", 1, TRUE, {"uncounted"})}
MCGpu == {Plain("triton", 2, TRUE, {"gpu_refusal"})}
=============================================================================
