----------------------------- MODULE MCRuntime ------------------------------
(* Instances of Runtime for TLC. *)
EXTENDS Runtime, TLC

CONSTANTS w1, w2, p, gpu

\* No placement labels: workers are interchangeable.
NoLabels == [w \in Workers |-> Null]
AnyWorker == [x \in Pipelines |-> Null]
Symmetry == Permutations(Workers)

\* w1 advertises gpu, w2 nothing; every pipeline requires gpu.
OneLabelled == [w \in Workers |-> IF w = w1 THEN gpu ELSE Null]
AllNeedGpu == [x \in Pipelines |-> gpu]
=============================================================================
