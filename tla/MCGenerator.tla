----------------------------- MODULE MCGenerator ----------------------------
(* Three sessions over three layer groups, two of them in the prefix; and    *)
(* the attention that a layer group computes over their caches.              *)
EXTENDS Generator, TLC

Symmetry == Permutations(Sessions)

\* The shapes of the launches; TLC evaluates what does not depend on a state once.
Attention ==
  INSTANCE PagedAttention WITH
    KeysPerPage <- 3, LogicalPages <- 2, Windows <- {1, 3},
    TileSizes <- {2, 4}, SegmentCounts <- {1, 2, 4}, Precision <- 3,
    BatchSizes <- {1, 3, 65}, QueryLengths <- {1, 5, 256}, HeadCounts <- {1, 2, 6},
    PageSizes <- {16, 24, 256}, CoreCounts <- {8, 132}, MaxOutputs <- 2000

LaunchesGroup == pc \in {"launch", "prefix"} /\ at \in 1 .. Groups

\* Whichever program a machine and a shape select for a layer group (the portable loop, a
\* Triton kernel, split-K with its reduction, FlashAttention with the correction for
\* sinks), every query within its sequence gets the output of the tests' reference.
AttentionAgrees == LaunchesGroup => Attention!AllAgree

\* The launch of a layer group can be built, writes each output once, and its reduction
\* reads exactly the segments that were computed.
LaunchIsExact == LaunchesGroup => Attention!AllExact
=============================================================================
