---------------------------- MODULE AttentionLaunch ----------------------------
(***************************************************************************)
(* How the CUDA launches of paged attention and of its cache append divide *)
(* their work (nml-kernel-triton): which program of a grid computes which  *)
(* query of which sequence, which tiles of the cache a split-K segment     *)
(* takes, and into which cell of the cache a token goes.                   *)
(*                                                                         *)
(* The programs of a launch run at once and in no order, over output       *)
(* buffers that nobody has initialised.  So a launch is right only if      *)
(* every cell that is read later is written by exactly one program.        *)
(***************************************************************************)
EXTENDS Integers

Least(a, b) == IF a < b THEN a ELSE b
Greatest(a, b) == IF a < b THEN b ELSE a
CeilDiv(a, b) == (a + b - 1) \div b

\* A bound: no extent of a launch exceeds 2^12.
PowersOfTwo == {1, 2, 4, 8, 16, 32, 64, 128, 256, 512, 1024, 2048, 4096}
NextPowerOfTwo(n) ==
  CHOOSE p \in PowersOfTwo : n <= p /\ \A other \in PowersOfTwo : n <= other => p <= other

-----------------------------------------------------------------------------
(* `select_attention_launch`: the geometry g of one call, with its batch   *)
(* of rows, the queries of a row, its heads, and the machine's cores.      *)
Tokens(g) == g.rows * g.queries
AllDecode(g) == g.queries = 1
Lanes(g) == NextPowerOfTwo(g.heads \div g.kvHeads)
DecodeTile(g) == Least(NextPowerOfTwo(g.pageSize), 64)

\* The grid has a block more per row than the queries fill, for the blocks that
\* rows leave incomplete.
QueryBlocks(tokens, rows, blockQ) == tokens \div blockQ + rows

TwoDimensional(g) ==
  LET long   == g.queries >= 256
      blockM == Greatest(Lanes(g), IF ~long THEN 16 ELSE IF g.headDim >= 256 THEN 64 ELSE 128)
      blockQ == blockM \div Lanes(g)
  IN  [kind |-> "2d", blockM |-> blockM, blockQ |-> blockQ, segments |-> 1,
       tile |-> IF long /\ g.headDim >= 256 THEN 16 ELSE IF AllDecode(g) THEN DecodeTile(g) ELSE 64,
       blocks |-> QueryBlocks(Tokens(g), g.rows, blockQ)]

SplitK(g) ==
  LET blockM  == Greatest(16, Lanes(g))
      blockQ  == blockM \div Lanes(g)
      blocks  == QueryBlocks(Tokens(g), g.rows, blockQ)
      wanted  == NextPowerOfTwo(CeilDiv(4 * g.cores, blocks * g.kvHeads))
      fewest  == IF DecodeTile(g) <= 16 THEN 16 ELSE 8
  IN  [kind |-> "splitk", blockM |-> blockM, blockQ |-> blockQ, tile |-> DecodeTile(g),
       segments |-> Greatest(Least(wanted, 16), fewest), blocks |-> blocks]

Launch(g) ==
  IF ~AllDecode(g) \/ g.rows > 128 \div g.kvHeads THEN TwoDimensional(g) ELSE SplitK(g)

\* `validate` of the kernels' configurations: what a builder refuses to build.
Buildable(g, launch) ==
  /\ launch.blockQ > 0
  /\ launch.blockQ * Lanes(g) = launch.blockM
  /\ {launch.blockM, launch.tile, launch.segments} \subseteq PowersOfTwo

-----------------------------------------------------------------------------
(* Query blocks.  `starts` is the table query_starts: the first token of   *)
(* every row, and the number of tokens at the end.                         *)
QueryStarts(rows, queries) == [s \in 0 .. rows |-> s * queries]

\* The first block of row s; the binary search runs over these.
FirstBlock(starts, blockQ, s) == starts[s] \div blockQ + s

\* One iteration of the loop in `find_sequence`.
Narrow(bounds, target, window) ==
  LET middle == (window.left + window.right) \div 2
  IN  IF bounds[middle] <= target THEN [window EXCEPT !.left = middle + 1]
                                  ELSE [window EXCEPT !.right = middle]

FindSequence(bounds, rows, target) ==
  LET search[window \in [left : 0 .. rows, right : 0 .. rows]] ==
        IF window.left < window.right THEN search[Narrow(bounds, target, window)]
                                      ELSE window.left - 1
  IN  search[[left |-> 0, right |-> rows]]

\* The slot of row s at which block b, once it has found the row, begins.
LocalOffset(starts, blockQ, b, s) == (b - FirstBlock(starts, blockQ, s)) * blockQ

\* A launch of shape k = [blockQ, lanes, group]: lane r of the program of block b
\* and key head h computes this slot of the row and this query head, ...
SlotOfLane(k, starts, b, s, r) == LocalOffset(starts, k.blockQ, b, s) + (r \div k.lanes)
HeadOfLane(k, h, r) == h * k.group + (r % k.lanes)

\* A slip: the lanes that pad a head group store, too.
StoredOnPadding(k, starts, b, s, r) ==
  SlotOfLane(k, starts, b, s, r) < starts[s + 1] - starts[s]

\* ... and stores the result unless the row has no such slot, or the lane is padding
\* of the head group.
Stored(k, starts, b, s, r) ==
  /\ LocalOffset(starts, k.blockQ, b, s) < starts[s + 1] - starts[s]
  /\ SlotOfLane(k, starts, b, s, r) < starts[s + 1] - starts[s]
  /\ r % k.lanes < k.group

-----------------------------------------------------------------------------
(* Split-K: the tiles of a sequence are dealt out to segments.             *)
TilesPerSegment(length, segments, tile) == CeilDiv(length, segments * tile)

\* The programs of segment i do nothing unless it begins within the sequence.
Produced(length, segments, tile, i) ==
  i * TilesPerSegment(length, segments, tile) * tile < length

\* `build_segment_reduction`: the segments whose results it combines.
ActiveSegments(length, segments, tile) ==
  LET segment == TilesPerSegment(length, segments, tile) * tile
  IN  (length + segment - 1) \div Greatest(segment, 1)

-----------------------------------------------------------------------------
(* The cell of the cache that holds position p of a row: `build_paged_     *)
(* cache_append`, and the addresses that attention computes from a table.  *)
CellOf(table, pageSize, p) == <<table[p \div pageSize], p % pageSize>>
=============================================================================
