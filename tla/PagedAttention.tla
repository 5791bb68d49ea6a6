----------------------------- MODULE PagedAttention ----------------------------
(***************************************************************************)
(* One meaning of attention over a paged cache, and the programs that are  *)
(* to compute it: the portable StableHLO loop (nml-ir), the Triton kernels *)
(* that walk tiles, in one program or in split-K segments with a reduction *)
(* behind them (nml-kernel-triton), and FlashAttention with the correction *)
(* for learned sinks.  Which of them runs depends on the machine and on    *)
(* the shape of the call, and is not to change what the model says.        *)
(*                                                                         *)
(* Everything is seen from one query and one of its heads.  A value is the *)
(* cell it lies in, so that an accumulator tells how much of which cell it *)
(* holds.  A score is an integer, a weight a power of two with Precision   *)
(* binary digits: whatever is smaller underflows to zero.                  *)
(***************************************************************************)
EXTENDS AttentionLaunch, FiniteSetsExt, SequencesExt

CONSTANTS  \* numbers of at least 1, and sets of them
  KeysPerPage,      \* positions of a page (page_size)
  LogicalPages,     \* pages of a row's table
  Windows,          \* widths of the sliding window, without None
  TileSizes,        \* keys of a tile
  SegmentCounts,    \* segments of split-K
  Precision,        \* binary digits of a weight, and the range of the scores
  BatchSizes, QueryLengths, HeadCounts,   \* the shapes of which the launch is checked,
  PageSizes, CoreCounts,                  \* and the machines,
  MaxOutputs                              \* with at most this many outputs

Capacity == LogicalPages * KeysPerPage
PhysicalPages == LogicalPages
Cells == (0 .. PhysicalPages - 1) \X (0 .. KeysPerPage - 1)

\* Below every score: -infinity in the kernels, the lowest F32 in the portable loop.
Lowest == -100 * Precision
\* Every score and sink is negative, and so small that exp2 of it underflows.
Bias == -3 * Precision
NoWindow == 0
NoSink == Lowest

\* The row's pages, in no order of their numbers; -1 where the host has none to give.
TableOf(length) ==
  [page \in 0 .. LogicalPages - 1 |->
     IF page * KeysPerPage < length THEN PhysicalPages - 1 - page ELSE -1]

Queries ==
  {query \in [position : 0 .. Capacity - 1, length : 0 .. Capacity, causal : BOOLEAN,
             window : Windows \cup {NoWindow}, sink : {NoSink, Bias, Bias + Precision}] :
     query.causal /\ query.length > 0 => query.position < query.length}

\* The scores of the query against the keys in the cache, stale ones included.
Contents ==
  {[cell \in Cells |-> Bias + ((step * (cell[1] * KeysPerPage + cell[2])) % (Precision + 1))] :
     step \in 0 .. Precision}

-----------------------------------------------------------------------------
\* exp2(delta), and exp2(delta) * weight.
Exp(delta) == IF delta < -Precision THEN 0 ELSE 2^(Precision + delta)
One == Exp(0)
Scaled(weight, delta) == (weight * Exp(delta)) \div One

Total(weights) == MapThenSumSet(LAMBDA key : weights[key], DOMAIN weights)

\* The state of an online softmax, and what a run over keys adds to it: `weights` by
\* key, and of the keys that were read the cell.
Nothing == [max |-> Lowest, sum |-> One, acc |-> [cell \in Cells |-> 0]]
WithSink(query) == [Nothing EXCEPT !.max = query.sink]

Absorb(state, next, base, weights, read) ==
  [max |-> next,
   sum |-> Scaled(state.sum, state.max - base) + Total(weights),
   acc |-> [cell \in Cells |->
              Scaled(state.acc[cell], state.max - base)
                + MapThenSumSet(LAMBDA key : weights[key], {key \in DOMAIN read : read[key] = cell})]]

\* The output: a mean of values, and zero if there is nothing to take the mean of.
Output(state) == IF state.sum = 0 THEN Nothing ELSE state
SameOutput(left, right) ==
  \A cell \in Cells :
    Output(left).acc[cell] * Output(right).sum = Output(right).acc[cell] * Output(left).sum

-----------------------------------------------------------------------------
\* The portable loop: a page at a time, with the pages behind the sequence replaced
\* by page 0 and all of their keys masked.
PortableSees(query, key) ==
  /\ key < query.length
  /\ query.causal => key <= query.position
  /\ query.window # NoWindow => key >= query.position - (query.window - 1)
  /\ query.window # NoWindow /\ ~query.causal => key <= query.position + (query.window - 1)

PortablePage(query, stored, state, page) ==
  LET keys   == page * KeysPerPage .. (page + 1) * KeysPerPage - 1
      table  == [TableOf(query.length) EXCEPT ![page] = IF page * KeysPerPage < query.length THEN @ ELSE 0]
      cell   == [key \in keys |-> CellOf(table, KeysPerPage, key)]
      score  == [key \in keys |-> IF PortableSees(query, key) THEN stored[cell[key]] ELSE Lowest]
      next   == Greatest(state.max, Max({score[key] : key \in keys}))
      weight == [key \in keys |-> IF PortableSees(query, key) THEN Exp(score[key] - next) ELSE 0]
  IN  Absorb(state, next, next, weight, cell)

Portable(query, stored) ==
  FoldLeft(LAMBDA state, page : PortablePage(query, stored, state, page - 1),
           [WithSink(query) EXCEPT !.sum = IF query.sink = NoSink THEN 0 ELSE One],
           [page \in 1 .. LogicalPages |-> page])

-----------------------------------------------------------------------------
\* The kernels: a program walks the tiles up to the last key any of its queries may
\* see.  `last` is the last position of the program's queries.
Prefix(query, last) == IF query.causal THEN Least(last + 1, query.length) ELSE query.length

KernelSees(query, prefix, key) ==
  /\ IF query.causal THEN key < query.position + 1 ELSE key < prefix
  /\ query.window # NoWindow =>
       /\ query.position - key < query.window
       /\ ~query.causal => query.position - key > -query.window

\* A slip: the zero that stands in for a masked block is carried on.
NextMaximumOrZero(state, scores) ==
  IF Greatest(state.max, Max(scores)) > Lowest THEN Greatest(state.max, Max(scores)) ELSE 0

\* The maximum that is carried on stays -infinity while every key was masked; only the
\* arithmetic of the tile takes zero in its place.
NextMaximum(state, scores) == Greatest(state.max, Max(scores))
ArithmeticMaximum(next) == IF next > Lowest THEN next ELSE 0

KernelTile(query, stored, size, prefix, state, tile) ==
  LET keys   == tile * size .. (tile + 1) * size - 1
      cell   == [key \in {k \in keys : k < prefix} |-> CellOf(TableOf(query.length), KeysPerPage, key)]
      dot    == [key \in keys |-> IF key < prefix THEN stored[cell[key]] ELSE 0]
      score  == [key \in keys |-> IF KernelSees(query, prefix, key) THEN dot[key] ELSE Lowest]
      next   == NextMaximum(state, {score[key] : key \in keys})
      base   == ArithmeticMaximum(next)
      weight == [key \in keys |-> Exp(score[key] - base)]
  IN  Absorb(state, next, base, weight, cell)

\* The tiles from `first` on, up to and without `stop`.
KernelTiles(query, stored, size, prefix, state, first, stop) ==
  FoldLeft(LAMBDA reached, i : KernelTile(query, stored, size, prefix, reached, first + i - 1),
           state, [i \in 1 .. stop - first |-> i])

TwoDimensionalKernel(query, stored, size, last) ==
  LET prefix == Prefix(query, last)
  IN  KernelTiles(query, stored, size, prefix, WithSink(query), 0, CeilDiv(prefix, size))

\* Split-K: the producer of a segment knows no sink, ...
Segment(query, stored, size, segments, i) ==
  LET prefix == Prefix(query, query.position)
      share  == TilesPerSegment(query.length, segments, size)
  IN  KernelTiles(query, stored, size, prefix, Nothing,
                  i * share, Least((i + 1) * share, CeilDiv(prefix, size)))

\* ... whatever was in a buffer that no producer wrote is a result like any other, ...
Leftover == [Nothing EXCEPT !.max = 0]

\* ... and the reduction adds the sink, once.
SplitKKernel(query, stored, size, segments) ==
  LET active  == {i \in 0 .. segments - 1 : i < ActiveSegments(query.length, segments, size)}
      partial == [i \in active |-> IF Produced(query.length, segments, size, i)
                                    THEN Segment(query, stored, size, segments, i) ELSE Leftover]
      maximum == Max({partial[i].max : i \in active} \cup {query.sink})
      base    == IF query.sink = NoSink THEN ArithmeticMaximum(maximum) ELSE maximum
  IN  [max |-> maximum,
       sum |-> MapThenSumSet(LAMBDA i : Scaled(partial[i].sum, partial[i].max - base), active)
                 + Exp(query.sink - base),
       acc |-> [cell \in Cells |->
                  MapThenSumSet(LAMBDA i : Scaled(partial[i].acc[cell], partial[i].max - base), active)]]

-----------------------------------------------------------------------------
\* FlashAttention (external): it places the queries at the end of the sequence, this one
\* `fromEnd` before it, and knows no sink.
Plain(query, stored, seen) ==
  LET cell   == [key \in seen |-> CellOf(TableOf(query.length), KeysPerPage, key)]
      top    == Max({stored[cell[key]] : key \in seen} \cup {Lowest})
      weight == [key \in seen |-> Exp(stored[cell[key]] - top)]
  IN  Absorb([Nothing EXCEPT !.sum = 0], top, top, weight, cell)

Seen(query, position) ==
  {key \in 0 .. query.length - 1 :
     /\ query.causal => key <= position
     /\ query.window # NoWindow => key - position < query.window /\ position - key < query.window}

\* It is called only where nothing depends on the positions, or they are those.
UsesFlash(query, fromEnd) ==
  \/ ~query.causal /\ query.window = NoWindow
  \/ query.position = query.length - fromEnd

\* Its output times sigmoid(lse - sink): the sink joins the sum, and no value.
Flash(query, stored, fromEnd) ==
  LET plain == Plain(query, stored, Seen(query, query.length - fromEnd))
  IN  IF query.sink = NoSink \/ plain.sum = 0 THEN plain
      ELSE [plain EXCEPT !.sum = @ + Exp(query.sink - plain.max)]

-----------------------------------------------------------------------------
\* What the device tests expect (attention_contract.rs): one softmax over the visible
\* keys and the sink.
Reference(query, stored) ==
  LET plain == Plain(query, stored, Seen(query, query.position))
      top   == Greatest(plain.max, query.sink)
  IN  [max |-> top, sum |-> Scaled(plain.sum, plain.max - top) + Exp(query.sink - top),
       acc |-> [cell \in Cells |-> Scaled(plain.acc[cell], plain.max - top)]]

\* Whichever program a machine and a shape select, every query within its sequence gets
\* the output of the reference: no tile, segment, page or sink is counted twice or left
\* out, nothing of another row's or a stale cell enters, and a block of keys that is
\* masked as a whole changes nothing for those that follow.
Agree(query, stored) ==
  LET expected == Reference(query, stored)
  IN  /\ SameOutput(Portable(query, stored), expected)
      /\ \A size \in TileSizes :
           /\ \A last \in query.position .. Capacity - 1 :
                SameOutput(TwoDimensionalKernel(query, stored, size, last), expected)
           /\ \A segments \in SegmentCounts :
                SameOutput(SplitKKernel(query, stored, size, segments), expected)
      /\ \A fromEnd \in 1 .. KeysPerPage :
           UsesFlash(query, fromEnd) => SameOutput(Flash(query, stored, fromEnd), expected)

AllAgree == \A query \in Queries, stored \in Contents : Agree(query, stored)

-----------------------------------------------------------------------------
(* The launches.                                                           *)
Shapes ==
  {g \in [rows : BatchSizes, queries : QueryLengths, heads : HeadCounts, kvHeads : HeadCounts,
          headDim : {64, 256}, pageSize : PageSizes, cores : CoreCounts] :
     g.heads % g.kvHeads = 0 /\ g.rows * g.queries * g.heads <= MaxOutputs}

ShapeOf(g, launch) == [blockQ |-> launch.blockQ, lanes |-> Lanes(g), group |-> g.heads \div g.kvHeads]

\* The programs' lanes that store a result, and what they store it as.
Writers(g, launch) ==
  LET k      == ShapeOf(g, launch)
      starts == QueryStarts(g.rows, g.queries)
      bounds == [s \in 0 .. g.rows |-> FirstBlock(starts, k.blockQ, s)]
      row    == [b \in 0 .. launch.blocks - 1 |-> FindSequence(bounds, g.rows, b)]
  IN  {[row |-> row[w[1]], slot |-> SlotOfLane(k, starts, w[1], row[w[1]], w[3]),
        head |-> HeadOfLane(k, w[2], w[3]), from |-> w] :
         w \in {v \in (0 .. launch.blocks - 1) \X (0 .. g.kvHeads - 1) \X (0 .. launch.blockM - 1) :
                 Stored(k, starts, v[1], row[v[1]], v[3])}}

Outputs(g) == (0 .. g.rows - 1) \X (0 .. g.queries - 1) \X (0 .. g.heads - 1)

\* The reduction's program of a token looks at the segments of the token's row.
ReducedRow(g, token) == FindSequence(QueryStarts(g.rows, g.queries), g.rows, token)

\* Every launch can be built; every output is written, by one lane of one program; and
\* the reduction of split-K reads of each output exactly the segments that were
\* computed, of the row the output belongs to.  (The lengths go up to the tiles of
\* three segments.)
LaunchExact(g) ==
  LET launch  == Launch(g)
      writers == Writers(g, launch)
  IN  /\ Buildable(g, launch)
      /\ {<<w.row, w.slot, w.head>> : w \in writers} = Outputs(g)
      /\ Cardinality(writers) = g.rows * g.queries * g.heads
      /\ launch.kind = "splitk" =>
           /\ \A token \in 0 .. Tokens(g) - 1 : ReducedRow(g, token) = token \div g.queries
           /\ \A length \in 0 .. 3 * launch.tile, i \in 0 .. launch.segments - 1 :
                Produced(length, launch.segments, launch.tile, i)
                  <=> i < ActiveSegments(length, launch.segments, launch.tile)

AllExact == \A g \in Shapes : LaunchExact(g)

=============================================================================
