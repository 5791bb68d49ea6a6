------------------------------ MODULE Sharding -------------------------------
(***************************************************************************)
(* The arithmetic of a logical mesh (nml-sharding) and of the byte spans   *)
(* of one shard in a row-major file (for_each_shard_span in nml-runtime).  *)
(*                                                                         *)
(* A tensor is [dims, parts, width]: its dimensions, for each of them the  *)
(* mesh axis that shards it or Whole, and the bytes of an element.  A      *)
(* sharding is [kind, axes]; axes is a sequence of [tag, size].  A region  *)
(* gives for each dimension where it starts and how long it is.            *)
(***************************************************************************)
EXTENDS Integers, Sequences, SequencesExt, FiniteSets

Whole == "whole"

Product(sizes) ==
  LET product[n \in 0 .. Len(sizes)] == IF n = 0 THEN 1 ELSE product[n - 1] * sizes[n]
  IN  product[Len(sizes)]
Sizes(axes) == [k \in DOMAIN axes |-> axes[k].size]
Bytes(t) == Product(t.dims) * t.width

\* A slip: the first digit varies fastest.
DigitsReversed(n, sizes) ==
  LET digit(acc, size) ==
        [rest |-> acc.rest \div size, digits |-> acc.digits \o <<acc.rest % size>>]
  IN  FoldLeft(digit, [rest |-> n, digits |-> << >>], sizes).digits

\* The digits of n in a mixed radix, the last one varying fastest: the loop that
\* `ranges` runs over mesh axes and `for_each_shard_span` over tensor axes.
Digits(n, sizes) ==
  LET digit(size, acc) ==
        [rest |-> acc.rest \div size, digits |-> <<acc.rest % size>> \o acc.digits]
  IN  FoldRight(digit, sizes, [rest |-> n, digits |-> << >>]).digits

\* `execution_count`: how many devices take part, and whether they are there.
ExecutionCount(sharding, available) ==
  CASE sharding.kind = "single" -> 1
    [] sharding.kind = "replicated" -> available
    [] sharding.kind = "mesh" -> Product(Sizes(sharding.axes))

EnoughDevices(sharding, available) ==
  LET required == ExecutionCount(sharding, available)
  IN  /\ required \in 1 .. available
      /\ sharding.kind = "mesh" => required = available

\* `axis_size`, `position`: the mesh axis of a tag.
AxisOf(axes, tag) == CHOOSE k \in DOMAIN axes : axes[k].tag = tag

ShardedAxes(t) == {i \in DOMAIN t.dims : t.parts[i] # Whole}

\* `validate_shape`
ValidShape(sharding, t) ==
  IF sharding.kind # "mesh"
  THEN ShardedAxes(t) = {}
  ELSE \A i \in ShardedAxes(t) :
         /\ \E k \in DOMAIN sharding.axes : sharding.axes[k].tag = t.parts[i]
         /\ \A j \in ShardedAxes(t) : t.parts[j] = t.parts[i] => j = i
         /\ t.dims[i] % sharding.axes[AxisOf(sharding.axes, t.parts[i])].size = 0

\* `ranges`: the region of the tensor that a shard holds.
Region(sharding, t, shard) ==
  LET coordinates == Digits(shard, Sizes(sharding.axes))
  IN  [i \in DOMAIN t.dims |->
         IF sharding.kind # "mesh" \/ t.parts[i] = Whole
         THEN [start |-> 0, length |-> t.dims[i]]
         ELSE LET k == AxisOf(sharding.axes, t.parts[i])
                  length == t.dims[i] \div sharding.axes[k].size
              IN  [start |-> coordinates[k] * length, length |-> length]]

Lengths(region) == [i \in DOMAIN region |-> region[i].length]

\* `shard_shape` and its byte count
ShardBytes(t, region) == Product(Lengths(region)) * t.width

\* The place of an element in a row-major array.
Linear(dims, coordinates) ==
  FoldLeft(LAMBDA acc, i : acc * dims[i] + coordinates[i], 0, [i \in 1 .. Len(dims) |-> i])

\* `for_each_shard_span`: the contiguous runs of the file that make up a region.
Spans(t, region) ==
  LET rank == Len(t.dims)
      lengths == Lengths(region)
      span(row) ==
        LET digits == Digits(row, Front(lengths)) \o <<0>>
        IN  [start |-> Linear(t.dims, [i \in 1 .. rank |-> region[i].start + digits[i]]) * t.width,
             length |-> lengths[rank] * t.width]
  IN  IF rank = 0 THEN <<[start |-> 0, length |-> t.width]>>
      ELSE IF \E i \in 1 .. rank : lengths[i] = 0 THEN << >>
      ELSE [r \in 1 .. Product(Front(lengths)) |-> span(r - 1)]

\* `region_view`: the view of a region starts at the region's corner and keeps the strides
\* of the file.  Where byte d of it is in the file.
Viewed(t, region, d) ==
  LET digits == Digits(d \div t.width, Lengths(region))
  IN  Linear(t.dims, [i \in DOMAIN t.dims |-> region[i].start + digits[i]]) * t.width + (d % t.width)

RegionBytes(t, region) == [d \in 0 .. ShardBytes(t, region) - 1 |-> Viewed(t, region, d)]

-----------------------------------------------------------------------------
(* The same without a loop.                                                  *)
Stride(sizes, i) == Product(SubSeq(sizes, i + 1, Len(sizes)))

\* Where an element of the row-major file lies along axis i.
Along(t, element, i) == (element \div Stride(t.dims, i)) % t.dims[i]

\* What a shard is meant to hold: along every sharded axis, the block that the
\* place of its device in the row-major mesh gives it.
MeantFor(sharding, t, shard) ==
  LET sizes == Sizes(sharding.axes)
      block(b, i, k) == Along(t, b \div t.width, i) \div (t.dims[i] \div sizes[k])
  IN  {b \in 0 .. Bytes(t) - 1 : \A i \in ShardedAxes(t) :
         LET k == AxisOf(sharding.axes, t.parts[i])
         IN  block(b, i, k) = (shard \div Stride(sizes, k)) % sizes[k]}
=============================================================================
