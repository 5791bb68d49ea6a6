--------------------------- MODULE MCComponentUpload -------------------------
(* Components whose rows do not fill a chunk, on two and on four devices.    *)
EXTENDS ComponentUpload

Tensor(dims, parts, width) == [dims |-> dims, parts |-> parts, width |-> width]
Axis(tag, size) == [tag |-> tag, size |-> size]
Mesh(axes) == [kind |-> "mesh", axes |-> axes]
Single == [kind |-> "single", axes |-> << >>]
Replicated == [kind |-> "replicated", axes |-> << >>]
Square == Mesh(<<Axis("x", 2), Axis("y", 2)>>)

Rows == Tensor(<<2, 5>>, <<"x", Whole>>, 1)      \* three chunks of a row
Tiles == Tensor(<<2, 2>>, <<"y", "x">>, 2)       \* both axes divided
Columns == Tensor(<<2, 6>>, <<Whole, "y">>, 1)   \* a span of three bytes per row
Uneven == Tensor(<<3, 2>>, <<"x", Whole>>, 1)    \* refused
Twice == Tensor(<<2, 2>>, <<"x", "x">>, 1)       \* refused
Plain == Tensor(<<5>>, <<Whole>>, 1)
Empty == Tensor(<<0, 2>>, <<Whole, "x">>, 1)     \* nothing to stream
Scalar == Tensor(<< >>, << >>, 2)

Job(tensor, sharding, devices) ==
  [tensor : {tensor}, sharding : {sharding}, devices : {devices}, cuda : BOOLEAN]

MCJobs == UNION (
  {Job(t, Square, 4) : t \in {Rows, Tiles, Columns, Uneven, Twice, Empty, Scalar}}
  \cup {Job(Rows, Square, n) : n \in {3, 5}}
  \cup {Job(Plain, Single, 1), Job(Plain, Replicated, 2), Job(Plain, Replicated, 0),
        Job(Scalar, Replicated, 2), Job(Rows, Single, 1)})
=============================================================================
