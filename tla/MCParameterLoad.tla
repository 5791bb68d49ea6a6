---------------------------- MODULE MCParameterLoad --------------------------
(* Three artifacts, of which tied and contradicting models make use.         *)
EXTENDS ParameterLoad

CONSTANTS a, b, c

Part(artifact, shape, parts) == [artifact |-> artifact, shape |-> shape, parts |-> parts]
Dense(name, part) == [name |-> name, fits |-> TRUE, components |-> <<part>>]
Pair(name, first, second) == [name |-> name, fits |-> TRUE, components |-> <<first, second>>]

A == Part(a, "row", "whole")
B == Part(b, "row", "whole")
C == Part(c, "square", "whole")

MCRegistry == [x \in {a, b, c} |-> IF x = c THEN "square" ELSE "row"]

MCModels ==
  {<< >>,
   <<Dense("p", A), Dense("q", A)>>,                          \* tied
   <<Dense("p", A), Pair("q", B, C), Dense("p", A)>>,         \* visited twice
   <<Pair("p", A, B), Dense("q", C), Dense("r", B)>>,
   <<Dense("p", A), Dense("q", Part(a, "row", "divided"))>>,  \* tied, and not the same
   <<Dense("p", A), Dense("p", B)>>,                          \* two definitions
   <<Dense("p", Part(c, "row", "whole"))>>}                   \* not what is stored
=============================================================================
