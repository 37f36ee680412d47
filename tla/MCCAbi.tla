------------------------------- MODULE MCCAbi -------------------------------
(* CAbi with an allocator that reuses the lowest free addresses first, so    *)
(* that a freed block is handed out again as soon as possible.              *)
EXTENDS CAbi

MCAddr == 1 .. 5

MCMalloc ==
  [free \in SUBSET MCAddr |->
     {{a \in free : Cardinality({b \in free : b <= a}) <= n} : n \in 0 .. Cardinality(free)}]
=============================================================================
