------------------------------- MODULE MCWire -------------------------------
(* Wire on a small instance: an issuance and a presentation, with mix-ups.  *)
EXTENDS Wire

MCRequests == (1 .. 3) \X (1 .. 2)
MCCommitShapes == {[messages |-> 1, keys |-> 0], [messages |-> 0, keys |-> 1],
                   [messages |-> 2, keys |-> 2]}
MCProofShapes ==
  {[hidden |-> 0, committed |-> 0, disclosed |-> 2, keys |-> 0],
   [hidden |-> 1, committed |-> 0, disclosed |-> 1, keys |-> 1],
   [hidden |-> 1, committed |-> 2, disclosed |-> 1, keys |-> 2]}
MCHeaders == {<<<<>>, <<255, 254>>>>}
MCPayloads == {<<<<251, 240, 2, 129>>>>, <<<<>>, <<1, 0>>>>}
MCCommitted == {<<>>, <<<<>>>>}
=============================================================================
