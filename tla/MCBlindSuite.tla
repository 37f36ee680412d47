---------------------------- MODULE MCBlindSuite ----------------------------
(* BlindSuite modulo 1013, for credentials of up to four messages and two   *)
(* keys.  The scalars a run draws, and those the oracle answers with, are   *)
(* fixed sequences in which nothing repeats.                               *)
EXTENDS BlindSuite, TLC

MCShapes == [issuer : {1, 2}, committed : 0 .. 2, keys : 0 .. 2]

MCStreams == {[i \in 1 .. 60 |-> ((i + 7) * (i + 7) * (i + 7)) % q]}
MCAnswers == [i \in 1 .. 14 |-> ((37 * i) % (q - 2)) + 2]

MCSymmetry == Permutations(Header) \cup Permutations(PresHeader)
=============================================================================
