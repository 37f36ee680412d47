------------------------------ MODULE MCKeygen ------------------------------
(* bbs-keygen with three runs against one directory.                        *)
EXTENDS Keygen, TLC

MCSymmetry == Permutations(Proc)
=============================================================================
