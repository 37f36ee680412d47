------------------------------- MODULE MCFlow -------------------------------
(* Flow on a small instance: two commit sessions and two presentations.     *)
EXTENDS Flow, TLC

CONSTANTS d1, d2, c1, c2, p1, p2, n1, n2, v1, v2

MCSlot == d1 :> 1 @@ d2 :> 2
MCIssuerClaims == {<<[pointer |-> "/a", value |-> v2]>>}
MCHolderClaims == {<<[pointer |-> "/h", value |-> v1]>>,
                   <<[pointer |-> "/h", value |-> v2]>>}
\* the holder has a claim of the issuer's name
MCSameName == {<<[pointer |-> "/a", value |-> v1]>>}
MCOptionalClaim == {<<>>, <<[pointer |-> "/a", value |-> v1]>>}
MCOneClaim == {<<[pointer |-> "/h", value |-> v1]>>}
MCKeyLists == {<<>>, <<d1>>, <<d1, d2>>, <<d2, d1>>}
MCBound == {<<d1>>}
MCUnbound == {<<>>}
MCSymmetry == Permutations({c1, c2}) \cup Permutations({p1, p2}) \cup Permutations({n1, n2})
=============================================================================
