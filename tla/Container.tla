------------------------------ MODULE Container -----------------------------
(***************************************************************************)
(* The text of an issued and of a presented JWP (jwp.rs, the Compact        *)
(* Serialization): parts between dots, octet strings between tildes within  *)
(* a part, each in base64url.  A text is a sequence of characters, and the  *)
(* characters of base64url are the numbers they stand for.  A reader yields  *)
(* the set of values it accepts: none, or one.                              *)
(***************************************************************************)
EXTENDS Integers, Sequences, SequencesExt, Split

Underscore == 63
Tilde == 64
Dot == 65

\* The i-th digit in base 2^to of the digits in base 2^from that s is, read
\* from the left: it is spread over two digits of s at most.
Digit(s, from, to, i) ==
  LET bit == to * (i - 1)
      at == bit \div from + 1
      next == IF at < Len(s) THEN s[at + 1] ELSE 0
  IN  ((s[at] * 2 ^ from + next) \div 2 ^ (2 * from - to - (bit % from))) % 2 ^ to

\* A character for every 6 bits, the last one filled up with zeros.
b64_encode(data) == [i \in 1 .. (8 * Len(data) + 5) \div 6 |-> Digit(data, 8, 6, i)]

\* An octet for every 8 bits: what is left of the last character is not read.
b64_decode(text) ==
  IF Len(text) % 4 = 1 \/ ToSet(text) \cap {Tilde, Dot} # {} THEN {}
  ELSE {[i \in 1 .. (6 * Len(text)) \div 8 |-> Digit(text, 6, 8, i)]}

-----------------------------------------------------------------------------
(* What all the readers in a sequence accept.                              *)

All(reads) ==
  IF \E i \in DOMAIN reads : reads[i] = {} THEN {}
  ELSE {[i \in DOMAIN reads |-> CHOOSE x \in reads[i] : TRUE]}

-----------------------------------------------------------------------------
(* Groups.  A value is <<>> when it is omitted and <<octets>> when it is   *)
(* there.                                                                  *)

\* Mutant: an empty value is written like an omitted one.
EmptyAsNothing(value) == IF value = <<>> THEN <<>> ELSE b64_encode(value[1])

GroupMember(value) ==
  IF value = <<>> THEN <<>>
  ELSE IF value[1] = <<>> THEN <<Underscore>>
  ELSE b64_encode(value[1])

encode_group(values) ==
  JoinedBy([i \in DOMAIN values |-> GroupMember(values[i])], Tilde)

decode_group(text) ==
  LET parts == SplitBy(text, Tilde)
  IN  All([i \in DOMAIN parts |->
             IF parts[i] = <<>> THEN {<<>>}
             ELSE IF parts[i] = <<Underscore>> THEN {<<<<>>>>}
             ELSE {<<octets>> : octets \in b64_decode(parts[i])}])

\* The one value of a group that has no more and is not omitted: a signature
\* or a proof.
OnlyMember(group) == {g[1][1] : g \in {h \in group : Len(h) = 1 /\ h[1] # <<>>}}

-----------------------------------------------------------------------------
(* The containers.                                                         *)

issued_encode(jwp) ==
  JoinedBy(<<b64_encode(jwp.issuer_header),
             encode_group([i \in DOMAIN jwp.payloads |-> <<jwp.payloads[i]>>]),
             encode_group(<<<<jwp.signature>>>>)>>, Dot)

issued_decode(text) ==
  LET parts == SplitBy(text, Dot)
  IN  IF Len(parts) # 3 THEN {}
      ELSE {[issuer_header |-> header, signature |-> signature,
             payloads |-> [i \in DOMAIN group |-> group[i][1]]] :
              header \in b64_decode(parts[1]),
              group \in {g \in decode_group(parts[2]) : \A i \in DOMAIN g : g[i] # <<>>},
              signature \in OnlyMember(decode_group(parts[3]))}

presented_encode(jwp) ==
  JoinedBy(<<b64_encode(jwp.presentation_header), b64_encode(jwp.issuer_header),
             encode_group(jwp.payloads), encode_group(<<<<jwp.proof>>>>)>>, Dot)

presented_decode(text) ==
  LET parts == SplitBy(text, Dot)
  IN  IF Len(parts) # 4 THEN {}
      ELSE {[presentation_header |-> presentation, issuer_header |-> header,
             payloads |-> group, proof |-> proof] :
              presentation \in b64_decode(parts[1]), header \in b64_decode(parts[2]),
              group \in decode_group(parts[3]),
              proof \in OnlyMember(decode_group(parts[4]))}
=============================================================================
