------------------------------- MODULE Codec --------------------------------
(***************************************************************************)
(* The octets that cross a worker boundary or the wire between the halves  *)
(* of the protocol: commitment state, commitment, signature, proof state,  *)
(* proof, and the carry of a presentation.                                 *)
(*                                                                         *)
(* Every field of the first five is a multiple of 8 octets long, so their  *)
(* octets are a sequence of units of 8: <<x, j>> is the j-th unit of x,    *)
(* where x is a 64-bit number (1 unit), a scalar (4) or a point of G1 (6). *)
(* The carry has fields of any length and is a sequence of octets proper.  *)
(* A reader yields the set of values it accepts: none, or one.             *)
(***************************************************************************)
EXTENDS Integers, Sequences, SequencesExt

CONSTANTS
  MaxMessages    \* jwp::MAX_MESSAGES

ASSUME CodecAssumption == MaxMessages \in 0 .. 65535

-----------------------------------------------------------------------------
(* Elements.  A name tells apart the scalars and points of different calls; *)
(* that two of them are equal, or one of them zero, is left out as having   *)
(* no more than a negligible chance.                                        *)

Item(type, name) == [type |-> type, name |-> name]
U64(n) == Item("u64", <<<<"number", n>>>>)
Scalar(name) == Item("scalar", name)
G1(name) == Item("point", name)

\* The units an item of a type takes.
UnitsOf(type) == IF type = "u64" THEN 1 ELSE IF type = "scalar" THEN 4 ELSE 6

Units(x) == [j \in 1 .. UnitsOf(x.type) |-> <<x, j>>]

serialize(items) == FlattenSeq([i \in DOMAIN items |-> Units(items[i])])

-----------------------------------------------------------------------------
(* Reading an item from the units at a place.                              *)

\* Eight octets of a scalar or a point make a number too, but none that the
\* octets are as long as, but for a negligible chance: what takes them for a
\* count refuses the octets, here at once.
read_u64(octets, at) ==
  IF at <= Len(octets) /\ octets[at][1].type = "u64"
  THEN {octets[at][1].name[1][2]} ELSE {}

octets_to_point_e1(octets, at) ==
  LET x == octets[at][1]
  IN  IF x.type = "point" /\ SubSeq(octets, at, at + 5) = Units(x) THEN {x} ELSE {}

\* A point starts with its compression flag, which makes it no canonical
\* scalar; anything else may be one.
scalar_from_be(octets, at) ==
  LET x == octets[at][1]
      read == SubSeq(octets, at, at + 3)
  IN  IF octets[at] = <<x, 1>> /\ x.type = "point" THEN {}
      ELSE IF x.type = "scalar" /\ read = Units(x) THEN {x}
      ELSE {Scalar(<<<<"junk", at>>>>)}

ReadOne(octets, at, type) ==
  IF type = "point" THEN octets_to_point_e1(octets, at)
  ELSE scalar_from_be(octets, at)

\* The items of the given types that follow one another from a place: the
\* readers' loops, which stop at the first item refused.
ReadAll(octets, at, types) ==
  LET place[i \in 1 .. Len(types) + 1] ==
        IF i = 1 THEN at ELSE place[i - 1] + UnitsOf(types[i - 1])
      item == [i \in DOMAIN types |-> ReadOne(octets, place[i], types[i])]
  IN  IF \E i \in DOMAIN types : item[i] = {} THEN {}
      ELSE {[i \in DOMAIN types |-> CHOOSE x \in item[i] : TRUE]}

Some(n, type) == [i \in 1 .. n |-> type]

\* Mutant: what follows the last field is not looked at.
AtLeast(got, expected) == got >= expected

\* Every reader works out the length from the counts it read, and refuses
\* any other.
Exactly(got, expected) == got = expected

-----------------------------------------------------------------------------
(* CommitInit's state and CommitFinalize's result.                         *)

commitment_state_to_octets(s) ==
  serialize(<<U64(Len(s.m_hat)), U64(Len(s.keys)), s.c, s.s_hat>>
              \o s.m_hat \o <<s.challenge>> \o s.keys)

octets_to_commitment_state(octets) ==
  UNION {UNION {
    IF ~Exactly(Len(octets), 2 + (1 + k) * 6 + (2 + m) * 4) THEN {}
    ELSE {[c |-> x[1], s_hat |-> x[2], m_hat |-> SubSeq(x, 3, 2 + m),
           challenge |-> x[3 + m], keys |-> SubSeq(x, 4 + m, 3 + m + k)] :
            x \in ReadAll(octets, 3, <<"point">> \o Some(2 + m, "scalar")
                                       \o Some(k, "point"))} :
    k \in read_u64(octets, 2)} : m \in read_u64(octets, 1)}

\* A device signature is a string of octets here: its units, unread.
commitment_with_proof_to_octets(s, signatures) ==
  serialize(<<U64(Len(s.m_hat)), U64(Len(s.keys)), s.c>> \o s.keys
              \o <<s.s_hat>> \o s.m_hat \o <<s.challenge>>)
    \o FlattenSeq(signatures)

\* The count signatures of signature_length 8 units that end the octets.
LastSignatures(octets, count) ==
  [i \in 1 .. count |->
     LET from == Len(octets) - 8 * (count - i + 1)
     IN  SubSeq(octets, from + 1, from + 8)]

octets_to_commitment_with_proof(octets) ==
  UNION {UNION {
    IF ~Exactly(Len(octets), 2 + (1 + k) * 6 + (2 + m) * 4 + k * 8) THEN {}
    ELSE {[c |-> x[1], keys |-> SubSeq(x, 2, 1 + k), s_hat |-> x[2 + k],
           m_hat |-> SubSeq(x, 3 + k, 2 + k + m), challenge |-> x[3 + k + m],
           signatures |-> LastSignatures(octets, k)] :
            x \in ReadAll(octets, 3, Some(1 + k, "point")
                                       \o Some(2 + m, "scalar"))} :
    k \in read_u64(octets, 2)} : m \in read_u64(octets, 1)}

-----------------------------------------------------------------------------
(* The issuer's signature.                                                 *)

signature_to_octets(s) == serialize(<<s.a, s.e>>)

octets_to_signature(octets) ==
  IF ~Exactly(Len(octets), 10) THEN {}
  ELSE {[a |-> x[1], e |-> x[2]] : x \in ReadAll(octets, 1, <<"point", "scalar">>)}

-----------------------------------------------------------------------------
(* BBS proofs, the state of a proof to be finished, and finished proofs.   *)

\* abar, bbar, d; ehat, r1hat, r3hat; the hidden messages' and the challenge.
bbs_proof_to_octets(p) == serialize(p.points \o p.scalars)

Floor == 3 * 6 + 4 * 4

octets_to_bbs_proof(octets) ==
  IF Len(octets) < Floor \/ (Len(octets) - Floor) % 4 # 0 THEN {}
  ELSE {[points |-> SubSeq(x, 1, 3), scalars |-> SubSeq(x, 4, Len(x))] :
          x \in ReadAll(octets, 1, Some(3, "point")
                          \o Some((Len(octets) - 18) \div 4, "scalar"))}

\* bbs_proof_len counts octets, 8 to a unit.
proof_prefix(units, n, k) == serialize(<<U64(8 * units), U64(n), U64(k)>>)

proof_gen_state_to_octets(s) ==
  LET bbs_proof == bbs_proof_to_octets(s.bbs_proof)
  IN  proof_prefix(Len(bbs_proof), Len(s.commitments), Len(s.keys)) \o bbs_proof
        \o serialize(s.commitments \o s.s_hat \o <<s.challenge>> \o s.keys
                       \o s.r_key)

\* Mutant: the challenge is looked for after the randomizers.
ChallengeLast(k) == Some(k, "point") \o Some(k, "scalar") \o <<"scalar">>

\* Challenge, randomized keys, randomizers.
StateTail(k) == <<"scalar">> \o Some(k, "point") \o Some(k, "scalar")

\* All before the challenge is taken as it is.
octets_to_proof_gen_state(octets) ==
  UNION {UNION {UNION {
    LET end == Len(octets) - k * (6 + 4) - 4
    IN  IF ~Exactly(8 * Len(octets), 24 + len + 8 * ((n + k) * 6 + (1 + n + k) * 4)) THEN {}
        ELSE {[incomplete_proof |-> SubSeq(octets, 1, end),
               challenge |-> x[1], keys |-> SubSeq(x, 2, 1 + k),
               r_key |-> SubSeq(x, 2 + k, 1 + 2 * k)] :
                x \in ReadAll(octets, end + 1, StateTail(k))} :
    k \in read_u64(octets, 3)} : n \in read_u64(octets, 2)} : len \in read_u64(octets, 1)}

octets_to_blind_proof(octets) ==
  UNION {UNION {UNION {
    LET units == len \div 8
    IN  IF ~Exactly(8 * Len(octets), 24 + len + 8 * (n * (6 + 4) + k * (6 + 8))) THEN {}
        ELSE UNION {{[bbs_proof |-> p, commitments |-> SubSeq(x, 1, n),
                      s_hat |-> SubSeq(x, n + 1, 2 * n),
                      keys |-> SubSeq(x, 2 * n + 1, 2 * n + k),
                      signatures |-> LastSignatures(octets, k)] :
               x \in ReadAll(octets, 4 + units, Some(n, "point") \o
                               Some(n, "scalar") \o Some(k, "point"))} :
               p \in octets_to_bbs_proof(SubSeq(octets, 4, 3 + units))} :
    k \in read_u64(octets, 3)} : n \in read_u64(octets, 2)} : len \in read_u64(octets, 1)}

-----------------------------------------------------------------------------
(* The carry between present_init and present_finalize.  A payload slot is  *)
(* <<>> when the message is withheld and <<octets>> when it is disclosed.   *)

\* A length in four octets, most significant first.  `as u32` keeps a length
\* below 4 GiB; the two high octets are 0 because none here reaches 2^16.
u32(n) == <<0, 0, n \div 256, n % 256>>
put(b) == u32(Len(b)) \o b
Slot(p) == IF p = <<>> THEN <<0>> ELSE <<1>> \o put(p[1])

carry_encode(c) ==
  put(c.inner) \o put(c.presentation_header) \o put(c.issuer_header)
    \o u32(Len(c.payloads))
    \o FlattenSeq([i \in DOMAIN c.payloads |-> Slot(c.payloads[i])])

\* A cursor: where it stands, what it read, and whether anything was refused.
take(data, cur, n) ==
  IF cur.ok /\ cur.pos + n <= Len(data)
  THEN [ok |-> TRUE, pos |-> cur.pos + n,
        got |-> Append(cur.got, SubSeq(data, cur.pos + 1, cur.pos + n))]
  ELSE [cur EXCEPT !.ok = FALSE]

Number(b) == ((b[1] * 256 + b[2]) * 256 + b[3]) * 256 + b[4]

\* blob: a length, and so many octets.
blob(data, cur) ==
  LET l == take(data, cur, 4)
  IN  IF l.ok THEN take(data, [l EXCEPT !.got = cur.got], Number(Last(l.got))) ELSE l

\* Mutant: a slot of length zero is a withheld one.
EmptyIsWithheld(b) == IF b = <<>> THEN <<>> ELSE <<b>>

\* The slot a tag of 1 and a blob make.
Disclosed(b) == <<b>>

ReadSlot(data, cur) ==
  LET t == take(data, cur, 1)
      some == blob(data, [t EXCEPT !.got = cur.got])
  IN  IF ~t.ok THEN t
      ELSE IF Last(t.got) = <<0>> THEN [t EXCEPT !.got = Append(cur.got, <<>>)]
      ELSE IF Last(t.got) = <<1>> /\ some.ok
           THEN [some EXCEPT !.got = Append(cur.got, Disclosed(Last(some.got)))]
      ELSE [t EXCEPT !.ok = FALSE]

carry_decode(data) ==
  LET start == [ok |-> TRUE, pos |-> 0, got |-> <<>>]
      heads == blob(data, blob(data, blob(data, start)))
      l == take(data, heads, 4)
      count == IF l.ok THEN Number(Last(l.got)) ELSE 0
      slots[i \in 0 .. count] ==
        IF i = 0 THEN [l EXCEPT !.got = heads.got] ELSE ReadSlot(data, slots[i - 1])
  IN  IF ~l.ok \/ count > MaxMessages THEN {}
      ELSE IF ~slots[count].ok \/ slots[count].pos # Len(data) THEN {}
      ELSE LET got == slots[count].got
           IN  {[inner |-> got[1], presentation_header |-> got[2],
                 issuer_header |-> got[3], payloads |-> SubSeq(got, 4, Len(got))]}

=============================================================================
