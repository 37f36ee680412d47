----------------------------- MODULE BlindSuite -----------------------------
(***************************************************************************)
(* The algebra of one blind credential, from commit_init to                *)
(* blind_proof_verify: what Flow takes as equality of terms is computed     *)
(* here, scalar by scalar.                                                 *)
(*                                                                         *)
(* Scalars are the integers modulo a prime q.  A point is the vector of its *)
(* coefficients over the generators, between which nobody knows a relation: *)
(* so points are equal exactly when they were made from equal scalars.  The *)
(* issuer's public key is known by its logarithm, which turns a pairing     *)
(* check into an equation of points.  hash_to_scalar is an oracle that      *)
(* answers each new input with a scalar of its own.                        *)
(***************************************************************************)
EXTENDS Integers, Sequences, SequencesExt, FiniteSets

CONSTANTS
  q,             \* the order of the groups, a prime
  Shapes,        \* numbers of issuer messages, committed messages and keys
  Streams,       \* what ScalarSource may yield: long sequences of scalars
  Answers,       \* the scalars the oracle answers with, in order
  Header,        \* issuer headers
  PresHeader     \* presentation headers

\* As many scalars as one credential takes: 20 are set aside for keys and
\* messages, then those of the commitment, of the proof, and a nonce per answer.
Needed(s) == 28 + 3 * s.issuer + 4 * s.committed + 4 * s.keys

\* No scalar drawn is zero, and no two inputs have one answer: accidents with a
\* chance of about one in q.  Neither the source nor the oracle runs dry.
ASSUME BlindSuiteAssumption ==
  /\ q \in Nat \ {0, 1}
  /\ \A d \in 2 .. (q - 1) : q % d # 0
  /\ Shapes \subseteq [issuer : Nat, committed : Nat, keys : Nat]
  /\ Shapes # {} /\ IsFiniteSet(Shapes)
  /\ Streams \subseteq Seq(1 .. (q - 1))
  /\ \A s \in Shapes, st \in Streams : Needed(s) <= Len(st)
  /\ Answers \in Seq(2 .. (q - 1))
  /\ IsInjective(Answers)
  /\ \A s \in Shapes : 5 + 2 * s.keys <= Len(Answers)

VARIABLES
  shape, stream, \* the case at hand
  drawn,         \* scalars drawn from the stream
  asked,         \* inputs hashed so far
  commit,        \* what commit_init returned
  request,       \* what commit_finalize returned
  signature,     \* what blind_sign returned
  accepted,      \* a verify_blind_sign call and its result
  state,         \* what blind_proof_gen_init returned, and its arguments
  proof,         \* what blind_proof_gen_finalize returned
  verified       \* a blind_proof_verify call and its result

\* In place of a result: no result has this field.
NotYet == [none |-> "pending"]
Refused == [none |-> "refused"]

vars == <<shape, stream, drawn, asked, commit, request, signature, accepted,
          state, proof, verified>>

-----------------------------------------------------------------------------
(* Scalars and points.                                                     *)

Scalar == 0 .. (q - 1)

\* Mutant: a difference that is not reduced.
Unreduced(s, t) == s - t

Minus(s, t) == (s - t) % q
Invert(s) == CHOOSE t \in Scalar : (s * t) % q = 1

Largest(field) == LET sizes == {s[field] : s \in Shapes}
                  IN  CHOOSE n \in sizes : \A m \in sizes : m <= n

\* The generators: the suite's P1 and Q_1, one H per message, the blind suite's
\* Q_2 and J points, one per key, and the two of the Pedersen commitments.
Basis ==
  LET n == Largest("issuer") + Largest("committed")
      family(g, size) == [i \in 1 .. size |-> <<g, i>>]
  IN  family("P1", 1) \o family("Q1", 1) \o family("H", n) \o family("Q2", 1) \o family("J", n)
      \o family("HK", Largest("keys")) \o family("Y0", 1) \o family("Y1", 1)

Dim == Len(Basis)

\* SubSeq makes TLC compute the coefficients once, not at each use.
Coefficients(f) == SubSeq(f, 1, Dim)

Generator(g, i) == Coefficients([b \in 1 .. Dim |-> IF Basis[b] = <<g, i>> THEN 1 ELSE 0])
Identity == Coefficients([b \in 1 .. Dim |-> 0])
Plus(x, y) == Coefficients([b \in 1 .. Dim |-> (x[b] + y[b]) % q])
Times(x, s) == Coefficients([b \in 1 .. Dim |-> (x[b] * s) % q])

\* F(x).  TLC expands a parameter or a LET at each of its uses in an action,
\* but evaluates a bound variable once: hence this, and \E x \in {e} below.
Once(F(_), x) == CHOOSE y \in {F(v) : v \in {x}} : TRUE

sum_points(points) ==
  Once(LAMBDA ps : LET upto[n \in 0 .. Len(ps)] == IF n = 0 THEN Identity ELSE Plus(upto[n - 1], ps[n])
                   IN  upto[Len(ps)],
       points)

sumprod(points, scalars) ==
  Once(LAMBDA t : sum_points([i \in DOMAIN t[1] |-> Times(t[1][i], t[2][i])]), <<points, scalars>>)

P1 == Generator("P1", 1)
create_generators(n) == <<Generator("Q1", 1)>> \o [i \in 1 .. (n - 1) |-> Generator("H", i)]
blind_generators(n) == <<Generator("Q2", 1)>> \o [i \in 1 .. (n - 1) |-> Generator("J", i)]
keybind_generators(k) == [i \in 1 .. k |-> Generator("HK", i)]
com_dis_generators == <<Generator("Y0", 1), Generator("Y1", 1)>>

all_generators(issuer_no, l, k) ==
  create_generators(issuer_no + 1) \o blind_generators(l - issuer_no + 1) \o keybind_generators(k)

-----------------------------------------------------------------------------
(* Randomness and hashing.                                                 *)

\* calculate_random_scalars(count), fresh on every call.
calculate(count) == [i \in 1 .. count |-> stream[((drawn + i - 1) % Len(stream)) + 1]]

Ask(oracle, input) == IF input \in ToSet(oracle) THEN oracle ELSE Append(oracle, input)

AskAll(oracle, inputs) ==
  LET upto[n \in 0 .. Len(inputs)] == IF n = 0 THEN oracle ELSE Ask(upto[n - 1], inputs[n])
  IN  upto[Len(inputs)]

\* What was never asked has an answer that nothing else has.
hash_to_scalar(oracle, input) ==
  IF input \in ToSet(oracle) THEN Answers[CHOOSE i \in DOMAIN oracle : oracle[i] = input] ELSE 1

\* calculate_domain: the issuer's key, every generator but P1, the header.
DomainInput(pk, generators, header) == <<"domain", pk, generators, header>>

-----------------------------------------------------------------------------
(* Device keys.  Device i's key is over generator HK_i.                     *)

IssuerKey == stream[1]
DeviceKey(i) == stream[1 + i]
DevicePoint(i) == Times(Generator("HK", i), DeviceKey(i))
MessageScalar(i) == stream[10 + i]

NonceInput(i, nonce, message) == <<"schnorr", Times(Generator("HK", i), nonce), message>>

\* SchnorrBls12381::sign by device i.
sign(oracle, i, nonce, message) ==
  LET c == hash_to_scalar(oracle, NonceInput(i, nonce, message))
  IN  [s |-> (nonce + DeviceKey(i) * c) % q, c |-> c]

\* SchnorrBls12381::verify.
schnorr_verify(hk, pk, sig, message) ==
  hash_to_scalar(asked, <<"schnorr", Plus(Times(hk, sig.s), Times(pk, Minus(0, sig.c))), message>>)
    = sig.c

\* Mutant: the answer is not shifted to the randomised key.
NotAdapted(sig, r_key) == sig

adapt_sig(sig, r_key) == [sig EXCEPT !.s = (sig.s + sig.c * r_key) % q]

-----------------------------------------------------------------------------
(* Issuance.                                                               *)

Positions == 1 .. shape.keys
CommitGenerators == blind_generators(shape.committed + 1) \o keybind_generators(shape.keys)
BlindInput(c, cbar, generators, keys) == <<"blind", Len(keys), generators, keys, c, cbar>>

Fresh == [i \in 1 .. shape.keys |-> DevicePoint(i)]
Committed == [i \in 1 .. shape.committed |-> MessageScalar(shape.issuer + i)]
IssuerMessages == [i \in 1 .. shape.issuer |-> MessageScalar(i)]

\* core_commit_init: C and its Schnorr proof, the blind under Q_2.
CommitInit ==
  LET m == shape.committed
      js_q2 == SubSeq(CommitGenerators, 2, m + 1) \o <<CommitGenerators[1]>>
      randoms == calculate(m + 2)
      m_tilde == SubSeq(randoms, 3, m + 2)
      c == sumprod(js_q2, Committed \o <<randoms[1]>>)
      cbar == sumprod(js_q2, m_tilde \o <<randoms[2]>>)
      input == BlindInput(c, cbar, CommitGenerators, Fresh)
      challenge == hash_to_scalar(AskAll(asked, <<input>>), input)
  IN
  /\ commit = NotYet
  /\ asked' = AskAll(asked, <<input>>)
  /\ drawn' = drawn + m + 2
  /\ commit' = [c |-> c, randoms |-> randoms, secret_prover_blind |-> randoms[1], challenge |-> challenge,
                s_hat |-> (randoms[2] + randoms[1] * challenge) % q,
                m_hat |-> [i \in 1 .. m |-> (m_tilde[i] + Committed[i] * challenge) % q]]
  /\ UNCHANGED <<shape, stream, request, signature, accepted, state, proof, verified>>

\* The devices answer messages, position i by device signers[i].
Sign(signers, messages) ==
  LET k == Len(signers)
      nonces == calculate(k)
      oracle == AskAll(asked, [i \in 1 .. k |-> NonceInput(signers[i], nonces[i], messages[i])])
  IN  [oracle |-> oracle, nonces |-> nonces,
       sigs |-> [i \in 1 .. k |-> sign(oracle, signers[i], nonces[i], messages[i])]]

\* commit_finalize; reading the state back refuses a zero scalar.
CommitFinalize(signers) ==
  LET answers == Sign(signers, [i \in 1 .. shape.keys |-> <<commit.challenge>>])
      scalars == <<commit.s_hat, commit.challenge>> \o commit.m_hat
  IN
  /\ commit # NotYet
  /\ request = NotYet
  /\ asked' = answers.oracle
  /\ drawn' = drawn + shape.keys
  /\ request' = IF 0 \in ToSet(scalars) \/ commit.c = Identity THEN Refused
                ELSE [c |-> commit.c, keys |-> Fresh, s_hat |-> commit.s_hat,
                      m_hat |-> commit.m_hat, challenge |-> commit.challenge,
                      sigs |-> answers.sigs, signers |-> signers, nonces |-> answers.nonces]
  /\ UNCHANGED <<shape, stream, commit, signature, accepted, state, proof, verified>>

\* Mutant: the answers of the devices are not looked at.
CommitVerifyNoKeys(r, generators) ==
  LET m == Len(r.m_hat)
      cbar == sumprod(SubSeq(generators, 2, m + 1) \o <<generators[1], r.c>>,
                      r.m_hat \o <<r.s_hat, Minus(0, r.challenge)>>)
  IN  hash_to_scalar(asked, BlindInput(r.c, cbar, generators, r.keys)) = r.challenge

\* The Schnorr proof of C's opening, then one answer per key, each under the
\* generator of its position.
core_commit_verify(r, generators) ==
  LET m == Len(r.m_hat)
      cbar == sumprod(SubSeq(generators, 2, m + 1) \o <<generators[1], r.c>>,
                      r.m_hat \o <<r.s_hat, Minus(0, r.challenge)>>)
  IN
  /\ hash_to_scalar(asked, BlindInput(r.c, cbar, generators, r.keys)) = r.challenge
  /\ \A i \in DOMAIN r.sigs : schnorr_verify(generators[m + 1 + i], r.keys[i], r.sigs[i], <<r.challenge>>)

\* blind_sign, for header h.
BlindSign(h) ==
  LET generators == blind_generators(Len(request.m_hat) + 1) \o keybind_generators(Len(request.sigs))
      mine == create_generators(shape.issuer + 1)
      input == DomainInput(IssuerKey, mine \o generators, h)
      domain == hash_to_scalar(AskAll(asked, <<input>>), input)
      b == sumprod(<<P1>> \o mine \o <<Plus(request.c, sum_points(request.keys))>>,
                   <<1, domain>> \o IssuerMessages \o <<1>>)
      oracle == AskAll(asked, <<input, <<"e", IssuerKey, b>>>>)
      e == hash_to_scalar(oracle, <<"e", IssuerKey, b>>)
  IN
  /\ request \notin {NotYet, Refused}
  /\ signature = NotYet
  /\ asked' = oracle
  /\ signature' =
       IF ~core_commit_verify(request, generators) \/ b = Identity \/ (IssuerKey + e) % q = 0 THEN Refused
       ELSE [a |-> Times(b, Invert((IssuerKey + e) % q)), e |-> e, header |-> h]
  /\ UNCHANGED <<shape, stream, drawn, commit, request, accepted, state, proof, verified>>

\* What a caller passes to verify_blind_sign or blind_proof_gen_init.
Honest == [messages |-> IssuerMessages \o Committed, issuer_no |-> shape.issuer,
           keys |-> [i \in 1 .. shape.keys |-> i], header |-> signature.header,
           blind |-> commit.secret_prover_blind]

\* Those arguments, and those with one of them another.
Arguments ==
  LET l == Len(Honest.messages) IN
  IF signature \in {NotYet, Refused} \/ {accepted, state} # {NotYet} THEN {} ELSE
  {Honest}
  \cup {[Honest EXCEPT !.messages[i] = (@ + 1) % q] : i \in 1 .. l}
  \cup {[Honest EXCEPT !.issuer_no = n] : n \in {shape.issuer - 1, shape.issuer + 1} \cap 0 .. l}
  \cup {[Honest EXCEPT !.keys = keys] : keys \in {Reverse(Honest.keys), <<>>}}
  \cup {[Honest EXCEPT !.header = h] : h \in Header}
  \cup {[Honest EXCEPT !.blind = (@ + 1) % q]}

\* Mutant: the blind after all messages.
BlindLast(args) == args.messages \o <<args.blind>>

\* The prover blind has a slot of its own between the two halves.
proof_scalars(args) ==
  SubSeq(args.messages, 1, args.issuer_no) \o <<args.blind>>
  \o SubSeq(args.messages, args.issuer_no + 1, Len(args.messages))

KeyPoints(args) == [i \in DOMAIN args.keys |-> DevicePoint(args.keys[i])]
GeneratorsOf(args) == all_generators(args.issuer_no, Len(args.messages), Len(args.keys))

\* B, but for the sum of the keys.
compute_b(generators, messages, domain) ==
  sumprod(<<P1>> \o SubSeq(generators, 1, Len(messages) + 1), <<1, domain>> \o messages)

\* verify_blind_sign: e(A, W) * e(A*e - B, G2) is one.
verify_blind_sign(args) ==
  LET domain == hash_to_scalar(asked, DomainInput(IssuerKey, GeneratorsOf(args), args.header))
      b == Plus(compute_b(GeneratorsOf(args), proof_scalars(args), domain), sum_points(KeyPoints(args)))
  IN  Plus(Times(signature.a, (IssuerKey + signature.e) % q), Times(b, Minus(0, 1))) = Identity

Accept(args) ==
  /\ signature \notin {NotYet, Refused}
  /\ accepted = NotYet /\ state = NotYet
  /\ accepted' = [args |-> args, ok |-> verify_blind_sign(args)]
  /\ UNCHANGED <<shape, stream, drawn, asked, commit, request, signature, state, proof, verified>>

-----------------------------------------------------------------------------
(* Presentation.                                                           *)

Disclosure == {"DISCLOSE", "HIDE", "COMMIT"}

\* The indices up to l that are in S, in order.
IndexesIn(l, S) ==
  LET upto[n \in 0 .. l] == IF n = 0 THEN <<>>
                            ELSE IF n \in S THEN Append(upto[n - 1], n) ELSE upto[n - 1]
  IN  upto[l]

Chosen(disclosures, choice) ==
  IndexesIn(Len(disclosures), {i \in DOMAIN disclosures : disclosures[i] = choice})

\* Mutant: the slot of the prover blind is forgotten.
NotShifted(i, issuer_no) == i

\* Every message from the split on moves up by the prover blind's slot.
proof_index(i, issuer_no) == IF i <= issuer_no THEN i ELSE i + 1

Shifted(indexes, issuer_no) == [i \in DOMAIN indexes |-> proof_index(indexes[i], issuer_no)]
Without(l, indexes) == IndexesIn(l, (1 .. l) \ ToSet(indexes))
Select(seq, indexes) == [i \in DOMAIN indexes |-> seq[indexes[i]]]
PositionOf(x, seq) == CHOOSE i \in DOMAIN seq : seq[i] = x

\* blind_proof_challenge_calculate.
ProofInput(init, commitments, proofs, indexes, pk_tildes, messages, disclosed, ph) ==
  <<"proof", disclosed, messages, init, indexes, commitments, proofs, pk_tildes, ph>>

\* Suite::proof_init; messages without generators of their own are zero.
proof_init(generators, random, domain, messages, undisclosed) ==
  Once(LAMBDA b :
         LET d == Times(b, random[2])
             abar == Times(signature.a, (random[1] * random[2]) % q)
         IN  [abar |-> abar,
              bbar |-> Plus(Times(d, random[1]), Times(abar, Minus(0, signature.e))),
              d |-> d,
              t1 |-> Plus(Times(abar, random[3]), Times(d, random[4])),
              t2 |-> Plus(Times(d, random[5]),
                          sumprod([i \in DOMAIN undisclosed |-> generators[undisclosed[i] + 1]],
                                  SubSeq(random, 6, Len(random)))),
              domain |-> domain],
       compute_b(generators, messages, domain))

\* The keys' sum, which no generator of the domain carries, is added after.
WithKeys(init, random, keys) ==
  LET d_add == Times(sum_points(keys), random[2])
  IN  [init EXCEPT !.d = Plus(@, d_add),
                   !.bbar = Plus(@, Times(d_add, random[1])),
                   !.t1 = Plus(@, Times(d_add, random[4])),
                   !.t2 = Plus(@, Times(d_add, random[5]))]

\* Suite::proof_finalize.
proof_finalize(init, c, random, undisclosed_messages) ==
  [abar |-> init.abar, bbar |-> init.bbar, d |-> init.d, challenge |-> c,
   ehat |-> (random[3] + signature.e * c) % q,
   r1hat |-> Minus(random[4], random[1] * c),
   r3hat |-> Minus(random[5], Invert(random[2]) * c),
   m_hat |-> [i \in DOMAIN undisclosed_messages |-> (random[5 + i] + undisclosed_messages[i] * c) % q]]

\* blind_proof_gen_init: the keys ride along as further undisclosed messages,
\* fixed to zero and randomised by r_key.
ProofGenInit(args, disclosures, ph) ==
  LET scalars == proof_scalars(args)
      l == Len(scalars)
      k == Len(args.keys)
      disclosed == Shifted(Chosen(disclosures, "DISCLOSE"), args.issuer_no)
      committed == Shifted(Chosen(disclosures, "COMMIT"), args.issuer_no)
      n == Len(committed)
      ji == Without(l, disclosed)
      u == Len(ji)
      drawn_now == calculate(5 + u + 2 * k + 2 * n)
      random == SubSeq(drawn_now, 1, 5 + u + k)
      r_key == SubSeq(drawn_now, 6 + u + k, 5 + u + 2 * k)
      s == SubSeq(drawn_now, 6 + u + 2 * k, 5 + u + 2 * k + n)
      s_tilde == SubSeq(drawn_now, 6 + u + 2 * k + n, 5 + u + 2 * k + 2 * n)
      zeros == [i \in 1 .. k |-> 0]
      negated_r_key == [i \in 1 .. k |-> Minus(0, r_key[i])]
      undisclosed == ji \o [i \in 1 .. k |-> l + i]
      commitments == [i \in 1 .. n |-> sumprod(com_dis_generators, <<s[i], scalars[committed[i]]>>)]
      commitment_proofs ==
        [i \in 1 .. n |-> sumprod(com_dis_generators,
                                  <<s_tilde[i], random[5 + PositionOf(committed[i], ji)]>>)]
  IN
  /\ signature \notin {NotYet, Refused}
  /\ accepted = NotYet /\ state = NotYet
  /\ drawn' = drawn + Len(drawn_now)
  /\ \E generators \in {GeneratorsOf(args)} :
     \E input \in {DomainInput(IssuerKey, generators, args.header)},
        pk_tildes \in {[i \in 1 .. k |-> Plus(KeyPoints(args)[i], Times(generators[l + 1 + i], r_key[i]))]} :
     \E oracle \in {AskAll(asked, <<input>>)} :
     \E init \in {WithKeys(proof_init(generators, random, hash_to_scalar(oracle, input),
                                     scalars \o zeros, undisclosed),
                          random, KeyPoints(args))} :
     \E challenged \in {ProofInput(init, commitments, commitment_proofs, committed, pk_tildes,
                                  Select(scalars, disclosed), disclosed, ph)} :
     \E c \in {hash_to_scalar(AskAll(oracle, <<challenged>>), challenged)} :
       /\ asked' = AskAll(oracle, <<challenged>>)
       /\ state' = [bbs_proof |-> proof_finalize(init, c, random, Select(scalars, ji) \o negated_r_key),
                    commitments |-> commitments,
                    s_hat |-> [i \in 1 .. n |-> (s_tilde[i] + c * s[i]) % q],
                    pk_tildes |-> pk_tildes, r_key |-> r_key, openings |-> s,
                    random |-> random, s_tilde |-> s_tilde,
                    args |-> args, disclosures |-> disclosures, ph |-> ph]
  /\ UNCHANGED <<shape, stream, commit, request, signature, accepted, proof, verified>>

\* blind_proof_gen_finalize: the devices sign the hash of their randomised key
\* and the challenge, and their answers are adapted.
ProofGenFinalize(signers) ==
  LET answers == Sign(signers, [i \in DOMAIN signers |-> <<state.pk_tildes[i], state.bbs_proof.challenge>>])
  IN
  /\ state # NotYet
  /\ proof = NotYet
  /\ Len(signers) = Len(state.pk_tildes)
  /\ Identity \notin ToSet(state.pk_tildes)
  /\ asked' = answers.oracle
  /\ drawn' = drawn + Len(signers)
  /\ proof' = [signers |-> signers, nonces |-> answers.nonces, answers |-> answers.sigs,
               sigs |-> [i \in DOMAIN signers |-> adapt_sig(answers.sigs[i], state.r_key[i])]]
  /\ UNCHANGED <<shape, stream, commit, request, signature, accepted, state, verified>>

\* What the relying party reads from the presentation: one slot per message.
Shown == [issuer_no |-> state.args.issuer_no, disclosures |-> state.disclosures,
          messages |-> Select(state.args.messages, Chosen(state.disclosures, "DISCLOSE")),
          header |-> state.args.header, ph |-> state.ph]

\* The same, and with one thing another.
Readings ==
  LET l == Len(state.disclosures) IN
  IF proof = NotYet \/ verified # NotYet THEN {} ELSE
  {Shown}
  \cup {[Shown EXCEPT !.messages[i] = (@ + 1) % q] : i \in DOMAIN Shown.messages}
  \cup {[Shown EXCEPT !.disclosures = Reverse(@)]}
  \cup {[Shown EXCEPT !.issuer_no = n] : n \in {shape.issuer - 1, shape.issuer + 1} \cap 0 .. l}
  \cup {[Shown EXCEPT !.header = h] : h \in Header}
  \cup {[Shown EXCEPT !.ph = h] : h \in PresHeader}

\* Suite::proof_verify_init, of the proof without its keys.
proof_verify_init(p, generators, domain, disclosed_messages, disclosed) ==
  LET l == Len(disclosed) + Len(p.m_hat)
      ji == Without(l, disclosed)
      bv == sumprod(<<P1, generators[1]>> \o [i \in DOMAIN disclosed |-> generators[disclosed[i] + 1]],
                    <<1, domain>> \o disclosed_messages)
  IN  [abar |-> p.abar, bbar |-> p.bbar, d |-> p.d,
       t1 |-> sumprod(<<p.bbar, p.abar, p.d>>, <<p.challenge, p.ehat, p.r1hat>>),
       t2 |-> sumprod(<<bv, p.d>> \o [i \in DOMAIN ji |-> generators[ji[i] + 1]],
                      <<p.challenge, p.r3hat>> \o p.m_hat),
       domain |-> domain]

\* blind_proof_verify; reading the proof refuses points that are the identity.
blind_proof_verify(seen) ==
  LET p == state.bbs_proof
      k == Len(proof.sigs)
      disclosed == Shifted(Chosen(seen.disclosures, "DISCLOSE"), seen.issuer_no)
      committed == Shifted(Chosen(seen.disclosures, "COMMIT"), seen.issuer_no)
      n == Len(committed)
      l == Len(disclosed) + Len(p.m_hat)
      total == l - 1 - k
      ji == Without(l, disclosed)
      c == p.challenge
      commitment_proofs == [i \in 1 .. n |->
        sumprod(com_dis_generators \o <<state.commitments[i]>>,
                <<state.s_hat[i], p.m_hat[PositionOf(committed[i], ji)], Minus(0, c)>>)]
  IN
  /\ seen.issuer_no <= total
  /\ Len(seen.disclosures) = total
  /\ Len(disclosed) = Len(seen.messages)
  /\ n = Len(state.commitments)
  /\ Identity \notin {p.abar, p.bbar, p.d} \cup ToSet(state.commitments) \cup ToSet(state.pk_tildes)
  /\ \E generators \in {all_generators(seen.issuer_no, total, k)} :
     \E domain \in {hash_to_scalar(asked, DomainInput(IssuerKey, generators, seen.header))} :
     \E init \in {proof_verify_init(p, generators, domain, seen.messages, disclosed)} :
       /\ hash_to_scalar(asked,
            ProofInput([init EXCEPT !.t2 = Plus(@, Times(sum_points(state.pk_tildes), c))],
                       state.commitments, commitment_proofs, committed, state.pk_tildes,
                       seen.messages, disclosed, seen.ph)) = c
       /\ \A i \in 1 .. k : schnorr_verify(generators[l + 1 - k + i], state.pk_tildes[i], proof.sigs[i],
                                          <<state.pk_tildes[i], c>>)
  /\ Times(p.abar, IssuerKey) = p.bbar

Verify(seen) ==
  /\ proof # NotYet
  /\ verified = NotYet
  /\ verified' = [seen |-> seen, ok |-> blind_proof_verify(seen)]
  /\ UNCHANGED <<shape, stream, drawn, asked, commit, request, signature, accepted, state, proof>>

-----------------------------------------------------------------------------
Init ==
  /\ shape \in Shapes
  /\ stream \in Streams
  /\ drawn = 20
  /\ asked = <<>>
  /\ commit = NotYet /\ request = NotYet /\ signature = NotYet /\ accepted = NotYet
  /\ state = NotYet /\ proof = NotYet /\ verified = NotYet

Next ==
  \/ CommitInit
  \/ \E signers \in [Positions -> Positions] : CommitFinalize(signers)
  \/ \E h \in Header : BlindSign(h)
  \/ \E args \in Arguments : Accept(args)
  \/ \E args \in Arguments, ph \in PresHeader :
       \E disclosures \in [DOMAIN args.messages -> Disclosure] : ProofGenInit(args, disclosures, ph)
  \/ \E signers \in UNION {[1 .. k -> Positions] : k \in {0, shape.keys}} : ProofGenFinalize(signers)
  \/ \E seen \in Readings : Verify(seen)

Spec == Init /\ [][Next]_vars

-----------------------------------------------------------------------------
(* Properties.                                                             *)

Point == [1 .. Dim -> Scalar]

TypeOK ==
  /\ shape \in Shapes
  /\ drawn <= Len(stream) /\ Len(asked) <= Len(Answers)
  /\ commit # NotYet => /\ commit.c \in Point
                        /\ {commit.s_hat} \cup ToSet(commit.m_hat) \subseteq Scalar
  /\ signature \notin {NotYet, Refused} => signature.a \in Point
  /\ state # NotYet =>
       LET p == state.bbs_proof IN
       /\ {p.abar, p.bbar, p.d} \cup ToSet(state.pk_tildes) \subseteq Point
       /\ {p.ehat, p.r1hat, p.r3hat} \cup ToSet(p.m_hat) \subseteq Scalar
  /\ accepted # NotYet => accepted.ok \in BOOLEAN
  /\ verified # NotYet => verified.ok \in BOOLEAN

\* The oracle may answer with the negated issuer key, and the code then refuses.
KeyCancels == \E e \in ToSet(Answers) : (IssuerKey + e) % q = 0

(* blind_sign signs a commitment exactly when every key in it was proved by *)
(* the device of that position: the answers of two devices exchanged, or of *)
(* one device for both, are refused, and an honest commitment never is.     *)
PossessionExact ==
  LET proved == \A i \in Positions : request.signers[i] = i IN
  signature # NotYet => /\ signature # Refused => proved
                        /\ proved /\ ~ KeyCancels => signature # Refused

\* The arguments are those the signature covers, in any order of the keys.
SignedAs(args) ==
  /\ [args EXCEPT !.keys = Honest.keys] = Honest
  /\ Len(args.keys) = shape.keys /\ ToSet(args.keys) = Positions

(* verify_blind_sign accepts exactly what was signed: the same messages,    *)
(* split at the same place, under the same header and blind, and the same   *)
(* keys in whatever order.                                                 *)
AcceptExact == accepted # NotYet => (accepted.ok <=> SignedAs(accepted.args))

(* blind_proof_verify accepts exactly when prover and relying party mean    *)
(* the same: what was proved was signed, what is read is what was shown     *)
(* (messages, slots, split, both headers), and each key, at the position it *)
(* was made for, has answered.  This holds for every choice of disclosing,  *)
(* hiding or committing each message.  An answer of zero, one in q, has no   *)
(* generator in it and is good at any position.                            *)
ProofExact ==
  verified # NotYet =>
    (verified.ok <=> /\ SignedAs(state.args)
                     /\ verified.seen = Shown
                     /\ \A i \in DOMAIN proof.signers :
                          /\ proof.signers[i] = state.args.keys[i]
                          /\ state.args.keys[i] = i \/ proof.answers[i].s = 0)

(* Each Pedersen commitment of a proof that verified is one to the message  *)
(* that was chosen for it, with the opening the wallet was handed.          *)
CommitmentsOpen ==
  verified # NotYet /\ verified.ok =>
    LET chosen == Chosen(state.disclosures, "COMMIT") IN
    \A i \in DOMAIN chosen :
      state.commitments[i]
        = sumprod(com_dis_generators, <<state.openings[i], state.args.messages[chosen[i]]>>)
=============================================================================
