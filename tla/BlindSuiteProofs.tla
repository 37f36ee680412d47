-------------------------- MODULE BlindSuiteProofs --------------------------
(***************************************************************************)
(* The theorems of BlindSuite.                                             *)
(***************************************************************************)
EXTENDS BlindSuiteAlgebra

-----------------------------------------------------------------------------
(* blind_sign.                                                             *)

\* The responses of core_commit_init to the challenge c.
Responds(hs, s, m, r, ms, c) ==
  /\ hs = [i \in 1 .. m |-> (r[2 + i] + ms[i] * c) % q]
  /\ s = (r[2] + r[1] * c) % q

\* core_commit_verify recomputes the commitment of core_commit_init.
LEMMA NotZeroSeq == ASSUME NEW t \in Seq(NotZero) PROVE t \in Seq(Int)
  <1>1. \A i \in 1 .. Len(t) : t[i] \in Int
    BY NotZeroIsScalar
  <1>2. t \in [1 .. Len(t) -> Int]
    BY <1>1
  <1> QED BY <1>2

LEMMA OpeningVerifies ==
  ASSUME Case, NEW m \in Nat, NEW k \in Nat, NEW r \in Seq(NotZero), Len(r) = m + 2, NEW ms \in Seq(Int), Len(ms) = m,
         NEW c \in Int, NEW hs, NEW s, Responds(hs, s, m, r, ms, c), NEW x, x = Opening(m, ms, r[1])
  PROVE  sumprod(SubSeq(CommitGens(m, k), 2, m + 1) \o <<CommitGens(m, k)[1], x>>, hs \o <<s, Minus(0, c)>>)
           = Opening(m, SubSeq(r, 3, m + 2), r[2])
  <1>1. PICK js \in Seq(Point) : js = Points("J", m) /\ Len(js) = m
    BY PointsType
  <1>2. PICK w \in Point : w = Generator("Q2", 1)
    BY GeneratorAt
  <1>3. SubSeq(CommitGens(m, k), 2, m + 1) = js /\ CommitGens(m, k)[1] = w
    BY <1>1, <1>2, JsQ2Type
  <1>4. PICK ps \in Seq(Point) : ps = js \o <<w>> /\ Len(ps) = m + 1
    <2>1. <<w>> \in Seq(Point) /\ Len(<<w>>) = 1
      OBVIOUS
    <2>2. js \o <<w>> \in Seq(Point) /\ Len(js \o <<w>>) = Len(js) + Len(<<w>>)
      BY <2>1, ConcatProperties
    <2> QED BY <1>1, <2>1, <2>2
  <1>5. JsQ2(m) = ps
    BY <1>1, <1>2, <1>4, Zenon DEF JsQ2
  <1>6. PICK a \in Int : a = r[1]
    <2>1. 1 \in 1 .. Len(r)
      OBVIOUS
    <2> QED BY <2>1, NotZeroIsScalar
  <1>7. PICK b \in Int : b = r[2]
    <2>1. 2 \in 1 .. Len(r)
      OBVIOUS
    <2> QED BY <2>1, NotZeroIsScalar
  <1>8. PICK mt \in Seq(Int) : mt = SubSeq(r, 3, m + 2) /\ Len(mt) = m /\ \A i \in 1 .. m : mt[i] = r[2 + i]
    <2>1. PICK n \in Nat : n = m + 2
      OBVIOUS
    <2>2. n = 2 + m /\ 2 + m <= Len(r) /\ 2 + 1 = 3
      BY <2>1
    <2>3. /\ SubSeq(r, 2 + 1, n) \in Seq(NotZero) /\ Len(SubSeq(r, 2 + 1, n)) = m
          /\ \A i \in 1 .. m : SubSeq(r, 2 + 1, n)[i] = r[2 + i]
      BY <2>2, RandomsMiddle
    <2>4. PICK t \in Seq(NotZero) : t = SubSeq(r, 3, n)
      BY <2>2, <2>3
    <2>5. Len(t) = m /\ \A i \in 1 .. m : t[i] = r[2 + i]
      BY <2>2, <2>3, <2>4
    <2>6. t \in Seq(Int)
      BY NotZeroSeq
    <2> QED BY <2>1, <2>4, <2>5, <2>6
  <1>9. PICK h \in Int : h = s
    <2>1. PICK v \in Int : v = b + a * c
      OBVIOUS
    <2> QED BY <1>6, <1>7, <2>1, Remainder DEF Responds
  <1>10. hs \in Seq(Int) /\ Len(hs) = m
    <2>1. \A i \in 1 .. m : (r[2 + i] + ms[i] * c) % q \in Int
      <3> TAKE i \in 1 .. m
      <3>1. mt[i] \in Int /\ ms[i] \in Int
        BY <1>8
      <3>2. PICK v \in Int : v = mt[i] + ms[i] * c
        BY <3>1
      <3> QED BY <1>8, <3>2, Remainder
    <2>2. PICK f \in [1 .. m -> Int] : f = hs
      BY <2>1 DEF Responds
    <2> QED BY <2>2
  <1>11. PICK d \in Int : d = Minus(0, c) /\ Cong(d, -c)
    <2>1. -c \in Int /\ 0 - c = -c
      OBVIOUS
    <2>2. (-c) % q \in Int /\ Cong((-c) % q, -c)
      BY <2>1, CongMod, Remainder
    <2> QED BY <2>1, <2>2 DEF Minus
  <1>12. PICK ss \in Seq(Int) : ss = Put(hs, h) /\ Len(ss) = m + 1 /\ (\A i \in 1 .. m : ss[i] = hs[i]) /\ ss[m + 1] = h
    <2>1. PICK g \in Seq(Int) : g = hs /\ Len(g) = m
      BY <1>10
    <2>2. PICK p \in Seq(Int) : p = Put(g, h)
      BY PutInt
    <2>3. Len(p) = Len(g) + 1 /\ (\A i \in 1 .. Len(g) : p[i] = g[i]) /\ p[Len(g) + 1] = h
      BY <2>2, PutInt
    <2> QED BY <2>1, <2>2, <2>3
  <1>13. PICK ts \in Seq(Int) : ts = Put(mt, b) /\ Len(ts) = m + 1 /\ (\A i \in 1 .. m : ts[i] = mt[i]) /\ ts[m + 1] = b
    <2>1. PICK p \in Seq(Int) : p = Put(mt, b)
      BY PutInt
    <2>2. Len(p) = Len(mt) + 1 /\ (\A i \in 1 .. Len(mt) : p[i] = mt[i]) /\ p[Len(mt) + 1] = b
      BY <2>1, PutInt
    <2>3. Len(mt) = m
      BY <1>8
    <2> QED BY <2>1, <2>2, <2>3
  <1>14. PICK us \in Seq(Int) : us = Put(ms, a) /\ Len(us) = m + 1 /\ (\A i \in 1 .. m : us[i] = ms[i]) /\ us[m + 1] = a
    <2>1. PICK p \in Seq(Int) : p = Put(ms, a)
      BY PutInt
    <2>2. Len(p) = Len(ms) + 1 /\ (\A i \in 1 .. Len(ms) : p[i] = ms[i]) /\ p[Len(ms) + 1] = a
      BY <2>1, PutInt
    <2> QED BY <2>1, <2>2
  <1>15. PICK y \in Point : y = sumprod(ps, ts)
    <2>1. Len(ts) >= Len(ps)
      BY <1>4, <1>13
    <2> QED BY <2>1, SumprodType
  <1>16. x = sumprod(ps, us) /\ x \in Point
    <2>1. x = sumprod(ps, us)
      BY <1>5, <1>6, <1>14, Zenon DEF Opening, Put
    <2>2. Len(us) >= Len(ps)
      BY <1>4, <1>14
    <2> QED BY <2>1, <2>2, SumprodType
  <1>17. sumprod(ps, ss) = Plus(y, Times(x, c))
    <2>1. \A i \in 1 .. Len(ps) : Cong(ss[i], ts[i] + us[i] * c)
      <3> TAKE i \in 1 .. Len(ps)
      <3>0. i \in 1 .. Len(ts) /\ i \in 1 .. Len(us)
        BY <1>4, <1>13, <1>14
      <3>1. CASE i \in 1 .. m
        <4>0. PICK v1 \in Int : v1 = ts[i]
          BY <3>0, SMTT(40)
        <4>1. PICK v2 \in Int : v2 = us[i]
          BY <3>0
        <4>2. PICK v \in Int : v = v1 + v2 * c
          OBVIOUS
        <4>3. v1 = r[2 + i] /\ v2 = ms[i] /\ ss[i] = hs[i]
          BY <1>8, <1>12, <1>13, <1>14, <3>1, <4>0, <4>1
        <4>4. hs[i] = (r[2 + i] + ms[i] * c) % q
          BY <3>1 DEF Responds
        <4>5. ss[i] = v % q
          BY <4>2, <4>3, <4>4, Zenon
        <4> QED BY <4>0, <4>1, <4>2, <4>5, CongMod
      <3>2. CASE i = m + 1
        <4>1. PICK v \in Int : v = b + a * c
          OBVIOUS
        <4>2. h = v % q
          BY <1>6, <1>7, <1>9, <4>1 DEF Responds
        <4> QED BY <3>2, <1>12, <1>13, <1>14, <4>1, <4>2, CongMod
      <3> QED BY <1>4, <3>1, <3>2
    <2>2. Len(ss) = Len(ps) /\ Len(ts) = Len(ps) /\ Len(us) = Len(ps)
      BY <1>4, <1>12, <1>13, <1>14
    <2>3. sumprod(ps, ss) = Plus(sumprod(ps, ts), Times(sumprod(ps, us), c))
      BY <2>1, <2>2, SumprodAnswers
    <2> QED BY <1>15, <1>16, <2>3
  <1>18. PICK p \in Point : p = x
    BY <1>16
  <1>19. sumprod(ps \o <<p>>, ss \o <<d>>) = Plus(sumprod(ps, ss), Times(p, d))
    <2>1. sumprod(<<p>>, <<d>>) = Times(p, d)
      BY SumprodOne
    <2>2. PICK pp \in Seq(Point) : pp = <<p>> /\ Len(pp) = 1
      <3>1. <<p>> \in Seq(Point) /\ Len(<<p>>) = 1
        OBVIOUS
      <3> QED BY <3>1
    <2>3. PICK dd \in Seq(Int) : dd = <<d>> /\ Len(dd) = 1
      <3>1. <<d>> \in Seq(Int) /\ Len(<<d>>) = 1
        OBVIOUS
      <3> QED BY <3>1
    <2>4. Len(ss) = Len(ps) /\ Len(dd) = Len(pp)
      BY <1>4, <1>12, <2>2, <2>3
    <2>5. sumprod(ps \o pp, ss \o dd) = Plus(sumprod(ps, ss), sumprod(pp, dd))
      BY <2>4, SumprodJoined
    <2> QED BY <2>1, <2>2, <2>3, <2>5
  <1>20. Plus(Plus(y, Times(p, c)), Times(p, d)) = y
    BY <1>11, AnswersCancel
  <1>21. js \o <<w, p>> = ps \o <<p>> /\ hs \o <<h, d>> = ss \o <<d>>
    <2>1. PutBoth(js, w, p) = Put(Put(js, w), p)
      BY PutTwoPoint
    <2>2. PICK g \in Seq(Int) : g = hs
      BY <1>10
    <2>3. PutBoth(g, h, d) = Put(Put(g, h), d)
      BY PutTwoInt
    <2> QED BY <1>4, <1>12, <2>1, <2>2, <2>3, Zenon DEF Put, PutBoth
  <1> QED BY <1>3, <1>5, <1>7, <1>8, <1>9, <1>11, <1>13, <1>15, <1>17, <1>18, <1>19, <1>20, <1>21, Zenon DEF Opening, Put

LEMMA CommittedType ==
  ASSUME Case
  PROVE  /\ Committed \in Seq(NotZero) /\ Len(Committed) = shape.committed
         /\ IssuerMessages \in Seq(NotZero) /\ Len(IssuerMessages) = shape.issuer
  <1>1. PICK m \in Nat : m = shape.committed
    BY ShapeAt
  <1>2. PICK n \in Nat : n = shape.issuer
    BY ShapeAt
  <1>3. \A i \in 1 .. n + m : MessageScalar(i) \in NotZero
    BY <1>1, <1>2, ScalarsDrawn
  <1>4. \A i \in 1 .. m : MessageScalar(n + i) \in NotZero
    BY <1>3
  <1>5. \A i \in 1 .. n : MessageScalar(i) \in NotZero
    BY <1>3
  <1>6. PICK c : c = Committed
    OBVIOUS
  <1>7. c \in [1 .. m -> NotZero]
    BY <1>1, <1>2, <1>4, <1>6, Zenon DEF Committed
  <1>8. PICK d : d = IssuerMessages
    OBVIOUS
  <1>9. d \in [1 .. n -> NotZero]
    BY <1>2, <1>5, <1>8, Zenon DEF IssuerMessages
  <1>10. c \in Seq(NotZero) /\ Len(c) = m
    BY ONLY <1>7
  <1>11. d \in Seq(NotZero) /\ Len(d) = n
    BY ONLY <1>9
  <1> QED BY <1>1, <1>2, <1>6, <1>8, <1>10, <1>11

\* Device keys as the states carry them.
LEMMA AnswerChecked ==
  ASSUME Case, Enough(asked), NEW i \in Positions, NEW g \in Positions, NEW nonce \in NotZero, NEW sig, NEW message,
         sig.s = (nonce + stream[1 + g] * sig.c) % q, Knows(asked, NonceInput(g, nonce, message), sig.c)
  PROVE  schnorr_verify(Generator("HK", i), DevicePoint(i), sig, message) <=> g = i
  <1>1. PICK s : s = sig.s
    OBVIOUS
  <1>2. PICK c : c = sig.c
    OBVIOUS
  <1>3. s = (nonce + DeviceKey(g) * c) % q
    BY <1>1, <1>2, Zenon DEF DeviceKey
  <1>4. Knows(asked, NonceInput(g, nonce, message), c)
    BY <1>2, Zenon
  <1>5. hash_to_scalar(asked, <<"schnorr", Plus(Times(Generator("HK", i), s), Times(DevicePoint(i), Minus(0, c))), message>>) = c
          <=> g = i /\ (i = i \/ s = 0)
    BY <1>3, <1>4, SchnorrExact
  <1> QED BY <1>1, <1>2, <1>5, Zenon DEF schnorr_verify

LEMMA VerifyExact ==
  ASSUME Case, Enough(asked), NEW cm, NEW rq,
         Opened(shape.committed, shape.keys, Committed, Fresh, cm, asked),
         Requested(shape.keys, stream, Fresh, cm, rq, asked)
  PROVE  /\ blind_generators(Len(rq.m_hat) + 1) \o keybind_generators(Len(rq.sigs))
              = CommitGens(shape.committed, shape.keys)
         /\ core_commit_verify(rq, CommitGens(shape.committed, shape.keys))
              <=> \A i \in Positions : rq.signers[i] = i
  <1>1. PICK m \in Nat : m = shape.committed
    BY ShapeAt
  <1>2. PICK k \in Nat : k = shape.keys
    BY ShapeAt
  <1>3. Positions = 1 .. k
    BY <1>2 DEF Positions
  <1>4. PICK gs : gs = CommitGens(m, k)
    OBVIOUS
  <1>5. PICK ms \in Seq(Int) : ms = Committed /\ Len(ms) = m
    BY <1>1, CommittedType, NotZeroSeq
  <1>6. PICK r \in Seq(NotZero) : r = cm.randoms /\ Len(r) = m + 2
    BY <1>1 DEF Opened
  <1>7. PICK h : h = cm.challenge
    OBVIOUS
  <1>8. PICK cbar : cbar = Opening(m, SubSeq(r, 3, m + 2), r[2])
    OBVIOUS
  <1>9. /\ cm.c = Opening(m, ms, r[1])
        /\ cm.s_hat = (r[2] + r[1] * h) % q
        /\ cm.m_hat = [i \in 1 .. m |-> (r[2 + i] + ms[i] * h) % q]
        /\ Knows(asked, BlindInput(cm.c, cbar, gs, Fresh), h)
    BY <1>1, <1>2, <1>4, <1>5, <1>6, <1>7, <1>8, Zenon DEF Opened
  <1>10. h \in Int
    BY <1>9, KnowsType
  <1>11. /\ rq.c = cm.c /\ rq.keys = Fresh /\ rq.s_hat = cm.s_hat /\ rq.m_hat = cm.m_hat /\ rq.challenge = h
         /\ rq.signers \in [1 .. k -> 1 .. k]
         /\ DeviceAnswers(k, stream, rq.signers, rq.nonces, [i \in 1 .. k |-> <<h>>], rq.sigs, asked)
    BY <1>2, <1>7, Zenon DEF Requested
  <1>12. PICK hs : hs = rq.m_hat
    OBVIOUS
  <1>13. hs = [i \in 1 .. m |-> (r[2 + i] + ms[i] * h) % q]
    BY <1>9, <1>11, <1>12, Zenon
  <1>14. hs \in Seq(Int) /\ Len(hs) = m
    <2>1. \A i \in 1 .. m : (r[2 + i] + ms[i] * h) % q \in Int
      <3>1. TAKE i \in 1 .. m
      <3>2. r[2 + i] \in NotZero
        BY ONLY <1>6, m \in Nat, r \in Seq(NotZero), i \in 1 .. m
      <3>3. PICK x \in Int : x = r[2 + i]
        BY <3>2, NotZeroIsScalar
      <3>4. PICK y \in Int : y = ms[i]
        BY <1>5
      <3>5. (x + y * h) % q \in Int
        <4>1. x + y * h \in Int
          BY <1>10
        <4> QED BY <4>1, Remainder
      <3> QED BY <3>3, <3>4, <3>5
    <2>2. hs \in [1 .. m -> Int]
      BY <1>13, <2>1, Zenon
    <2> QED BY ONLY <2>2, m \in Nat
  <1>15. Len(rq.sigs) = k /\ DOMAIN rq.sigs = 1 .. k
    BY <1>11 DEF DeviceAnswers
  <1>16. blind_generators(Len(rq.m_hat) + 1) \o keybind_generators(Len(rq.sigs)) = gs
    BY <1>4, <1>12, <1>14, <1>15, Zenon DEF CommitGens
  <1>17. Responds(hs, rq.s_hat, m, r, ms, h)
    BY <1>9, <1>11, <1>13, Zenon DEF Responds
  <1>18. sumprod(SubSeq(gs, 2, m + 1) \o <<gs[1], rq.c>>, hs \o <<rq.s_hat, Minus(0, h)>>) = cbar
    <2>1. PICK x : x = Opening(m, ms, r[1])
      OBVIOUS
    <2>2. PICK s : s = rq.s_hat
      OBVIOUS
    <2>3. Responds(hs, s, m, r, ms, h)
      BY <1>17, <2>2, Zenon
    <2>4. sumprod(SubSeq(CommitGens(m, k), 2, m + 1) \o <<CommitGens(m, k)[1], x>>, hs \o <<s, Minus(0, h)>>)
            = Opening(m, SubSeq(r, 3, m + 2), r[2])
      BY <1>5, <1>6, <1>10, <2>1, <2>3, OpeningVerifies, SMTT(40)
    <2> QED BY <1>4, <1>8, <1>9, <1>11, <2>1, <2>2, <2>4, Zenon
  <1>19. hash_to_scalar(asked, BlindInput(rq.c, cbar, gs, rq.keys)) = h
    BY <1>9, <1>11, Zenon DEF Knows
  <1>20. ASSUME NEW i \in 1 .. k
         PROVE  schnorr_verify(gs[m + 1 + i], rq.keys[i], rq.sigs[i], <<rq.challenge>>) <=> rq.signers[i] = i
    <2>1. gs[m + 1 + i] = Generator("HK", i)
      BY <1>4, JsQ2Type
    <2>2. rq.keys[i] = DevicePoint(i)
      BY <1>3, <1>11, Zenon DEF Fresh, Positions
    <2>3. PICK g \in Positions : g = rq.signers[i]
      BY <1>3, <1>11
    <2>4. PICK nonce \in NotZero : nonce = rq.nonces[i]
      BY <1>11, Zenon DEF DeviceAnswers
    <2>5. PICK sig : sig = rq.sigs[i]
      OBVIOUS
    <2>6. /\ sig.s = (nonce + stream[1 + g] * sig.c) % q
          /\ Knows(asked, NonceInput(g, nonce, [j \in 1 .. k |-> <<h>>][i]), sig.c)
      BY <1>11, <2>3, <2>4, <2>5, Zenon DEF DeviceAnswers
    <2>7. [j \in 1 .. k |-> <<h>>][i] = <<h>>
      BY Zenon
    <2>8. Knows(asked, NonceInput(g, nonce, <<h>>), sig.c)
      BY <2>6, <2>7, Zenon
    <2>9. i \in Positions
      BY <1>3
    <2>10. schnorr_verify(Generator("HK", i), DevicePoint(i), sig, <<h>>) <=> g = i
      BY <2>6, <2>8, <2>9, AnswerChecked
    <2> QED BY <1>11, <2>1, <2>2, <2>3, <2>5, <2>10, Zenon
  <1>21. core_commit_verify(rq, gs) <=> \A i \in 1 .. k : rq.signers[i] = i
    <2>1. Len(rq.m_hat) = m
      BY <1>12, <1>14
    <2>2. core_commit_verify(rq, gs)
            <=> /\ hash_to_scalar(asked, BlindInput(rq.c, sumprod(SubSeq(gs, 2, m + 1) \o <<gs[1], rq.c>>,
                                                                   rq.m_hat \o <<rq.s_hat, Minus(0, rq.challenge)>>),
                                                    gs, rq.keys)) = rq.challenge
                /\ \A i \in DOMAIN rq.sigs : schnorr_verify(gs[m + 1 + i], rq.keys[i], rq.sigs[i], <<rq.challenge>>)
      BY <2>1, Zenon DEF core_commit_verify
    <2>3. sumprod(SubSeq(gs, 2, m + 1) \o <<gs[1], rq.c>>, rq.m_hat \o <<rq.s_hat, Minus(0, rq.challenge)>>) = cbar
      BY <1>11, <1>12, <1>18, Zenon
    <2>4. rq.challenge = h
      BY <1>11
    <2> QED BY <1>15, <1>19, <1>20, <2>2, <2>3, <2>4, Zenon
  <1> QED BY <1>1, <1>2, <1>3, <1>4, <1>16, <1>21

\* What blind_sign signs under header h.
Signable(h) == [messages |-> IssuerMessages \o Committed, issuer_no |-> shape.issuer,
                keys |-> [i \in 1 .. shape.keys |-> i], header |-> h,
                blind |-> commit.secret_prover_blind]

LEMMA HonestIs == Honest = Signable(signature.header)
  BY DEF Honest, Signable

LEMMA SignableType ==
  ASSUME Case, commit.secret_prover_blind \in NotZero, NEW h
  PROVE  /\ ArgsType(Signable(h))
         /\ Signable(h).keys = [i \in 1 .. shape.keys |-> i]
         /\ KeyPoints(Signable(h)) = Fresh
         /\ Signable(h).issuer_no = shape.issuer
         /\ Signable(h).blind = commit.secret_prover_blind
         /\ Signable(h).header = h
         /\ \A i \in 1 .. shape.issuer : Signable(h).messages[i] = IssuerMessages[i]
         /\ \A i \in 1 .. shape.committed : Signable(h).messages[shape.issuer + i] = Committed[i]
  <1>1. PICK n \in Nat : n = shape.issuer
    BY ShapeAt
  <1>2. PICK m \in Nat : m = shape.committed
    BY ShapeAt
  <1>3. PICK k \in Nat : k = shape.keys
    BY ShapeAt
  <1>4. PICK im \in Seq(Scalar) : im = IssuerMessages /\ Len(im) = n
    <2>1. NotZero \subseteq Scalar
      BY NotZeroIsScalar
    <2>2. IssuerMessages \in Seq(Scalar)
      BY <2>1, CommittedType
    <2> QED BY <1>1, <2>2, CommittedType
  <1>5. PICK co \in Seq(Scalar) : co = Committed /\ Len(co) = m
    <2>1. NotZero \subseteq Scalar
      BY NotZeroIsScalar
    <2>2. Committed \in Seq(Scalar)
      BY <2>1, CommittedType
    <2> QED BY <1>2, <2>2, CommittedType
  <1>6. PICK ms \in Seq(Scalar) : ms = im \o co /\ Len(ms) = n + m
    <2>1. im \o co \in Seq(Scalar) /\ Len(im \o co) = Len(im) + Len(co)
      BY ConcatProperties
    <2> QED BY <1>4, <1>5, <2>1
  <1>7. \A i \in 1 .. n : ms[i] = im[i]
    <2>1. \A i \in 1 .. Len(im) : (im \o co)[i] = im[i]
      BY FirstPart
    <2> QED BY <1>4, <1>6, <2>1
  <1>8. \A i \in 1 .. m : ms[n + i] = co[i]
    <2>1. \A i \in 1 .. Len(co) : (im \o co)[n + i] = co[i]
      BY <1>4, SecondPart
    <2> QED BY <1>5, <1>6, <2>1
  <1>9. PICK ks : ks = [i \in 1 .. k |-> i]
    OBVIOUS
  <1>10. ks \in Seq(Positions) /\ DOMAIN ks = 1 .. k /\ \A i \in 1 .. k : ks[i] = i
    <2>1. ks \in [1 .. k -> Positions]
      BY <1>3, <1>9 DEF Positions
    <2>2. ks \in Seq(Positions)
      BY ONLY <2>1, k \in Nat
    <2> QED BY <1>9, <2>2
  <1>11. PICK args : args = Signable(h)
    OBVIOUS
  <1>12. /\ args.messages = ms /\ args.issuer_no = n /\ args.keys = ks /\ args.header = h
         /\ args.blind = commit.secret_prover_blind
    BY <1>1, <1>3, <1>4, <1>5, <1>6, <1>9, <1>11 DEF Signable
  <1>13. ArgsType(args)
    BY <1>1, <1>2, <1>6, <1>10, <1>12, NotZeroIsScalar DEF ArgsType
  <1>14. KeyPoints(args) = Fresh
    <2>1. KeyPoints(args) = [i \in 1 .. k |-> DevicePoint(ks[i])]
      BY <1>10, <1>12, Zenon DEF KeyPoints
    <2>2. Fresh = [i \in 1 .. k |-> DevicePoint(i)]
      BY <1>3, Zenon DEF Fresh
    <2>3. \A i \in 1 .. k : DevicePoint(ks[i]) = DevicePoint(i)
      BY <1>10, Zenon
    <2> QED BY <2>1, <2>2, <2>3, Zenon
  <1> QED BY <1>1, <1>2, <1>3, <1>4, <1>5, <1>7, <1>8, <1>9, <1>11, <1>12, <1>13, <1>14, Zenon

\* The sum over Q_2 and the J points is the commitment.
LEMMA OpeningSplit ==
  ASSUME NEW m \in Nat, NEW co \in Seq(Int), Len(co) = m, NEW r \in Int
  PROVE  /\ Opening(m, co, r) \in Point
         /\ sumprod(blind_generators(m + 1), <<r>> \o co) = Opening(m, co, r)
  <1>1. PICK js \in Seq(Point) : js = Points("J", m) /\ Len(js) = m
    BY PointsType
  <1>2. PICK g \in Point : g = Generator("Q2", 1)
    BY GeneratorAt
  <1>3. blind_generators(m + 1) = <<g>> \o js
    BY <1>1, <1>2, CreateIs, Zenon DEF Headed
  <1>4. PICK gg \in Seq(Point) : gg = <<g>> /\ Len(gg) = 1
    <2>1. <<g>> \in Seq(Point) /\ Len(<<g>>) = 1
      OBVIOUS
    <2> QED BY <2>1
  <1>5. PICK rr \in Seq(Int) : rr = <<r>> /\ Len(rr) = 1
    <2>1. <<r>> \in Seq(Int) /\ Len(<<r>>) = 1
      OBVIOUS
    <2> QED BY <2>1
  <1>6. /\ sumprod(gg \o js, rr \o co) = Plus(sumprod(gg, rr), sumprod(js, co))
        /\ sumprod(js \o gg, co \o rr) = Plus(sumprod(js, co), sumprod(gg, rr))
    <2>1. Len(rr) = Len(gg) /\ Len(co) = Len(js)
      BY <1>1, <1>4, <1>5
    <2>2. sumprod(gg \o js, rr \o co) = Plus(sumprod(gg, rr), sumprod(js, co))
      BY <2>1, SumprodJoined
    <2>3. sumprod(js \o gg, co \o rr) = Plus(sumprod(js, co), sumprod(gg, rr))
      BY <2>1, SumprodJoined
    <2> QED BY <2>2, <2>3
  <1>7. sumprod(<<g>>, <<r>>) = Times(g, r) /\ Times(g, r) \in Point
    BY SumprodOne, TimesAt
  <1>8. sumprod(js, co) \in Point
    BY <1>1, SumprodType
  <1>9. Plus(sumprod(js, co), Times(g, r)) \in Point
    BY <1>7, <1>8, PlusAt
  <1>10. Opening(m, co, r) = Plus(sumprod(js, co), Times(g, r))
    BY <1>1, <1>2, <1>4, <1>5, <1>6, <1>7, Zenon DEF Opening, JsQ2
  <1> QED BY <1>3, <1>4, <1>5, <1>6, <1>7, <1>8, <1>9, <1>10, PlusCommutes, Zenon

\* With one more pair at the end.
LEMMA SumprodPut ==
  ASSUME NEW ps \in Seq(Point), NEW ss \in Seq(Int), Len(ss) = Len(ps), NEW p \in Point, NEW s \in Int
  PROVE  sumprod(Put(ps, p), Put(ss, s)) = Plus(sumprod(ps, ss), Times(p, s))
  <1>1. PICK pp \in Seq(Point) : pp = <<p>> /\ Len(pp) = 1
    <2>1. <<p>> \in Seq(Point) /\ Len(<<p>>) = 1
      OBVIOUS
    <2> QED BY <2>1
  <1>2. PICK sp \in Seq(Int) : sp = <<s>> /\ Len(sp) = 1
    <2>1. <<s>> \in Seq(Int) /\ Len(<<s>>) = 1
      OBVIOUS
    <2> QED BY <2>1
  <1>3. sumprod(ps \o pp, ss \o sp) = Plus(sumprod(ps, ss), sumprod(pp, sp))
    <2>1. Len(sp) = Len(pp)
      BY <1>1, <1>2
    <2> QED BY <2>1, SumprodJoined
  <1>4. sumprod(pp, sp) = Times(p, s)
    BY <1>1, <1>2, SumprodOne
  <1> QED BY <1>1, <1>2, <1>3, <1>4, Zenon DEF Put

\* The points of the issuer's messages, and their names.
Mine(n) == <<P1>> \o create_generators(n + 1)

LEMMA MineType ==
  ASSUME NEW n \in Nat
  PROVE  /\ Mine(n) \in Seq(Point) /\ Len(Mine(n)) = n + 2
         /\ \A i \in 1 .. n + 2 : Mine(n)[i] = Named(BaseName(n, i))
  <1>1. PICK hs \in Seq(Point) : /\ hs = create_generators(n + 1) /\ Len(hs) = n + 1 /\ hs[1] = Generator("Q1", 1)
                                 /\ \A i \in 1 .. n : hs[i + 1] = Generator("H", i)
    <2>1. PICK s : s = Headed("Q1", "H", n)
      OBVIOUS
    <2>2. /\ s \in Seq(Point) /\ Len(s) = n + 1 /\ s[1] = Generator("Q1", 1)
          /\ \A i \in 1 .. n : s[i + 1] = Generator("H", i)
      BY <2>1, HeadedType
    <2> QED BY <2>1, <2>2, CreateIs
  <1>2. PICK p \in Seq(Point) : p = <<P1>> /\ Len(p) = 1 /\ p[1] = Generator("P1", 1)
    <2>1. PICK g \in Point : g = Generator("P1", 1)
      BY GeneratorAt
    <2>2. <<g>> \in Seq(Point) /\ Len(<<g>>) = 1 /\ <<g>>[1] = g
      OBVIOUS
    <2> QED BY <2>1, <2>2 DEF P1
  <1>3. PICK a \in Seq(Point) : a = Mine(n) /\ Len(a) = n + 2
    <2>1. p \o hs \in Seq(Point) /\ Len(p \o hs) = Len(p) + Len(hs)
      BY ConcatProperties
    <2>2. PICK a : a = p \o hs
      OBVIOUS
    <2>3. a = Mine(n)
      BY <1>1, <1>2, <2>2, Zenon DEF Mine
    <2>4. a \in Seq(Point) /\ Len(a) = Len(p) + Len(hs)
      BY <2>1, <2>2, Zenon
    <2>5. Len(a) = n + 2
      BY <1>1, <1>2, <2>4
    <2> QED BY <2>3, <2>4, <2>5, Zenon
  <1>4. a[1] = Generator("P1", 1)
    <2>1. 1 \in 1 .. Len(p)
      BY <1>2
    <2>2. (p \o hs)[1] = p[1]
      BY <2>1, FirstPart
    <2> QED BY <1>1, <1>2, <1>3, <2>2, Zenon DEF Mine
  <1>5. \A i \in 1 .. n + 1 : a[1 + i] = hs[i]
    <2>1. \A i \in 1 .. Len(hs) : (p \o hs)[1 + i] = hs[i]
      BY <1>2, SecondPart
    <2>2. a = p \o hs
      BY <1>1, <1>2, <1>3, Zenon DEF Mine
    <2> QED BY <1>1, <2>1, <2>2
  <1>6. ASSUME NEW i \in 1 .. n + 2 PROVE a[i] = Named(BaseName(n, i))
    <2>1. CASE i = 1
      BY <1>4, <2>1 DEF Named, BaseName
    <2>2. CASE i = 2
      <3>1. a[1 + 1] = hs[1]
        BY <1>5
      <3> QED BY <1>1, <2>2, <3>1 DEF Named, BaseName
    <2>3. CASE i > 2
      <3>1. PICK j \in 1 .. n : j = i - 2
        BY <2>3
      <3>2. a[1 + (j + 1)] = hs[j + 1]
        BY <1>5
      <3>3. 1 + (j + 1) = i
        BY <3>1
      <3>4. BaseName(n, i) = <<"H", j>>
        BY <2>3, <3>1 DEF BaseName
      <3>5. Named(<<"H", j>>) = Generator("H", j)
        BY DEF Named
      <3> QED BY <1>1, <3>2, <3>3, <3>4, <3>5
    <2> QED BY <2>1, <2>2, <2>3
  <1> QED BY <1>3, <1>6

\* B as blind_sign computes it is B as everyone else does.
LEMMA SignedB ==
  ASSUME Case, commit.secret_prover_blind \in NotZero, NEW h, NEW dom \in Scalar
  PROVE  sumprod(Put(Mine(shape.issuer), Plus(Opening(shape.committed, Committed, commit.secret_prover_blind),
                                              sum_points(Fresh))),
                 Put(WithDomain(dom, IssuerMessages), 1))
           = Full(Signable(h), dom)
  <1>1. PICK n \in Nat : n = shape.issuer
    BY ShapeAt
  <1>2. PICK m \in Nat : m = shape.committed
    BY ShapeAt
  <1>3. PICK l \in Nat : l = n + m
    OBVIOUS
  <1>4. n \in 0 .. l
    BY <1>3
  <1>5. PICK im \in Seq(Int) : im = IssuerMessages /\ Len(im) = n
    BY <1>1, CommittedType, NotZeroSeq
  <1>6. PICK co \in Seq(Int) : co = Committed /\ Len(co) = m
    BY <1>2, CommittedType, NotZeroSeq
  <1>7. PICK r \in NotZero : r = commit.secret_prover_blind
    OBVIOUS
  <1>8. PICK args : args = Signable(h)
    OBVIOUS
  <1>9. /\ ArgsType(args) /\ KeyPoints(args) = Fresh /\ args.issuer_no = n /\ args.blind = r
        /\ \A i \in 1 .. n : args.messages[i] = im[i]
        /\ \A i \in 1 .. m : args.messages[n + i] = co[i]
    <2>1. /\ ArgsType(Signable(h)) /\ KeyPoints(Signable(h)) = Fresh
          /\ Signable(h).issuer_no = shape.issuer /\ Signable(h).blind = commit.secret_prover_blind
          /\ \A i \in 1 .. shape.issuer : Signable(h).messages[i] = IssuerMessages[i]
          /\ \A i \in 1 .. shape.committed : Signable(h).messages[shape.issuer + i] = Committed[i]
      BY SignableType
    <2> QED BY <1>1, <1>2, <1>5, <1>6, <1>7, <1>8, <2>1
  <1>10. PICK ks \in Point : ks = sum_points(Fresh)
    BY <1>9, KeysType DEF Keyed
  <1>11. PICK c \in Point : c = Opening(m, co, r) /\ c = sumprod(blind_generators(m + 1), <<r>> \o co)
    BY <1>6, OpeningSplit, NotZeroIsScalar
  <1>12. dom \in Int /\ r \in Int
    BY ScalarType, NotZeroIsScalar
  <1>13. PICK pa \in Seq(Point) : pa = Mine(n) /\ Len(pa) = n + 2 /\ \A i \in 1 .. n + 2 : pa[i] = Named(BaseName(n, i))
    BY MineType
  <1>14. PICK sa \in Seq(Int) : /\ sa = WithDomain(dom, im) /\ Len(sa) = n + 2
                                /\ sa[1] = 1 /\ sa[2] = dom /\ \A i \in 1 .. n : sa[2 + i] = im[i]
    <2>1. PICK s : s = WithDomain(dom, im)
      OBVIOUS
    <2>2. s \in Seq(Int) /\ Len(s) = Len(im) + 2 /\ s[1] = 1 /\ s[2] = dom /\ \A i \in 1 .. Len(im) : s[2 + i] = im[i]
      BY <1>12, <2>1, WithDomainType, ZenonT(60)
    <2>3. Len(s) = n + 2 /\ \A i \in 1 .. n : s[2 + i] = im[i]
      BY <1>5, <2>2, Zenon
    <2> QED BY <2>1, <2>2, <2>3, Zenon
  <1>15. PICK A \in Point : A = sumprod(pa, sa)
    BY <1>13, <1>14, SumprodType
  <1>16. sumprod(Put(pa, Plus(c, ks)), Put(sa, 1)) = Plus(A, Plus(c, ks))
    <2>1. Plus(c, ks) \in Point
      BY PlusAt
    <2>2. Len(sa) = Len(pa)
      BY <1>13, <1>14
    <2>3. sumprod(Put(pa, Plus(c, ks)), Put(sa, 1)) = Plus(sumprod(pa, sa), Times(Plus(c, ks), 1))
      BY <2>1, <2>2, SumprodPut
    <2> QED BY <1>15, <2>1, <2>3, TimesOne, Zenon
  <1>17. PICK ps \in Seq(Int) : ps = proof_scalars(args) /\ Len(ps) = l + 1
    BY <1>1, <1>2, <1>3, <1>9, ArgsIs
  <1>18. /\ \A i \in 1 .. n : ps[i] = im[i]
         /\ ps[n + 1] = r
         /\ \A i \in 1 .. m : ps[n + 1 + i] = co[i]
    <2>1. /\ \A i \in 1 .. l : i <= args.issuer_no => proof_scalars(args)[i] = args.messages[i]
          /\ proof_scalars(args)[args.issuer_no + 1] = args.blind
          /\ \A i \in 1 .. l : i > args.issuer_no => proof_scalars(args)[i + 1] = args.messages[i]
      <3>1. args.messages \in Seq(Scalar) /\ Len(args.messages) = l /\ args.issuer_no \in 0 .. l /\ args.blind \in Scalar
        BY <1>1, <1>2, <1>3, <1>9 DEF ArgsType
      <3> QED BY <3>1, proof_scalarsType, SMTT(40)
    <2>2. ASSUME NEW i \in 1 .. m PROVE ps[n + 1 + i] = co[i]
      <3>1. PICK j \in 1 .. l : j = n + i
        BY <1>3
      <3>2. j > n /\ j + 1 = n + 1 + i
        BY <3>1
      <3>3. ps[j + 1] = args.messages[j]
        BY <1>9, <1>17, <2>1, <3>2
      <3> QED BY <1>9, <3>1, <3>2, <3>3
    <2>3. ASSUME NEW i \in 1 .. n PROVE ps[i] = im[i]
      <3>1. i \in 1 .. l /\ i <= n
        BY <1>3
      <3> QED BY <1>9, <1>17, <2>1, <3>1
    <2> QED BY <1>9, <1>17, <2>1, <2>2, <2>3
  <1>19. PICK B \in Seq(Point) : /\ B = Base(n, l) /\ Len(B) = l + 3
                                 /\ \A p \in 1 .. l + 3 : B[p] = Named(BaseName(n, p))
    BY <1>4, BaseType
  <1>20. PICK W \in Seq(Int) : /\ W = WithDomain(dom, ps) /\ Len(W) = l + 3
                               /\ W[1] = 1 /\ W[2] = dom /\ \A i \in 1 .. l + 1 : W[2 + i] = ps[i]
    <2>1. PICK s : s = WithDomain(dom, ps)
      OBVIOUS
    <2>2. s \in Seq(Int) /\ Len(s) = Len(ps) + 2 /\ s[1] = 1 /\ s[2] = dom /\ \A i \in 1 .. Len(ps) : s[2 + i] = ps[i]
      <3>1. dom \in Int /\ ps \in Seq(Int)
        BY <1>12
      <3>2. /\ WithDomain(dom, ps) \in Seq(Int) /\ Len(WithDomain(dom, ps)) = Len(ps) + 2
            /\ WithDomain(dom, ps)[1] = 1 /\ WithDomain(dom, ps)[2] = dom
            /\ \A i \in 1 .. Len(ps) : WithDomain(dom, ps)[2 + i] = ps[i]
        BY ONLY <3>1, WithDomainType, Zenon
      <3> QED BY <2>1, <3>2, Zenon
    <2>3. Len(s) = (l + 1) + 2 /\ \A i \in 1 .. l + 1 : s[2 + i] = ps[i]
      BY <1>17, <2>2, Zenon
    <2>4. (l + 1) + 2 = l + 3
      OBVIOUS
    <2> QED BY <2>1, <2>2, <2>3, <2>4, Zenon
  <1>21. PICK bq \in Seq(Point) : /\ bq = blind_generators(m + 1) /\ Len(bq) = m + 1
                                  /\ bq[1] = Generator("Q2", 1) /\ \A i \in 1 .. m : bq[i + 1] = Generator("J", i)
    <2>1. PICK s : s = Headed("Q2", "J", m)
      OBVIOUS
    <2>2. /\ s \in Seq(Point) /\ Len(s) = m + 1 /\ s[1] = Generator("Q2", 1)
          /\ \A i \in 1 .. m : s[i + 1] = Generator("J", i)
      <3>1. IsHeaded(Headed("Q2", "J", m), "Q2", "J", m)
        BY HeadedIs, Zenon
      <3> QED BY <2>1, <3>1, Zenon DEF IsHeaded
    <2> QED BY <2>1, <2>2, CreateIs
  <1>22. PICK sb \in Seq(Int) : /\ sb = <<r>> \o co /\ Len(sb) = m + 1
                                /\ sb[1] = r /\ \A i \in 1 .. m : sb[i + 1] = co[i]
    <2>1. PICK rr \in Seq(Int) : rr = <<r>> /\ Len(rr) = 1 /\ rr[1] = r
      <3>1. <<r>> \in Seq(Int) /\ Len(<<r>>) = 1 /\ <<r>>[1] = r
        BY <1>12
      <3> QED BY <3>1
    <2>2. rr \o co \in Seq(Int) /\ Len(rr \o co) = Len(rr) + Len(co)
      BY ConcatProperties
    <2>3. \A i \in 1 .. Len(co) : (rr \o co)[1 + i] = co[i]
      BY <2>1, SecondPart
    <2>4. (rr \o co)[1] = rr[1]
      <3>1. 1 \in 1 .. Len(rr)
        BY <2>1
      <3> QED BY <3>1, FirstPart
    <2>5. \A i \in 1 .. m : i + 1 = 1 + i
      OBVIOUS
    <2>6. PICK s : s = rr \o co
      OBVIOUS
    <2>7. s \in Seq(Int) /\ Len(s) = 1 + m
      BY <1>6, <2>1, <2>2, <2>6, Zenon
    <2>8. s[1] = r
      BY <2>1, <2>4, <2>6, Zenon
    <2>9. \A i \in 1 .. m : s[i + 1] = co[i]
      BY <1>6, <2>3, <2>5, <2>6, Zenon
    <2>10. 1 + m = m + 1
      OBVIOUS
    <2> QED BY <2>1, <2>6, <2>7, <2>8, <2>9, <2>10, Zenon
  <1>23. PairsGoOn(B, W, 0, pa, sa, n + 2)
    <2>1. ASSUME NEW i \in 1 .. n + 2
          PROVE  pa[i] \in Point /\ sa[i] \in Int /\ B[0 + i] = pa[i] /\ W[0 + i] = sa[i]
      <3>1. 0 + i = i /\ i \in 1 .. l + 3
        BY <1>3
      <3>2. B[i] = pa[i]
        BY <1>13, <1>19, <3>1
      <3>3. pa[i] \in Point /\ sa[i] \in Int
        BY ONLY <1>13, <1>14, n \in Nat, i \in 1 .. n + 2, pa \in Seq(Point), sa \in Seq(Int)
      <3>4. W[i] = sa[i]
        <4>1. CASE i = 1
          BY <1>14, <1>20, <4>1
        <4>2. CASE i = 2
          BY <1>14, <1>20, <4>2
        <4>3. CASE i > 2
          <5>1. PICK j \in 1 .. n : j = i - 2
            BY <4>3
          <5>2. j \in 1 .. l + 1 /\ 2 + j = i
            BY <1>3, <5>1
          <5> QED BY <1>14, <1>18, <1>20, <5>2
        <4>4. i = 1 \/ i = 2 \/ i > 2
          BY ONLY n \in Nat, i \in 1 .. n + 2
        <4> QED BY ONLY <4>1, <4>2, <4>3, <4>4
      <3> QED BY <3>1, <3>2, <3>3, <3>4
    <2> QED BY <2>1 DEF PairsGoOn
  <1>24. PairsGoOn(B, W, n + 2, bq, sb, m + 1)
    <2>1. ASSUME NEW i \in 1 .. m + 1
          PROVE  bq[i] \in Point /\ sb[i] \in Int /\ B[n + 2 + i] = bq[i] /\ W[n + 2 + i] = sb[i]
      <3>1. bq[i] \in Point /\ sb[i] \in Int
        BY ONLY <1>21, <1>22, m \in Nat, i \in 1 .. m + 1, bq \in Seq(Point), sb \in Seq(Int)
      <3>2. n + 2 + i \in 1 .. l + 3
        BY <1>3
      <3>3. B[n + 2 + i] = Named(BaseName(n, n + 2 + i))
        BY <1>19, <3>2
      <3>4. n + 1 + (i - 1) = n + i /\ n + i \in 1 .. l + 1 /\ n + 2 + i = 2 + (n + i)
        BY <1>3
      <3>5. W[n + 2 + i] = ps[n + i]
        BY <1>20, <3>4
      <3>6. CASE i = 1
        <4>1. BaseName(n, n + 2 + i) = <<"Q2", 1>>
          BY <3>6 DEF BaseName
        <4>2. Named(<<"Q2", 1>>) = Generator("Q2", 1)
          BY DEF Named
        <4> QED BY <1>18, <1>21, <1>22, <3>1, <3>3, <3>5, <3>6, <4>1, <4>2
      <3>7. CASE i > 1
        <4>1. PICK j \in 1 .. m : j = i - 1
          BY <3>7
        <4>2. BaseName(n, n + 2 + i) = <<"J", j>>
          BY <3>7, <4>1 DEF BaseName
        <4>3. Named(<<"J", j>>) = Generator("J", j)
          BY DEF Named
        <4>4. i = j + 1 /\ n + i = n + 1 + j
          BY <4>1
        <4>5. ps[n + i] = co[j] /\ sb[i] = co[j] /\ bq[i] = Generator("J", j)
          BY <1>18, <1>21, <1>22, <4>4
        <4> QED BY <3>1, <3>3, <3>5, <4>2, <4>3, <4>5
      <3> QED BY <3>6, <3>7
    <2> QED BY <2>1 DEF PairsGoOn
  <1>25. Messaged(n, l, dom, ps) = Plus(A, c)
    <2>1. PICK u \in Nat : u = n + 2
      OBVIOUS
    <2>2. PICK v \in Nat : v = m + 1
      OBVIOUS
    <2>3. PICK w \in Nat : w = u + v
      OBVIOUS
    <2>4. w = l + 3
      BY <1>3, <2>1, <2>2, <2>3
    <2>5. PairsGoOn(B, W, 0, pa, sa, u) /\ PairsGoOn(B, W, u, bq, sb, v)
      BY <1>23, <1>24, <2>1, <2>2
    <2>6. ProdTo(B, W, w) = Plus(ProdTo(pa, sa, u), ProdTo(bq, sb, v))
      BY ONLY <2>3, <2>5, u \in Nat, v \in Nat, ProdToJoined
    <2>7. sumprod(B, W) = ProdTo(B, W, w)
      BY <1>19, <2>4, SumprodIsProdTo
    <2>8. sumprod(pa, sa) = ProdTo(pa, sa, u) /\ sumprod(bq, sb) = ProdTo(bq, sb, v)
      BY <1>13, <1>21, <2>1, <2>2, SumprodIsProdTo
    <2> QED BY <1>11, <1>15, <1>19, <1>20, <1>21, <1>22, <2>6, <2>7, <2>8, Zenon DEF Messaged
  <1>26. Full(args, dom) = Plus(Plus(A, c), ks)
    <2>1. Full(args, dom) = Plus(Messaged(args.issuer_no, shape.issuer + shape.committed, dom, proof_scalars(args)),
                                 sum_points(KeyPoints(args)))
      BY <1>9, <1>12, FullIs
    <2>2. shape.issuer + shape.committed = l
      BY <1>1, <1>2, <1>3
    <2> QED BY <1>9, <1>10, <1>17, <1>25, <2>1, <2>2, Zenon
  <1>27. Plus(Plus(A, c), ks) = Plus(A, Plus(c, ks))
    BY PlusAssociates
  <1> QED BY <1>1, <1>2, <1>5, <1>6, <1>7, <1>8, <1>10, <1>11, <1>13, <1>14, <1>16, <1>26, <1>27, Zenon

LEMMA AskAllSteps ==
  ASSUME NEW o, NEW ins, Len(ins) \in Nat
  PROVE  \E f : AskAll(o, ins) = f[Len(ins)]
                /\ \A k \in 0 .. Len(ins) : f[k] = IF k = 0 THEN o ELSE Ask(f[k - 1], ins[k])
  <1> DEFINE f == CHOOSE f : IsAsking(f, o, ins)
             l == Len(ins)
  <1>1. IsAsking(f, o, ins)
    BY AskingExists DEF IsAsking
  <1>2. AskAll(o, ins) = f[l]
    BY DEF AskAll, IsAsking
  <1>3. \A k \in 0 .. l : f[k] = IF k = 0 THEN o ELSE Ask(f[k - 1], ins[k])
    BY <1>1 DEF IsAsking
  <1> HIDE DEF f
  <1> QED BY <1>2, <1>3

LEMMA AskAllNext ==
  ASSUME NEW o, NEW x, NEW y
  PROVE  AskAll(o, <<x, y>>) = Ask(AskAll(o, <<x>>), y)
  <1>1. ASSUME NEW ins, Len(ins) \in Nat, Len(ins) >= 1
        PROVE  /\ Len(ins) = 1 => AskAll(o, ins) = Ask(o, ins[1])
               /\ Len(ins) = 2 => AskAll(o, ins) = Ask(Ask(o, ins[1]), ins[2])
    <2>1. PICK f : AskAll(o, ins) = f[Len(ins)]
                   /\ \A k \in 0 .. Len(ins) : f[k] = IF k = 0 THEN o ELSE Ask(f[k - 1], ins[k])
      BY <1>1, AskAllSteps
    <2>2. f[0] = o
      BY <1>1, <2>1
    <2>3. f[1] = Ask(f[0], ins[1])
      BY <1>1, <2>1
    <2>4. Len(ins) = 2 => f[2] = Ask(f[1], ins[2])
      BY <1>1, <2>1
    <2> QED BY <2>1, <2>2, <2>3, <2>4
  <1>2. PICK a : a = <<x>>
    OBVIOUS
  <1>3. PICK b : b = <<x, y>>
    OBVIOUS
  <1>4. Len(a) = 1 /\ a[1] = x /\ Len(b) = 2 /\ b[1] = x /\ b[2] = y
    BY <1>2, <1>3
  <1>5. AskAll(o, a) = Ask(o, x)
    BY <1>1, <1>4
  <1>6. AskAll(o, b) = Ask(Ask(o, x), y)
    BY <1>1, <1>4
  <1> QED BY <1>2, <1>3, <1>5, <1>6, Zenon

\* Full, of the stream that the device keys are from.
FullOf(st, args, dom) ==
  Plus(compute_b(GeneratorsOf(args), proof_scalars(args), dom),
       sum_points([i \in DOMAIN args.keys |-> Times(Generator("HK", args.keys[i]), st[1 + args.keys[i]])]))

LEMMA FullOfStream == ASSUME NEW args, NEW dom PROVE Full(args, dom) = FullOf(stream, args, dom)
  BY DEF Full, FullOf, KeyPoints, DevicePoint, DeviceKey

\* A signature of args, over the domain that o knows.
Signed(st, args, sg, o) ==
  /\ sg.e \in Answer
  /\ (st[1] + sg.e) % q # 0
  /\ \E dom \in Answer : /\ Knows(o, DomainInput(st[1], GeneratorsOf(args), args.header), dom)
                         /\ sg.a = Times(FullOf(st, args, dom), Invert((st[1] + sg.e) % q))

LEMMA SignedKept ==
  ASSUME NEW st, NEW args, NEW sg, NEW o, NEW p, Signed(st, args, sg, o), Oracle(o), Oracle(p), Extends(o, p)
  PROVE  Signed(st, args, sg, p)
  BY KnowsKept DEF Signed

\* The blind of a commitment, and what it commits to.
LEMMA OpenedBlind ==
  ASSUME Case, Opened(shape.committed, shape.keys, Committed, Fresh, commit, asked)
  PROVE  /\ commit.secret_prover_blind \in NotZero
         /\ commit.c = Opening(shape.committed, Committed, commit.secret_prover_blind)
  <1>1. PICK m \in Nat : m = shape.committed
    BY ShapeAt
  <1>2. PICK r \in Seq(NotZero) : r = commit.randoms /\ Len(r) = m + 2
    BY <1>1 DEF Opened
  <1>3. r[1] \in NotZero
    BY ONLY <1>2, m \in Nat, r \in Seq(NotZero)
  <1> QED BY <1>2, <1>3, Zenon DEF Opened

LEMMA BlindSignIs ==
  ASSUME Case, Enough(asked), Len(asked) + 2 <= Len(Answers), NEW h,
         Opened(shape.committed, shape.keys, Committed, Fresh, commit, asked),
         Requested(shape.keys, stream, Fresh, commit, request, asked),
         BlindSign(h)
  PROVE  /\ Oracle(asked') /\ Extends(asked, asked') /\ Len(asked') <= Len(asked) + 2
         /\ signature' # NotYet
         /\ signature' # Refused => /\ Signed(stream, Signable(signature'.header), signature', asked')
                                    /\ \A i \in Positions : request.signers[i] = i
         /\ (\A i \in Positions : request.signers[i] = i) /\ ~ KeyCancels => signature' # Refused
  <1> DEFINE generators == blind_generators(Len(request.m_hat) + 1) \o keybind_generators(Len(request.sigs))
             mine == create_generators(shape.issuer + 1)
             input == DomainInput(IssuerKey, mine \o generators, h)
             domain == hash_to_scalar(AskAll(asked, <<input>>), input)
             b == sumprod(<<P1>> \o mine \o <<Plus(request.c, sum_points(request.keys))>>,
                          <<1, domain>> \o IssuerMessages \o <<1>>)
             oracle == AskAll(asked, <<input, <<"e", IssuerKey, b>>>>)
             e == hash_to_scalar(oracle, <<"e", IssuerKey, b>>)
  <1>1. /\ asked' = oracle
        /\ signature' = IF ~core_commit_verify(request, generators) \/ b = Identity \/ (IssuerKey + e) % q = 0 THEN Refused
                        ELSE [a |-> Times(b, Invert((IssuerKey + e) % q)), e |-> e, header |-> h]
    BY Zenon DEF BlindSign
  <1>2. PICK args : args = Signable(h)
    OBVIOUS
  <1>3. commit.secret_prover_blind \in NotZero
    BY OpenedBlind
  <1>4. PICK gs : gs = CommitGens(shape.committed, shape.keys)
    OBVIOUS
  <1>5. generators = gs
    BY <1>4, VerifyExact, Zenon
  <1>6. core_commit_verify(request, gs) <=> \A i \in Positions : request.signers[i] = i
    BY <1>4, VerifyExact, Zenon
  <1> HIDE DEF generators
  <1>7. PICK x : x = DomainInput(IssuerKey, GeneratorsOf(args), h)
    OBVIOUS
  <1>8. mine \o gs = GeneratorsOf(args)
    <2>1. PICK n \in Nat : n = shape.issuer
      BY ShapeAt
    <2>2. PICK m \in Nat : m = shape.committed
      BY ShapeAt
    <2>3. ArgsType(args) /\ args.issuer_no = shape.issuer /\ args.keys = [i \in 1 .. shape.keys |-> i]
      BY <1>2, <1>3, SignableType
    <2>4. Len(args.messages) = n + m
      BY <2>1, <2>2, <2>3 DEF ArgsType
    <2>5. Len(args.keys) = shape.keys
      <3>1. PICK k \in Nat : k = shape.keys
        BY ShapeAt
      <3>2. PICK s : s = [i \in 1 .. k |-> i]
        OBVIOUS
      <3>3. Len(s) = k
        BY <3>2
      <3> QED BY <2>3, <3>1, <3>2, <3>3, Zenon
    <2>6. GeneratorsOf(args) = create_generators(n + 1) \o blind_generators(((n + m) - n) + 1) \o keybind_generators(shape.keys)
      BY <2>1, <2>3, <2>4, <2>5, Zenon DEF GeneratorsOf, all_generators
    <2>7. ((n + m) - n) + 1 = m + 1
      OBVIOUS
    <2>8. PICK c \in Seq(Point) : c = create_generators(n + 1)
      BY CreateIs, HeadedType
    <2>9. PICK bg \in Seq(Point) : bg = blind_generators(m + 1)
      BY CreateIs, HeadedType
    <2>10. PICK kg \in Seq(Point) : kg = keybind_generators(shape.keys)
      BY ShapeAt, CreateIs, PointsType
    <2>11. c \o (bg \o kg) = (c \o bg) \o kg
      BY ONLY ConcatAssociative, c \in Seq(Point), bg \in Seq(Point), kg \in Seq(Point)
    <2> QED BY <1>4, <2>1, <2>2, <2>6, <2>7, <2>8, <2>9, <2>10, <2>11, Zenon DEF CommitGens
  <1>9. input = x
    BY <1>5, <1>7, <1>8, Zenon
  <1> HIDE DEF input
  <1>10. PICK dom : dom = hash_to_scalar(AskAll(asked, <<x>>), x)
    OBVIOUS
  <1>11. domain = dom
    BY <1>9, <1>10, Zenon
  <1> HIDE DEF domain
  <1>12. dom \in Answer /\ dom \in Scalar /\ Knows(AskAll(asked, <<x>>), x, dom)
    <2>1. /\ Oracle(AskAll(asked, <<x>>)) /\ Len(AskAll(asked, <<x>>)) <= Len(asked) + 1
          /\ Knows(AskAll(asked, <<x>>), x, dom)
      BY <1>10, AskOne DEF Enough
    <2>2. Enough(AskAll(asked, <<x>>))
      <3>1. PICK p : p = AskAll(asked, <<x>>)
        OBVIOUS
      <3>2. Oracle(p) /\ Len(p) <= Len(asked) + 1
        BY <2>1, <3>1, Zenon
      <3>3. Len(p) \in Nat /\ Len(asked) \in Nat
        BY <3>2 DEF Oracle, Enough
      <3>4. Len(p) <= Len(Answers)
        BY <3>2, <3>3, AnswersType
      <3> QED BY <3>1, <3>2, <3>4, Zenon DEF Enough
    <2> QED BY <2>1, <2>2, KnowsType
  <1>13. b = Full(args, dom)
    <2>1. request.c = Opening(shape.committed, Committed, commit.secret_prover_blind) /\ request.keys = Fresh
      BY OpenedBlind, Zenon DEF Requested
    <2>2. b = sumprod(Put(Mine(shape.issuer), Plus(Opening(shape.committed, Committed, commit.secret_prover_blind),
                                                   sum_points(Fresh))),
                      Put(WithDomain(dom, IssuerMessages), 1))
      BY <1>11, <2>1, Zenon DEF Put, Mine, WithDomain
    <2> QED BY <1>2, <1>3, <1>12, <2>2, SignedB, Zenon
  <1> HIDE DEF b
  <1>14. PICK y : y = <<"e", IssuerKey, b>>
    OBVIOUS
  <1>15. PICK o : o = AskAll(asked, <<x, y>>)
    OBVIOUS
  <1>16. oracle = o
    BY <1>9, <1>14, <1>15, Zenon
  <1> HIDE DEF oracle
  <1>17. e = hash_to_scalar(o, y)
    BY <1>14, <1>16, Zenon
  <1>18. PICK f : f = hash_to_scalar(o, y)
    OBVIOUS
  <1> HIDE DEF e
  <1>19. /\ Oracle(o) /\ Extends(asked, o) /\ Len(o) <= Len(asked) + 2
         /\ Knows(o, x, hash_to_scalar(o, x)) /\ Knows(o, y, f)
    BY <1>15, <1>18, AskTwo DEF Enough
  <1>20. Enough(o)
    BY <1>19, AnswersType DEF Enough, Oracle
  <1>21. f \in Answer
    BY <1>19, <1>20, KnowsType
  <1>22. hash_to_scalar(o, x) = dom
    \* The first input is answered before the second.
    <2>1. AskAll(asked, <<x, y>>) = Ask(AskAll(asked, <<x>>), y)
      BY AskAllNext
    <2>2. Oracle(AskAll(asked, <<x>>))
      BY AskOne DEF Enough
    <2>3. Extends(AskAll(asked, <<x>>), o) /\ Oracle(o)
      BY <1>15, <2>1, <2>2, AskType
    <2>4. Knows(o, x, dom)
      BY <1>12, <2>2, <2>3, KnowsKept
    <2> QED BY <2>4 DEF Knows
  <1>23. PICK B \in Point : B = b /\ B # Identity /\ B = FullOf(stream, args, dom)
    <2>1. ArgsType(args) /\ dom \in Int
      BY <1>2, <1>3, <1>12, SignableType, ScalarType
    <2>2. PICK B : B = Full(args, dom)
      OBVIOUS
    <2>3. B \in Point /\ \E c \in 1 .. Dim : B[c] = 1
      BY <2>1, <2>2, FullIs
    <2>4. B # Identity
      BY <2>3, IdentityAt
    <2> QED BY <1>13, <2>2, <2>3, <2>4, FullOfStream, Zenon
  <1>24. args.header = h
    BY <1>2, <1>3, SignableType
  <1>25. ASSUME signature' # Refused
         PROVE  /\ Signed(stream, Signable(signature'.header), signature', asked')
                /\ \A i \in Positions : request.signers[i] = i
    <2>1. PICK sg : sg = [a |-> Times(B, Invert((IssuerKey + f) % q)), e |-> f, header |-> h]
      OBVIOUS
    <2>2. core_commit_verify(request, gs) /\ (IssuerKey + f) % q # 0 /\ signature' = sg
      BY <1>1, <1>5, <1>17, <1>18, <1>23, <1>25, <2>1, Zenon
    <2>3. sg.a = Times(B, Invert((IssuerKey + f) % q)) /\ sg.e = f /\ sg.header = h
      BY <2>1
    <2>4. Knows(o, x, dom)
      BY <1>19, <1>22
    <2>5. Knows(o, DomainInput(stream[1], GeneratorsOf(args), args.header), dom)
      BY <1>7, <1>24, <2>4, Zenon DEF IssuerKey
    <2>6. sg.a = Times(FullOf(stream, args, dom), Invert((stream[1] + sg.e) % q)) /\ (stream[1] + sg.e) % q # 0
      BY <1>23, <2>2, <2>3, Zenon DEF IssuerKey
    <2>7. Signed(stream, args, sg, o)
      BY <1>12, <1>21, <2>3, <2>5, <2>6, Zenon DEF Signed
    <2> QED BY <1>1, <1>2, <1>6, <1>16, <2>2, <2>3, <2>7, Zenon
  <1>26. ASSUME \A i \in Positions : request.signers[i] = i, ~ KeyCancels
         PROVE  signature' # Refused
    <2>1. core_commit_verify(request, generators) /\ b # Identity
      BY <1>5, <1>6, <1>23, <1>26, Zenon
    <2>2. f \in ToSet(Answers)
      <3>1. PICK i \in 1 .. Len(o) : Answers[i] = f
        BY <1>19, KnowsAt
      <3>2. i \in 1 .. Len(Answers)
        BY <1>20, AnswersType DEF Enough, Oracle
      <3>3. i \in DOMAIN Answers
        BY <3>2, AnswersType
      <3> QED BY <3>1, <3>3 DEF ToSet
    <2>3. (IssuerKey + e) % q # 0
      BY <1>17, <1>18, <1>26, <2>2, Zenon DEF KeyCancels
    <2>4. signature' = [a |-> Times(b, Invert((IssuerKey + e) % q)), e |-> e, header |-> h]
      BY <1>1, <2>1, <2>3, Zenon
    <2> QED BY <2>4 DEF Refused
  <1>27. signature' # NotYet
    <2>1. \/ signature' = Refused
          \/ signature' = [a |-> Times(b, Invert((IssuerKey + e) % q)), e |-> e, header |-> h]
      BY <1>1, Zenon
    <2>2. PICK sg : sg = signature'
      OBVIOUS
    <2>3. PICK z : z = b
      OBVIOUS
    <2>4. PICK w : w = e
      OBVIOUS
    <2>5. \/ sg = Refused
          \/ sg = [a |-> Times(z, Invert((IssuerKey + w) % q)), e |-> w, header |-> h]
      BY <2>1, <2>2, <2>3, <2>4, Zenon
    <2>6. CASE sg = Refused
      <3>1. sg # NotYet
        BY <2>6 DEF Refused, NotYet
      <3> QED BY <2>2, <3>1, Zenon
    <2>7. CASE sg = [a |-> Times(z, Invert((IssuerKey + w) % q)), e |-> w, header |-> h]
      <3>1. sg # NotYet
        BY <2>7 DEF NotYet
      <3> QED BY <2>2, <3>1, Zenon
    <2> QED BY <2>2, <2>5, <2>6, <2>7, Zenon
  <1> QED BY <1>1, <1>16, <1>19, <1>25, <1>26, <1>27, Zenon

-----------------------------------------------------------------------------
(* verify_blind_sign.                                                      *)

\* The issuer's own generator shows the domain, wherever messages are split.
LEMMA DomainCoordinate ==
  ASSUME Case, NEW args, ArgsType(args), NEW dom \in Scalar, NEW b \in 1 .. Dim, Basis[b] = <<"Q1", 1>>
  PROVE  Full(args, dom)[b] = dom
  <1>1. PICK l \in Nat : /\ l = shape.issuer + shape.committed
                         /\ args.issuer_no \in 0 .. l
                         /\ l <= Largest("issuer") + Largest("committed")
                         /\ proof_scalars(args) \in Seq(Int)
                         /\ Len(proof_scalars(args)) = l + 1
    BY ArgsIs
  <1>2. PICK n \in 0 .. l : n = args.issuer_no
    BY <1>1
  <1>3. PICK ss \in Seq(Int) : ss = proof_scalars(args) /\ Len(ss) = l + 1
    BY <1>1
  <1>4. PICK x : x = sum_points(KeyPoints(args)) /\ Keyed(x)
    BY KeysType
  <1>5. dom \in Int
    BY ScalarType
  <1>6. Full(args, dom) = Plus(Messaged(n, l, dom, ss), x) /\ Messaged(n, l, dom, ss) \in Point
    BY <1>1, <1>2, <1>3, <1>4, <1>5, FullIs, MessagedType
  <1>7. PICK j \in 1 .. l + 3 : j = 2
    OBVIOUS
  <1>8. Basis[b] = BaseName(n, j)
    BY <1>7 DEF BaseName
  <1>9. Keyless(b)
    <2>1. \A i : BaseName(n, j) # <<"HK", i>>
      BY <1>1, BaseNames
    <2> QED BY <1>8, <2>1, GeneratorAt DEF Keyless
  <1>10. ASSUME NEW p \in 1 .. l + 3 PROVE Base(n, l)[p][b] = IF p = j THEN 1 ELSE 0
    <2>1. Base(n, l)[p] = Named(BaseName(n, p))
      BY BaseType
    <2>2. BaseName(n, p) = <<BaseName(n, p)[1], BaseName(n, p)[2]>>
      BY DEF BaseName
    <2>3. Named(BaseName(n, p))[b] = IF Basis[b] = BaseName(n, p) THEN 1 ELSE 0
      <3> DEFINE name == BaseName(n, p)
      <3> HIDE DEF name
      <3>1. Generator(name[1], name[2])[b] = IF Basis[b] = <<name[1], name[2]>> THEN 1 ELSE 0
        BY GeneratorAt
      <3> QED BY <2>2, <3>1, Zenon DEF Named, name
    <2>4. Basis[b] = BaseName(n, p) <=> p = j
      <3>1. p # j => BaseName(n, p) # BaseName(n, j)
        BY <1>1, BaseNames
      <3> QED BY <1>8, <3>1, Zenon
    <2> QED BY <2>1, <2>3, <2>4
  <1>11. Messaged(n, l, dom, ss)[b] = dom
    <2>1. PICK w \in Seq(Int) : w = WithDomain(dom, ss) /\ Len(w) = l + 3 /\ w[2] = dom
      BY <1>3, <1>5, WithDomainType
    <2>2. PICK ps \in Seq(Point) : ps = Base(n, l) /\ Len(ps) = l + 3
      BY BaseType
    <2>3. Alone(ps, j, b)
      BY <1>10, <2>2 DEF Alone
    <2>4. sumprod(ps, w)[b] = w[j] % q
      BY <2>1, <2>2, <2>3, CoefficientAt
    <2>5. dom % q = dom
      BY ScalarMod
    <2> QED BY <1>7, <2>1, <2>2, <2>4, <2>5 DEF Messaged
  <1>12. x[b] = 0 /\ x \in Point
    BY <1>4, <1>9 DEF Keyed
  <1>13. Plus(Messaged(n, l, dom, ss), x)[b] = (Messaged(n, l, dom, ss)[b] + x[b]) % q
    BY <1>6, <1>12, PlusAt
  <1>14. Messaged(n, l, dom, ss)[b] + x[b] = dom
    BY <1>5, <1>11, <1>12
  <1> QED BY <1>6, <1>13, <1>14, ScalarMod

LEMMA FullDomain ==
  ASSUME Case, NEW args, ArgsType(args), NEW other, ArgsType(other),
         NEW dom \in Scalar, NEW dom2 \in Scalar, Full(args, dom) = Full(other, dom2)
  PROVE  dom = dom2
  <1>1. PICK l \in Nat : l = shape.issuer + shape.committed /\ l <= Largest("issuer") + Largest("committed")
    BY ShapeAt
  <1>2. PICK n \in 0 .. l : n = args.issuer_no
    BY <1>1 DEF ArgsType
  <1>3. PICK j \in 1 .. l + 3 : j = 2
    OBVIOUS
  <1>4. PICK b \in 1 .. Dim : Basis[b] = BaseName(n, j)
    BY <1>1, BaseNames
  <1>5. BaseName(n, j) = <<"Q1", 1>>
    BY <1>3 DEF BaseName
  <1> QED BY <1>4, <1>5, DomainCoordinate

InOrder(k) == [i \in 1 .. k |-> i]

LEMMA InOrderType ==
  ASSUME NEW k \in Nat
  PROVE  InOrder(k) \in Seq(1 .. k) /\ Len(InOrder(k)) = k /\ \A i \in 1 .. k : InOrder(k)[i] = i
  <1>1. PICK s : s = InOrder(k)
    OBVIOUS
  <1>2. s \in [1 .. k -> 1 .. k] /\ \A i \in 1 .. k : s[i] = i
    BY <1>1 DEF InOrder
  <1>3. s \in Seq(1 .. k) /\ Len(s) = k
    BY ONLY <1>2, k \in Nat
  <1> QED BY <1>1, <1>2, <1>3, Zenon

\* Arguments as callers give them: the keys in order, in reverse, or none.
Record(args) == args = [messages |-> args.messages, issuer_no |-> args.issuer_no, keys |-> args.keys,
                        header |-> args.header, blind |-> args.blind]
Orders(k) == {InOrder(k), Reverse(InOrder(k)), <<>>}
Called(args) == ArgsType(args) /\ Record(args) /\ args.keys \in Orders(shape.keys)

\* They cover what other covers.
Covers(args, other) ==
  /\ args.messages = other.messages /\ args.issuer_no = other.issuer_no
  /\ args.header = other.header /\ args.blind = other.blind
  /\ Len(args.keys) = shape.keys /\ ToSet(args.keys) = Positions

LEMMA KeysCounted ==
  ASSUME Case, NEW args, Called(args), NEW other, ArgsType(other), other.keys = InOrder(shape.keys),
         Len(args.keys) = shape.keys
  PROVE  ToSet(args.keys) = Positions /\ sum_points(KeyPoints(args)) = sum_points(KeyPoints(other))
  <1>1. PICK k \in Nat : k = shape.keys
    BY ShapeAt
  <1>2. PICK ks \in Seq(1 .. k) : ks = InOrder(k) /\ Len(ks) = k /\ \A i \in 1 .. k : ks[i] = i
    BY InOrderType
  <1>3. args.keys \in {ks, Reverse(ks), <<>>}
    BY <1>1, <1>2, Zenon DEF Called, Orders
  <1>4. CASE args.keys = ks
    <2>1. ToSet(ks) = {ks[i] : i \in 1 .. k}
      BY <1>2 DEF ToSet
    <2>2. ToSet(ks) = 1 .. k
      BY <1>2, <2>1
    <2>3. KeyPoints(args) = KeyPoints(other)
      BY <1>1, <1>2, <1>4, Zenon DEF KeyPoints
    <2> QED BY <1>1, <1>4, <2>2, <2>3, Zenon DEF Positions
  <1>5. CASE args.keys = Reverse(ks)
    <2>1. other.keys = [i \in 1 .. shape.keys |-> i] /\ args.keys = Reverse(other.keys)
      BY <1>1, <1>2, <1>5, Zenon DEF InOrder
    <2> QED BY <2>1, KeysReversed DEF Called
  <1>6. CASE args.keys = <<>>
    <2>1. Len(args.keys) = 0
      BY <1>6
    <2>2. k = 0
      BY <1>1, <2>1
    <2>3. ks = <<>>
      BY <1>2, <2>2
    <2> QED BY <1>4, <1>6, <2>3, Zenon
  <1> QED BY <1>3, <1>4, <1>5, <1>6

\* B is that of the signature exactly when the arguments are.
LEMMA SameB ==
  ASSUME Case, NEW o, Enough(o), NEW args, Called(args), NEW other, ArgsType(other),
         other.keys = InOrder(shape.keys), NEW dom,
         Knows(o, DomainInput(IssuerKey, GeneratorsOf(other), other.header), dom)
  PROVE  LET found == hash_to_scalar(o, DomainInput(IssuerKey, GeneratorsOf(args), args.header))
         IN  /\ Full(args, found) = Full(other, dom) <=> Covers(args, other)
             /\ Covers(args, other) => found = dom
  <1>1. PICK x : x = DomainInput(IssuerKey, GeneratorsOf(args), args.header)
    OBVIOUS
  <1>2. PICK f : f = hash_to_scalar(o, x)
    OBVIOUS
  <1>3. f \in Scalar /\ dom \in Scalar
    BY <1>2, HashType, KnowsType
  <1>4. PICK l \in Nat : l = shape.issuer + shape.committed
    BY ShapeAt
  <1>5. PICK n \in 0 .. l : n = args.issuer_no /\ Len(args.messages) = l
    BY <1>4 DEF Called, ArgsType
  <1>6. PICK m \in 0 .. l : m = other.issuer_no /\ Len(other.messages) = l
    BY <1>4 DEF ArgsType
  <1>7. PICK k \in Nat : k = Len(args.keys)
    BY KeysType DEF Called
  <1>8. PICK h \in Nat : h = shape.keys /\ Len(other.keys) = h
    BY ShapeAt, InOrderType
  <1>9. GeneratorsOf(args) = all_generators(n, l, k) /\ GeneratorsOf(other) = all_generators(m, l, h)
    BY <1>5, <1>6, <1>7, <1>8, Zenon DEF GeneratorsOf
  <1>10. ASSUME Full(args, f) = Full(other, dom) PROVE Covers(args, other)
    <2>1. f = dom
      BY <1>3, <1>10, FullDomain DEF Called
    <2>2. x = DomainInput(IssuerKey, GeneratorsOf(other), other.header)
      <3>1. PICK z : z = DomainInput(IssuerKey, GeneratorsOf(other), other.header)
        OBVIOUS
      <3>2. Knows(o, z, dom) /\ hash_to_scalar(o, x) = dom
        BY <1>2, <2>1, <3>1, Zenon
      <3>3. x = z
        BY <3>2, KnowsOnly
      <3> QED BY <3>1, <3>3
    <2>3. GeneratorsOf(args) = GeneratorsOf(other) /\ args.header = other.header
      BY <1>1, <2>2 DEF DomainInput
    <2>4. n = m /\ k = h
      <3>1. all_generators(n, l, k) = all_generators(m, l, h)
        BY <1>9, <2>3, Zenon
      <3> QED BY <3>1, GeneratorsUnique
    <2>5. args.issuer_no = other.issuer_no /\ Len(args.keys) = shape.keys
      BY <1>5, <1>6, <1>7, <1>8, <2>4
    <2>6. args.messages = other.messages /\ args.blind = other.blind
      BY <1>3, <1>10, <2>5, FullUnique DEF Called
    <2>7. ToSet(args.keys) = Positions
      BY <2>5, KeysCounted
    <2> QED BY <2>3, <2>5, <2>6, <2>7, Zenon DEF Covers
  <1>11. ASSUME Covers(args, other) PROVE f = dom /\ Full(args, f) = Full(other, dom)
    <2>1. n = m /\ k = h
      BY <1>5, <1>6, <1>7, <1>8, <1>11 DEF Covers
    <2>2. GeneratorsOf(args) = GeneratorsOf(other)
      BY <1>9, <2>1, Zenon
    <2>3. x = DomainInput(IssuerKey, GeneratorsOf(other), other.header)
      BY <1>1, <1>11, <2>2, Zenon DEF Covers
    <2>4. f = dom
      BY <1>2, <2>3, Zenon DEF Knows
    <2>5. proof_scalars(args) = proof_scalars(other)
      BY <1>11, Zenon DEF Covers, proof_scalars
    <2>6. sum_points(KeyPoints(args)) = sum_points(KeyPoints(other))
      BY <1>7, <1>8, <2>1, KeysCounted
    <2> QED BY <2>2, <2>4, <2>5, <2>6, Zenon DEF Full
  <1> QED BY <1>1, <1>2, <1>10, <1>11, Zenon

LEMMA NegatedOne == Minus(0, 1) \in Int /\ Cong(1 + Minus(0, 1), 0)
  <1>1. PICK m \in Int : m = Minus(0, 1) /\ Cong(m, -1)
    <2>1. Minus(0, 1) = (0 - 1) % q
      BY DEF Minus
    <2>2. PICK y \in Int : y = 0 - 1 /\ y = -1
      OBVIOUS
    <2>3. y % q \in Int /\ Cong(y % q, y)
      BY Remainder, CongMod
    <2> QED BY <2>1, <2>2, <2>3
  <1>2. Cong(1 + m, 1 + (-1))
    BY <1>1, CongAdd, CongRefl
  <1>3. 1 + (-1) = 0
    OBVIOUS
  <1> QED BY <1>1, <1>2, <1>3

LEMMA DifferenceNone ==
  ASSUME NEW x \in Point, NEW y \in Point
  PROVE  Plus(x, Times(y, Minus(0, 1))) = Identity <=> x = y
  <1>1. PICK m \in Int : m = Minus(0, 1) /\ Cong(1 + m, 0)
    BY NegatedOne
  <1>2. PICK z \in Point : z = Times(y, m)
    BY TimesAt
  <1>3. Plus(y, z) = Identity
    <2>1. Times(y, 1 + m) = Plus(Times(y, 1), Times(y, m))
      BY TimesSum
    <2>2. PICK u \in Int : u = 1 + m
      OBVIOUS
    <2>3. Times(y, u) = Times(y, 0)
      BY <1>1, <2>2, TimesReduced
    <2> QED BY <1>2, <2>1, <2>2, <2>3, TimesOne, TimesZero, Zenon
  <1>4. ASSUME Plus(x, z) = Identity PROVE x = y
    <2>1. Plus(Plus(x, z), y) = Plus(x, Plus(z, y))
      BY PlusAssociates
    <2>2. Plus(z, y) = Identity
      BY <1>3, PlusCommutes, Zenon
    <2>3. Plus(x, Identity) = x /\ Plus(Identity, y) = y
      BY PlusIdentity
    <2> QED BY <1>4, <2>1, <2>2, <2>3, Zenon
  <1> QED BY <1>1, <1>2, <1>3, <1>4, Zenon

LEMMA SignedAsIs ==
  ASSUME NEW args, Record(args), Record(Honest)
  PROVE  SignedAs(args) <=> Covers(args, Honest)
  <1>1. PICK h : h = Honest
    OBVIOUS
  <1>2. Record(h)
    BY <1>1, Zenon
  <1>3. [args EXCEPT !.keys = h.keys] = [messages |-> args.messages, issuer_no |-> args.issuer_no, keys |-> h.keys,
                                         header |-> args.header, blind |-> args.blind]
    BY DEF Record
  <1>4. [args EXCEPT !.keys = h.keys] = h
          <=> /\ args.messages = h.messages /\ args.issuer_no = h.issuer_no
              /\ args.header = h.header /\ args.blind = h.blind
    BY <1>2, <1>3 DEF Record
  <1> QED BY <1>1, <1>4, Zenon DEF SignedAs, Covers

LEMMA ArgumentsType ==
  ASSUME Case, commit.secret_prover_blind \in NotZero, NEW args \in Arguments
  PROVE  /\ Called(args) /\ Called(Honest) /\ Honest.keys = InOrder(shape.keys)
  <1>1. PICK l \in Nat : l = shape.issuer + shape.committed
    BY ShapeAt
  <1>2. PICK h : h = Honest
    OBVIOUS
  <1>3. /\ ArgsType(h) /\ h.keys = InOrder(shape.keys) /\ Record(h)
        /\ h.messages \in Seq(Scalar) /\ Len(h.messages) = l
        /\ h.issuer_no = shape.issuer /\ h.blind \in Scalar
    <2>1. ArgsType(h) /\ h.keys = InOrder(shape.keys) /\ h.issuer_no = shape.issuer
      BY <1>2, SignableType, HonestIs, Zenon DEF InOrder
    <2>2. Record(h)
      BY <1>2 DEF Honest, Record
    <2> QED BY <1>1, <2>1, <2>2, Zenon DEF ArgsType
  <1>4. PICK ks : ks = InOrder(shape.keys)
    OBVIOUS
  <1>5. ks \in Seq(Positions) /\ Reverse(ks) \in Seq(Positions)
    <2>1. PICK k \in Nat : k = shape.keys
      BY ShapeAt
    <2>2. ks \in Seq(1 .. k) /\ Len(ks) = k
      BY <1>4, <2>1, InOrderType
    <2>3. PICK r : r = Reverse(ks)
      OBVIOUS
    <2>4. r = [i \in 1 .. k |-> ks[(k - i) + 1]]
      BY <2>2, <2>3, Zenon DEF Reverse
    <2>5. \A i \in 1 .. k : ks[(k - i) + 1] \in 1 .. k
      BY <2>2
    <2>6. r \in [1 .. k -> 1 .. k]
      BY <2>4, <2>5, Zenon
    <2>7. r \in Seq(1 .. k)
      BY ONLY <2>6, k \in Nat
    <2> QED BY <2>1, <2>2, <2>3, <2>7, Zenon DEF Positions
  <1>6. \/ args = h
        \/ \E i \in 1 .. l : args = [h EXCEPT !.messages[i] = (@ + 1) % q]
        \/ \E n \in 0 .. l : args = [h EXCEPT !.issuer_no = n]
        \/ \E keys \in {Reverse(ks), <<>>} : args = [h EXCEPT !.keys = keys]
        \/ \E hd \in Header : args = [h EXCEPT !.header = hd]
        \/ args = [h EXCEPT !.blind = (@ + 1) % q]
    BY <1>2, <1>3, <1>4 DEF Arguments
  <1>7. ks \in Orders(shape.keys) /\ Reverse(ks) \in Orders(shape.keys) /\ <<>> \in Orders(shape.keys)
    BY <1>4 DEF Orders
  <1>8. Called(h)
    BY <1>3, <1>4, <1>7, Zenon DEF Called
  <1>9. ASSUME NEW x \in Scalar PROVE (x + 1) % q \in Scalar
    BY Remainder, ScalarType
  <1>10. ASSUME NEW ms \in Seq(Scalar), Len(ms) = l, NEW n \in 0 .. l, NEW keys \in {ks, Reverse(ks), <<>>}, NEW hd,
                NEW bl \in Scalar,
                args = [messages |-> ms, issuer_no |-> n, keys |-> keys, header |-> hd, blind |-> bl]
         PROVE  Called(args)
    <2>1. args.messages = ms /\ args.issuer_no = n /\ args.keys = keys /\ args.header = hd /\ args.blind = bl
      BY <1>10
    <2>2. Record(args)
      BY <1>10, <2>1, Zenon DEF Record
    <2>3. keys \in Seq(Positions)
      <3>1. <<>> \in Seq(Positions)
        OBVIOUS
      <3>2. keys = ks \/ keys = Reverse(ks) \/ keys = <<>>
        BY <1>10, Zenon
      <3> QED BY <1>5, <3>1, <3>2, Zenon
    <2>4. n \in 0 .. shape.issuer + shape.committed /\ Len(ms) = shape.issuer + shape.committed
      BY <1>1, <1>10
    <2>5. ArgsType(args)
      BY <1>10, <2>1, <2>3, <2>4, Zenon DEF ArgsType
    <2>6. keys \in Orders(shape.keys)
      BY <1>7, <1>10
    <2> QED BY <2>1, <2>2, <2>5, <2>6, Zenon DEF Called
  <1>11. PICK ms \in Seq(Scalar) : ms = h.messages /\ Len(ms) = l
    BY <1>3
  <1>12. PICK n \in 0 .. l : n = h.issuer_no
    BY <1>1, <1>3 DEF ArgsType
  <1>13. PICK bl \in Scalar : bl = h.blind
    BY <1>3
  <1>14. h = [messages |-> ms, issuer_no |-> n, keys |-> ks, header |-> h.header, blind |-> bl]
    BY <1>3, <1>4, <1>11, <1>12, <1>13, Zenon DEF Record
  <1> SUFFICES Called(args)
    BY <1>2, <1>3, <1>8, Zenon
  <1>15. CASE args = h
    BY <1>8, <1>15
  <1>16. CASE \E i \in 1 .. l : args = [h EXCEPT !.messages[i] = (@ + 1) % q]
    <2>1. PICK i \in 1 .. l : args = [h EXCEPT !.messages[i] = (@ + 1) % q]
      BY <1>16
    <2>2. PICK x \in Scalar : x = (ms[i] + 1) % q
      BY <1>9, <1>11
    <2>3. PICK ns : ns = [ms EXCEPT ![i] = x]
      OBVIOUS
    <2>4. ns \in Seq(Scalar) /\ Len(ns) = l
      BY <1>11, <2>3
    <2>5. args = [h EXCEPT !.messages = ns]
      BY <1>11, <2>1, <2>2, <2>3
    <2>6. args = [messages |-> ns, issuer_no |-> n, keys |-> ks, header |-> h.header, blind |-> bl]
      BY <1>14, <2>5
    <2> QED BY <1>10, <2>4, <2>6
  <1>17. CASE \E m \in 0 .. l : args = [h EXCEPT !.issuer_no = m]
    <2>1. PICK m \in 0 .. l : args = [h EXCEPT !.issuer_no = m]
      BY <1>17
    <2>2. args = [messages |-> ms, issuer_no |-> m, keys |-> ks, header |-> h.header, blind |-> bl]
      BY <1>14, <2>1
    <2> QED BY <1>10, <1>11, <2>2
  <1>18. CASE \E keys \in {Reverse(ks), <<>>} : args = [h EXCEPT !.keys = keys]
    <2>1. PICK keys \in {Reverse(ks), <<>>} : args = [h EXCEPT !.keys = keys]
      BY <1>18
    <2>2. args = [messages |-> ms, issuer_no |-> n, keys |-> keys, header |-> h.header, blind |-> bl]
      BY <1>14, <2>1
    <2> QED BY <1>10, <1>11, <2>2
  <1>19. CASE \E hd \in Header : args = [h EXCEPT !.header = hd]
    <2>1. PICK hd \in Header : args = [h EXCEPT !.header = hd]
      BY <1>19
    <2>2. args = [messages |-> ms, issuer_no |-> n, keys |-> ks, header |-> hd, blind |-> bl]
      BY <1>14, <2>1
    <2> QED BY <1>10, <1>11, <2>2
  <1>20. CASE args = [h EXCEPT !.blind = (@ + 1) % q]
    <2>1. PICK x \in Scalar : x = (bl + 1) % q
      BY <1>9
    <2>2. args = [messages |-> ms, issuer_no |-> n, keys |-> ks, header |-> h.header, blind |-> x]
      BY <1>14, <1>20, <2>1
    <2> QED BY <1>10, <1>11, <2>2
  <1> QED BY <1>6, <1>15, <1>16, <1>17, <1>18, <1>19, <1>20, Zenon

\* The signature times its exponent is B again.
LEMMA SignedTimes ==
  ASSUME Case, NEW args, ArgsType(args), NEW sg, NEW o, Enough(o), Signed(stream, args, sg, o)
  PROVE  \E dom \in Answer :
           /\ Knows(o, DomainInput(IssuerKey, GeneratorsOf(args), args.header), dom)
           /\ Full(args, dom) \in Point /\ \E b \in 1 .. Dim : Full(args, dom)[b] = 1
           /\ (IssuerKey + sg.e) % q \in NotZero
           /\ sg.a = Times(Full(args, dom), Invert((IssuerKey + sg.e) % q))
           /\ sg.a \in Point
           /\ Times(sg.a, (IssuerKey + sg.e) % q) = Full(args, dom)
  <1>1. PICK e \in Answer : e = sg.e
    BY DEF Signed
  <1>2. PICK w : w = (IssuerKey + e) % q
    OBVIOUS
  <1>3. PICK dom \in Answer : /\ Knows(o, DomainInput(IssuerKey, GeneratorsOf(args), args.header), dom)
                              /\ sg.a = Times(FullOf(stream, args, dom), Invert(w))
    BY <1>1, <1>2, Zenon DEF Signed, IssuerKey
  <1>4. w \in NotZero
    <2>1. IssuerKey \in Int /\ e \in Int
      BY ScalarsDrawn, NotZeroIsScalar, AnswersType
    <2>2. PICK u \in Int : u = IssuerKey + e
      BY <2>1
    <2>3. u % q \in Scalar
      BY Remainder
    <2>4. w \in Scalar
      BY <1>2, <2>2, <2>3, Zenon
    <2>5. w # 0
      BY <1>1, <1>2, Zenon DEF Signed, IssuerKey
    <2> QED BY <2>4, <2>5, ScalarType, OrderType DEF NotZero
  <1>5. PICK F \in Point : F = Full(args, dom) /\ \E b \in 1 .. Dim : F[b] = 1
    BY AnswersType, FullIs
  <1>6. sg.a = Times(F, Invert(w))
    BY <1>3, <1>5, FullOfStream, Zenon
  <1>7. Times(Times(F, Invert(w)), w) = F
    BY <1>4, InvertCancels
  <1>8. Times(F, Invert(w)) \in Point
    <2>1. Invert(w) \in Int
      BY <1>4, InvertType DEF NotZero
    <2> QED BY <2>1, TimesAt
  <1> QED BY <1>1, <1>2, <1>3, <1>4, <1>5, <1>6, <1>7, <1>8, Zenon

LEMMA AcceptIs ==
  ASSUME Case, Enough(asked), commit.secret_prover_blind \in NotZero, Signed(stream, Honest, signature, asked),
         NEW args \in Arguments
  PROVE  verify_blind_sign(args) <=> SignedAs(args)
  <1>1. Called(args) /\ Called(Honest) /\ Honest.keys = InOrder(shape.keys)
    BY ArgumentsType
  <1>2. PICK h : h = Honest
    OBVIOUS
  <1>3. ArgsType(h) /\ h.keys = InOrder(shape.keys) /\ Signed(stream, h, signature, asked)
    BY <1>1, <1>2, Zenon DEF Called
  <1>4. PICK dom \in Answer :
           /\ Knows(asked, DomainInput(IssuerKey, GeneratorsOf(h), h.header), dom)
           /\ Full(h, dom) \in Point
           /\ Times(signature.a, (IssuerKey + signature.e) % q) = Full(h, dom)
    BY <1>3, SignedTimes
  <1>5. PICK found \in Scalar : found = hash_to_scalar(asked, DomainInput(IssuerKey, GeneratorsOf(args), args.header))
    BY HashType
  <1>6. Full(args, found) = Full(h, dom) <=> Covers(args, h)
    BY <1>1, <1>3, <1>4, <1>5, SameB, Zenon
  <1>7. Full(args, found) \in Point
    BY <1>1, ScalarType, FullIs DEF Called
  <1>8. verify_blind_sign(args) <=> Plus(Full(h, dom), Times(Full(args, found), Minus(0, 1))) = Identity
    BY <1>4, <1>5, Zenon DEF verify_blind_sign, Full
  <1>9. SignedAs(args) <=> Covers(args, Honest)
    BY <1>1, SignedAsIs DEF Called
  <1>10. verify_blind_sign(args) <=> Full(h, dom) = Full(args, found)
    BY <1>4, <1>7, <1>8, DifferenceNone
  <1> QED BY <1>2, <1>6, <1>9, <1>10, Zenon

-----------------------------------------------------------------------------
(* What a presentation discloses, hides and commits to.                    *)

LEMMA ChosenType ==
  ASSUME NEW l \in Nat, NEW d \in [1 .. l -> Disclosure], NEW choice
  PROVE  Indexing(Chosen(d, choice), l, {i \in 1 .. l : d[i] = choice})
  <1>1. d \in Seq(Disclosure) /\ Len(d) = l /\ DOMAIN d = 1 .. l
    BY ONLY l \in Nat, d \in [1 .. l -> Disclosure]
  <1>2. Chosen(d, choice) = IndexesIn(l, {i \in 1 .. l : d[i] = choice})
    BY <1>1, Zenon DEF Chosen
  <1> QED BY <1>2, IndexesType, Zenon

LEMMA ShiftedType ==
  ASSUME NEW l \in Nat, NEW d \in [1 .. l -> Disclosure], NEW n \in 0 .. l, NEW choice
  PROVE  Slots(Shifted(Chosen(d, choice), n), Chosen(d, choice), l, n)
  <1>1. PICK c : c = Chosen(d, choice)
    OBVIOUS
  <1>2. Indexing(c, l, {i \in 1 .. l : d[i] = choice})
    BY <1>1, ChosenType
  <1>3. PICK m \in Nat : m = Len(c) /\ c \in Seq(Nat)
    BY <1>2 DEF Indexing
  <1>4. DOMAIN c = 1 .. m
    BY <1>3
  <1>5. \A i \in 1 .. m : c[i] \in 1 .. l
    BY <1>2, <1>3 DEF Indexing
  <1>6. \A i, j \in 1 .. m : c[i] = c[j] => i = j
    BY <1>2, <1>3 DEF Indexing
  <1>7. PICK s : s = Shifted(c, n)
    OBVIOUS
  <1>8. s = [i \in 1 .. m |-> proof_index(c[i], n)]
    BY <1>4, <1>7, Zenon DEF Shifted
  <1>9. \A i \in 1 .. m : proof_index(c[i], n) \in 1 .. l + 1 /\ proof_index(c[i], n) # n + 1
    BY <1>5 DEF proof_index
  <1>10. \A i, j \in 1 .. m : proof_index(c[i], n) = proof_index(c[j], n) => c[i] = c[j]
    BY <1>5 DEF proof_index
  <1>11. s \in [1 .. m -> Nat]
    <2>1. \A i \in 1 .. m : proof_index(c[i], n) \in Nat
      BY <1>9
    <2> QED BY <1>8, <2>1, Zenon
  <1>12. s \in Seq(Nat) /\ Len(s) = m /\ DOMAIN s = 1 .. m
    BY ONLY <1>11, m \in Nat
  <1>13. \A i \in 1 .. m : s[i] = proof_index(c[i], n)
    BY <1>8
  <1>14. \A i \in 1 .. m : /\ c[i] \in 1 .. l /\ s[i] = proof_index(c[i], n)
                            /\ s[i] \in 1 .. l + 1 /\ s[i] # n + 1
    <2>1. TAKE i \in 1 .. m
    <2>2. s[i] = proof_index(c[i], n)
      BY <1>13, Zenon
    <2>3. s[i] \in 1 .. l + 1 /\ s[i] # n + 1
      BY <1>9, <2>2, Zenon
    <2> QED BY <1>5, <2>2, <2>3, Zenon
  <1>15. \A i, j \in 1 .. m : s[i] = s[j] => i = j
    BY <1>6, <1>10, <1>13, Zenon
  <1>16. Slots(s, c, l, n)
    BY <1>3, <1>4, <1>12, <1>14, <1>15, Zenon DEF Slots
  <1> QED BY <1>1, <1>7, <1>16, Zenon

\* A slot holds the message it was made for.
LEMMA SlotScalar ==
  ASSUME NEW l \in Nat, NEW args, args.messages \in Seq(Scalar), Len(args.messages) = l,
         args.issuer_no \in 0 .. l, args.blind \in Scalar, NEW i \in 1 .. l
  PROVE  proof_scalars(args)[proof_index(i, args.issuer_no)] = args.messages[i]
  <1>1. PICK n \in 0 .. l : n = args.issuer_no
    OBVIOUS
  <1>2. CASE i <= n
    <2>1. proof_index(i, n) = i
      BY <1>2 DEF proof_index
    <2> QED BY <1>1, <1>2, <2>1, proof_scalarsType
  <1>3. CASE ~ (i <= n)
    <2>1. proof_index(i, n) = i + 1
      BY <1>3 DEF proof_index
    <2>2. i > n
      BY <1>3
    <2> QED BY <1>1, <2>1, <2>2, proof_scalarsType
  <1> QED BY <1>2, <1>3

LEMMA SelectShown ==
  ASSUME NEW l \in Nat, NEW args, args.messages \in Seq(Scalar), Len(args.messages) = l,
         args.issuer_no \in 0 .. l, args.blind \in Scalar, NEW s, NEW c, Slots(s, c, l, args.issuer_no)
  PROVE  Select(proof_scalars(args), s) = Select(args.messages, c)
  <1>1. DOMAIN s = DOMAIN c
    BY DEF Slots
  <1>2. \A i \in DOMAIN c : proof_scalars(args)[s[i]] = args.messages[c[i]]
    <2>1. TAKE i \in DOMAIN c
    <2>2. c[i] \in 1 .. l /\ s[i] = proof_index(c[i], args.issuer_no)
      BY Zenon DEF Slots
    <2> QED BY <2>2, SlotScalar
  <1> QED BY <1>1, <1>2, Zenon DEF Select

\* The slots show the split, and which messages they are of.
LEMMA SlotsUnique ==
  ASSUME NEW s, NEW c, NEW e, NEW l \in Nat, NEW n \in 0 .. l, Slots(s, c, l, n), Slots(s, e, l, n)
  PROVE  /\ Len(c) = Len(e)
         /\ \A i \in 1 .. Len(c) : c[i] = e[i]
  <1>1. PICK m \in Nat : m = Len(c) /\ m = Len(e)
    BY DEF Slots
  <1>2. ASSUME NEW i \in 1 .. m PROVE c[i] = e[i]
    <2>1. c[i] \in 1 .. l /\ e[i] \in 1 .. l /\ proof_index(c[i], n) = proof_index(e[i], n)
      BY <1>1, Zenon DEF Slots
    <2> QED BY <2>1 DEF proof_index
  <1> QED BY <1>1, <1>2

LEMMA ChoiceShown ==
  ASSUME NEW l \in Nat, NEW n \in 0 .. l, NEW d \in [1 .. l -> Disclosure], NEW e \in [1 .. l -> Disclosure], NEW choice,
         Shifted(Chosen(d, choice), n) = Shifted(Chosen(e, choice), n), NEW i \in 1 .. l
  PROVE  d[i] = choice => e[i] = choice
  <1>1. PICK c : c = Chosen(d, choice)
    OBVIOUS
  <1>2. PICK f : f = Chosen(e, choice)
    OBVIOUS
  <1>3. PICK s : s = Shifted(c, n) /\ s = Shifted(f, n)
    BY <1>1, <1>2
  <1>4. Slots(s, c, l, n) /\ Slots(s, f, l, n)
    BY <1>1, <1>2, <1>3, ShiftedType
  <1>5. Len(c) = Len(f) /\ \A j \in 1 .. Len(c) : c[j] = f[j]
    BY <1>4, SlotsUnique
  <1>6. Indexing(c, l, {j \in 1 .. l : d[j] = choice}) /\ Indexing(f, l, {j \in 1 .. l : e[j] = choice})
    BY <1>1, <1>2, ChosenType
  <1> SUFFICES ASSUME d[i] = choice PROVE e[i] = choice
    OBVIOUS
  <1>7. PICK j \in 1 .. Len(c) : c[j] = i
    BY <1>6 DEF Indexing
  <1>8. f[j] \in {k \in 1 .. l : e[k] = choice}
    BY <1>5, <1>6, <1>7 DEF Indexing
  <1> QED BY <1>5, <1>7, <1>8

LEMMA DisclosuresShown ==
  ASSUME NEW l \in Nat, NEW n \in 0 .. l, NEW d \in [1 .. l -> Disclosure], NEW e \in [1 .. l -> Disclosure],
         Shifted(Chosen(d, "DISCLOSE"), n) = Shifted(Chosen(e, "DISCLOSE"), n),
         Shifted(Chosen(d, "COMMIT"), n) = Shifted(Chosen(e, "COMMIT"), n)
  PROVE  d = e
  <1>1. ASSUME NEW i \in 1 .. l PROVE d[i] = e[i]
    <2>1. d[i] \in Disclosure /\ e[i] \in Disclosure
      OBVIOUS
    <2>2. (d[i] = "DISCLOSE" <=> e[i] = "DISCLOSE") /\ (d[i] = "COMMIT" <=> e[i] = "COMMIT")
      BY ChoiceShown
    <2> QED BY <2>1, <2>2 DEF Disclosure
  <1> QED BY <1>1

\* The scalars that are not disclosed, in order: the blind's slot, and all that
\* are hidden or committed to.
LEMMA HiddenType ==
  ASSUME NEW l \in Nat, NEW n \in 0 .. l, NEW d \in [1 .. l -> Disclosure], NEW s,
         s = Shifted(Chosen(d, "DISCLOSE"), n)
  PROVE  /\ Without(l + 1, s) = IndexesIn(l + 1, Rest(l + 1, s, Len(s)))
         /\ Indexing(Without(l + 1, s), l + 1, Rest(l + 1, s, Len(s)))
         /\ Len(s) + Len(Without(l + 1, s)) = l + 1
         /\ ToSet(s) \subseteq 1 .. l + 1
  <1>1. PICK c : c = Chosen(d, "DISCLOSE")
    OBVIOUS
  <1>2. Slots(s, c, l, n)
    BY <1>1, ShiftedType
  <1>3. PICK h \in Nat : h = Len(s) /\ DOMAIN s = 1 .. h
    BY <1>2 DEF Slots
  <1>4. (\A i \in 1 .. h : s[i] \in 1 .. l + 1) /\ \A i, j \in 1 .. h : s[i] = s[j] => i = j
    BY <1>2, <1>3, Zenon DEF Slots
  <1>5. PICK m \in Nat : m = l + 1
    OBVIOUS
  <1>6. ToSet(s) = {s[i] : i \in 1 .. h}
    BY <1>3, Zenon DEF ToSet
  <1>7. Without(m, s) = IndexesIn(m, Rest(m, s, h))
    BY <1>6, Zenon DEF Without, Rest
  <1>8. Indexing(IndexesIn(m, Rest(m, s, h)), m, Rest(m, s, h))
    BY IndexesType
  <1>9. h + Len(IndexesIn(m, Rest(m, s, h))) = m
    BY <1>4, <1>5, PartitionLength
  <1>10. \A i \in 1 .. h : s[i] \in 1 .. m
    BY <1>4, <1>5, Zenon
  <1>11. ToSet(s) \subseteq 1 .. m
    BY <1>6, <1>10, Zenon
  <1>12. /\ Without(m, s) = IndexesIn(m, Rest(m, s, Len(s)))
         /\ Indexing(Without(m, s), m, Rest(m, s, Len(s)))
         /\ Len(s) + Len(Without(m, s)) = m
         /\ ToSet(s) \subseteq 1 .. m
    BY <1>3, <1>7, <1>8, <1>9, <1>11, Zenon
  <1> QED BY <1>5, <1>12, Zenon

\* What is committed to is hidden.
LEMMA CommittedHidden ==
  ASSUME NEW l \in Nat, NEW n \in 0 .. l, NEW d \in [1 .. l -> Disclosure], NEW s, NEW t,
         s = Shifted(Chosen(d, "DISCLOSE"), n), t = Shifted(Chosen(d, "COMMIT"), n), NEW i \in 1 .. Len(t)
  PROVE  \E j \in 1 .. Len(Without(l + 1, s)) : Without(l + 1, s)[j] = t[i]
  <1>1. PICK c : c = Chosen(d, "DISCLOSE")
    OBVIOUS
  <1>2. PICK e : e = Chosen(d, "COMMIT")
    OBVIOUS
  <1>3. Slots(s, c, l, n) /\ Slots(t, e, l, n)
    BY <1>1, <1>2, ShiftedType
  <1>4. Indexing(c, l, {j \in 1 .. l : d[j] = "DISCLOSE"}) /\ Indexing(e, l, {j \in 1 .. l : d[j] = "COMMIT"})
    BY <1>1, <1>2, ChosenType
  <1>5. ASSUME NEW j \in 1 .. Len(s) PROVE s[j] # t[i]
    <2>1. Len(s) = Len(c) /\ Len(t) = Len(e)
      BY <1>3 DEF Slots
    <2>2. /\ c[j] \in 1 .. l /\ s[j] = proof_index(c[j], n)
          /\ e[i] \in 1 .. l /\ t[i] = proof_index(e[i], n)
      BY <1>3, <2>1, Zenon DEF Slots
    <2>3. c[j] \in {k \in 1 .. l : d[k] = "DISCLOSE"} /\ e[i] \in {k \in 1 .. l : d[k] = "COMMIT"}
      BY <1>4, <2>1, Zenon DEF Indexing
    <2>4. d[c[j]] = "DISCLOSE" /\ d[e[i]] = "COMMIT"
      BY <2>3
    <2>5. c[j] # e[i]
      BY <2>4
    <2> QED BY <2>2, <2>5 DEF proof_index
  <1>6. t[i] \in 1 .. l + 1
    <2>1. Len(t) = Len(e)
      BY <1>3 DEF Slots
    <2> QED BY <1>3, <2>1, Zenon DEF Slots
  <1>7. t[i] \in Rest(l + 1, s, Len(s))
    BY <1>5, <1>6 DEF Rest
  <1>8. Indexing(Without(l + 1, s), l + 1, Rest(l + 1, s, Len(s)))
    BY HiddenType
  <1> QED BY <1>6, <1>7, <1>8 DEF Indexing

-----------------------------------------------------------------------------
(* blind_proof_gen_init.                                                   *)

DisclosedBy(pr) == Shifted(Chosen(pr.disclosures, "DISCLOSE"), pr.args.issuer_no)
CommittedBy(pr) == Shifted(Chosen(pr.disclosures, "COMMIT"), pr.args.issuer_no)
HiddenBy(pr) == Without(Len(proof_scalars(pr.args)), DisclosedBy(pr))

\* The start of a proof, of B with the keys in it, under the points ps.
InitOf(sg, B, r, ps, dom) ==
  LET d == Times(B, r[2])
      abar == Times(sg.a, (r[1] * r[2]) % q)
  IN  [abar |-> abar,
       bbar |-> Plus(Times(d, r[1]), Times(abar, Minus(0, sg.e))),
       d |-> d,
       t1 |-> Plus(Times(abar, r[3]), Times(d, r[4])),
       t2 |-> Plus(Times(d, r[5]), sumprod(ps, SubSeq(r, 6, Len(r)))),
       domain |-> dom]

\* The solver updates a record one field at a time.
LEMMA WithKeysIs ==
  ASSUME NEW i, NEW r, NEW ks,
         i = [abar |-> i.abar, bbar |-> i.bbar, d |-> i.d, t1 |-> i.t1, t2 |-> i.t2, domain |-> i.domain]
  PROVE  WithKeys(i, r, ks)
           = [abar |-> i.abar, bbar |-> Plus(i.bbar, Times(Times(sum_points(ks), r[2]), r[1])),
              d |-> Plus(i.d, Times(sum_points(ks), r[2])),
              t1 |-> Plus(i.t1, Times(Times(sum_points(ks), r[2]), r[4])),
              t2 |-> Plus(i.t2, Times(Times(sum_points(ks), r[2]), r[5])), domain |-> i.domain]
  <1>12. PICK a, b, d, t, u, e : a = i.abar /\ b = i.bbar /\ d = i.d /\ t = i.t1 /\ u = i.t2 /\ e = i.domain
    OBVIOUS
  <1>13. i = [abar |-> a, bbar |-> b, d |-> d, t1 |-> t, t2 |-> u, domain |-> e]
    BY <1>12
  <1>14. PICK p, v, w, x : /\ p = Times(sum_points(ks), r[2]) /\ v = Times(p, r[1])
                           /\ w = Times(p, r[4]) /\ x = Times(p, r[5])
    OBVIOUS
  <1>1. i.d = d /\ i.bbar = b /\ i.t1 = t /\ i.t2 = u
    BY <1>12
  <1>2. PICK i1 : i1 = [i EXCEPT !.d = Plus(d, p)]
    OBVIOUS
  <1>3. PICK i2 : i2 = [i1 EXCEPT !.bbar = Plus(b, v)]
    OBVIOUS
  <1>4. PICK i3 : i3 = [i2 EXCEPT !.t1 = Plus(t, w)]
    OBVIOUS
  <1>5. PICK i4 : i4 = [i3 EXCEPT !.t2 = Plus(u, x)]
    OBVIOUS
  <1>6. i1 = [abar |-> a, bbar |-> b, d |-> Plus(d, p), t1 |-> t, t2 |-> u, domain |-> e]
    BY ONLY <1>2, <1>13
  <1>7. i2 = [abar |-> a, bbar |-> Plus(b, v), d |-> Plus(d, p), t1 |-> t, t2 |-> u, domain |-> e]
    BY ONLY <1>3, <1>6
  <1>8. i3 = [abar |-> a, bbar |-> Plus(b, v), d |-> Plus(d, p), t1 |-> Plus(t, w), t2 |-> u, domain |-> e]
    BY ONLY <1>4, <1>7
  <1>9. i4 = [abar |-> a, bbar |-> Plus(b, v), d |-> Plus(d, p), t1 |-> Plus(t, w), t2 |-> Plus(u, x), domain |-> e]
    BY ONLY <1>5, <1>8
  <1>10. [i EXCEPT !.d = Plus(@, p), !.bbar = Plus(@, v), !.t1 = Plus(@, w), !.t2 = Plus(@, x)] = i4
    BY ONLY <1>1, <1>2, <1>3, <1>4, <1>5
  <1>11. WithKeys(i, r, ks)
           = [i EXCEPT !.d = Plus(@, p), !.bbar = Plus(@, v), !.t1 = Plus(@, w), !.t2 = Plus(@, x)]
    BY <1>14, Zenon DEF WithKeys
  <1> QED BY <1>9, <1>10, <1>11, <1>12, <1>14, Zenon

\* The sum of the keys, added after, is in B as if it had been there.
LEMMA InitIs ==
  ASSUME Case, NEW args, ArgsType(args), NEW dom \in Int, NEW r \in Seq(NotZero), Len(r) >= 5,
         NEW zs \in Seq(Int), Len(zs) = Len(args.keys), \A i \in 1 .. Len(args.keys) : zs[i] = 0, NEW slots,
         sumprod(PointsAt(GeneratorsOf(args), slots), SubSeq(r, 6, Len(r))) \in Point,
         signature.a \in Point, signature.e \in Int
  PROVE  WithKeys(proof_init(GeneratorsOf(args), r, dom, proof_scalars(args) \o zs, slots), r, KeyPoints(args))
           = InitOf(signature, Full(args, dom), r, PointsAt(GeneratorsOf(args), slots), dom)
  <1>1. PICK gens : gens = GeneratorsOf(args)
    OBVIOUS
  <1>2. PICK M : M = compute_b(gens, proof_scalars(args) \o zs, dom)
    OBVIOUS
  <1>3. PICK ks : ks = KeyPoints(args)
    OBVIOUS
  <1>4. PICK K \in Point : K = sum_points(ks)
    BY <1>3, KeysType DEF Keyed
  <1>5. /\ M \in Point /\ Full(args, dom) = Plus(M, K)
    <2>1. PICK l \in Nat : /\ l = shape.issuer + shape.committed /\ Len(args.messages) = l
                           /\ args.issuer_no \in 0 .. l /\ proof_scalars(args) \in Seq(Int)
                           /\ Len(proof_scalars(args)) = l + 1
      BY ArgsIs
    <2>2. PICK n \in 0 .. l : n = args.issuer_no
      BY <2>1
    <2>3. PICK k \in Nat : k = Len(args.keys)
      BY KeysType
    <2>4. PICK ss \in Seq(Int) : ss = proof_scalars(args) /\ Len(ss) = l + 1
      BY <2>1
    <2>5. gens = all_generators(n, l, k)
      BY <1>1, <2>1, <2>2, <2>3, Zenon DEF GeneratorsOf
    <2>6. compute_b(all_generators(n, l, k), ss \o zs, dom) = Messaged(n, l, dom, ss)
      BY <2>3, <2>4, compute_bOfZeros
    <2>7. M = Messaged(n, l, dom, ss)
      BY <1>2, <2>4, <2>5, <2>6, Zenon
    <2>8. Messaged(n, l, dom, ss) \in Point
      BY <2>4, MessagedType
    <2>9. Full(args, dom) = Plus(Messaged(n, l, dom, ss), K)
      BY <1>3, <1>4, <2>1, <2>2, <2>4, FullIs, Zenon
    <2> QED BY <2>7, <2>8, <2>9, Zenon
  <1>6. r[1] \in Int /\ r[2] \in Int /\ r[3] \in Int /\ r[4] \in Int /\ r[5] \in Int /\ (r[1] * r[2]) % q \in Int
    <2>1. \A i \in 1 .. 5 : r[i] \in NotZero
      BY ONLY r \in Seq(NotZero), Len(r) >= 5
    <2>2. \A i \in 1 .. 5 : r[i] \in Int
      BY <2>1, NotZeroIsScalar
    <2>3. r[1] * r[2] \in Int
      BY <2>2
    <2> QED BY <2>2, <2>3, Remainder
  <1>7. PICK r1 \in Int : r1 = r[1]
    BY <1>6
  <1>8. PICK r2 \in Int : r2 = r[2]
    BY <1>6
  <1>9. PICK r4 \in Int : r4 = r[4]
    BY <1>6
  <1>10. PICK r5 \in Int : r5 = r[5]
    BY <1>6
  <1>11. PICK abar \in Point : abar = Times(signature.a, (r[1] * r[2]) % q)
    BY <1>6, TimesAt
  <1>12. PICK x \in Point : x = Times(abar, Minus(0, signature.e))
    <2>1. Minus(0, signature.e) \in Int
      BY MinusType
    <2> QED BY <1>11, <2>1, TimesAt
  <1>13. PICK y \in Point : y = Times(abar, r[3])
    BY <1>6, <1>11, TimesAt
  <1>14. PICK z \in Point : z = sumprod(PointsAt(gens, slots), SubSeq(r, 6, Len(r)))
    BY <1>1, Zenon
  <1>15. PICK dM \in Point : dM = Times(M, r2)
    BY <1>5, <1>8, TimesAt
  <1>16. PICK dK \in Point : dK = Times(K, r2)
    BY <1>4, <1>8, TimesAt
  <1>17. PICK dF \in Point : dF = Times(Full(args, dom), r2)
    BY <1>4, <1>5, <1>8, TimesAt, PlusAt
  <1>18. dF = Plus(dM, dK)
    BY <1>4, <1>5, <1>8, <1>15, <1>16, <1>17, TimesPlus
  <1>19. PICK m1 \in Point : m1 = Times(dM, r1)
    BY <1>7, <1>15, TimesAt
  <1>20. PICK m2 \in Point : m2 = Times(dM, r4)
    BY <1>9, <1>15, TimesAt
  <1>21. PICK m3 \in Point : m3 = Times(dM, r5)
    BY <1>10, <1>15, TimesAt
  <1>22. PICK k1 \in Point : k1 = Times(dK, r1)
    BY <1>7, <1>16, TimesAt
  <1>23. PICK k2 \in Point : k2 = Times(dK, r4)
    BY <1>9, <1>16, TimesAt
  <1>24. PICK k3 \in Point : k3 = Times(dK, r5)
    BY <1>10, <1>16, TimesAt
  <1>25. /\ Times(dF, r1) = Plus(m1, k1) /\ Times(dF, r4) = Plus(m2, k2)
         /\ Times(dF, r5) = Plus(m3, k3)
    <2>1. \A s \in Int : Times(dF, s) = Plus(Times(dM, s), Times(dK, s))
      BY <1>15, <1>16, <1>18, TimesPlus
    <2> QED BY <1>7, <1>9, <1>10, <1>19, <1>20, <1>21, <1>22, <1>23, <1>24, <2>1
  <1>26. /\ Plus(Plus(m1, x), k1) = Plus(Times(dF, r1), x)
         /\ Plus(Plus(y, m2), k2) = Plus(y, Times(dF, r4))
         /\ Plus(Plus(m3, z), k3) = Plus(Times(dF, r5), z)
    <2>1. Plus(Plus(m1, x), k1) = Plus(Plus(m1, k1), x)
      BY <1>12, PlusSwap
    <2>2. Plus(Plus(y, m2), k2) = Plus(y, Plus(m2, k2))
      BY <1>13, PlusAssociates
    <2>3. Plus(Plus(m3, z), k3) = Plus(Plus(m3, k3), z)
      BY <1>14, PlusSwap
    <2> QED BY <1>25, <2>1, <2>2, <2>3, Zenon
  <1>27. PICK init : init = [abar |-> abar, bbar |-> Plus(m1, x), d |-> dM, t1 |-> Plus(y, m2),
                             t2 |-> Plus(m3, z), domain |-> dom]
    OBVIOUS
  <1>28. proof_init(gens, r, dom, proof_scalars(args) \o zs, slots) = init
    <2>1. m1 = Times(dM, r1) /\ m2 = Times(dM, r4) /\ m3 = Times(dM, r5)
      BY <1>19, <1>20, <1>21
    <2>2. PICK ss : ss = proof_scalars(args) \o zs
      OBVIOUS
    <2>3. M = compute_b(gens, ss, dom)
      BY <1>2, <2>2, Zenon
    <2>4. proof_init(gens, r, dom, ss, slots)
            = [abar |-> Times(signature.a, (r[1] * r[2]) % q),
               bbar |-> Plus(Times(Times(M, r[2]), r[1]),
                             Times(Times(signature.a, (r[1] * r[2]) % q), Minus(0, signature.e))),
               d |-> Times(M, r[2]),
               t1 |-> Plus(Times(Times(signature.a, (r[1] * r[2]) % q), r[3]), Times(Times(M, r[2]), r[4])),
               t2 |-> Plus(Times(Times(M, r[2]), r[5]),
                           sumprod([i \in DOMAIN slots |-> gens[slots[i] + 1]], SubSeq(r, 6, Len(r)))),
               domain |-> dom]
      BY <2>3 DEF proof_init, Once
    <2>5. proof_init(gens, r, dom, ss, slots)
            = [abar |-> abar, bbar |-> Plus(Times(dM, r1), x), d |-> dM, t1 |-> Plus(y, Times(dM, r4)),
               t2 |-> Plus(Times(dM, r5), z), domain |-> dom]
      BY <2>4, <1>7, <1>8, <1>9, <1>10, <1>11, <1>12, <1>13, <1>14, <1>15, Zenon DEF PointsAt
    <2> QED BY <1>27, <2>1, <2>2, <2>5, Zenon
  <1>29. WithKeys(init, r, ks) = [abar |-> abar, bbar |-> Plus(Plus(m1, x), k1), d |-> Plus(dM, dK),
                                  t1 |-> Plus(Plus(y, m2), k2), t2 |-> Plus(Plus(m3, z), k3),
                                  domain |-> dom]
    <2>1. k1 = Times(dK, r1) /\ k2 = Times(dK, r4) /\ k3 = Times(dK, r5)
      BY <1>22, <1>23, <1>24
    <2>2. /\ dK = Times(sum_points(ks), r[2]) /\ k1 = Times(dK, r[1])
          /\ k2 = Times(dK, r[4]) /\ k3 = Times(dK, r[5])
      BY <1>4, <1>7, <1>8, <1>9, <1>10, <1>16, <2>1, Zenon
    <2>3. /\ init = [abar |-> init.abar, bbar |-> init.bbar, d |-> init.d, t1 |-> init.t1, t2 |-> init.t2,
                     domain |-> init.domain]
          /\ init.abar = abar /\ init.bbar = Plus(m1, x) /\ init.d = dM /\ init.t1 = Plus(y, m2)
          /\ init.t2 = Plus(m3, z) /\ init.domain = dom
      BY <1>27
    <2>4. WithKeys(init, r, ks)
            = [abar |-> init.abar, bbar |-> Plus(init.bbar, Times(Times(sum_points(ks), r[2]), r[1])),
               d |-> Plus(init.d, Times(sum_points(ks), r[2])),
               t1 |-> Plus(init.t1, Times(Times(sum_points(ks), r[2]), r[4])),
               t2 |-> Plus(init.t2, Times(Times(sum_points(ks), r[2]), r[5])), domain |-> init.domain]
      BY ONLY <2>3, WithKeysIs, Zenon
    <2> QED BY <2>2, <2>3, <2>4, Zenon
  <1>30. WithKeys(init, r, ks) = [abar |-> abar, bbar |-> Plus(Times(dF, r1), x), d |-> dF,
                                  t1 |-> Plus(y, Times(dF, r4)), t2 |-> Plus(Times(dF, r5), z), domain |-> dom]
    BY <1>18, <1>26, <1>29, Zenon
  <1>31. InitOf(signature, Full(args, dom), r, PointsAt(gens, slots), dom)
           = [abar |-> abar, bbar |-> Plus(Times(dF, r1), x), d |-> dF,
              t1 |-> Plus(y, Times(dF, r4)), t2 |-> Plus(Times(dF, r5), z), domain |-> dom]
    BY <1>7, <1>8, <1>9, <1>10, <1>11, <1>12, <1>13, <1>14, <1>17, Zenon DEF InitOf
  <1> QED BY <1>1, <1>3, <1>28, <1>30, <1>31, Zenon

\* The scalars of one presentation: its randomness, a scalar per key, and for
\* each commitment its opening and the blind of its proof.
LEMMA DrawnParts ==
  ASSUME NEW D \in Seq(NotZero), NEW u \in Nat, NEW k \in Nat, NEW n \in Nat, Len(D) = 5 + u + 2 * k + 2 * n
  PROVE  /\ SubSeq(D, 1, 5 + u + k) \in Seq(NotZero) /\ Len(SubSeq(D, 1, 5 + u + k)) = 5 + u + k
         /\ SubSeq(D, 6 + u + k, 5 + u + 2 * k) \in Seq(NotZero) /\ Len(SubSeq(D, 6 + u + k, 5 + u + 2 * k)) = k
         /\ SubSeq(D, 6 + u + 2 * k, 5 + u + 2 * k + n) \in Seq(NotZero)
         /\ Len(SubSeq(D, 6 + u + 2 * k, 5 + u + 2 * k + n)) = n
         /\ SubSeq(D, 6 + u + 2 * k + n, 5 + u + 2 * k + 2 * n) \in Seq(NotZero)
         /\ Len(SubSeq(D, 6 + u + 2 * k + n, 5 + u + 2 * k + 2 * n)) = n
  <1>1. ASSUME NEW a \in Nat, NEW m \in Nat, a + m <= Len(D), NEW x, x = a + 1, NEW y, y = a + m
        PROVE  SubSeq(D, x, y) \in Seq(NotZero) /\ Len(SubSeq(D, x, y)) = m
    BY ONLY <1>1, RandomsMiddle, D \in Seq(NotZero), a \in Nat, m \in Nat
  <1>2. PICK L \in Nat : L = Len(D) /\ L = 5 + u + 2 * k + 2 * n
    OBVIOUS
  <1>3. PICK a \in Nat : a = 5 + u + k
    OBVIOUS
  <1>4. PICK b \in Nat : b = 5 + u + 2 * k
    OBVIOUS
  <1>5. PICK c \in Nat : c = 5 + u + 2 * k + n
    OBVIOUS
  <1>6. SubSeq(D, 1, a) \in Seq(NotZero) /\ Len(SubSeq(D, 1, a)) = a
    <2>1. 0 \in Nat /\ 0 + a <= L /\ 1 = 0 + 1 /\ a = 0 + a
      BY <1>2, <1>3
    <2> QED BY <1>1, <1>2, <2>1
  <1>7. SubSeq(D, 6 + u + k, b) \in Seq(NotZero) /\ Len(SubSeq(D, 6 + u + k, b)) = k
    <2>1. a + k <= L /\ 6 + u + k = a + 1 /\ b = a + k
      BY <1>2, <1>3, <1>4
    <2> QED BY <1>1, <1>2, <2>1
  <1>8. SubSeq(D, 6 + u + 2 * k, c) \in Seq(NotZero) /\ Len(SubSeq(D, 6 + u + 2 * k, c)) = n
    <2>1. b + n <= L /\ 6 + u + 2 * k = b + 1 /\ c = b + n
      BY <1>2, <1>4, <1>5
    <2> QED BY <1>1, <1>2, <2>1
  <1>9. SubSeq(D, 6 + u + 2 * k + n, L) \in Seq(NotZero) /\ Len(SubSeq(D, 6 + u + 2 * k + n, L)) = n
    <2>1. c + n <= L /\ 6 + u + 2 * k + n = c + 1 /\ L = c + n
      BY <1>2, <1>5
    <2> QED BY <1>1, <1>2, <2>1
  <1> QED BY <1>2, <1>3, <1>4, <1>5, <1>6, <1>7, <1>8, <1>9, Zenon

\* The scalars that a proof hides: those of messages, and the keys' randomness.
HiddenScalars(pr) ==
  Select(proof_scalars(pr.args), HiddenBy(pr)) \o [i \in 1 .. Len(pr.args.keys) |-> Minus(0, pr.r_key[i])]

\* The slots of the hidden scalars, the keys' after all others.
HiddenSlots(pr) == HiddenBy(pr) \o Following(Len(proof_scalars(pr.args)), Len(pr.args.keys))

\* The keys that args name, randomised.
Tildes(st, pr) ==
  [i \in 1 .. Len(pr.args.keys) |->
     Plus(Times(Generator("HK", pr.args.keys[i]), st[1 + pr.args.keys[i]]), Times(Generator("HK", i), pr.r_key[i]))]

CommitmentsOf(pr) ==
  [i \in 1 .. Len(CommittedBy(pr)) |->
     sumprod(com_dis_generators, <<pr.openings[i], proof_scalars(pr.args)[CommittedBy(pr)[i]]>>)]

CommitmentProofsOf(pr) ==
  [i \in 1 .. Len(CommittedBy(pr)) |->
     sumprod(com_dis_generators,
             <<pr.s_tilde[i], pr.random[5 + PositionOf(CommittedBy(pr)[i], HiddenBy(pr))]>>)]

\* What a presentation of B, under its domain, hashes to its challenge.
Challenged(sg, pr, B, dom) ==
  ProofInput(InitOf(sg, B, pr.random, PointsAt(GeneratorsOf(pr.args), HiddenSlots(pr)), dom),
             pr.commitments, CommitmentProofsOf(pr), CommittedBy(pr), pr.pk_tildes,
             Select(proof_scalars(pr.args), DisclosedBy(pr)), DisclosedBy(pr), pr.ph)

\* The proof p of B: the points of its start, and the responses to its challenge.
Responses(sg, pr, p, B) ==
  /\ p.abar = Times(sg.a, (pr.random[1] * pr.random[2]) % q)
  /\ p.d = Times(B, pr.random[2])
  /\ p.bbar = Plus(Times(p.d, pr.random[1]), Times(p.abar, Minus(0, sg.e)))
  /\ p.ehat = (pr.random[3] + sg.e * p.challenge) % q
  /\ p.r1hat = Minus(pr.random[4], pr.random[1] * p.challenge)
  /\ p.r3hat = Minus(pr.random[5], Invert(pr.random[2]) * p.challenge)
  /\ p.m_hat = [i \in DOMAIN HiddenScalars(pr) |-> (pr.random[5 + i] + HiddenScalars(pr)[i] * p.challenge) % q]

\* The scalars drawn for a presentation.
Randomised(pr) ==
  /\ pr.random \in Seq(NotZero) /\ Len(pr.random) = 5 + Len(HiddenBy(pr)) + Len(pr.args.keys)
  /\ pr.r_key \in Seq(NotZero) /\ Len(pr.r_key) = Len(pr.args.keys)
  /\ pr.openings \in Seq(NotZero) /\ Len(pr.openings) = Len(CommittedBy(pr))
  /\ pr.s_tilde \in Seq(NotZero) /\ Len(pr.s_tilde) = Len(CommittedBy(pr))

\* What blind_proof_gen_init returned, o knowing the domain and the challenge.
Presented(st, sg, pr, o) ==
  /\ pr.disclosures \in [1 .. Len(pr.args.messages) -> Disclosure]
  /\ Randomised(pr)
  /\ pr.pk_tildes = Tildes(st, pr)
  /\ pr.commitments = CommitmentsOf(pr)
  /\ pr.s_hat = [i \in 1 .. Len(CommittedBy(pr)) |-> (pr.s_tilde[i] + pr.bbs_proof.challenge * pr.openings[i]) % q]
  /\ \E dom \in Answer : /\ Knows(o, DomainInput(st[1], GeneratorsOf(pr.args), pr.args.header), dom)
                         /\ Responses(sg, pr, pr.bbs_proof, FullOf(st, pr.args, dom))
                         /\ Knows(o, Challenged(sg, pr, FullOf(st, pr.args, dom), dom), pr.bbs_proof.challenge)

LEMMA PresentedKept ==
  ASSUME NEW st, NEW sg, NEW pr, NEW o, NEW p, Presented(st, sg, pr, o), Oracle(o), Oracle(p), Extends(o, p)
  PROVE  Presented(st, sg, pr, p)
  <1>1. PICK dom \in Answer : /\ Knows(o, DomainInput(st[1], GeneratorsOf(pr.args), pr.args.header), dom)
                              /\ Responses(sg, pr, pr.bbs_proof, FullOf(st, pr.args, dom))
                              /\ Knows(o, Challenged(sg, pr, FullOf(st, pr.args, dom), dom), pr.bbs_proof.challenge)
    BY Zenon DEF Presented
  <1>2. /\ Knows(p, DomainInput(st[1], GeneratorsOf(pr.args), pr.args.header), dom)
        /\ Knows(p, Challenged(sg, pr, FullOf(st, pr.args, dom), dom), pr.bbs_proof.challenge)
    BY <1>1, KnowsKept
  <1> QED BY <1>1, <1>2, Zenon DEF Presented

\* How many scalars are disclosed, hidden and committed to.
LEMMA PresentedSizes ==
  ASSUME Case, NEW pr, ArgsType(pr.args), pr.disclosures \in [1 .. Len(pr.args.messages) -> Disclosure]
  PROVE  \E l \in Nat, n \in Nat :
           /\ l = shape.issuer + shape.committed /\ Len(pr.args.messages) = l /\ n \in 0 .. l /\ n = pr.args.issuer_no
           /\ Len(proof_scalars(pr.args)) = l + 1 /\ proof_scalars(pr.args) \in Seq(Scalar)
           /\ proof_scalars(pr.args) \in Seq(Int)
           /\ Slots(DisclosedBy(pr), Chosen(pr.disclosures, "DISCLOSE"), l, n)
           /\ Slots(CommittedBy(pr), Chosen(pr.disclosures, "COMMIT"), l, n)
           /\ Len(CommittedBy(pr)) <= l
           /\ Indexing(HiddenBy(pr), l + 1, Rest(l + 1, DisclosedBy(pr), Len(DisclosedBy(pr))))
           /\ Len(DisclosedBy(pr)) + Len(HiddenBy(pr)) = l + 1
           /\ ToSet(DisclosedBy(pr)) \subseteq 1 .. l + 1
           /\ \A i \in 1 .. Len(CommittedBy(pr)) : \E j \in 1 .. Len(HiddenBy(pr)) : HiddenBy(pr)[j] = CommittedBy(pr)[i]
  <1>1. PICK l \in Nat : /\ l = shape.issuer + shape.committed /\ Len(pr.args.messages) = l
                         /\ pr.args.issuer_no \in 0 .. l /\ proof_scalars(pr.args) \in Seq(Scalar)
                         /\ proof_scalars(pr.args) \in Seq(Int) /\ Len(proof_scalars(pr.args)) = l + 1
    BY ArgsIs
  <1>2. PICK n \in 0 .. l : n = pr.args.issuer_no
    BY <1>1
  <1>3. PICK d \in [1 .. l -> Disclosure] : d = pr.disclosures
    BY <1>1
  <1>4. PICK s : s = Shifted(Chosen(d, "DISCLOSE"), n)
    OBVIOUS
  <1>5. PICK t : t = Shifted(Chosen(d, "COMMIT"), n)
    OBVIOUS
  <1>6. DisclosedBy(pr) = s /\ CommittedBy(pr) = t
    BY <1>2, <1>3, <1>4, <1>5, Zenon DEF DisclosedBy, CommittedBy
  <1>7. HiddenBy(pr) = Without(l + 1, s)
    BY <1>1, <1>6, Zenon DEF HiddenBy
  <1>8. Slots(s, Chosen(d, "DISCLOSE"), l, n) /\ Slots(t, Chosen(d, "COMMIT"), l, n)
    <2>1. /\ Slots(Shifted(Chosen(d, "DISCLOSE"), n), Chosen(d, "DISCLOSE"), l, n)
          /\ Slots(Shifted(Chosen(d, "COMMIT"), n), Chosen(d, "COMMIT"), l, n)
      BY ShiftedType
    <2> QED BY <1>4, <1>5, <2>1, Zenon
  <1>9. /\ Indexing(Without(l + 1, s), l + 1, Rest(l + 1, s, Len(s)))
        /\ Len(s) + Len(Without(l + 1, s)) = l + 1
        /\ ToSet(s) \subseteq 1 .. l + 1
    BY <1>4, HiddenType, Zenon
  <1>10. \A i \in 1 .. Len(t) : \E j \in 1 .. Len(Without(l + 1, s)) : Without(l + 1, s)[j] = t[i]
    <2>1. TAKE i \in 1 .. Len(t)
    <2> QED BY <1>4, <1>5, CommittedHidden
  <1>11. Len(t) <= l
    \* Its slots are among the l slots of messages, each once.
    <2>1. Slots(t, Chosen(d, "COMMIT"), l, n)
      BY <1>8
    <2>2. PICK c : c = Chosen(d, "COMMIT")
      OBVIOUS
    <2>3. Indexing(c, l, {i \in 1 .. l : d[i] = "COMMIT"})
      BY <2>2, ChosenType
    <2>4. PICK h \in Nat : h = Len(c) /\ Len(t) = h
      BY <2>1, <2>2, <2>3 DEF Slots, Indexing
    <2>5. (\A i \in 1 .. h : c[i] \in 1 .. l) /\ \A i, j \in 1 .. h : c[i] = c[j] => i = j
      BY <2>3, <2>4, Zenon DEF Indexing
    <2>6. h + Len(IndexesIn(l, Rest(l, c, h))) = l
      BY <2>5, PartitionLength
    <2>7. Len(IndexesIn(l, Rest(l, c, h))) \in Nat
      BY IndexesType DEF Indexing
    <2> QED BY <2>4, <2>6, <2>7
  <1>12. n \in Nat
    OBVIOUS
  <1>13. /\ Slots(DisclosedBy(pr), Chosen(pr.disclosures, "DISCLOSE"), l, n)
         /\ Slots(CommittedBy(pr), Chosen(pr.disclosures, "COMMIT"), l, n)
    BY <1>3, <1>6, <1>8, Zenon
  <1>14. /\ Indexing(HiddenBy(pr), l + 1, Rest(l + 1, DisclosedBy(pr), Len(DisclosedBy(pr))))
         /\ Len(DisclosedBy(pr)) + Len(HiddenBy(pr)) = l + 1
         /\ ToSet(DisclosedBy(pr)) \subseteq 1 .. l + 1
    BY <1>6, <1>7, <1>9, Zenon
  <1>15. \A i \in 1 .. Len(CommittedBy(pr)) : \E j \in 1 .. Len(HiddenBy(pr)) : HiddenBy(pr)[j] = CommittedBy(pr)[i]
    BY <1>6, <1>7, <1>10, Zenon
  <1>16. Len(CommittedBy(pr)) <= l
    BY <1>6, <1>11, Zenon
  <1> QED BY <1>1, <1>2, <1>12, <1>13, <1>14, <1>15, <1>16, Zenon

\* The start of a proof, computed key sum and all, is that of B.
LEMMA StartIs ==
  ASSUME Case, NEW pr, ArgsType(pr.args), pr.disclosures \in [1 .. Len(pr.args.messages) -> Disclosure],
         pr.random \in Seq(NotZero), Len(pr.random) = 5 + Len(HiddenBy(pr)) + Len(pr.args.keys),
         NEW dom \in Int, signature.a \in Point, signature.e \in Int
  PROVE  WithKeys(proof_init(GeneratorsOf(pr.args), pr.random, dom,
                             proof_scalars(pr.args) \o [i \in 1 .. Len(pr.args.keys) |-> 0], HiddenSlots(pr)),
                  pr.random, KeyPoints(pr.args))
           = InitOf(signature, Full(pr.args, dom), pr.random, PointsAt(GeneratorsOf(pr.args), HiddenSlots(pr)), dom)
  <1>1. PICK l \in Nat, n \in Nat :
           /\ l = shape.issuer + shape.committed /\ Len(pr.args.messages) = l /\ n \in 0 .. l /\ n = pr.args.issuer_no
           /\ Len(proof_scalars(pr.args)) = l + 1
           /\ Indexing(HiddenBy(pr), l + 1, Rest(l + 1, DisclosedBy(pr), Len(DisclosedBy(pr))))
    BY PresentedSizes
  <1>2. PICK k \in Nat : k = Len(pr.args.keys)
    BY KeysType
  <1>3. PICK args : args = pr.args
    OBVIOUS
  <1>4. PICK r \in Seq(NotZero) : r = pr.random
    OBVIOUS
  <1>5. PICK U : U = HiddenBy(pr)
    OBVIOUS
  <1>6. PICK slots : slots = U \o Following(l + 1, k)
    OBVIOUS
  <1>7. HiddenSlots(pr) = slots
    BY <1>1, <1>2, <1>5, <1>6, Zenon DEF HiddenSlots
  <1>8. PICK g : g = GeneratorsOf(args)
    OBVIOUS
  <1>9. g = all_generators(n, l, k)
    BY <1>1, <1>2, <1>3, <1>8, Zenon DEF GeneratorsOf
  <1>10. PICK u \in Nat : u = Len(U)
    BY <1>1, <1>5 DEF Indexing
  <1>11. PointsAt(g, slots) \in Seq(Point) /\ Len(PointsAt(g, slots)) = u + k
    <2>1. /\ PointsAt(g, U) \in Seq(Point) /\ Len(PointsAt(g, U)) = u
          /\ PointsAt(g, slots) = PointsAt(g, U) \o Points("HK", k)
      <3>1. PICK S : Indexing(U, l + 1, S)
        BY <1>1, <1>5, Zenon
      <3>2. n \in 0 .. l
        BY <1>1
      <3>3. PointsWell(l, n, k, U)
        BY <3>1, <3>2, PointsAtWell, Zenon
      <3> QED BY <1>6, <1>9, <1>10, <3>3, Zenon DEF PointsWell, KeySlots, KeyedPoints
    <2>2. PICK f \in Seq(Point) : f = PointsAt(g, U) /\ Len(f) = u
      BY <2>1
    <2>3. PICK p \in Seq(Point) : p = Points("HK", k) /\ Len(p) = k
      BY PointsType
    <2>4. f \o p \in Seq(Point) /\ Len(f \o p) = Len(f) + Len(p)
      BY ConcatProperties
    <2> QED BY <2>1, <2>2, <2>3, <2>4, Zenon
  <1>12. Len(r) = 5 + u + k
    BY <1>2, <1>4, <1>5, <1>10, Zenon
  <1>13. SubSeq(r, 6, Len(r)) \in Seq(NotZero) /\ Len(SubSeq(r, 6, Len(r))) = u + k
    <2>1. PICK m \in Nat : m = u + k
      OBVIOUS
    <2>2. PICK h \in Nat : h = Len(r) /\ 5 + m <= h /\ h = 5 + m
      BY <1>12, <2>1
    <2>5. PICK a \in Nat : a = 5
      OBVIOUS
    <2>6. a + m <= Len(r) /\ h = a + m
      BY <2>2, <2>5
    <2>3. SubSeq(r, a + 1, h) \in Seq(NotZero) /\ Len(SubSeq(r, a + 1, h)) = m
      BY ONLY <2>6, RandomsMiddle, a \in Nat, m \in Nat, h \in Nat, r \in Seq(NotZero)
    <2>4. a + 1 = 6
      BY <2>5
    <2> QED BY <2>1, <2>2, <2>3, <2>4, Zenon
  <1>14. sumprod(PointsAt(g, slots), SubSeq(r, 6, Len(r))) \in Point
    <2>1. PICK f \in Seq(Point) : f = PointsAt(g, slots) /\ Len(f) = u + k
      BY <1>11
    <2>2. PICK t \in Seq(Int) : t = SubSeq(r, 6, Len(r)) /\ Len(t) = u + k
      BY <1>13, NotZeroSeq
    <2>3. Len(t) >= Len(f)
      BY <2>1, <2>2
    <2>4. sumprod(f, t) \in Point
      BY ONLY <2>3, SumprodType, f \in Seq(Point), t \in Seq(Int)
    <2> QED BY <2>1, <2>2, <2>4, Zenon
  <1>15. PICK zs : zs = [i \in 1 .. k |-> 0]
    OBVIOUS
  <1>16. zs \in Seq(Int) /\ Len(zs) = k /\ \A i \in 1 .. k : zs[i] = 0
    BY ONLY <1>15, k \in Nat
  <1>17. ArgsType(args)
    BY <1>3
  <1>18. Len(r) >= 5
    BY <1>12
  <1>19. WithKeys(proof_init(g, r, dom, proof_scalars(args) \o zs, slots), r, KeyPoints(args))
           = InitOf(signature, Full(args, dom), r, PointsAt(g, slots), dom)
    <2>1. PICK ks : ks = args.keys /\ Len(ks) = k
      BY <1>2, <1>3
    <2>2. zs \in Seq(Int) /\ Len(zs) = Len(args.keys) /\ \A i \in 1 .. Len(args.keys) : zs[i] = 0
      BY <1>2, <1>3, <1>16, Zenon
    <2>3. sumprod(PointsAt(GeneratorsOf(args), slots), SubSeq(r, 6, Len(r))) \in Point
      BY <1>8, <1>14, Zenon
    <2>4. WithKeys(proof_init(GeneratorsOf(args), r, dom, proof_scalars(args) \o zs, slots), r, KeyPoints(args))
           = InitOf(signature, Full(args, dom), r, PointsAt(GeneratorsOf(args), slots), dom)
      BY ONLY Case, <1>17, <1>18, <2>2, <2>3, InitIs, r \in Seq(NotZero), dom \in Int, signature.a \in Point,
              signature.e \in Int
    <2> QED BY <1>8, <2>4, Zenon
  <1> QED BY <1>2, <1>3, <1>4, <1>7, <1>8, <1>15, <1>19, Zenon

LEMMA ProofGenInitIs ==
  ASSUME Case, drawn \in Nat, Enough(asked), Len(asked) + 2 <= Len(Answers), signature.a \in Point, signature.e \in Int,
         NEW args, ArgsType(args), NEW disclosures \in [DOMAIN args.messages -> Disclosure], NEW ph,
         ProofGenInit(args, disclosures, ph)
  PROVE  /\ Oracle(asked') /\ Extends(asked, asked') /\ Len(asked') <= Len(asked) + 2
         /\ drawn' \in Nat
         /\ drawn' <= drawn + (6 + 3 * (shape.issuer + shape.committed) + 2 * Len(args.keys))
         /\ state'.args = args /\ state'.disclosures = disclosures /\ state'.ph = ph
         /\ state' # NotYet
         /\ Presented(stream, signature, state', asked')
  <1> DEFINE scalars == proof_scalars(args)
             l == Len(scalars)
             k == Len(args.keys)
             disclosed == Shifted(Chosen(disclosures, "DISCLOSE"), args.issuer_no)
             committed == Shifted(Chosen(disclosures, "COMMIT"), args.issuer_no)
             n == Len(committed)
             ji == Without(l, disclosed)
             u == Len(ji)
             drawn_now == calculate(5 + u + 2 * k + 2 * n)
             random == SubSeq(drawn_now, 1, 5 + u + k)
             r_key == SubSeq(drawn_now, 6 + u + k, 5 + u + 2 * k)
             s == SubSeq(drawn_now, 6 + u + 2 * k, 5 + u + 2 * k + n)
             s_tilde == SubSeq(drawn_now, 6 + u + 2 * k + n, 5 + u + 2 * k + 2 * n)
             zeros == [i \in 1 .. k |-> 0]
             negated_r_key == [i \in 1 .. k |-> Minus(0, r_key[i])]
             undisclosed == ji \o [i \in 1 .. k |-> l + i]
             commitments == [i \in 1 .. n |-> sumprod(com_dis_generators, <<s[i], scalars[committed[i]]>>)]
             commitment_proofs ==
               [i \in 1 .. n |-> sumprod(com_dis_generators,
                                         <<s_tilde[i], random[5 + PositionOf(committed[i], ji)]>>)]
             Tilde(generators) == [i \in 1 .. k |-> Plus(KeyPoints(args)[i], Times(generators[l + 1 + i], r_key[i]))]
             Start(generators, domain) ==
               WithKeys(proof_init(generators, random, domain, scalars \o zeros, undisclosed), random, KeyPoints(args))
             Input(init, pk_tildes) ==
               ProofInput(init, commitments, commitment_proofs, committed, pk_tildes,
                          Select(scalars, disclosed), disclosed, ph)
             Result(init, pk_tildes, challenged, oracle, c) ==
               /\ asked' = AskAll(oracle, <<challenged>>)
               /\ state' = [bbs_proof |-> proof_finalize(init, c, random, Select(scalars, ji) \o negated_r_key),
                            commitments |-> commitments,
                            s_hat |-> [i \in 1 .. n |-> (s_tilde[i] + c * s[i]) % q],
                            pk_tildes |-> pk_tildes, r_key |-> r_key, openings |-> s,
                            random |-> random, s_tilde |-> s_tilde,
                            args |-> args, disclosures |-> disclosures, ph |-> ph]
  <1>1. /\ drawn' = drawn + Len(drawn_now)
        /\ \E generators \in {GeneratorsOf(args)} :
           \E input \in {DomainInput(IssuerKey, generators, args.header)}, pk_tildes \in {Tilde(generators)} :
           \E oracle \in {AskAll(asked, <<input>>)} :
           \E init \in {Start(generators, hash_to_scalar(oracle, input))} :
           \E challenged \in {Input(init, pk_tildes)} :
           \E c \in {hash_to_scalar(AskAll(oracle, <<challenged>>), challenged)} :
             Result(init, pk_tildes, challenged, oracle, c)
    BY Zenon DEF ProofGenInit
  <1> HIDE DEF Result, Input, Start, Tilde
  <1>2. PICK gens : gens = GeneratorsOf(args)
    OBVIOUS
  <1>3. PICK x : x = DomainInput(IssuerKey, gens, args.header)
    OBVIOUS
  <1>4. PICK pks : pks = Tilde(gens)
    OBVIOUS
  <1>5. PICK o : o = AskAll(asked, <<x>>)
    OBVIOUS
  <1>6. PICK dom : dom = hash_to_scalar(o, x)
    OBVIOUS
  <1>7. PICK init : init = Start(gens, dom)
    OBVIOUS
  <1>8. PICK y : y = Input(init, pks)
    OBVIOUS
  <1>9. PICK p : p = AskAll(o, <<y>>)
    OBVIOUS
  <1>10. PICK c : c = hash_to_scalar(p, y)
    OBVIOUS
  <1>11. Result(init, pks, y, o, c)
    BY <1>1, <1>2, <1>3, <1>4, <1>5, <1>6, <1>7, <1>8, <1>9, <1>10, ZenonT(60)
  <1> HIDE DEF scalars, l, k, disclosed, committed, n, ji, u, drawn_now, random, r_key, s, s_tilde, zeros, negated_r_key,
               undisclosed, commitments, commitment_proofs
  <1>12. PICK pr : pr = state'
    OBVIOUS
  <1>13. /\ pr.bbs_proof = proof_finalize(init, c, random, Select(scalars, ji) \o negated_r_key)
         /\ pr.commitments = commitments
         /\ pr.s_hat = [i \in 1 .. n |-> (s_tilde[i] + c * s[i]) % q]
         /\ pr.pk_tildes = pks /\ pr.r_key = r_key /\ pr.openings = s
         /\ pr.random = random /\ pr.s_tilde = s_tilde
         /\ pr.args = args /\ pr.disclosures = disclosures /\ pr.ph = ph
         /\ pr # NotYet
    <2>1. PICK a1 : a1 = proof_finalize(init, c, random, Select(scalars, ji) \o negated_r_key)
      OBVIOUS
    <2>2. PICK a2 : a2 = commitments
      OBVIOUS
    <2>3. PICK a3 : a3 = [i \in 1 .. n |-> (s_tilde[i] + c * s[i]) % q]
      OBVIOUS
    <2>4. PICK a5 : a5 = r_key
      OBVIOUS
    <2>5. PICK a6 : a6 = s
      OBVIOUS
    <2>6. PICK a7 : a7 = random
      OBVIOUS
    <2>7. PICK a8 : a8 = s_tilde
      OBVIOUS
    <2>8. pr = [bbs_proof |-> a1, commitments |-> a2, s_hat |-> a3, pk_tildes |-> pks, r_key |-> a5, openings |-> a6,
                random |-> a7, s_tilde |-> a8, args |-> args, disclosures |-> disclosures, ph |-> ph]
      BY <1>11, <1>12, <2>1, <2>2, <2>3, <2>4, <2>5, <2>6, <2>7, Zenon DEF Result
    <2>9. /\ pr.bbs_proof = a1 /\ pr.commitments = a2 /\ pr.s_hat = a3 /\ pr.pk_tildes = pks /\ pr.r_key = a5
          /\ pr.openings = a6 /\ pr.random = a7 /\ pr.s_tilde = a8 /\ pr.args = args
          /\ pr.disclosures = disclosures /\ pr.ph = ph /\ pr # NotYet
      BY ONLY <2>8 DEF NotYet
    <2> QED BY <2>1, <2>2, <2>3, <2>4, <2>5, <2>6, <2>7, <2>9, Zenon
  <1>14. ArgsType(pr.args) /\ pr.disclosures \in [1 .. Len(pr.args.messages) -> Disclosure]
    <2>1. DOMAIN args.messages = 1 .. Len(args.messages)
      BY DEF ArgsType
    <2> QED BY <1>13, <2>1, Zenon
  <1>15. /\ DisclosedBy(pr) = disclosed /\ CommittedBy(pr) = committed
         /\ HiddenBy(pr) = ji
    BY <1>13, Zenon DEF DisclosedBy, CommittedBy, HiddenBy, disclosed, committed, ji, l, scalars
  <1>16. PICK L \in Nat, N \in Nat :
           /\ L = shape.issuer + shape.committed /\ Len(args.messages) = L /\ N \in 0 .. L /\ N = args.issuer_no
           /\ l = L + 1 /\ Len(committed) <= L /\ Len(disclosed) + Len(ji) = L + 1
           /\ Slots(disclosed, Chosen(disclosures, "DISCLOSE"), L, N)
           /\ Slots(committed, Chosen(disclosures, "COMMIT"), L, N)
           /\ Indexing(ji, L + 1, Rest(L + 1, disclosed, Len(disclosed)))
    BY <1>13, <1>14, <1>15, PresentedSizes, Zenon DEF l, scalars
  <1>17. n \in Nat /\ n <= L /\ u \in Nat /\ u <= L + 1 /\ k \in Nat
    <2>1. Len(committed) \in Nat /\ Len(disclosed) \in Nat /\ Len(ji) \in Nat
      BY <1>16 DEF Slots, Indexing
    <2>2. Len(ji) <= L + 1
      BY <1>16, <2>1
    <2>3. k \in Nat
      BY KeysType DEF k
    <2> QED BY <1>16, <2>1, <2>2, <2>3 DEF n, u
  <1>18. drawn_now \in Seq(NotZero) /\ Len(drawn_now) = 5 + u + 2 * k + 2 * n
    <2>1. PICK count \in Nat : count = 5 + u + 2 * k + 2 * n
      BY <1>17
    <2>2. calculate(count) \in Seq(NotZero) /\ Len(calculate(count)) = count
      BY calculateType
    <2> QED BY <2>1, <2>2, Zenon DEF drawn_now
  <1>19. /\ drawn' \in Nat
         /\ drawn' <= drawn + (6 + 3 * (shape.issuer + shape.committed) + 2 * Len(args.keys))
    <2>1. drawn' = drawn + (5 + u + 2 * k + 2 * n)
      BY <1>1, <1>18, Zenon
    <2>2. k = Len(args.keys)
      BY DEF k
    <2>3. PICK v : v = drawn'
      OBVIOUS
    <2>4. v \in Nat /\ v <= drawn + (6 + 3 * L + 2 * k)
      BY <1>17, <2>1, <2>3
    <2> QED BY <1>16, <2>2, <2>3, <2>4, Zenon
  <1>20. /\ random \in Seq(NotZero) /\ Len(random) = 5 + u + k
         /\ r_key \in Seq(NotZero) /\ Len(r_key) = k
         /\ s \in Seq(NotZero) /\ Len(s) = n
         /\ s_tilde \in Seq(NotZero) /\ Len(s_tilde) = n
    <2>1. PICK D \in Seq(NotZero) : D = drawn_now
      BY <1>18
    <2>2. PICK U \in Nat : U = u
      BY <1>17
    <2>3. PICK K \in Nat : K = k
      BY <1>17
    <2>4. PICK M \in Nat : M = n
      BY <1>17
    <2>5. Len(D) = 5 + U + 2 * K + 2 * M
      BY <1>18, <2>1, <2>2, <2>3, <2>4, Zenon
    <2>6. /\ SubSeq(D, 1, 5 + U + K) \in Seq(NotZero) /\ Len(SubSeq(D, 1, 5 + U + K)) = 5 + U + K
          /\ SubSeq(D, 6 + U + K, 5 + U + 2 * K) \in Seq(NotZero) /\ Len(SubSeq(D, 6 + U + K, 5 + U + 2 * K)) = K
          /\ SubSeq(D, 6 + U + 2 * K, 5 + U + 2 * K + M) \in Seq(NotZero)
          /\ Len(SubSeq(D, 6 + U + 2 * K, 5 + U + 2 * K + M)) = M
          /\ SubSeq(D, 6 + U + 2 * K + M, 5 + U + 2 * K + 2 * M) \in Seq(NotZero)
          /\ Len(SubSeq(D, 6 + U + 2 * K + M, 5 + U + 2 * K + 2 * M)) = M
      BY ONLY <2>5, DrawnParts, D \in Seq(NotZero), U \in Nat, K \in Nat, M \in Nat
    <2> QED BY <2>1, <2>2, <2>3, <2>4, <2>6, Zenon DEF random, r_key, s, s_tilde
  <1>21. Randomised(pr)
    BY <1>13, <1>15, <1>20, Zenon DEF Randomised, u, k, n
  <1>22. pks = Tildes(stream, pr)
    <2>1. ASSUME NEW i \in 1 .. k
          PROVE  /\ KeyPoints(args)[i] = Times(Generator("HK", args.keys[i]), stream[1 + args.keys[i]])
                 /\ gens[l + 1 + i] = Generator("HK", i)
      <3>1. KeyPoints(args)[i] = DevicePoint(args.keys[i])
        BY KeysType DEF k
      <3>2. gens = all_generators(N, L, k)
        BY <1>2, <1>16, Zenon DEF GeneratorsOf, k
      <3>3. gens[L + 2 + i] = Generator("HK", i)
        <4>1. PICK K \in Nat : K = k
          BY <1>17
        <4>2. i \in 1 .. K /\ N \in 0 .. L
          BY <1>16, <4>1
        <4>3. all_generators(N, L, K)[L + 2 + i] = Generator("HK", i)
          BY <4>2, GeneratorsType
        <4> QED BY <3>2, <4>1, <4>3, Zenon
      <3>4. l + 1 + i = L + 2 + i
        <4>1. i \in Int
          BY <1>17
        <4> QED BY <1>16, <4>1
      <3> QED BY <3>1, <3>3, <3>4, Zenon DEF DevicePoint, DeviceKey
    <2>2. pks = [i \in 1 .. k |-> Plus(KeyPoints(args)[i], Times(gens[l + 1 + i], r_key[i]))]
      BY <1>4 DEF Tilde
    <2>3. Tildes(stream, pr) = [i \in 1 .. k |-> Plus(Times(Generator("HK", args.keys[i]), stream[1 + args.keys[i]]),
                                                      Times(Generator("HK", i), r_key[i]))]
      BY <1>13, Zenon DEF Tildes, k
    <2> QED BY <2>1, <2>2, <2>3, Zenon
  <1>23. /\ commitments = CommitmentsOf(pr) /\ commitment_proofs = CommitmentProofsOf(pr)
         /\ Select(scalars, ji) \o negated_r_key = HiddenScalars(pr)
         /\ undisclosed = HiddenSlots(pr)
    <2>1. commitments = CommitmentsOf(pr)
      BY <1>13, <1>15, Zenon DEF CommitmentsOf, commitments, n, scalars
    <2>2. commitment_proofs = CommitmentProofsOf(pr)
      BY <1>13, <1>15, Zenon DEF CommitmentProofsOf, commitment_proofs, n, scalars
    <2>3. Select(scalars, ji) \o negated_r_key = HiddenScalars(pr)
      BY <1>13, <1>15, Zenon DEF HiddenScalars, negated_r_key, k, scalars
    <2>4. undisclosed = HiddenSlots(pr)
      BY <1>13, <1>15, Zenon DEF HiddenSlots, undisclosed, k, l, scalars, Following
    <2> QED BY <2>1, <2>2, <2>3, <2>4
  <1>24. Oracle(o) /\ Extends(asked, o) /\ Len(o) <= Len(asked) + 1 /\ Knows(o, x, dom)
    BY <1>5, <1>6, AskOne DEF Enough
  <1>25. Oracle(p) /\ Extends(o, p) /\ Len(p) <= Len(o) + 1 /\ Knows(p, y, c)
    BY <1>9, <1>10, <1>24, AskOne
  <1>26. Len(p) <= Len(asked) + 2 /\ Extends(asked, p) /\ Knows(p, x, dom) /\ Enough(o)
    <2>1. Len(o) \in Nat /\ Len(p) \in Nat /\ Len(asked) \in Nat /\ Len(Answers) \in Nat
      BY <1>24, <1>25, AnswersType DEF Oracle, Enough
    <2>2. Len(p) <= Len(asked) + 2 /\ Len(o) <= Len(Answers)
      BY <1>24, <1>25, <2>1
    <2>3. Extends(asked, p)
      BY <1>24, <1>25, ExtendsTrans DEF Enough
    <2>4. Knows(p, x, dom)
      BY <1>24, <1>25, KnowsKept
    <2> QED BY <1>24, <2>2, <2>3, <2>4 DEF Enough
  <1>27. dom \in Answer /\ dom \in Int
    BY <1>24, <1>26, KnowsType
  <1>28. PICK B : B = Full(args, dom)
    OBVIOUS
  <1>29. init = InitOf(signature, B, random, PointsAt(gens, undisclosed), dom)
    <2>1. Len(pr.random) = 5 + Len(HiddenBy(pr)) + Len(pr.args.keys) /\ pr.random \in Seq(NotZero)
      BY <1>21, Zenon DEF Randomised
    <2>2. WithKeys(proof_init(GeneratorsOf(pr.args), pr.random, dom,
                              proof_scalars(pr.args) \o [i \in 1 .. Len(pr.args.keys) |-> 0], HiddenSlots(pr)),
                   pr.random, KeyPoints(pr.args))
           = InitOf(signature, Full(pr.args, dom), pr.random, PointsAt(GeneratorsOf(pr.args), HiddenSlots(pr)), dom)
      BY <1>14, <1>27, <2>1, StartIs
    <2> QED BY <1>2, <1>7, <1>13, <1>23, <1>28, <2>2, Zenon DEF Start, scalars, zeros, k
  <1>30. y = Challenged(signature, pr, B, dom)
    BY <1>2, <1>8, <1>13, <1>15, <1>23, <1>29, Zenon DEF Challenged, Input, scalars
  <1>31. Responses(signature, pr, pr.bbs_proof, B) /\ pr.bbs_proof.challenge = c
    <2>1. PICK h : h = HiddenScalars(pr)
      OBVIOUS
    <2>2. PICK r : r = random
      OBVIOUS
    <2>3. PICK b : b = pr.bbs_proof
      OBVIOUS
    <2>4. b = proof_finalize(init, c, r, h)
      BY <1>13, <1>23, <2>1, <2>2, <2>3, Zenon
    <2>5. /\ b.abar = init.abar /\ b.bbar = init.bbar /\ b.d = init.d /\ b.challenge = c
          /\ b.ehat = (r[3] + signature.e * c) % q
          /\ b.r1hat = Minus(r[4], r[1] * c)
          /\ b.r3hat = Minus(r[5], Invert(r[2]) * c)
          /\ b.m_hat = [i \in DOMAIN h |-> (r[5 + i] + h[i] * c) % q]
      <3>1. PICK z1 : z1 = init.abar
        OBVIOUS
      <3>2. PICK z2 : z2 = init.bbar
        OBVIOUS
      <3>3. PICK z3 : z3 = init.d
        OBVIOUS
      <3>4. PICK z4 : z4 = (r[3] + signature.e * c) % q
        OBVIOUS
      <3>5. PICK z5 : z5 = Minus(r[4], r[1] * c)
        OBVIOUS
      <3>6. PICK z6 : z6 = Minus(r[5], Invert(r[2]) * c)
        OBVIOUS
      <3>7. PICK z7 : z7 = [i \in DOMAIN h |-> (r[5 + i] + h[i] * c) % q]
        OBVIOUS
      <3>8. b = [abar |-> z1, bbar |-> z2, d |-> z3, challenge |-> c, ehat |-> z4, r1hat |-> z5, r3hat |-> z6,
                 m_hat |-> z7]
        BY <2>4, <3>1, <3>2, <3>3, <3>4, <3>5, <3>6, <3>7, Zenon DEF proof_finalize
      <3>9. /\ b.abar = z1 /\ b.bbar = z2 /\ b.d = z3 /\ b.challenge = c /\ b.ehat = z4 /\ b.r1hat = z5
            /\ b.r3hat = z6 /\ b.m_hat = z7
        BY ONLY <3>8
      <3> QED BY <3>1, <3>2, <3>3, <3>4, <3>5, <3>6, <3>7, <3>9, Zenon
    <2>6. /\ init.abar = Times(signature.a, (r[1] * r[2]) % q)
          /\ init.d = Times(B, r[2])
          /\ init.bbar = Plus(Times(Times(B, r[2]), r[1]),
                              Times(Times(signature.a, (r[1] * r[2]) % q), Minus(0, signature.e)))
      <3>1. PICK ps : ps = PointsAt(gens, undisclosed)
        OBVIOUS
      <3>2. PICK sg : sg = signature
        OBVIOUS
      <3>3. init = InitOf(sg, B, r, ps, dom)
        BY <1>29, <2>2, <3>1, <3>2, Zenon
      <3>4. PICK z1 : z1 = Times(sg.a, (r[1] * r[2]) % q)
        OBVIOUS
      <3>5. PICK z2 : z2 = Plus(Times(Times(B, r[2]), r[1]), Times(z1, Minus(0, sg.e)))
        OBVIOUS
      <3>6. PICK z3 : z3 = Times(B, r[2])
        OBVIOUS
      <3>7. PICK z4 : z4 = Plus(Times(z1, r[3]), Times(z3, r[4]))
        OBVIOUS
      <3>8. PICK z5 : z5 = Plus(Times(z3, r[5]), sumprod(ps, SubSeq(r, 6, Len(r))))
        OBVIOUS
      <3>9. init = [abar |-> z1, bbar |-> z2, d |-> z3, t1 |-> z4, t2 |-> z5, domain |-> dom]
        BY <3>3, <3>4, <3>5, <3>6, <3>7, <3>8, Zenon DEF InitOf
      <3>10. init.abar = z1 /\ init.bbar = z2 /\ init.d = z3
        BY ONLY <3>9
      <3> QED BY <3>2, <3>4, <3>5, <3>6, <3>10, Zenon
    <2> QED BY <1>13, <2>1, <2>2, <2>3, <2>5, <2>6, Zenon DEF Responses
  <1>32. Presented(stream, signature, pr, p)
    <2>1. Knows(p, DomainInput(stream[1], GeneratorsOf(pr.args), pr.args.header), dom)
      BY <1>2, <1>3, <1>13, <1>26, Zenon DEF IssuerKey
    <2>2. B = FullOf(stream, pr.args, dom)
      BY <1>13, <1>28, FullOfStream, Zenon
    <2>3. Knows(p, Challenged(signature, pr, B, dom), pr.bbs_proof.challenge)
      BY <1>25, <1>30, <1>31, Zenon
    <2>4. pr.s_hat = [i \in 1 .. Len(CommittedBy(pr)) |->
                        (pr.s_tilde[i] + pr.bbs_proof.challenge * pr.openings[i]) % q]
      BY <1>13, <1>15, <1>31, Zenon DEF n
    <2>5. pr.pk_tildes = Tildes(stream, pr) /\ pr.commitments = CommitmentsOf(pr)
      BY <1>13, <1>22, <1>23, Zenon
    <2> QED BY <1>14, <1>21, <1>27, <1>31, <2>1, <2>2, <2>3, <2>4, <2>5, Zenon DEF Presented
  <1>33. asked' = p
    BY <1>9, <1>11, Zenon DEF Result
  <1>34. Oracle(asked') /\ Extends(asked, asked') /\ Len(asked') <= Len(asked) + 2
    BY <1>25, <1>26, <1>33, Zenon
  <1>35. /\ state'.args = args /\ state'.disclosures = disclosures /\ state'.ph = ph
         /\ state' # NotYet
         /\ Presented(stream, signature, state', asked')
    BY <1>12, <1>13, <1>32, <1>33, Zenon
  <1> QED BY <1>19, <1>34, <1>35

\* What blind_proof_gen_finalize returned: the answer of a device for each key,
\* and that answer adapted to the randomised key.
Finished(n, st, pr, pf, o) ==
  /\ pf.signers \in [1 .. Len(pr.args.keys) -> 1 .. n]
  /\ Identity \notin ToSet(pr.pk_tildes)
  /\ DeviceAnswers(Len(pr.args.keys), st, pf.signers, pf.nonces,
                   [i \in 1 .. Len(pr.args.keys) |-> <<pr.pk_tildes[i], pr.bbs_proof.challenge>>], pf.answers, o)
  /\ Len(pf.sigs) = Len(pr.args.keys)
  /\ \A i \in 1 .. Len(pr.args.keys) : /\ pf.sigs[i].s = (pf.answers[i].s + pf.answers[i].c * pr.r_key[i]) % q
                                       /\ pf.sigs[i].c = pf.answers[i].c

LEMMA FinishedKept ==
  ASSUME NEW n, NEW st, NEW pr, NEW pf, NEW o, NEW p, Finished(n, st, pr, pf, o), Oracle(o), Oracle(p), Extends(o, p)
  PROVE  Finished(n, st, pr, pf, p)
  BY DeviceAnswersKept, Zenon DEF Finished

LEMMA TildesType ==
  ASSUME Case, NEW pr, ArgsType(pr.args), pr.r_key \in Seq(NotZero), Len(pr.r_key) = Len(pr.args.keys)
  PROVE  /\ Tildes(stream, pr) \in Seq(Point) /\ Len(Tildes(stream, pr)) = Len(pr.args.keys)
         /\ DOMAIN Tildes(stream, pr) = 1 .. Len(pr.args.keys)
         /\ \A i \in 1 .. Len(pr.args.keys) :
              Tildes(stream, pr)[i] = Plus(DevicePoint(pr.args.keys[i]), Times(Generator("HK", i), pr.r_key[i]))
  <1>1. PICK k \in Nat : k = Len(pr.args.keys) /\ \A i \in 1 .. k : pr.args.keys[i] \in Positions
    BY KeysType
  <1>2. PICK t : t = Tildes(stream, pr)
    OBVIOUS
  <1>3. t = [i \in 1 .. k |-> Plus(DevicePoint(pr.args.keys[i]), Times(Generator("HK", i), pr.r_key[i]))]
    BY <1>1, <1>2, Zenon DEF Tildes, DevicePoint, DeviceKey
  <1>4. \A i \in 1 .. k : Plus(DevicePoint(pr.args.keys[i]), Times(Generator("HK", i), pr.r_key[i])) \in Point
    <2>1. TAKE i \in 1 .. k
    <2>2. DevicePoint(pr.args.keys[i]) \in Point
      BY <1>1, DevicePointType DEF Keyed
    <2>3. pr.r_key[i] \in Int
      <3>1. PICK r \in Seq(NotZero) : r = pr.r_key /\ Len(r) = k
        BY <1>1
      <3>2. r[i] \in NotZero
        BY ONLY <3>1, i \in 1 .. k, r \in Seq(NotZero), k \in Nat
      <3> QED BY <3>1, <3>2, NotZeroIsScalar
    <2>4. Times(Generator("HK", i), pr.r_key[i]) \in Point
      BY <2>3, GeneratorAt, TimesAt
    <2> QED BY <2>2, <2>4, PlusAt
  <1>5. t \in [1 .. k -> Point]
    BY <1>3, <1>4, Zenon
  <1>6. t \in Seq(Point) /\ Len(t) = k /\ DOMAIN t = 1 .. k
    BY ONLY <1>5, k \in Nat
  <1>7. \A i \in 1 .. k : t[i] = Plus(DevicePoint(pr.args.keys[i]), Times(Generator("HK", i), pr.r_key[i]))
    BY <1>3
  <1> QED BY <1>1, <1>2, <1>6, <1>7, Zenon

\* An answer is a response and a challenge.
Signature(sig) == \E s, c : sig = [s |-> s, c |-> c]

LEMMA SignsRecords ==
  ASSUME NEW k \in Nat, NEW signers \in [1 .. k -> Positions], NEW messages, NEW i \in 1 .. k
  PROVE  Signature(Sign(signers, messages).sigs[i])
  <1>1. Len(signers) = k
    BY ONLY k \in Nat, signers \in [1 .. k -> Positions]
  <1>2. PICK nonces : nonces = calculate(k)
    OBVIOUS
  <1>3. PICK o : o = AskAll(asked, [j \in 1 .. k |-> NonceInput(signers[j], nonces[j], messages[j])])
    OBVIOUS
  <1>4. PICK sigs : sigs = [j \in 1 .. k |-> sign(o, signers[j], nonces[j], messages[j])]
    OBVIOUS
  <1>5. Sign(signers, messages) = [oracle |-> o, nonces |-> nonces, sigs |-> sigs]
    BY <1>1, <1>2, <1>3, <1>4, Zenon DEF Sign
  <1>6. Sign(signers, messages).sigs = sigs
    BY ONLY <1>5
  <1>7. sigs[i] = sign(o, signers[i], nonces[i], messages[i])
    BY <1>4
  <1> QED BY <1>6, <1>7, Zenon DEF sign, Signature

LEMMA AdaptIs ==
  ASSUME NEW sig, Signature(sig), NEW r
  PROVE  adapt_sig(sig, r).s = (sig.s + sig.c * r) % q /\ adapt_sig(sig, r).c = sig.c
  <1>4. PICK s, c : sig = [s |-> s, c |-> c]
    BY DEF Signature
  <1>1. PICK v : v = (sig.s + sig.c * r) % q
    OBVIOUS
  <1>2. adapt_sig(sig, r) = [sig EXCEPT !.s = v]
    BY <1>1, Zenon DEF adapt_sig
  <1>3. [sig EXCEPT !.s = v].s = v /\ [sig EXCEPT !.s = v].c = sig.c
    BY ONLY <1>4
  <1> QED BY <1>1, <1>2, <1>3, Zenon

LEMMA ProofGenFinalizeIs ==
  ASSUME Case, drawn \in Nat, Oracle(asked), ArgsType(state.args), Presented(stream, signature, state, asked),
         NEW m \in {0, shape.keys}, NEW signers \in [1 .. m -> Positions], ProofGenFinalize(signers)
  PROVE  /\ Oracle(asked') /\ Extends(asked, asked') /\ Len(asked') <= Len(asked) + shape.keys
         /\ drawn' \in Nat /\ drawn' <= drawn + shape.keys
         /\ proof' # NotYet
         /\ Finished(shape.keys, stream, state, proof', asked')
  <1>1. shape.keys \in Nat /\ m \in Nat /\ m <= shape.keys
    BY ShapeAt
  <1>2. Len(signers) = m /\ DOMAIN signers = 1 .. m
    BY ONLY <1>1, signers \in [1 .. m -> Positions]
  <1>3. PICK pr : pr = state
    OBVIOUS
  <1>4. m = Len(pr.args.keys)
    <2>1. state.pk_tildes = Tildes(stream, state) /\ Randomised(state)
      BY Zenon DEF Presented
    <2>2. Len(state.pk_tildes) = Len(state.args.keys)
      BY <2>1, TildesType DEF Randomised
    <2>3. Len(signers) = Len(state.pk_tildes)
      BY Zenon DEF ProofGenFinalize
    <2> QED BY <1>2, <1>3, <2>2, <2>3
  <1>5. PICK messages : messages = [i \in 1 .. m |-> <<pr.pk_tildes[i], pr.bbs_proof.challenge>>]
    OBVIOUS
  <1>6. PICK answers : answers = Sign(signers, messages)
    OBVIOUS
  <1>7. /\ Identity \notin ToSet(pr.pk_tildes)
        /\ asked' = answers.oracle
        /\ drawn' = drawn + m
        /\ proof' = [signers |-> signers, nonces |-> answers.nonces, answers |-> answers.sigs,
                     sigs |-> [i \in 1 .. m |-> adapt_sig(answers.sigs[i], pr.r_key[i])]]
    BY <1>2, <1>3, <1>5, <1>6, Zenon DEF ProofGenFinalize
  <1>8. /\ Oracle(answers.oracle) /\ Extends(asked, answers.oracle) /\ Len(answers.oracle) <= Len(asked) + m
        /\ DeviceAnswers(m, stream, signers, answers.nonces, messages, answers.sigs, answers.oracle)
    BY <1>1, <1>6, SignType
  <1>9. PICK pf : pf = proof'
    OBVIOUS
  <1>10. PICK sigs : sigs = [i \in 1 .. m |-> adapt_sig(answers.sigs[i], pr.r_key[i])]
    OBVIOUS
  <1>11. /\ pf.signers = signers /\ pf.nonces = answers.nonces /\ pf.answers = answers.sigs /\ pf.sigs = sigs
         /\ pf # NotYet
    <2>1. PICK a1 : a1 = answers.nonces
      OBVIOUS
    <2>2. PICK a2 : a2 = answers.sigs
      OBVIOUS
    <2>3. pf = [signers |-> signers, nonces |-> a1, answers |-> a2, sigs |-> sigs]
      BY <1>7, <1>9, <1>10, <2>1, <2>2, Zenon
    <2>4. pf.signers = signers /\ pf.nonces = a1 /\ pf.answers = a2 /\ pf.sigs = sigs /\ pf # NotYet
      BY ONLY <2>3 DEF NotYet
    <2> QED BY <2>1, <2>2, <2>4, Zenon
  <1>12. Len(sigs) = m
    BY ONLY <1>1, <1>10
  <1>13. ASSUME NEW i \in 1 .. m
         PROVE  /\ sigs[i].s = (pf.answers[i].s + pf.answers[i].c * pr.r_key[i]) % q
                /\ sigs[i].c = pf.answers[i].c
    <2>1. PICK a : a = answers.sigs[i]
      OBVIOUS
    <2>2. Signature(a)
      <3>1. Signature(Sign(signers, messages).sigs[i])
        BY ONLY <1>1, SignsRecords, signers \in [1 .. m -> Positions], i \in 1 .. m
      <3> QED BY <1>6, <2>1, <3>1, Zenon
    <2>3. PICK r : r = pr.r_key[i]
      OBVIOUS
    <2>4. adapt_sig(a, r).s = (a.s + a.c * r) % q /\ adapt_sig(a, r).c = a.c
      BY <2>2, AdaptIs
    <2>5. sigs[i] = adapt_sig(a, r)
      BY <1>10, <2>1, <2>3, Zenon
    <2> QED BY <1>11, <2>1, <2>3, <2>4, <2>5, Zenon
  <1>14. Finished(shape.keys, stream, pr, pf, answers.oracle)
    BY <1>4, <1>5, <1>7, <1>8, <1>11, <1>12, <1>13, Zenon DEF Finished, Positions
  <1>15. drawn' \in Nat /\ drawn' <= drawn + shape.keys
    BY <1>1, <1>7
  <1>16. Len(answers.oracle) <= Len(asked) + shape.keys
    <2>1. Len(answers.oracle) \in Nat /\ Len(asked) \in Nat
      BY <1>8 DEF Oracle
    <2> QED BY <1>1, <1>8, <2>1
  <1> QED BY <1>3, <1>7, <1>8, <1>9, <1>11, <1>14, <1>15, <1>16, Zenon

-----------------------------------------------------------------------------
(* What a presentation shows, and of which types.                          *)

\* The commitments are to the messages that were chosen, not to their slots.
LEMMA CommitmentsAre ==
  ASSUME Case, NEW pr, ArgsType(pr.args), pr.disclosures \in [1 .. Len(pr.args.messages) -> Disclosure],
         pr.commitments = CommitmentsOf(pr)
  PROVE  \A i \in DOMAIN Chosen(pr.disclosures, "COMMIT") :
           pr.commitments[i] = sumprod(com_dis_generators,
                                       <<pr.openings[i], pr.args.messages[Chosen(pr.disclosures, "COMMIT")[i]]>>)
  <1>1. PICK l \in Nat, n \in Nat :
           /\ Len(pr.args.messages) = l /\ n \in 0 .. l /\ n = pr.args.issuer_no
           /\ Slots(CommittedBy(pr), Chosen(pr.disclosures, "COMMIT"), l, n)
    BY PresentedSizes
  <1>2. PICK c : c = Chosen(pr.disclosures, "COMMIT")
    OBVIOUS
  <1>3. PICK s : s = CommittedBy(pr)
    OBVIOUS
  <1>4. Slots(s, c, l, n)
    BY <1>1, <1>2, <1>3
  <1>5. PICK args : args = pr.args
    OBVIOUS
  <1>6. ASSUME NEW i \in DOMAIN c
        PROVE  pr.commitments[i] = sumprod(com_dis_generators, <<pr.openings[i], pr.args.messages[c[i]]>>)
    <2>1. DOMAIN c = 1 .. Len(c) /\ Len(s) = Len(c) /\ c[i] \in 1 .. l /\ s[i] = proof_index(c[i], n)
      BY <1>4, Zenon DEF Slots
    <2>2. proof_scalars(args)[proof_index(c[i], args.issuer_no)] = args.messages[c[i]]
      <3>1. args.messages \in Seq(Scalar) /\ Len(args.messages) = l /\ args.issuer_no \in 0 .. l /\ args.blind \in Scalar
        BY <1>1, <1>5, Zenon DEF ArgsType
      <3>2. PICK j \in 1 .. l : j = c[i]
        BY <2>1
      <3>3. proof_scalars(args)[proof_index(j, args.issuer_no)] = args.messages[j]
        BY <3>1, SlotScalar
      <3> QED BY <3>2, <3>3, Zenon
    <2>3. proof_scalars(pr.args)[s[i]] = pr.args.messages[c[i]]
      BY <1>1, <1>5, <2>1, <2>2, Zenon
    <2>4. i \in 1 .. Len(s)
      BY <2>1, Zenon
    <2>5. pr.commitments = [j \in 1 .. Len(s) |->
                              sumprod(com_dis_generators, <<pr.openings[j], proof_scalars(pr.args)[s[j]]>>)]
      BY <1>3, Zenon DEF CommitmentsOf
    <2>6. pr.commitments[i] = sumprod(com_dis_generators, <<pr.openings[i], proof_scalars(pr.args)[s[i]]>>)
      BY <2>4, <2>5, Zenon
    <2> QED BY <2>3, <2>6, Zenon
  <1> QED BY <1>2, <1>6, Zenon

\* The randomness of a presentation.
LEMMA RandomAt ==
  ASSUME Case, NEW pr, ArgsType(pr.args), pr.disclosures \in [1 .. Len(pr.args.messages) -> Disclosure], Randomised(pr)
  PROVE  /\ Len(HiddenBy(pr)) \in Nat /\ Len(pr.args.keys) \in Nat
         /\ \A i \in 1 .. 5 + Len(HiddenBy(pr)) + Len(pr.args.keys) : pr.random[i] \in NotZero
         /\ \A i \in 1 .. 5 : pr.random[i] \in NotZero /\ pr.random[i] \in Int
         /\ \A i \in 1 .. Len(pr.args.keys) : pr.r_key[i] \in NotZero /\ pr.r_key[i] \in Int
         /\ Len(CommittedBy(pr)) \in Nat
         /\ \A i \in 1 .. Len(CommittedBy(pr)) : /\ pr.openings[i] \in NotZero /\ pr.openings[i] \in Int
                                                 /\ pr.s_tilde[i] \in NotZero /\ pr.s_tilde[i] \in Int
  <1>1. PICK u \in Nat : u = Len(HiddenBy(pr))
    BY PresentedSizes DEF Indexing
  <1>2. PICK k \in Nat : k = Len(pr.args.keys)
    BY KeysType
  <1>3. PICK n \in Nat : n = Len(CommittedBy(pr))
    BY PresentedSizes DEF Slots
  <1>4. PICK r \in Seq(NotZero) : r = pr.random /\ Len(r) = 5 + u + k
    BY <1>1, <1>2, Zenon DEF Randomised
  <1>5. PICK rk \in Seq(NotZero) : rk = pr.r_key /\ Len(rk) = k
    BY <1>2, Zenon DEF Randomised
  <1>6. PICK op \in Seq(NotZero) : op = pr.openings /\ Len(op) = n
    BY <1>3, Zenon DEF Randomised
  <1>7. PICK st \in Seq(NotZero) : st = pr.s_tilde /\ Len(st) = n
    BY <1>3, Zenon DEF Randomised
  <1>8. /\ \A i \in 1 .. 5 + u + k : r[i] \in NotZero
        /\ \A i \in 1 .. k : rk[i] \in NotZero
        /\ \A i \in 1 .. n : op[i] \in NotZero /\ st[i] \in NotZero
    <2>1. \A i \in 1 .. 5 + u + k : r[i] \in NotZero
      BY ONLY <1>4, r \in Seq(NotZero)
    <2>2. \A i \in 1 .. k : rk[i] \in NotZero
      BY ONLY <1>5, rk \in Seq(NotZero)
    <2>3. \A i \in 1 .. n : op[i] \in NotZero
      BY ONLY <1>6, op \in Seq(NotZero)
    <2>4. \A i \in 1 .. n : st[i] \in NotZero
      BY ONLY <1>7, st \in Seq(NotZero)
    <2> QED BY <2>1, <2>2, <2>3, <2>4
  <1>9. \A i \in 1 .. 5 : i \in 1 .. 5 + u + k
    OBVIOUS
  <1> QED BY <1>1, <1>2, <1>3, <1>4, <1>5, <1>6, <1>7, <1>8, <1>9, NotZeroIsScalar, Zenon

\* What the hidden scalars are.
LEMMA HiddenScalarsType ==
  ASSUME Case, NEW pr, ArgsType(pr.args), pr.disclosures \in [1 .. Len(pr.args.messages) -> Disclosure], Randomised(pr)
  PROVE  \E us \in Seq(Int), ns \in Seq(Int) :
           /\ HiddenScalars(pr) = us \o ns
           /\ HiddenScalars(pr) \in Seq(Int) /\ Len(HiddenScalars(pr)) = Len(HiddenBy(pr)) + Len(pr.args.keys)
           /\ us = Select(proof_scalars(pr.args), HiddenBy(pr))
           /\ Len(us) = Len(HiddenBy(pr)) /\ Len(ns) = Len(pr.args.keys)
           /\ \A i \in 1 .. Len(HiddenBy(pr)) : HiddenScalars(pr)[i] = proof_scalars(pr.args)[HiddenBy(pr)[i]]
           /\ \A i \in 1 .. Len(pr.args.keys) : ns[i] = Minus(0, pr.r_key[i])
  <1>1. PICK l \in Nat, n \in Nat :
           /\ Len(proof_scalars(pr.args)) = l + 1 /\ proof_scalars(pr.args) \in Seq(Int)
           /\ Indexing(HiddenBy(pr), l + 1, Rest(l + 1, DisclosedBy(pr), Len(DisclosedBy(pr))))
    BY PresentedSizes
  <1>2. PICK ss \in Seq(Int) : ss = proof_scalars(pr.args) /\ Len(ss) = l + 1
    BY <1>1
  <1>3. PICK U \in Seq(Nat) : U = HiddenBy(pr) /\ \A i \in 1 .. Len(U) : U[i] \in 1 .. l + 1
    BY <1>1 DEF Indexing
  <1>4. PICK u \in Nat : u = Len(U) /\ DOMAIN U = 1 .. u
    BY <1>3
  <1>5. PICK us : us = Select(ss, U)
    OBVIOUS
  <1>6. us = [i \in 1 .. u |-> ss[U[i]]]
    BY <1>4, <1>5, Zenon DEF Select
  <1>7. \A i \in 1 .. u : ss[U[i]] \in Int
    <2>1. \A j \in 1 .. l + 1 : ss[j] \in Int
      BY ONLY <1>2, ss \in Seq(Int)
    <2> QED BY <1>3, <1>4, <2>1
  <1>8. us \in [1 .. u -> Int]
    BY <1>6, <1>7, Zenon
  <1>9. us \in Seq(Int) /\ Len(us) = u
    BY ONLY <1>8, u \in Nat
  <1>10. PICK k \in Nat : k = Len(pr.args.keys)
    BY KeysType
  <1>11. PICK ns : ns = [i \in 1 .. k |-> Minus(0, pr.r_key[i])]
    OBVIOUS
  <1>12. ns \in [1 .. k -> Int]
    <2>1. \A i \in 1 .. k : Minus(0, pr.r_key[i]) \in Int
      BY <1>10, RandomAt, MinusType
    <2> QED BY <1>11, <2>1, Zenon
  <1>13. ns \in Seq(Int) /\ Len(ns) = k
    BY ONLY <1>12, k \in Nat
  <1>14. us \o ns \in Seq(Int) /\ Len(us \o ns) = u + k
    <2>1. us \o ns \in Seq(Int) /\ Len(us \o ns) = Len(us) + Len(ns)
      BY <1>9, <1>13, ConcatProperties
    <2> QED BY <1>9, <1>13, <2>1, Zenon
  <1>15. \A i \in 1 .. u : (us \o ns)[i] = ss[U[i]]
    <2>1. \A i \in 1 .. u : (us \o ns)[i] = us[i]
      BY <1>9, <1>13, FirstPart
    <2> QED BY <1>6, <2>1, Zenon
  <1>16. HiddenScalars(pr) = us \o ns
    BY <1>2, <1>3, <1>5, <1>10, <1>11, Zenon DEF HiddenScalars
  <1>17. \A i \in 1 .. k : ns[i] = Minus(0, pr.r_key[i])
    BY <1>11
  <1>18. \A i \in 1 .. Len(HiddenBy(pr)) : HiddenScalars(pr)[i] = proof_scalars(pr.args)[HiddenBy(pr)[i]]
    BY <1>2, <1>3, <1>4, <1>15, <1>16, Zenon
  <1>19. HiddenScalars(pr) \in Seq(Int) /\ Len(HiddenScalars(pr)) = Len(HiddenBy(pr)) + Len(pr.args.keys)
    BY <1>3, <1>4, <1>10, <1>14, <1>16, Zenon
  <1>20. us = Select(proof_scalars(pr.args), HiddenBy(pr)) /\ Len(us) = Len(HiddenBy(pr)) /\ Len(ns) = Len(pr.args.keys)
    BY <1>2, <1>3, <1>4, <1>5, <1>9, <1>10, <1>13, Zenon
  <1>21. \A i \in 1 .. Len(pr.args.keys) : ns[i] = Minus(0, pr.r_key[i])
    BY <1>10, <1>17, Zenon
  <1> QED BY <1>9, <1>13, <1>16, <1>18, <1>19, <1>20, <1>21, Zenon

\* A response t + m * c, reduced.
LEMMA ResponseType ==
  ASSUME NEW t \in Int, NEW m \in Int, NEW c \in Int
  PROVE  (t + m * c) % q \in Scalar /\ (t + m * c) % q \in Int /\ Cong((t + m * c) % q, t + m * c)
  <1>1. PICK y \in Int : y = m * c
    OBVIOUS
  <1>2. PICK z \in Int : z = t + y
    OBVIOUS
  <1>3. z % q \in Scalar /\ z % q \in Int /\ Cong(z % q, z)
    BY Remainder, CongMod
  <1> QED BY <1>1, <1>2, <1>3, Zenon

LEMMA ResponsesType ==
  ASSUME Case, NEW pr, ArgsType(pr.args), pr.disclosures \in [1 .. Len(pr.args.messages) -> Disclosure], Randomised(pr),
         NEW sg, sg.a \in Point, sg.e \in Int, NEW B \in Point, NEW p, Responses(sg, pr, p, B), p.challenge \in Int
  PROVE  /\ p.abar \in Point /\ p.d \in Point /\ p.bbar \in Point
         /\ p.ehat \in Scalar /\ p.r1hat \in Scalar /\ p.r3hat \in Scalar
         /\ p.m_hat \in Seq(Int) /\ Len(p.m_hat) = Len(HiddenBy(pr)) + Len(pr.args.keys)
         /\ DOMAIN p.m_hat = 1 .. Len(HiddenBy(pr)) + Len(pr.args.keys)
         /\ \A i \in 1 .. Len(HiddenBy(pr)) + Len(pr.args.keys) :
              /\ p.m_hat[i] \in Scalar
              /\ Cong(p.m_hat[i], pr.random[5 + i] + HiddenScalars(pr)[i] * p.challenge)
  <1>1. PICK r : r = pr.random
    OBVIOUS
  <1>2. PICK c \in Int : c = p.challenge
    OBVIOUS
  <1>3. \A i \in 1 .. 5 : r[i] \in Int /\ r[i] \in NotZero
    BY <1>1, RandomAt, Zenon
  <1>4. r[1] \in Int /\ r[2] \in Int /\ r[3] \in Int /\ r[4] \in Int /\ r[5] \in Int /\ r[2] \in NotZero
    BY ONLY <1>3
  <1>5. p.abar \in Point
    <2>1. PICK x \in Int : x = r[1] * r[2]
      BY <1>4
    <2>2. x % q \in Int
      BY Remainder
    <2>3. p.abar = Times(sg.a, x % q)
      BY <1>1, <2>1, Zenon DEF Responses
    <2> QED BY <2>2, <2>3, TimesAt
  <1>6. p.d \in Point
    <2>1. p.d = Times(B, r[2])
      BY <1>1, Zenon DEF Responses
    <2> QED BY <1>4, <2>1, TimesAt
  <1>7. p.bbar \in Point
    <2>1. p.bbar = Plus(Times(p.d, r[1]), Times(p.abar, Minus(0, sg.e)))
      BY <1>1, Zenon DEF Responses
    <2>2. Times(p.d, r[1]) \in Point
      BY <1>4, <1>6, TimesAt
    <2>3. Times(p.abar, Minus(0, sg.e)) \in Point
      BY <1>5, MinusType, TimesAt
    <2> QED BY <2>1, <2>2, <2>3, PlusAt
  <1>8. p.ehat \in Scalar
    <2>1. p.ehat = (r[3] + sg.e * c) % q
      BY <1>1, <1>2, Zenon DEF Responses
    <2>2. PICK e \in Int : e = sg.e
      OBVIOUS
    <2>3. (r[3] + e * c) % q \in Scalar
      BY <1>4, ResponseType
    <2> QED BY <2>1, <2>2, <2>3, Zenon
  <1>9. p.r1hat \in Scalar
    <2>1. p.r1hat = Minus(r[4], r[1] * c)
      BY <1>1, <1>2, Zenon DEF Responses
    <2>2. PICK y \in Int : y = r[1] * c
      BY <1>4
    <2>3. Minus(r[4], y) \in Scalar
      BY <1>4, MinusCong
    <2> QED BY <2>1, <2>2, <2>3, Zenon
  <1>10. p.r3hat \in Scalar
    <2>1. p.r3hat = Minus(r[5], Invert(r[2]) * c)
      BY <1>1, <1>2, Zenon DEF Responses
    <2>2. Invert(r[2]) \in Int
      BY <1>4, InvertType DEF NotZero
    <2>3. PICK y \in Int : y = Invert(r[2]) * c
      BY <2>2
    <2>4. Minus(r[5], y) \in Scalar
      BY <1>4, MinusCong
    <2> QED BY <2>1, <2>3, <2>4, Zenon
  <1>11. PICK m \in Nat : m = Len(HiddenBy(pr)) + Len(pr.args.keys)
    BY RandomAt
  <1>12. PICK hs \in Seq(Int) : hs = HiddenScalars(pr) /\ Len(hs) = m
    BY <1>11, HiddenScalarsType
  <1>13. DOMAIN hs = 1 .. m /\ \A i \in 1 .. m : hs[i] \in Int
    BY ONLY <1>12, hs \in Seq(Int), m \in Nat
  <1>14. PICK mh : mh = p.m_hat
    OBVIOUS
  <1>15. mh = [i \in 1 .. m |-> (r[5 + i] + hs[i] * c) % q]
    BY <1>1, <1>2, <1>12, <1>13, <1>14, Zenon DEF Responses
  <1>16. \A i \in 1 .. m : r[5 + i] \in Int
    <2>1. TAKE i \in 1 .. m
    <2>2. 5 + i \in 1 .. 5 + m
      OBVIOUS
    <2>3. 5 + m = 5 + Len(HiddenBy(pr)) + Len(pr.args.keys)
      <3>1. PICK u \in Nat : u = Len(HiddenBy(pr))
        BY RandomAt
      <3>2. PICK k \in Nat : k = Len(pr.args.keys)
        BY RandomAt
      <3>3. m = u + k
        BY <1>11, <3>1, <3>2, Zenon
      <3>4. 5 + m = 5 + u + k
        BY <3>3
      <3> QED BY <3>1, <3>2, <3>4, Zenon
    <2>4. r[5 + i] \in NotZero
      BY <1>1, <2>2, <2>3, RandomAt, Zenon
    <2> QED BY <2>4, NotZeroIsScalar
  <1>17. \A i \in 1 .. m : (r[5 + i] + hs[i] * c) % q \in Scalar /\ (r[5 + i] + hs[i] * c) % q \in Int
                           /\ Cong((r[5 + i] + hs[i] * c) % q, r[5 + i] + hs[i] * c)
    BY <1>13, <1>16, ResponseType
  <1>18. \A i \in 1 .. m : mh[i] = (r[5 + i] + hs[i] * c) % q
    BY <1>15
  <1>19. mh \in [1 .. m -> Int]
    BY <1>15, <1>17, Zenon
  <1>20. mh \in Seq(Int) /\ Len(mh) = m /\ DOMAIN mh = 1 .. m
    BY ONLY <1>19, m \in Nat
  <1>21. \A i \in 1 .. m : mh[i] \in Scalar /\ Cong(mh[i], r[5 + i] + hs[i] * c)
    BY <1>17, <1>18, Zenon
  <1> QED BY <1>1, <1>2, <1>5, <1>6, <1>7, <1>8, <1>9, <1>10, <1>11, <1>12, <1>14, <1>20, <1>21, Zenon

\* All that TypeOK says of a presentation.
LEMMA PresentedType ==
  ASSUME Case, NEW pr, ArgsType(pr.args), NEW sg, sg.a \in Point, sg.e \in Int, NEW o, Enough(o), Presented(stream, sg, pr, o)
  PROVE  /\ {pr.bbs_proof.abar, pr.bbs_proof.bbar, pr.bbs_proof.d} \cup ToSet(pr.pk_tildes) \subseteq Point
         /\ {pr.bbs_proof.ehat, pr.bbs_proof.r1hat, pr.bbs_proof.r3hat} \cup ToSet(pr.bbs_proof.m_hat) \subseteq Scalar
  <1>1. PICK p : p = pr.bbs_proof
    OBVIOUS
  <1>2. pr.disclosures \in [1 .. Len(pr.args.messages) -> Disclosure] /\ Randomised(pr)
    BY Zenon DEF Presented
  <1>3. PICK dom \in Answer : /\ Responses(sg, pr, p, FullOf(stream, pr.args, dom))
                              /\ Knows(o, Challenged(sg, pr, FullOf(stream, pr.args, dom), dom), p.challenge)
    BY <1>1, Zenon DEF Presented
  <1>4. p.challenge \in Int
    BY <1>3, KnowsType
  <1>5. PICK B \in Point : B = FullOf(stream, pr.args, dom)
    <2>1. Full(pr.args, dom) \in Point
      BY AnswersType, FullIs
    <2> QED BY <2>1, FullOfStream
  <1>6. Responses(sg, pr, p, B)
    BY <1>3, <1>5, Zenon
  <1>7. PICK m : m = Len(HiddenBy(pr)) + Len(pr.args.keys)
    OBVIOUS
  <1>8. /\ p.abar \in Point /\ p.d \in Point /\ p.bbar \in Point
        /\ p.ehat \in Scalar /\ p.r1hat \in Scalar /\ p.r3hat \in Scalar
        /\ DOMAIN p.m_hat = 1 .. m /\ \A i \in 1 .. m : p.m_hat[i] \in Scalar
    BY <1>2, <1>4, <1>6, <1>7, ResponsesType, Zenon
  <1>9. ToSet(p.m_hat) \subseteq Scalar
    BY <1>8, Zenon DEF ToSet
  <1>10. ToSet(pr.pk_tildes) \subseteq Point
    <2>1. pr.pk_tildes = Tildes(stream, pr) /\ pr.r_key \in Seq(NotZero) /\ Len(pr.r_key) = Len(pr.args.keys)
      BY <1>2, Zenon DEF Presented, Randomised
    <2>2. PICK t \in Seq(Point) : t = pr.pk_tildes
      BY <2>1, TildesType
    <2>3. ToSet(t) \subseteq Point
      BY ONLY t \in Seq(Point) DEF ToSet
    <2> QED BY <2>2, <2>3, Zenon
  <1> QED BY <1>1, <1>8, <1>9, <1>10

-----------------------------------------------------------------------------
(* What blind_proof_verify recomputes.                                     *)

\* T1 comes out as the prover had it.
SumOfTwo(bb, a, d, e, r1) == bb = Plus(Times(d, r1), Times(a, Minus(0, e)))
FirstSame(bb, a, d, c, eh, rh, r3, r4) == sumprod(<<bb, a, d>>, <<c, eh, rh>>) = Plus(Times(a, r3), Times(d, r4))

LEMMA T1Same ==
  ASSUME NEW a \in Point, NEW d \in Point, NEW e \in Int, NEW c \in Int, NEW r1 \in Int, NEW r3 \in Int, NEW r4 \in Int,
         NEW eh \in Int, NEW rh \in Int, Cong(eh, r3 + e * c), Cong(rh, r4 - r1 * c),
         NEW bb, SumOfTwo(bb, a, d, e, r1)
  PROVE  FirstSame(bb, a, d, c, eh, rh, r3, r4)
  <1>0. bb = Plus(Times(d, r1), Times(a, Minus(0, e)))
    BY Zenon DEF SumOfTwo
  <1>1. PICK x \in Int : x = r1 * c
    OBVIOUS
  <1>2. PICK f \in Int : f = e * c
    OBVIOUS
  <1>3. PICK x2 \in Int : x2 = -x
    OBVIOUS
  <1>4. PICK f2 \in Int : f2 = -f
    OBVIOUS
  <1>5. Times(bb, c) = Plus(Times(d, x), Times(a, f2))
    <2>1. PICK m \in Int : m = Minus(0, e) /\ Cong(m, -e)
      BY MinusType
    <2>2. Times(d, r1) \in Point /\ Times(a, m) \in Point
      BY TimesAt
    <2>9. Times(Plus(Times(d, r1), Times(a, m)), c) = Plus(Times(Times(d, r1), c), Times(Times(a, m), c))
      BY <2>2, TimesPlus
    <2>3. Times(bb, c) = Plus(Times(Times(d, r1), c), Times(Times(a, m), c))
      BY <1>0, <2>1, <2>9, Zenon
    <2>4. Times(Times(d, r1), c) = Times(d, x)
      BY <1>1, TimesTwice
    <2>5. Times(Times(a, m), c) = Times(a, m * c)
      BY TimesTwice
    <2>6. Cong(m * c, f2)
      <3>1. Cong(m * c, (-e) * c)
        BY <2>1, CongRefl, CongMul
      <3>2. (-e) * c = -(e * c)
        BY ONLY e \in Int, c \in Int
      <3>3. (-e) * c = f2
        BY <1>2, <1>4, <3>2
      <3> QED BY <3>1, <3>3, Zenon
    <2>7. m * c \in Int
      OBVIOUS
    <2>8. Times(a, m * c) = Times(a, f2)
      BY <2>6, <2>7, TimesReduced
    <2> QED BY <1>0, <2>1, <2>3, <2>4, <2>5, <2>8, Zenon
  <1>6. Times(a, eh) = Plus(Times(a, r3), Times(a, f))
    <2>1. Cong(eh, r3 + f)
      BY <1>2, Zenon
    <2>2. Times(a, eh) = Times(a, r3 + f)
      BY <2>1, TimesReduced
    <2> QED BY <2>2, TimesSum
  <1>7. Times(d, rh) = Plus(Times(d, r4), Times(d, x2))
    <2>1. r4 - r1 * c = r4 + x2
      BY <1>1, <1>3
    <2>2. Cong(rh, r4 + x2)
      BY <2>1, Zenon
    <2>3. Times(d, rh) = Times(d, r4 + x2)
      BY <2>2, TimesReduced
    <2> QED BY <2>3, TimesSum
  <1>8. /\ Times(d, x) \in Point /\ Times(d, x2) \in Point /\ Times(a, f) \in Point /\ Times(a, f2) \in Point
        /\ Times(a, r3) \in Point /\ Times(d, r4) \in Point /\ Times(d, r1) \in Point /\ Times(a, Minus(0, e)) \in Point
    BY TimesAt, MinusType
  <1>9. Plus(Times(d, x), Times(d, x2)) = Identity
    BY <1>3, TimesOpposite
  <1>10. Plus(Times(a, f2), Times(a, f)) = Identity
    <2>1. Plus(Times(a, f), Times(a, f2)) = Identity
      BY <1>4, TimesOpposite
    <2> QED BY <1>8, <2>1, PlusCommutes
  <1>11. bb \in Point
    BY <1>0, <1>8, PlusAt
  <1>12. sumprod(<<bb, a, d>>, <<c, eh, rh>>) = Plus(Plus(Times(bb, c), Times(a, eh)), Times(d, rh))
    BY <1>11, SumprodThree
  <1>13. Plus(Plus(Plus(Times(d, x), Times(a, f2)), Plus(Times(a, r3), Times(a, f))), Plus(Times(d, r4), Times(d, x2)))
           = Plus(Times(a, r3), Times(d, r4))
    <2>1. PICK X \in Point : X = Times(d, x)
      BY <1>8
    <2>2. PICK X2 \in Point : X2 = Times(d, x2)
      BY <1>8
    <2>3. PICK E \in Point : E = Times(a, f2)
      BY <1>8
    <2>4. PICK E2 \in Point : E2 = Times(a, f)
      BY <1>8
    <2>5. PICK Y \in Point : Y = Times(a, r3)
      BY <1>8
    <2>6. PICK Z \in Point : Z = Times(d, r4)
      BY <1>8
    <2>7. Plus(X, X2) = Identity /\ Plus(E, E2) = Identity
      BY <1>9, <1>10, <2>1, <2>2, <2>3, <2>4, Zenon
    <2>8. Opposite(X, X2) /\ Opposite(E, E2)
      BY <2>7, Zenon DEF Opposite
    <2>9. Plus(Plus(Plus(X, E), Plus(Y, E2)), Plus(Z, X2)) = Plus(Y, Z)
      BY ONLY <2>8, CancelsTwice, X \in Point, X2 \in Point, E \in Point, E2 \in Point, Y \in Point, Z \in Point, SMTT(40)
    <2> QED BY <2>1, <2>2, <2>3, <2>4, <2>5, <2>6, <2>9, Zenon
  <1> QED BY <1>5, <1>6, <1>7, <1>12, <1>13, Zenon DEF FirstSame

-----------------------------------------------------------------------------
(* The inductive invariant.                                                *)

\* What one result has cost by now.
Spent(v, n) == IF v = NotYet THEN 0 ELSE n

LEMMA SpentType ==
  ASSUME NEW v, NEW n \in Nat
  PROVE  /\ Spent(v, n) \in Nat /\ Spent(v, n) <= n
         /\ v = NotYet => Spent(v, n) = 0
         /\ v # NotYet => Spent(v, n) = n
  <1>1. CASE v = NotYet
    <2>1. Spent(v, n) = 0
      BY <1>1, Zenon DEF Spent
    <2> QED BY <1>1, <2>1
  <1>2. CASE v # NotYet
    <2>1. Spent(v, n) = n
      BY <1>2, Zenon DEF Spent
    <2> QED BY <1>2, <2>1
  <1> QED BY <1>1, <1>2

\* The scalars of one presentation are no more than these.
ProofCost == 6 + 3 * (shape.issuer + shape.committed) + 2 * shape.keys

Drawing ==
  /\ drawn \in Nat
  /\ drawn <= 20 + Spent(commit, shape.committed + 2) + Spent(request, shape.keys)
                 + Spent(state, ProofCost) + Spent(proof, shape.keys)

Asking ==
  /\ Oracle(asked)
  /\ Len(asked) <= Spent(commit, 1) + Spent(request, shape.keys) + Spent(signature, 2)
                   + Spent(state, 2) + Spent(proof, shape.keys)

\* No result is there before those it was made from.
InTurn ==
  /\ request # NotYet => commit # NotYet
  /\ signature # NotYet => request \notin {NotYet, Refused}
  /\ accepted # NotYet \/ state # NotYet => signature \notin {NotYet, Refused}
  /\ proof # NotYet => state # NotYet
  /\ verified # NotYet => proof # NotYet

Opens == commit # NotYet => Opened(shape.committed, shape.keys, Committed, Fresh, commit, asked)
Requests == request \notin {NotYet, Refused} => Requested(shape.keys, stream, Fresh, commit, request, asked)
Signs == signature \notin {NotYet, Refused} => Signed(stream, Honest, signature, asked)
Presents == state # NotYet => Called(state.args) /\ Presented(stream, signature, state, asked)
Finishes == proof # NotYet => Finished(shape.keys, stream, state, proof, asked)
Decides == /\ accepted # NotYet => accepted.ok \in BOOLEAN
           /\ verified # NotYet => verified.ok \in BOOLEAN

IInv ==
  /\ Case /\ Drawing /\ Asking /\ InTurn
  /\ Opens /\ Requests /\ Signs /\ Presents /\ Finishes /\ Decides
  /\ PossessionExact /\ AcceptExact

\* Neither the source nor the oracle runs dry.
LEMMA NeverDry ==
  ASSUME Case, Drawing, Asking
  PROVE  /\ drawn <= Len(stream)
         /\ Enough(asked)
         /\ signature = NotYet \/ state = NotYet => Len(asked) + 2 <= Len(Answers)
  <1>1. PICK n \in Nat, m \in Nat, k \in Nat : n = shape.issuer /\ m = shape.committed /\ k = shape.keys
    BY ShapeAt
  <1>2. PICK a \in Nat : a = Len(Answers) /\ 5 + 2 * k <= a
    <2>1. 5 + 2 * shape.keys <= Len(Answers)
      BY BlindSuiteAssumption DEF Case
    <2> QED BY <1>1, <2>1, AnswersType
  <1>3. PICK t \in Nat : t = Len(stream) /\ 28 + 3 * n + 4 * m + 4 * k <= t
    BY <1>1, StreamAt
  <1>4. PICK p \in Nat : p = ProofCost
    BY <1>1 DEF ProofCost
  <1>5. p = 6 + 3 * (n + m) + 2 * k
    BY <1>1, <1>4 DEF ProofCost
  <1>6. PICK c1 \in Nat : c1 = Spent(commit, m + 2) /\ c1 <= m + 2
    BY SpentType
  <1>7. PICK r1 \in Nat : r1 = Spent(request, k) /\ r1 <= k
    BY SpentType
  <1>8. PICK s1 \in Nat : s1 = Spent(state, p) /\ s1 <= p
    BY SpentType
  <1>9. PICK p1 \in Nat : p1 = Spent(proof, k) /\ p1 <= k
    BY SpentType
  <1>10. PICK c2 \in Nat : c2 = Spent(commit, 1) /\ c2 <= 1
    BY SpentType
  <1>11. PICK g2 \in Nat : g2 = Spent(signature, 2) /\ g2 <= 2 /\ (signature = NotYet => g2 = 0)
    BY SpentType
  <1>12. PICK s2 \in Nat : s2 = Spent(state, 2) /\ s2 <= 2 /\ (state = NotYet => s2 = 0)
    BY SpentType
  <1>13. drawn \in Nat /\ drawn <= 20 + c1 + r1 + s1 + p1
    BY <1>1, <1>4, <1>6, <1>7, <1>8, <1>9, Zenon DEF Drawing
  <1>14. Oracle(asked) /\ Len(asked) <= c2 + r1 + g2 + s2 + p1
    BY <1>1, <1>7, <1>9, <1>10, <1>11, <1>12, Zenon DEF Asking
  <1>15. Len(asked) \in Nat
    BY <1>14 DEF Oracle
  <1>16. drawn <= t
    <2>1. c1 <= m + 2 /\ r1 <= k /\ s1 <= p /\ p1 <= k /\ 28 + 3 * n + 4 * m + 4 * k <= t
      BY <1>3, <1>6, <1>7, <1>8, <1>9, Zenon
    <2> QED BY ONLY <1>5, <1>13, <2>1, n \in Nat, m \in Nat, k \in Nat, p \in Nat, t \in Nat,
                    c1 \in Nat, r1 \in Nat, s1 \in Nat, p1 \in Nat
  <1>17. PICK A \in Nat : A = Len(asked)
    BY <1>15
  <1>18. A <= a /\ (g2 = 0 \/ s2 = 0 => A + 2 <= a)
    <2>1. A <= c2 + r1 + g2 + s2 + p1
      BY <1>14, <1>17, Zenon
    <2>2. r1 <= k /\ p1 <= k /\ c2 <= 1 /\ g2 <= 2 /\ s2 <= 2 /\ 5 + 2 * k <= a
      BY <1>2, <1>7, <1>9, <1>10, <1>11, <1>12, Zenon
    <2> QED BY ONLY <2>1, <2>2, k \in Nat, a \in Nat, A \in Nat,
                    c2 \in Nat, r1 \in Nat, g2 \in Nat, s2 \in Nat, p1 \in Nat
  <1> QED BY <1>2, <1>3, <1>11, <1>12, <1>14, <1>16, <1>17, <1>18, Zenon DEF Enough

\* What only the case at hand determines.
LEMMA CaseKept ==
  ASSUME UNCHANGED <<shape, stream>>
  PROVE  /\ Committed' = Committed /\ Fresh' = Fresh /\ IssuerMessages' = IssuerMessages
         /\ ProofCost' = ProofCost
         /\ Case => Case'
         /\ \A args : Called(args) => Called(args)'
  <1>1. Committed' = Committed /\ IssuerMessages' = IssuerMessages
    BY DEF Committed, IssuerMessages, MessageScalar
  <1>2. Fresh' = Fresh
    BY DEF Fresh, DevicePoint, DeviceKey
  <1>3. ProofCost' = ProofCost
    BY DEF ProofCost
  <1>4. Case => Case'
    BY DEF Case
  <1>5. \A args : Called(args) => Called(args)'
    BY Zenon DEF Called, ArgsType, Record, Orders, InOrder, Positions
  <1> QED BY <1>1, <1>2, <1>3, <1>4, <1>5

LEMMA HonestKept ==
  ASSUME UNCHANGED <<shape, stream, commit, signature>>
  PROVE  Honest' = Honest
  <1>1. IssuerMessages' = IssuerMessages /\ Committed' = Committed
    BY CaseKept
  <1> QED BY <1>1, Zenon DEF Honest

LEMMA OpenedKept ==
  ASSUME NEW m, NEW k, NEW messages, NEW keys, NEW cm, NEW o, NEW p, Opened(m, k, messages, keys, cm, o),
         Oracle(o), Oracle(p), Extends(o, p)
  PROVE  Opened(m, k, messages, keys, cm, p)
  BY KnowsKept, Zenon DEF Opened

LEMMA RequestedKept ==
  ASSUME NEW k, NEW st, NEW keys, NEW cm, NEW rq, NEW o, NEW p, Requested(k, st, keys, cm, rq, o),
         Oracle(o), Oracle(p), Extends(o, p)
  PROVE  Requested(k, st, keys, cm, rq, p)
  BY DeviceAnswersKept, Zenon DEF Requested

\* What a step leaves alone stays as it was.
LEMMA PartsKept ==
  ASSUME IInv, UNCHANGED <<shape, stream>>, Oracle(asked'), Extends(asked, asked')
  PROVE  /\ Case'
         /\ UNCHANGED commit => Opens'
         /\ UNCHANGED <<commit, request>> => Requests'
         /\ UNCHANGED <<commit, signature>> => Signs'
         /\ UNCHANGED <<signature, state>> => Presents'
         /\ UNCHANGED <<state, proof>> => Finishes'
         /\ UNCHANGED <<request, signature>> => PossessionExact'
         /\ UNCHANGED <<commit, signature, accepted>> => AcceptExact'
  <1>1. Oracle(asked)
    BY DEF IInv, Asking
  <1>2. Case'
    BY CaseKept DEF IInv
  <1>3. ASSUME UNCHANGED commit
        PROVE  Opens'
    <2>1. ASSUME commit # NotYet
          PROVE  Opened(shape.committed, shape.keys, Committed, Fresh, commit, asked')
      BY <1>1, <2>1, OpenedKept, Zenon DEF IInv, Opens
    <2> QED BY <1>3, <2>1, CaseKept, Zenon DEF Opens
  <1>4. ASSUME UNCHANGED <<commit, request>>
        PROVE  Requests'
    <2>1. ASSUME request \notin {NotYet, Refused}
          PROVE  Requested(shape.keys, stream, Fresh, commit, request, asked')
      BY <1>1, <2>1, RequestedKept, Zenon DEF IInv, Requests
    <2> QED BY <1>4, <2>1, CaseKept, Zenon DEF Requests
  <1>5. ASSUME UNCHANGED <<commit, signature>>
        PROVE  Signs'
    <2>1. ASSUME signature \notin {NotYet, Refused}
          PROVE  Signed(stream, Honest, signature, asked')
      BY <1>1, <2>1, SignedKept, Zenon DEF IInv, Signs
    <2> QED BY <1>5, <2>1, HonestKept, Zenon DEF Signs
  <1>6. ASSUME UNCHANGED <<signature, state>>
        PROVE  Presents'
    <2>1. ASSUME state # NotYet
          PROVE  Called(state.args) /\ Presented(stream, signature, state, asked')
      BY <1>1, <2>1, PresentedKept, Zenon DEF IInv, Presents
    <2>2. ASSUME state # NotYet
          PROVE  Called(state.args)'
      BY <1>6, <2>1, <2>2, Zenon DEF Called, ArgsType, Record, Orders, InOrder, Positions
    <2> QED BY <1>6, <2>1, <2>2, Zenon DEF Presents
  <1>7. ASSUME UNCHANGED <<state, proof>>
        PROVE  Finishes'
    <2>1. ASSUME proof # NotYet
          PROVE  Finished(shape.keys, stream, state, proof, asked')
      BY <1>1, <2>1, FinishedKept, Zenon DEF IInv, Finishes
    <2> QED BY <1>7, <2>1, Zenon DEF Finishes
  <1>8. ASSUME UNCHANGED <<request, signature>>
        PROVE  PossessionExact'
    BY <1>8, Zenon DEF IInv, PossessionExact, Positions, KeyCancels, IssuerKey
  <1>9. ASSUME UNCHANGED <<commit, signature, accepted>>
        PROVE  AcceptExact'
    <2>1. Honest' = Honest
      BY <1>9, HonestKept
    <2> QED BY <1>9, <2>1, Zenon DEF IInv, AcceptExact, SignedAs, Positions
  <1> QED BY <1>2, <1>3, <1>4, <1>5, <1>6, <1>7, <1>8, <1>9, Zenon

LEMMA InitHolds == Init => IInv
  <1> SUFFICES ASSUME Init PROVE IInv
    OBVIOUS
  <1>1. Case
    BY DEF Init, Case
  <1>2. /\ commit = NotYet /\ request = NotYet /\ signature = NotYet /\ accepted = NotYet
        /\ state = NotYet /\ proof = NotYet /\ verified = NotYet /\ drawn = 20 /\ asked = <<>>
    BY Zenon DEF Init
  <1>3. Drawing
    <2>1. shape.committed + 2 \in Nat /\ shape.keys \in Nat /\ ProofCost \in Nat
      BY <1>1, ShapeAt DEF ProofCost
    <2>2. /\ Spent(commit, shape.committed + 2) = 0 /\ Spent(request, shape.keys) = 0
          /\ Spent(state, ProofCost) = 0 /\ Spent(proof, shape.keys) = 0
      BY <1>2, Zenon DEF Spent
    <2> QED BY <1>2, <2>2 DEF Drawing
  <1>4. Asking
    <2>1. /\ Spent(commit, 1) = 0 /\ Spent(request, shape.keys) = 0 /\ Spent(signature, 2) = 0
          /\ Spent(state, 2) = 0 /\ Spent(proof, shape.keys) = 0
      BY <1>2, Zenon DEF Spent
    <2>2. Oracle(asked) /\ Len(asked) = 0
      BY <1>2, NothingAsked, Zenon
    <2> QED BY <2>1, <2>2 DEF Asking
  <1> QED BY <1>1, <1>2, <1>3, <1>4, Zenon
          DEF IInv, InTurn, Opens, Requests, Signs, Presents, Finishes, Decides, PossessionExact, AcceptExact

LEMMA CommitInitKeeps == ASSUME IInv, CommitInit PROVE IInv'
  <1>1. PICK m \in Nat, k \in Nat : m = shape.committed /\ k = shape.keys
    BY ShapeAt DEF IInv
  <1>2. Case /\ drawn \in Nat /\ Oracle(asked)
    BY Zenon DEF IInv, Drawing, Asking
  <1>3. UNCHANGED <<shape, stream, request, signature, accepted, state, proof, verified>> /\ commit = NotYet
    BY Zenon DEF CommitInit
  <1>4. /\ Opened(m, k, Committed, Fresh, commit', asked')
        /\ Oracle(asked') /\ Extends(asked, asked') /\ Len(asked') <= Len(asked) + 1
        /\ drawn' = drawn + m + 2
        /\ commit' # NotYet
    BY <1>1, <1>2, CommitInitIs, Zenon
  <1>5. request = NotYet /\ signature = NotYet /\ accepted = NotYet /\ state = NotYet /\ proof = NotYet /\ verified = NotYet
    BY <1>3, Zenon DEF IInv, InTurn
  <1>6. Case' /\ PossessionExact' /\ Presents' /\ Finishes'
    BY <1>3, <1>4, PartsKept, Zenon
  <1>7. Opens'
    BY <1>1, <1>3, <1>4, CaseKept, Zenon DEF Opens
  <1>8. Requests' /\ Signs' /\ AcceptExact' /\ InTurn' /\ Decides'
    BY <1>3, <1>4, <1>5, Zenon DEF Requests, Signs, AcceptExact, InTurn, Decides
  <1>9. Drawing'
    <2>1. /\ Spent(commit, m + 2) = 0 /\ Spent(request, k) = 0 /\ Spent(state, ProofCost) = 0 /\ Spent(proof, k) = 0
      BY <1>3, <1>5, Zenon DEF Spent
    <2>2. drawn <= 20
      <3>1. drawn <= 20 + 0 + 0 + 0 + 0
        BY <1>1, <2>1, Zenon DEF IInv, Drawing
      <3> QED BY <1>2, <3>1
    <2>3. /\ Spent(commit', m + 2) = m + 2 /\ Spent(request', k) = 0 /\ Spent(state', ProofCost) = 0
          /\ Spent(proof', k) = 0
      BY <1>3, <1>4, <1>5, Zenon DEF Spent
    <2>4. drawn' \in Nat /\ drawn' <= 20 + (m + 2) + 0 + 0 + 0
      BY <1>2, <1>4, <2>2
    <2> QED BY <1>1, <1>3, <2>3, <2>4, CaseKept, Zenon DEF Drawing
  <1>10. Asking'
    <2>1. /\ Spent(commit, 1) = 0 /\ Spent(request, k) = 0 /\ Spent(signature, 2) = 0 /\ Spent(state, 2) = 0 /\ Spent(proof, k) = 0
      BY <1>3, <1>5, Zenon DEF Spent
    <2>2. Len(asked) <= 0 + 0 + 0 + 0 + 0
      BY <1>1, <2>1, Zenon DEF IInv, Asking
    <2>3. /\ Spent(commit', 1) = 1 /\ Spent(request', k) = 0 /\ Spent(signature', 2) = 0 /\ Spent(state', 2) = 0
          /\ Spent(proof', k) = 0
      BY <1>3, <1>4, <1>5, Zenon DEF Spent
    <2>4. Len(asked') <= 1 + 0 + 0 + 0 + 0
      <3>1. Len(asked) \in Nat /\ Len(asked') \in Nat
        BY <1>2, <1>4 DEF Oracle
      <3> QED BY <1>4, <2>2, <3>1
    <2> QED BY <1>1, <1>3, <1>4, <2>3, <2>4, Zenon DEF Asking
  <1> QED BY <1>6, <1>7, <1>8, <1>9, <1>10, Zenon DEF IInv

LEMMA CommitFinalizeKeeps ==
  ASSUME IInv, NEW signers \in [Positions -> Positions], CommitFinalize(signers)
  PROVE  IInv'
  <1>1. PICK m \in Nat, k \in Nat : m = shape.committed /\ k = shape.keys
    BY ShapeAt DEF IInv
  <1>2. Case /\ drawn \in Nat /\ Oracle(asked)
    BY Zenon DEF IInv, Drawing, Asking
  <1>3. UNCHANGED <<shape, stream, commit, signature, accepted, state, proof, verified>> /\ commit # NotYet /\ request = NotYet
    BY Zenon DEF CommitFinalize
  <1>4. /\ Oracle(asked') /\ Extends(asked, asked') /\ Len(asked') <= Len(asked) + k
        /\ drawn' = drawn + k
        /\ request' # NotYet
        /\ request' # Refused => Requested(k, stream, Fresh, commit, request', asked')
    BY <1>1, <1>2, CommitFinalizeIs, Zenon
  <1>5. signature = NotYet /\ accepted = NotYet /\ state = NotYet /\ proof = NotYet /\ verified = NotYet
    BY <1>3, Zenon DEF IInv, InTurn
  <1>6. Case' /\ Opens' /\ Signs' /\ Presents' /\ Finishes' /\ AcceptExact'
    BY <1>3, <1>4, PartsKept, Zenon
  <1>7. Requests'
    BY <1>1, <1>3, <1>4, CaseKept, Zenon DEF Requests
  <1>8. PossessionExact' /\ InTurn' /\ Decides'
    BY <1>3, <1>4, <1>5, Zenon DEF PossessionExact, InTurn, Decides
  <1>9. Drawing'
    <2>1. PICK c1 \in Nat : c1 = Spent(commit, m + 2)
      BY SpentType
    <2>2. /\ Spent(request, k) = 0 /\ Spent(state, ProofCost) = 0 /\ Spent(proof, k) = 0
      BY <1>3, <1>5, Zenon DEF Spent
    <2>3. drawn <= 20 + c1 + 0 + 0 + 0
      BY <1>1, <2>1, <2>2, Zenon DEF IInv, Drawing
    <2>4. /\ Spent(commit', m + 2) = c1 /\ Spent(request', k) = k /\ Spent(state', ProofCost) = 0
          /\ Spent(proof', k) = 0
      BY <1>3, <1>4, <1>5, <2>1, Zenon DEF Spent
    <2>5. drawn' \in Nat /\ drawn' <= 20 + c1 + k + 0 + 0
      <3>1. drawn' = drawn + k
        BY <1>4
      <3> QED BY ONLY <1>2, <2>3, <3>1, c1 \in Nat, k \in Nat
    <2> QED BY <1>1, <1>3, <2>4, <2>5, CaseKept, Zenon DEF Drawing
  <1>10. Asking'
    <2>1. PICK c1 \in Nat : c1 = Spent(commit, 1)
      BY SpentType
    <2>2. /\ Spent(request, k) = 0 /\ Spent(signature, 2) = 0 /\ Spent(state, 2) = 0 /\ Spent(proof, k) = 0
      BY <1>3, <1>5, Zenon DEF Spent
    <2>3. Len(asked) <= c1 + 0 + 0 + 0 + 0
      BY <1>1, <2>1, <2>2, Zenon DEF IInv, Asking
    <2>4. /\ Spent(commit', 1) = c1 /\ Spent(request', k) = k /\ Spent(signature', 2) = 0 /\ Spent(state', 2) = 0
          /\ Spent(proof', k) = 0
      BY <1>3, <1>4, <1>5, <2>1, Zenon DEF Spent
    <2>5. Len(asked') <= c1 + k + 0 + 0 + 0
      <3>1. Len(asked) \in Nat /\ Len(asked') \in Nat
        BY <1>2, <1>4 DEF Oracle
      <3>2. Len(asked') <= Len(asked) + k
        BY <1>4
      <3> QED BY ONLY <2>3, <3>1, <3>2, c1 \in Nat, k \in Nat
    <2> QED BY <1>1, <1>3, <1>4, <2>4, <2>5, Zenon DEF Asking
  <1> QED BY <1>6, <1>7, <1>8, <1>9, <1>10, Zenon DEF IInv

LEMMA BlindSignKeeps ==
  ASSUME IInv, NEW h, BlindSign(h)
  PROVE  IInv'
  <1>1. PICK k \in Nat : k = shape.keys
    BY ShapeAt DEF IInv
  <1>2. Case /\ Oracle(asked)
    BY Zenon DEF IInv, Asking
  <1>3. /\ UNCHANGED <<shape, stream, drawn, commit, request, accepted, state, proof, verified>>
        /\ request \notin {NotYet, Refused} /\ signature = NotYet
    BY Zenon DEF BlindSign
  <1>4. Enough(asked) /\ Len(asked) + 2 <= Len(Answers)
    BY <1>3, NeverDry, Zenon DEF IInv
  <1>5. commit # NotYet
    BY <1>3, Zenon DEF IInv, InTurn
  <1>6. /\ Opened(shape.committed, shape.keys, Committed, Fresh, commit, asked)
        /\ Requested(shape.keys, stream, Fresh, commit, request, asked)
    BY <1>3, <1>5, Zenon DEF IInv, Opens, Requests
  <1>7. /\ Oracle(asked') /\ Extends(asked, asked') /\ Len(asked') <= Len(asked) + 2
        /\ signature' # NotYet
        /\ signature' # Refused => /\ Signed(stream, Signable(signature'.header), signature', asked')
                                   /\ \A i \in Positions : request.signers[i] = i
        /\ (\A i \in Positions : request.signers[i] = i) /\ ~ KeyCancels => signature' # Refused
    BY <1>2, <1>4, <1>6, BlindSignIs, Zenon
  <1>8. accepted = NotYet /\ state = NotYet /\ proof = NotYet /\ verified = NotYet
    BY <1>3, Zenon DEF IInv, InTurn
  <1>9. Case' /\ Opens' /\ Requests' /\ Finishes'
    BY <1>3, <1>7, PartsKept, Zenon
  <1>10. Honest' = Signable(signature'.header)
    <2>1. IssuerMessages' = IssuerMessages /\ Committed' = Committed
      BY <1>3, CaseKept
    <2> QED BY <1>3, <2>1, Zenon DEF Honest, Signable
  <1>11. Signs'
    BY <1>3, <1>7, <1>10, Zenon DEF Signs
  <1>12. PossessionExact'
    BY <1>3, <1>7, Zenon DEF PossessionExact, Positions, KeyCancels, IssuerKey
  <1>13. Presents' /\ AcceptExact' /\ InTurn' /\ Decides'
    BY <1>3, <1>5, <1>8, Zenon DEF Presents, AcceptExact, InTurn, Decides
  <1>14. Drawing'
    BY <1>3, CaseKept, Zenon DEF IInv, Drawing
  <1>15. Asking'
    <2>1. PICK c1 \in Nat, r1 \in Nat : c1 = Spent(commit, 1) /\ r1 = Spent(request, k)
      BY SpentType
    <2>2. /\ Spent(signature, 2) = 0 /\ Spent(state, 2) = 0 /\ Spent(proof, k) = 0
      BY <1>3, <1>8, Zenon DEF Spent
    <2>3. Len(asked) <= c1 + r1 + 0 + 0 + 0
      BY <1>1, <2>1, <2>2, Zenon DEF IInv, Asking
    <2>4. /\ Spent(commit', 1) = c1 /\ Spent(request', k) = r1 /\ Spent(signature', 2) = 2 /\ Spent(state', 2) = 0
          /\ Spent(proof', k) = 0
      BY <1>3, <1>7, <1>8, <2>1, Zenon DEF Spent
    <2>5. Len(asked') <= c1 + r1 + 2 + 0 + 0
      <3>1. Len(asked) \in Nat /\ Len(asked') \in Nat
        BY <1>2, <1>7 DEF Oracle
      <3>2. Len(asked') <= Len(asked) + 2
        BY <1>7
      <3> QED BY ONLY <2>3, <3>1, <3>2, c1 \in Nat, r1 \in Nat
    <2> QED BY <1>1, <1>3, <1>7, <2>4, <2>5, Zenon DEF Asking
  <1> QED BY <1>9, <1>11, <1>12, <1>13, <1>14, <1>15, Zenon DEF IInv

\* What the arguments of a presentation, or of an acceptance, were chosen from.
LEMMA SignatureIs ==
  ASSUME IInv, signature \notin {NotYet, Refused}
  PROVE  /\ commit.secret_prover_blind \in NotZero
         /\ Signed(stream, Honest, signature, asked)
         /\ ArgsType(Honest) /\ Record(Honest)
         /\ signature.a \in Point /\ signature.e \in Int /\ signature.e \in Answer
  <1>1. Case /\ Enough(asked)
    BY NeverDry, Zenon DEF IInv
  <1>2. commit # NotYet
    BY Zenon DEF IInv, InTurn
  <1>3. commit.secret_prover_blind \in NotZero
    BY <1>1, <1>2, OpenedBlind, Zenon DEF IInv, Opens
  <1>4. Signed(stream, Honest, signature, asked)
    BY Zenon DEF IInv, Signs
  <1>5. ArgsType(Honest)
    BY <1>1, <1>3, SignableType, HonestIs, Zenon
  <1>6. Record(Honest)
    <2>1. PICK ms : ms = IssuerMessages \o Committed
      OBVIOUS
    <2>2. PICK ks : ks = [i \in 1 .. shape.keys |-> i]
      OBVIOUS
    <2>3. PICK hd : hd = signature.header
      OBVIOUS
    <2>4. PICK bl : bl = commit.secret_prover_blind
      OBVIOUS
    <2>5. PICK no : no = shape.issuer
      OBVIOUS
    <2>6. Honest = [messages |-> ms, issuer_no |-> no, keys |-> ks, header |-> hd, blind |-> bl]
      BY <2>1, <2>2, <2>3, <2>4, <2>5, Zenon DEF Honest
    <2>7. /\ Honest.messages = ms /\ Honest.issuer_no = no /\ Honest.keys = ks /\ Honest.header = hd /\ Honest.blind = bl
      BY ONLY <2>6
    <2> QED BY <2>6, <2>7, Zenon DEF Record
  <1>7. signature.a \in Point
    BY <1>1, <1>4, <1>5, SignedTimes, Zenon
  <1>8. signature.e \in Answer
    BY <1>4, Zenon DEF Signed
  <1> QED BY <1>3, <1>4, <1>5, <1>6, <1>7, <1>8, AnswersType

LEMMA AcceptKeeps ==
  ASSUME IInv, NEW args \in Arguments, Accept(args)
  PROVE  IInv'
  <1>1. /\ UNCHANGED <<shape, stream, drawn, asked, commit, request, signature, state, proof, verified>>
        /\ signature \notin {NotYet, Refused} /\ accepted = NotYet /\ state = NotYet
        /\ accepted' = [args |-> args, ok |-> verify_blind_sign(args)]
    BY Zenon DEF Accept
  <1>2. Case /\ Oracle(asked) /\ Enough(asked)
    BY NeverDry, Zenon DEF IInv, Asking
  <1>3. Oracle(asked') /\ Extends(asked, asked')
    BY <1>1, <1>2 DEF Extends, Oracle
  <1>4. proof = NotYet /\ verified = NotYet /\ request # NotYet /\ commit # NotYet
    BY <1>1, Zenon DEF IInv, InTurn
  <1>5. Case' /\ Opens' /\ Requests' /\ Signs' /\ Presents' /\ Finishes' /\ PossessionExact'
    BY <1>1, <1>3, PartsKept, Zenon
  <1>6. Drawing' /\ Asking'
    <2>1. ProofCost' = ProofCost
      BY <1>1, CaseKept
    <2> QED BY <1>1, <1>2, <1>3, <2>1, Zenon DEF IInv, Drawing, Asking
  <1>7. InTurn'
    BY <1>1, <1>4, Zenon DEF IInv, InTurn
  <1>8. PICK a : a = args
    OBVIOUS
  <1>9. PICK v \in BOOLEAN : v = verify_blind_sign(args)
    <2>1. verify_blind_sign(args) \in BOOLEAN
      BY Zenon DEF verify_blind_sign
    <2> QED BY <2>1, Zenon
  <1>10. accepted'.args = args /\ accepted'.ok = verify_blind_sign(args)
    <2>1. accepted' = [args |-> a, ok |-> v]
      BY <1>1, <1>8, <1>9, Zenon
    <2>2. accepted'.args = a /\ accepted'.ok = v
      BY ONLY <2>1
    <2> QED BY <1>8, <1>9, <2>2, Zenon
  <1>11. Decides'
    <2>1. accepted'.ok \in BOOLEAN
      BY <1>9, <1>10, Zenon
    <2> QED BY <1>1, <1>4, <2>1, Zenon DEF Decides
  <1>12. AcceptExact'
    <2>1. verify_blind_sign(args) <=> SignedAs(args)
      BY <1>1, <1>2, SignatureIs, AcceptIs, Zenon
    <2>2. Honest' = Honest
      BY <1>1, HonestKept
    <2>3. SignedAs(accepted.args)' <=> SignedAs(args)
      BY <1>1, <1>10, <2>2, Zenon DEF SignedAs, Positions
    <2> QED BY <1>10, <2>1, <2>3, Zenon DEF AcceptExact
  <1> QED BY <1>5, <1>6, <1>7, <1>11, <1>12, Zenon DEF IInv

LEMMA VerifyKeeps ==
  ASSUME IInv, NEW seen, Verify(seen)
  PROVE  IInv'
  <1>1. /\ UNCHANGED <<shape, stream, drawn, asked, commit, request, signature, accepted, state, proof>>
        /\ proof # NotYet /\ verified = NotYet
        /\ verified' = [seen |-> seen, ok |-> blind_proof_verify(seen)]
    BY Zenon DEF Verify
  <1>2. Oracle(asked)
    BY Zenon DEF IInv, Asking
  <1>3. Oracle(asked') /\ Extends(asked, asked')
    BY <1>1, <1>2 DEF Extends, Oracle
  <1>4. Case' /\ Opens' /\ Requests' /\ Signs' /\ Presents' /\ Finishes' /\ PossessionExact' /\ AcceptExact'
    BY <1>1, <1>3, PartsKept, Zenon
  <1>5. Drawing' /\ Asking'
    <2>1. ProofCost' = ProofCost
      BY <1>1, CaseKept
    <2> QED BY <1>1, <1>2, <1>3, <2>1, Zenon DEF IInv, Drawing, Asking
  <1>6. InTurn'
    BY <1>1, Zenon DEF IInv, InTurn
  <1>7. Decides'
    <2>1. PICK v \in BOOLEAN : v = blind_proof_verify(seen)
      <3>1. blind_proof_verify(seen) \in BOOLEAN
        BY Zenon DEF blind_proof_verify
      <3> QED BY <3>1, Zenon
    <2>2. PICK a : a = seen
      OBVIOUS
    <2>3. verified' = [seen |-> a, ok |-> v]
      BY <1>1, <2>1, <2>2, Zenon
    <2>4. verified'.ok = v
      BY ONLY <2>3
    <2>5. verified'.ok \in BOOLEAN
      BY <2>1, <2>4, Zenon
    <2> QED BY <1>1, <2>5, Zenon DEF IInv, Decides
  <1> QED BY <1>4, <1>5, <1>6, <1>7, Zenon DEF IInv

\* Arguments as callers give them have all of the keys, or none.
LEMMA CalledKeys ==
  ASSUME Case, NEW args, Called(args)
  PROVE  Len(args.keys) \in {0, shape.keys}
  <1>1. PICK k \in Nat : k = shape.keys
    BY ShapeAt
  <1>2. InOrder(k) \in Seq(1 .. k) /\ Len(InOrder(k)) = k
    BY InOrderType
  <1>3. PICK s \in Seq(1 .. k) : s = InOrder(k)
    BY <1>2
  <1>4. Len(s) = k /\ Len(Reverse(s)) = k /\ Len(<<>>) = 0
    <2>1. Len(Reverse(s)) = Len(s)
      BY DEF Reverse
    <2> QED BY <1>2, <1>3, <2>1
  <1>5. args.keys = s \/ args.keys = Reverse(s) \/ args.keys = <<>>
    BY <1>1, <1>3, Zenon DEF Called, Orders
  <1> QED BY <1>1, <1>4, <1>5, Zenon

LEMMA ProofGenInitKeeps ==
  ASSUME IInv, NEW args \in Arguments, NEW disclosures \in [DOMAIN args.messages -> Disclosure], NEW ph,
         ProofGenInit(args, disclosures, ph)
  PROVE  IInv'
  <1>1. PICK m \in Nat, k \in Nat : m = shape.committed /\ k = shape.keys
    BY ShapeAt DEF IInv
  <1>2. /\ UNCHANGED <<shape, stream, commit, request, signature, accepted, proof, verified>>
        /\ signature \notin {NotYet, Refused} /\ accepted = NotYet /\ state = NotYet
    BY Zenon DEF ProofGenInit
  <1>3. Case /\ drawn \in Nat /\ Enough(asked) /\ Oracle(asked) /\ Len(asked) + 2 <= Len(Answers)
    BY <1>2, NeverDry, Zenon DEF IInv, Drawing, Asking
  <1>4. commit.secret_prover_blind \in NotZero /\ signature.a \in Point /\ signature.e \in Int
    BY <1>2, SignatureIs, Zenon
  <1>5. Called(args) /\ ArgsType(args)
    <2>1. Called(args)
      BY <1>3, <1>4, ArgumentsType, Zenon
    <2> QED BY <2>1, Zenon DEF Called
  <1>6. /\ Oracle(asked') /\ Extends(asked, asked') /\ Len(asked') <= Len(asked) + 2
        /\ drawn' \in Nat
        /\ drawn' <= drawn + (6 + 3 * (shape.issuer + shape.committed) + 2 * Len(args.keys))
        /\ state'.args = args
        /\ state' # NotYet
        /\ Presented(stream, signature, state', asked')
    BY <1>3, <1>4, <1>5, ProofGenInitIs, Zenon
  <1>7. proof = NotYet /\ verified = NotYet /\ request # NotYet /\ commit # NotYet
    BY <1>2, Zenon DEF IInv, InTurn
  <1>8. Case' /\ Opens' /\ Requests' /\ Signs' /\ PossessionExact' /\ AcceptExact'
    BY <1>2, <1>6, PartsKept, Zenon
  <1>9. Presents'
    <2>1. PICK a : a = args
      OBVIOUS
    <2>2. Called(a)'
      BY <1>2, <1>5, <2>1, CaseKept, Zenon
    <2>3. Called(state.args)'
      BY <1>6, <2>1, <2>2, Zenon DEF Called, ArgsType, Record, Orders, InOrder, Positions
    <2> QED BY <1>2, <1>6, <2>3, Zenon DEF Presents
  <1>10. Finishes' /\ InTurn' /\ Decides'
    BY <1>2, <1>6, <1>7, Zenon DEF IInv, Finishes, InTurn, Decides
  <1>11. Drawing'
    <2>1. PICK p \in Nat : p = ProofCost
      BY <1>3, ShapeAt DEF ProofCost
    <2>2. drawn' <= drawn + p
      <3>1. PICK n \in Nat : n = shape.issuer
        BY <1>3, ShapeAt
      <3>2. PICK h \in Nat : h = Len(args.keys) /\ h <= k
        BY <1>1, <1>3, <1>5, CalledKeys
      <3>3. drawn' <= drawn + (6 + 3 * (n + m) + 2 * h)
        BY <1>1, <1>6, <3>1, <3>2, Zenon
      <3>4. p = 6 + 3 * (n + m) + 2 * k
        BY <1>1, <2>1, <3>1, Zenon DEF ProofCost
      <3>5. h <= k
        BY <3>2
      <3>6. drawn' \in Nat
        BY <1>6
      <3> QED BY ONLY <1>3, <3>3, <3>4, <3>5, <3>6, n \in Nat, m \in Nat, h \in Nat, k \in Nat, p \in Nat
    <2>3. PICK c1 \in Nat, r1 \in Nat : c1 = Spent(commit, m + 2) /\ r1 = Spent(request, k)
      BY SpentType
    <2>4. /\ Spent(state, p) = 0 /\ Spent(proof, k) = 0
      BY <1>2, <1>7, Zenon DEF Spent
    <2>5. drawn <= 20 + c1 + r1 + 0 + 0
      BY <1>1, <2>1, <2>3, <2>4, Zenon DEF IInv, Drawing
    <2>6. /\ Spent(commit', m + 2) = c1 /\ Spent(request', k) = r1 /\ Spent(state', p) = p
          /\ Spent(proof', k) = 0
      BY <1>2, <1>6, <1>7, <2>3, Zenon DEF Spent
    <2>7. drawn' <= 20 + c1 + r1 + p + 0
      <3>1. drawn' \in Nat /\ drawn \in Nat
        BY <1>3, <1>6
      <3> QED BY ONLY <2>2, <2>5, <3>1, c1 \in Nat, r1 \in Nat, p \in Nat
    <2> QED BY <1>1, <1>2, <1>6, <2>1, <2>6, <2>7, CaseKept, Zenon DEF Drawing
  <1>12. Asking'
    <2>1. PICK c1 \in Nat, r1 \in Nat, g1 \in Nat :
            c1 = Spent(commit, 1) /\ r1 = Spent(request, k) /\ g1 = Spent(signature, 2)
      BY SpentType
    <2>2. /\ Spent(state, 2) = 0 /\ Spent(proof, k) = 0
      BY <1>2, <1>7, Zenon DEF Spent
    <2>3. Len(asked) <= c1 + r1 + g1 + 0 + 0
      BY <1>1, <2>1, <2>2, Zenon DEF IInv, Asking
    <2>4. /\ Spent(commit', 1) = c1 /\ Spent(request', k) = r1 /\ Spent(signature', 2) = g1 /\ Spent(state', 2) = 2
          /\ Spent(proof', k) = 0
      BY <1>2, <1>6, <1>7, <2>1, Zenon DEF Spent
    <2>5. Len(asked') <= c1 + r1 + g1 + 2 + 0
      <3>1. Len(asked) \in Nat /\ Len(asked') \in Nat
        BY <1>3, <1>6 DEF Oracle
      <3>2. Len(asked') <= Len(asked) + 2
        BY <1>6
      <3> QED BY ONLY <2>3, <3>1, <3>2, c1 \in Nat, r1 \in Nat, g1 \in Nat
    <2> QED BY <1>1, <1>2, <1>6, <2>4, <2>5, Zenon DEF Asking
  <1> QED BY <1>8, <1>9, <1>10, <1>11, <1>12, Zenon DEF IInv

LEMMA ProofGenFinalizeKeeps ==
  ASSUME IInv, NEW signers \in UNION {[1 .. k -> Positions] : k \in {0, shape.keys}}, ProofGenFinalize(signers)
  PROVE  IInv'
  <1>1. PICK k \in Nat : k = shape.keys
    BY ShapeAt DEF IInv
  <1>2. /\ UNCHANGED <<shape, stream, commit, request, signature, accepted, state, verified>>
        /\ state # NotYet /\ proof = NotYet
    BY Zenon DEF ProofGenFinalize
  <1>3. Case /\ drawn \in Nat /\ Oracle(asked)
    BY Zenon DEF IInv, Drawing, Asking
  <1>4. Called(state.args) /\ ArgsType(state.args) /\ Presented(stream, signature, state, asked)
    BY <1>2, Zenon DEF IInv, Presents, Called
  <1>5. PICK m \in {0, shape.keys} : signers \in [1 .. m -> Positions]
    OBVIOUS
  <1>6. /\ Oracle(asked') /\ Extends(asked, asked') /\ Len(asked') <= Len(asked) + k
        /\ drawn' \in Nat /\ drawn' <= drawn + k
        /\ proof' # NotYet
        /\ Finished(k, stream, state, proof', asked')
    BY <1>1, <1>3, <1>4, <1>5, ProofGenFinalizeIs, Zenon
  <1>7. verified = NotYet
    BY <1>2, Zenon DEF IInv, InTurn
  <1>8. Case' /\ Opens' /\ Requests' /\ Signs' /\ Presents' /\ PossessionExact' /\ AcceptExact'
    BY <1>2, <1>6, PartsKept, Zenon
  <1>9. Finishes'
    BY <1>1, <1>2, <1>6, Zenon DEF Finishes
  <1>10. InTurn' /\ Decides'
    BY <1>2, <1>6, <1>7, Zenon DEF IInv, InTurn, Decides
  <1>11. Drawing'
    <2>1. PICK c1 \in Nat, r1 \in Nat, s1 \in Nat :
            c1 = Spent(commit, shape.committed + 2) /\ r1 = Spent(request, k) /\ s1 = Spent(state, ProofCost)
      <3>1. shape.committed + 2 \in Nat /\ ProofCost \in Nat
        BY <1>3, ShapeAt, SMTT(40) DEF ProofCost
      <3> QED BY <3>1, SpentType
    <2>2. Spent(proof, k) = 0
      BY <1>2, Zenon DEF Spent
    <2>3. drawn <= 20 + c1 + r1 + s1 + 0
      BY <1>1, <2>1, <2>2, Zenon DEF IInv, Drawing
    <2>4. /\ Spent(commit', shape.committed + 2) = c1 /\ Spent(request', k) = r1 /\ Spent(state', ProofCost) = s1
          /\ Spent(proof', k) = k
      BY <1>2, <1>6, <2>1, Zenon DEF Spent
    <2>5. drawn' <= 20 + c1 + r1 + s1 + k
      <3>1. drawn' \in Nat /\ drawn \in Nat /\ drawn' <= drawn + k
        BY <1>3, <1>6
      <3> QED BY ONLY <2>3, <3>1, c1 \in Nat, r1 \in Nat, s1 \in Nat, k \in Nat
    <2> QED BY <1>1, <1>2, <1>6, <2>4, <2>5, CaseKept, Zenon DEF Drawing
  <1>12. Asking'
    <2>1. PICK c1 \in Nat, r1 \in Nat, g1 \in Nat, s1 \in Nat :
            c1 = Spent(commit, 1) /\ r1 = Spent(request, k) /\ g1 = Spent(signature, 2) /\ s1 = Spent(state, 2)
      BY SpentType
    <2>2. Spent(proof, k) = 0
      BY <1>2, Zenon DEF Spent
    <2>3. Len(asked) <= c1 + r1 + g1 + s1 + 0
      BY <1>1, <2>1, <2>2, Zenon DEF IInv, Asking
    <2>4. /\ Spent(commit', 1) = c1 /\ Spent(request', k) = r1 /\ Spent(signature', 2) = g1 /\ Spent(state', 2) = s1
          /\ Spent(proof', k) = k
      BY <1>2, <1>6, <2>1, Zenon DEF Spent
    <2>5. Len(asked') <= c1 + r1 + g1 + s1 + k
      <3>1. Len(asked) \in Nat /\ Len(asked') \in Nat
        BY <1>3, <1>6 DEF Oracle
      <3>2. Len(asked') <= Len(asked) + k
        BY <1>6
      <3> QED BY ONLY <2>3, <3>1, <3>2, c1 \in Nat, r1 \in Nat, g1 \in Nat, s1 \in Nat, k \in Nat
    <2> QED BY <1>1, <1>2, <1>6, <2>4, <2>5, Zenon DEF Asking
  <1> QED BY <1>8, <1>9, <1>10, <1>11, <1>12, Zenon DEF IInv

LEMMA StutterKeeps == ASSUME IInv, UNCHANGED vars PROVE IInv'
  <1>1. /\ UNCHANGED <<shape, stream, drawn, asked, commit, request, signature, accepted, state, proof, verified>>
    BY DEF vars
  <1>2. Oracle(asked)
    BY Zenon DEF IInv, Asking
  <1>3. Oracle(asked') /\ Extends(asked, asked')
    BY <1>1, <1>2 DEF Extends, Oracle
  <1>4. Case' /\ Opens' /\ Requests' /\ Signs' /\ Presents' /\ Finishes' /\ PossessionExact' /\ AcceptExact'
    BY <1>1, <1>3, PartsKept, Zenon
  <1>5. Drawing' /\ Asking'
    <2>1. ProofCost' = ProofCost
      BY <1>1, CaseKept
    <2> QED BY <1>1, <1>2, <1>3, <2>1, Zenon DEF IInv, Drawing, Asking
  <1>6. InTurn' /\ Decides'
    BY <1>1, Zenon DEF IInv, InTurn, Decides
  <1> QED BY <1>4, <1>5, <1>6, Zenon DEF IInv

LEMMA StepKeeps == ASSUME IInv, [Next]_vars PROVE IInv'
  <1>1. CASE CommitInit
    BY <1>1, CommitInitKeeps, Zenon
  <1>2. CASE \E signers \in [Positions -> Positions] : CommitFinalize(signers)
    BY <1>2, CommitFinalizeKeeps, Zenon
  <1>3. CASE \E h \in Header : BlindSign(h)
    BY <1>3, BlindSignKeeps, Zenon
  <1>4. CASE \E args \in Arguments : Accept(args)
    BY <1>4, AcceptKeeps, Zenon
  <1>5. CASE \E args \in Arguments, ph \in PresHeader :
               \E disclosures \in [DOMAIN args.messages -> Disclosure] : ProofGenInit(args, disclosures, ph)
    BY <1>5, ProofGenInitKeeps, Zenon
  <1>6. CASE \E signers \in UNION {[1 .. k -> Positions] : k \in {0, shape.keys}} : ProofGenFinalize(signers)
    BY <1>6, ProofGenFinalizeKeeps, Zenon
  <1>7. CASE \E seen \in Readings : Verify(seen)
    BY <1>7, VerifyKeeps, Zenon
  <1>8. CASE UNCHANGED vars
    BY <1>8, StutterKeeps, Zenon
  <1> QED BY <1>1, <1>2, <1>3, <1>4, <1>5, <1>6, <1>7, <1>8, Zenon DEF Next

LEMMA Invariant == Spec => []IInv
  BY InitHolds, StepKeeps, PTL DEF Spec

-----------------------------------------------------------------------------
(* What follows from it.                                                   *)

LEMMA OpenedType ==
  ASSUME Case, NEW cm, NEW o, Enough(o), Opened(shape.committed, shape.keys, Committed, Fresh, cm, o)
  PROVE  /\ cm.c \in Point
         /\ {cm.s_hat} \cup ToSet(cm.m_hat) \subseteq Scalar
  <1>1. PICK m \in Nat : m = shape.committed
    BY ShapeAt
  <1>2. PICK r \in Seq(NotZero) : r = cm.randoms /\ Len(r) = m + 2
    BY <1>1, Zenon DEF Opened
  <1>3. PICK ms \in Seq(NotZero) : ms = Committed /\ Len(ms) = m
    BY <1>1, CommittedType
  <1>4. \A i \in 1 .. m + 2 : r[i] \in Int
    <2>1. \A i \in 1 .. m + 2 : r[i] \in NotZero
      BY ONLY <1>2, m \in Nat, r \in Seq(NotZero)
    <2> QED BY <2>1, NotZeroIsScalar
  <1>5. \A i \in 1 .. m : ms[i] \in Int
    <2>1. \A i \in 1 .. m : ms[i] \in NotZero
      BY ONLY <1>3, m \in Nat, ms \in Seq(NotZero)
    <2> QED BY <2>1, NotZeroIsScalar
  <1>6. cm.challenge \in Int
    <2>1. PICK x : Knows(o, x, cm.challenge)
      BY Zenon DEF Opened
    <2> QED BY <2>1, KnowsType
  <1>7. r[1] \in Int /\ r[2] \in Int
    BY <1>4
  <1>8. cm.c \in Point
    <2>1. cm.c = Opening(m, ms, r[1])
      BY <1>1, <1>2, <1>3, Zenon DEF Opened
    <2>2. ms \in Seq(Int)
      BY NotZeroSeq
    <2>3. Opening(m, ms, r[1]) \in Point
      BY <1>3, <1>7, <2>2, OpeningSplit
    <2> QED BY <2>1, <2>3, Zenon
  <1>9. cm.s_hat \in Scalar
    <2>1. cm.s_hat = (r[2] + r[1] * cm.challenge) % q
      BY <1>2, Zenon DEF Opened
    <2>2. (r[2] + r[1] * cm.challenge) % q \in Scalar
      BY <1>6, <1>7, ResponseType
    <2> QED BY <2>1, <2>2, Zenon
  <1>10. ToSet(cm.m_hat) \subseteq Scalar
    <2>1. PICK c \in Int : c = cm.challenge
      BY <1>6
    <2>2. PICK h : h = cm.m_hat
      OBVIOUS
    <2>3. h = [i \in 1 .. m |-> (r[2 + i] + ms[i] * c) % q]
      BY <1>1, <1>2, <1>3, <2>1, <2>2, Zenon DEF Opened
    <2>4. \A i \in 1 .. m : h[i] \in Scalar
      <3>1. TAKE i \in 1 .. m
      <3>2. r[2 + i] \in Int /\ ms[i] \in Int
        <4>1. 2 + i \in 1 .. m + 2
          OBVIOUS
        <4> QED BY <4>1, <1>4, <1>5
      <3>3. (r[2 + i] + ms[i] * c) % q \in Scalar
        BY <3>2, ResponseType
      <3>4. h[i] = (r[2 + i] + ms[i] * c) % q
        BY <2>3, Zenon
      <3> QED BY <3>3, <3>4, Zenon
    <2>5. DOMAIN h = 1 .. m
      BY <2>3, Zenon
    <2> QED BY <2>2, <2>4, <2>5, Zenon DEF ToSet
  <1> QED BY <1>8, <1>9, <1>10, Zenon

LEMMA TypeFollows == IInv => TypeOK
  <1> SUFFICES ASSUME IInv PROVE TypeOK
    OBVIOUS
  <1>1. Case /\ drawn <= Len(stream) /\ Enough(asked) /\ Len(asked) <= Len(Answers) /\ shape \in Shapes
    BY NeverDry, Zenon DEF IInv, Enough, Case
  <1>2. ASSUME commit # NotYet
        PROVE  commit.c \in Point /\ {commit.s_hat} \cup ToSet(commit.m_hat) \subseteq Scalar
    <2>1. Opened(shape.committed, shape.keys, Committed, Fresh, commit, asked)
      BY <1>2, Zenon DEF IInv, Opens
    <2> QED BY <1>1, <2>1, OpenedType, Zenon
  <1>3. ASSUME signature \notin {NotYet, Refused}
        PROVE  signature.a \in Point
    BY <1>3, SignatureIs, Zenon
  <1>4. ASSUME state # NotYet
        PROVE  LET p == state.bbs_proof IN
               /\ {p.abar, p.bbar, p.d} \cup ToSet(state.pk_tildes) \subseteq Point
               /\ {p.ehat, p.r1hat, p.r3hat} \cup ToSet(p.m_hat) \subseteq Scalar
    <2>1. ArgsType(state.args) /\ Presented(stream, signature, state, asked) /\ signature \notin {NotYet, Refused}
      BY <1>4, Zenon DEF IInv, Presents, InTurn, Called
    <2>2. signature.a \in Point /\ signature.e \in Int
      BY <2>1, SignatureIs, Zenon
    <2> QED BY <1>1, <2>1, <2>2, PresentedType, Zenon
  <1>5. (accepted # NotYet => accepted.ok \in BOOLEAN) /\ (verified # NotYet => verified.ok \in BOOLEAN)
    BY Zenon DEF IInv, Decides
  <1> QED BY <1>1, <1>2, <1>3, <1>4, <1>5, Zenon DEF TypeOK

LEMMA OpeningsFollow == IInv => CommitmentsOpen
  <1> SUFFICES ASSUME IInv, verified # NotYet
               PROVE  \A i \in DOMAIN Chosen(state.disclosures, "COMMIT") :
                        state.commitments[i]
                          = sumprod(com_dis_generators,
                                    <<state.openings[i], state.args.messages[Chosen(state.disclosures, "COMMIT")[i]]>>)
    BY Zenon DEF CommitmentsOpen
  <1>1. Case /\ state # NotYet
    BY Zenon DEF IInv, InTurn
  <1>2. ArgsType(state.args) /\ Presented(stream, signature, state, asked)
    BY <1>1, Zenon DEF IInv, Presents, Called
  <1>3. state.disclosures \in [1 .. Len(state.args.messages) -> Disclosure] /\ state.commitments = CommitmentsOf(state)
    BY <1>2, Zenon DEF Presented
  <1> QED BY <1>1, <1>2, <1>3, CommitmentsAre, Zenon

(* In every reachable state the results have their types: points have their *)
(* coordinates, responses are reduced, and neither the source of randomness *)
(* nor the oracle has run dry.                                             *)
THEOREM TypeCorrect == Spec => []TypeOK
  BY Invariant, TypeFollows, PTL

(* blind_sign signs exactly the commitments in which the device of every    *)
(* position has proved its key.                                            *)
THEOREM PossessionIsExact == Spec => []PossessionExact
  <1>1. IInv => PossessionExact
    BY Zenon DEF IInv
  <1> QED BY <1>1, Invariant, PTL

(* verify_blind_sign accepts exactly what was signed.                       *)
THEOREM AcceptanceIsExact == Spec => []AcceptExact
  <1>1. IInv => AcceptExact
    BY Zenon DEF IInv
  <1> QED BY <1>1, Invariant, PTL

(* The commitments of a verified proof open to the messages chosen for them, *)
(* with the openings the wallet was handed.                                 *)
THEOREM CommitmentsAreOpened == Spec => []CommitmentsOpen
  BY Invariant, OpeningsFollow, PTL

-----------------------------------------------------------------------------
(* blind_proof_verify, of what was shown.                                  *)

\* Scalars and their negations.
LEMMA NegatedCancels ==
  ASSUME NEW ps \in Seq(Point), NEW ns \in Seq(Int), NEW rs \in Seq(Int), Len(ns) = Len(ps), Len(rs) = Len(ps),
         \A i \in 1 .. Len(ps) : ns[i] = Minus(0, rs[i])
  PROVE  Opposite(sumprod(ps, ns), sumprod(ps, rs))
  <1>1. PICK k \in Nat : k = Len(ps)
    OBVIOUS
  <1>2. PICK zs : zs = [i \in 1 .. k |-> 0]
    OBVIOUS
  <1>3. zs \in Seq(Int) /\ Len(zs) = k /\ \A i \in 1 .. k : zs[i] = 0
    <2>1. zs \in [1 .. k -> Int]
      BY <1>2
    <2>2. zs \in Seq(Int) /\ Len(zs) = k
      BY ONLY <2>1, k \in Nat
    <2> QED BY <1>2, <2>2, Zenon
  <1>4. \A i \in 1 .. k : Cong(zs[i], ns[i] + rs[i] * 1)
    <2>1. TAKE i \in 1 .. k
    <2>2. PICK n \in Int : n = ns[i]
      BY ONLY <1>1, Len(ns) = Len(ps), i \in 1 .. k, ns \in Seq(Int)
    <2>3. PICK r \in Int : r = rs[i]
      BY ONLY <1>1, Len(rs) = Len(ps), i \in 1 .. k, rs \in Seq(Int)
    <2>4. n = Minus(0, r)
      BY <1>1, <2>2, <2>3, Zenon
    <2>5. Cong(n, -r)
      BY <2>4, MinusType, Zenon
    <2>6. PICK t \in Int : t = -r
      OBVIOUS
    <2>7. Cong(n + r, t + r)
      <3>1. Cong(r, r)
        BY CongRefl
      <3> QED BY <2>5, <2>6, <3>1, CongAdd, Zenon
    <2>8. t + r = 0 /\ n + r = n + r * 1
      BY <2>6
    <2>9. Cong(n + r * 1, 0)
      BY <2>7, <2>8, Zenon
    <2>10. n + r * 1 \in Int /\ 0 \in Int
      OBVIOUS
    <2>11. Cong(0, n + r * 1)
      BY <2>9, <2>10, CongSym
    <2> QED BY <1>3, <2>2, <2>3, <2>11, Zenon
  <1>5. sumprod(ps, zs) = Plus(sumprod(ps, ns), Times(sumprod(ps, rs), 1))
    <2>1. 1 \in Int /\ Len(zs) = Len(ps) /\ \A i \in 1 .. Len(ps) : Cong(zs[i], ns[i] + rs[i] * 1)
      BY <1>1, <1>3, <1>4
    <2> QED BY <1>3, <2>1, SumprodAnswers
  <1>6. sumprod(ps, zs) = Identity
    BY <1>1, <1>3, SumprodZeros
  <1>7. Times(sumprod(ps, rs), 1) = sumprod(ps, rs)
    <2>1. Len(rs) >= Len(ps)
      OBVIOUS
    <2> QED BY <2>1, SumprodType, TimesOne
  <1> QED BY <1>5, <1>6, <1>7, Zenon DEF Opposite

\* The randomised keys: the keys, and their randomness.
LEMMA TildeSum ==
  ASSUME Case, NEW pr, ArgsType(pr.args), NEW rs \in Seq(NotZero), rs = pr.r_key, Len(rs) = Len(pr.args.keys)
  PROVE  sum_points(Tildes(stream, pr))
           = Plus(sum_points(KeyPoints(pr.args)), sumprod(Points("HK", Len(pr.args.keys)), rs))
  <1>1. PICK k \in Nat : k = Len(pr.args.keys)
    BY KeysType
  <1>2. PICK ks \in Seq(Point) : ks = KeyPoints(pr.args) /\ Len(ks) = k
    BY <1>1, KeysType
  <1>3. PICK ts \in Seq(Point) : ts = Tildes(stream, pr) /\ Len(ts) = k
    <2>1. pr.r_key \in Seq(NotZero) /\ Len(pr.r_key) = Len(pr.args.keys)
      BY Zenon
    <2> QED BY <1>1, <2>1, TildesType
  <1>4. PICK hs \in Seq(Point) : hs = Points("HK", k) /\ Len(hs) = k
    BY PointsType
  <1>5. ASSUME NEW i \in 1 .. k
        PROVE  /\ ks[i] \in Point /\ Products(hs, rs, k)[i] \in Point
               /\ ts[i] = Plus(ks[i], Products(hs, rs, k)[i])
    <2>1. ks[i] \in Point
      BY ONLY <1>2, i \in 1 .. k, k \in Nat, ks \in Seq(Point)
    <2>2. hs[i] = Generator("HK", i) /\ hs[i] \in Point
      <3>1. hs[i] = Generator("HK", i)
        BY <1>4, PointsType, Zenon
      <3> QED BY <3>1, GeneratorAt
    <2>3. rs[i] \in Int
      <3>1. rs[i] \in NotZero
        BY ONLY <1>1, Len(rs) = Len(pr.args.keys), i \in 1 .. k, k \in Nat, rs \in Seq(NotZero)
      <3> QED BY <3>1, NotZeroIsScalar
    <2>4. Products(hs, rs, k)[i] = Times(hs[i], rs[i])
      BY Zenon DEF Products
    <2>5. ks[i] = DevicePoint(pr.args.keys[i])
      BY <1>1, <1>2, KeysType, Zenon
    <2>6. ts[i] = Plus(DevicePoint(pr.args.keys[i]), Times(Generator("HK", i), pr.r_key[i]))
      <3>1. pr.r_key \in Seq(NotZero) /\ Len(pr.r_key) = Len(pr.args.keys)
        BY Zenon
      <3> QED BY <1>1, <1>3, <3>1, TildesType, Zenon
    <2> QED BY <2>1, <2>2, <2>3, <2>4, <2>5, <2>6, TimesAt, Zenon
  <1>6. SumTo(ts, k) = Plus(SumTo(ks, k), SumTo(Products(hs, rs, k), k))
    <2>1. PICK P : P = Products(hs, rs, k)
      OBVIOUS
    <2>2. \A i \in 1 .. k : ks[i] \in Point /\ P[i] \in Point /\ ts[i] = Plus(ks[i], P[i])
      BY <1>5, <2>1, Zenon
    <2>3. SumTo(ts, k) = Plus(SumTo(ks, k), SumTo(P, k))
      BY ONLY <2>2, SumToPlus, k \in Nat
    <2> QED BY <2>1, <2>3, Zenon
  <1>7. sum_points(ts) = SumTo(ts, k) /\ sum_points(ks) = SumTo(ks, k)
    BY <1>2, <1>3, SumPointsType
  <1>8. sumprod(hs, rs) = SumTo(Products(hs, rs, k), k)
    <2>1. sumprod(hs, rs) = ProdTo(hs, rs, Len(hs))
      BY ONLY SumprodIsProdTo, hs \in Seq(Point)
    <2> QED BY <1>4, <2>1, Zenon DEF ProdTo
  <1> QED BY <1>1, <1>2, <1>3, <1>4, <1>6, <1>7, <1>8, Zenon

\* The points and responses of the hidden scalars, those of the keys after them.
LEMMA HiddenSum ==
  ASSUME Case, NEW pr, ArgsType(pr.args), pr.disclosures \in [1 .. Len(pr.args.messages) -> Disclosure], Randomised(pr),
         NEW l \in Nat, l = shape.issuer + shape.committed,
         NEW ps \in Seq(Point), ps = PointsAt(GeneratorsOf(pr.args), HiddenBy(pr)), NEW u \in Point,
         u = sumprod(ps, Select(proof_scalars(pr.args), HiddenBy(pr)))
  PROVE  /\ PointsAt(GeneratorsOf(pr.args), HiddenSlots(pr)) = KeyedPoints(ps, Len(pr.args.keys))
         /\ KeyedPoints(ps, Len(pr.args.keys)) \in Seq(Point)
         /\ Len(KeyedPoints(ps, Len(pr.args.keys))) = Len(HiddenScalars(pr))
         /\ sumprod(KeyedPoints(ps, Len(pr.args.keys)), HiddenScalars(pr)) \in Point
         /\ Plus(sumprod(KeyedPoints(ps, Len(pr.args.keys)), HiddenScalars(pr)), sum_points(Tildes(stream, pr)))
              = Plus(u, sum_points(KeyPoints(pr.args)))
  <1>1. PICK m \in Nat, n \in Nat :
          /\ m = shape.issuer + shape.committed /\ Len(pr.args.messages) = m /\ n \in 0 .. m /\ n = pr.args.issuer_no
          /\ Len(proof_scalars(pr.args)) = m + 1 /\ proof_scalars(pr.args) \in Seq(Int)
          /\ Indexing(HiddenBy(pr), m + 1, Rest(m + 1, DisclosedBy(pr), Len(DisclosedBy(pr))))
    BY PresentedSizes, Zenon
  <1>2. PICK k \in Nat : k = Len(pr.args.keys)
    BY KeysType
  <1>3. PICK U : U = HiddenBy(pr)
    OBVIOUS
  <1>4. PICK G : G = all_generators(n, m, k)
    OBVIOUS
  <1>5. G = GeneratorsOf(pr.args)
    BY <1>1, <1>2, <1>4, Zenon DEF GeneratorsOf
  <1>6. Len(ps) = Len(U) /\ PointsAt(G, KeySlots(U, m + 1, k)) = KeyedPoints(ps, k)
    <2>1. Indexing(U, m + 1, Rest(m + 1, DisclosedBy(pr), Len(DisclosedBy(pr))))
      BY <1>1, <1>3, Zenon
    <2>2. /\ Len(PointsAt(all_generators(n, m, k), U)) = Len(U)
          /\ PointsAt(all_generators(n, m, k), KeySlots(U, m + 1, k)) = KeyedPoints(PointsAt(all_generators(n, m, k), U), k)
      <3>1. n \in 0 .. m
        BY <1>1, Zenon
      <3> QED BY ONLY <2>1, <3>1, PointsAtType, m \in Nat, k \in Nat
    <2> QED BY <1>3, <1>4, <1>5, <2>2, Zenon
  <1>7. HiddenSlots(pr) = KeySlots(U, m + 1, k)
    BY <1>1, <1>2, <1>3, Zenon DEF HiddenSlots, KeySlots
  <1>8. PICK us \in Seq(Int), ns \in Seq(Int) :
          /\ HiddenScalars(pr) = us \o ns
          /\ us = Select(proof_scalars(pr.args), HiddenBy(pr))
          /\ Len(us) = Len(HiddenBy(pr)) /\ Len(ns) = Len(pr.args.keys)
          /\ \A i \in 1 .. Len(pr.args.keys) : ns[i] = Minus(0, pr.r_key[i])
    BY HiddenScalarsType, Zenon
  <1>9. PICK hs \in Seq(Point) : hs = Points("HK", k) /\ Len(hs) = k
    BY PointsType
  <1>10. PICK rs \in Seq(NotZero) : rs = pr.r_key /\ Len(rs) = k
    BY <1>2, Zenon DEF Randomised
  <1>11. rs \in Seq(Int)
    BY NotZeroSeq
  <1>12. Len(us) = Len(ps) /\ Len(ns) = Len(hs) /\ Len(rs) = Len(hs)
    BY <1>2, <1>3, <1>6, <1>8, <1>9, <1>10, Zenon
  <1>13. /\ ps \o hs \in Seq(Point) /\ Len(ps \o hs) = Len(ps) + Len(hs)
         /\ us \o ns \in Seq(Int) /\ Len(us \o ns) = Len(ps) + Len(hs)
         /\ sumprod(ps \o hs, us \o ns) = Plus(sumprod(ps, us), sumprod(hs, ns))
    BY ONLY <1>12, SumprodJoined, ps \in Seq(Point), hs \in Seq(Point), us \in Seq(Int), ns \in Seq(Int)
  <1>14. PICK kn \in Point, kr \in Point : kn = sumprod(hs, ns) /\ kr = sumprod(hs, rs)
    <2>1. Len(ns) >= Len(hs) /\ Len(rs) >= Len(hs)
      BY <1>9, <1>12
    <2> QED BY <1>11, <2>1, SumprodType
  <1>15. Plus(kn, kr) = Identity
    <2>1. \A i \in 1 .. Len(hs) : ns[i] = Minus(0, rs[i])
      BY <1>2, <1>8, <1>9, <1>10, Zenon
    <2>2. Opposite(sumprod(hs, ns), sumprod(hs, rs))
      BY ONLY <1>11, <1>12, <2>1, NegatedCancels, hs \in Seq(Point), ns \in Seq(Int)
    <2> QED BY <1>14, <2>2, Zenon DEF Opposite
  <1>16. PICK kp \in Point : kp = sum_points(KeyPoints(pr.args))
    BY KeysType, SumPointsType
  <1>17. sum_points(Tildes(stream, pr)) = Plus(kp, kr)
    <2>1. sum_points(Tildes(stream, pr)) = Plus(sum_points(KeyPoints(pr.args)), sumprod(Points("HK", Len(pr.args.keys)), rs))
      BY <1>2, <1>10, TildeSum, Zenon
    <2> QED BY <1>2, <1>9, <1>14, <1>16, <2>1, Zenon
  <1>18. Plus(Plus(u, kn), Plus(kp, kr)) = Plus(u, kp)
    <2>1. Plus(Plus(u, kn), Plus(kp, kr)) = Plus(Plus(u, kp), Plus(kn, kr))
      BY PlusFour
    <2>2. Plus(Plus(u, kp), Identity) = Plus(u, kp)
      BY PlusAt, PlusIdentity
    <2> QED BY <1>15, <2>1, <2>2, Zenon
  <1>19. Plus(u, kn) \in Point
    BY PlusAt
  <1>20. sumprod(ps \o hs, us \o ns) = Plus(u, kn)
    BY <1>8, <1>13, <1>14, Zenon
  <1> QED BY <1>2, <1>3, <1>5, <1>6, <1>7, <1>8, <1>9, <1>13, <1>16, <1>17, <1>18, <1>19, <1>20, Zenon DEF KeyedPoints

\* What the verifier computes for T2, with the keys added after.
T2Of(G, dom, D, ms, p, slots, tildes) ==
  Plus(sumprod(<<Known(G, dom, D, ms), p.d>> \o PointsAt(G, slots), <<p.challenge, p.r3hat>> \o p.m_hat),
       Times(sum_points(tildes), p.challenge))

LEMMA T2Recomputed ==
  ASSUME Case, NEW pr, ArgsType(pr.args), pr.disclosures \in [1 .. Len(pr.args.messages) -> Disclosure], Randomised(pr),
         NEW sg, sg.a \in Point, sg.e \in Int, NEW dom \in Int, NEW p, Responses(sg, pr, p, Full(pr.args, dom)),
         p.challenge \in Int
  PROVE  T2Of(GeneratorsOf(pr.args), dom, DisclosedBy(pr), Select(proof_scalars(pr.args), DisclosedBy(pr)), p,
              HiddenSlots(pr), Tildes(stream, pr))
           = Plus(Times(p.d, pr.random[5]),
                  sumprod(PointsAt(GeneratorsOf(pr.args), HiddenSlots(pr)), SubSeq(pr.random, 6, Len(pr.random))))
  <1>1. PICK l \in Nat, n \in Nat :
          /\ l = shape.issuer + shape.committed /\ Len(pr.args.messages) = l /\ n \in 0 .. l /\ n = pr.args.issuer_no
          /\ Len(proof_scalars(pr.args)) = l + 1 /\ proof_scalars(pr.args) \in Seq(Int)
          /\ Slots(DisclosedBy(pr), Chosen(pr.disclosures, "DISCLOSE"), l, n)
    BY PresentedSizes, Zenon
  <1>2. PICK k \in Nat : k = Len(pr.args.keys)
    BY KeysType
  <1>3. PICK G : G = GeneratorsOf(pr.args) /\ G = all_generators(n, l, k)
    BY <1>1, <1>2, Zenon DEF GeneratorsOf
  <1>4. PICK ss \in Seq(Int) : ss = proof_scalars(pr.args) /\ Len(ss) = l + 1
    BY <1>1, Zenon
  <1>5. PICK D : D = DisclosedBy(pr)
    OBVIOUS
  <1>6. PICK U : U = HiddenBy(pr)
    OBVIOUS
  <1>7. U = IndexesIn(l + 1, Rest(l + 1, D, Len(D)))
    <2>1. Without(l + 1, D) = IndexesIn(l + 1, Rest(l + 1, D, Len(D)))
      <3>1. PICK d \in [1 .. l -> Disclosure] : d = pr.disclosures
        BY <1>1, Zenon
      <3>2. D = Shifted(Chosen(d, "DISCLOSE"), n)
        BY <1>1, <1>5, <3>1, Zenon DEF DisclosedBy
      <3> QED BY <1>1, <3>2, HiddenType
    <2> QED BY <1>1, <1>5, <1>6, <2>1, Zenon DEF HiddenBy
  <1>8. /\ Known(all_generators(n, l, k), dom, D, Select(ss, D)) \in Point
        /\ sumprod(PointsAt(all_generators(n, l, k), U), Select(ss, U)) \in Point
        /\ Messaged(n, l, dom, ss)
             = Plus(Known(all_generators(n, l, k), dom, D, Select(ss, D)),
                    sumprod(PointsAt(all_generators(n, l, k), U), Select(ss, U)))
    <2>1. PICK e : Slots(D, e, l, n)
      BY <1>1, <1>5, Zenon
    <2>2. RestOf(U, l, D)
      BY <1>7, Zenon DEF RestOf
    <2>3. n \in 0 .. l /\ Len(ss) = l + 1
      BY <1>1, <1>4, Zenon
    <2>4. Parted(all_generators(n, l, k), n, l, dom, ss, D, U)
      BY ONLY <2>1, <2>2, <2>3, PartedB, l \in Nat, k \in Nat, dom \in Int, ss \in Seq(Int)
    <2> QED BY <2>4, Zenon DEF Parted
  <1>9. PICK bv \in Point : bv = Known(G, dom, D, Select(ss, D))
    BY <1>3, <1>8, Zenon
  <1>10. PICK u \in Point : u = sumprod(PointsAt(G, U), Select(ss, U))
    BY <1>3, <1>8, Zenon
  <1>11. PICK ps \in Seq(Point) : ps = PointsAt(G, U)
    <2>1. Indexing(U, l + 1, Rest(l + 1, D, Len(D)))
      BY <1>7, IndexesType
    <2>2. PointsAt(all_generators(n, l, k), U) \in Seq(Point)
      BY <1>1, <2>1, PointsAtType
    <2> QED BY <1>3, <2>2, Zenon
  <1>12. PICK W \in Seq(Point) : W = KeyedPoints(ps, k)
    BY <1>1, <1>2, <1>3, <1>4, <1>6, <1>10, <1>11, HiddenSum, Zenon
  <1>13. PICK H \in Seq(Int) : H = HiddenScalars(pr) /\ Len(H) = Len(HiddenBy(pr)) + k
    BY <1>2, HiddenScalarsType, Zenon
  <1>14. PICK Hk \in Point : Hk = sumprod(W, H)
    BY <1>1, <1>2, <1>3, <1>4, <1>6, <1>10, <1>11, <1>12, <1>13, HiddenSum, Zenon
  <1>15. PICK T \in Point : T = sum_points(Tildes(stream, pr))
    <2>1. pr.r_key \in Seq(NotZero) /\ Len(pr.r_key) = Len(pr.args.keys)
      BY Zenon DEF Randomised
    <2> QED BY <2>1, TildesType, SumPointsType
  <1>16. PICK kp \in Point : kp = sum_points(KeyPoints(pr.args))
    BY KeysType, SumPointsType
  <1>17. /\ PointsAt(G, HiddenSlots(pr)) = W
         /\ Len(W) = Len(H)
         /\ Plus(Hk, T) = Plus(u, kp)
    BY <1>1, <1>2, <1>3, <1>4, <1>6, <1>10, <1>11, <1>12, <1>13, <1>14, <1>15, <1>16, HiddenSum, Zenon
  <1>18. PICK F \in Point : F = Full(pr.args, dom)
    BY FullIs
  <1>19. F = Plus(Plus(bv, Hk), T)
    <2>1. F = Plus(Plus(bv, u), kp)
      <3>1. Full(pr.args, dom) = Plus(Messaged(pr.args.issuer_no, shape.issuer + shape.committed, dom, proof_scalars(pr.args)),
                                      sum_points(KeyPoints(pr.args)))
        BY FullIs
      <3> QED BY <1>1, <1>3, <1>4, <1>8, <1>9, <1>10, <1>16, <1>18, <3>1, Zenon
    <2>2. Plus(Plus(bv, u), kp) = Plus(bv, Plus(u, kp)) /\ Plus(Plus(bv, Hk), T) = Plus(bv, Plus(Hk, T))
      BY PlusAssociates
    <2> QED BY <1>17, <2>1, <2>2, Zenon
  <1>20. PICK d \in Point, c \in Int, rh \in Int : d = p.d /\ c = p.challenge /\ rh = p.r3hat
    <2>1. p.d \in Point /\ p.r3hat \in Scalar
      BY <1>18, ResponsesType, Zenon
    <2> QED BY <2>1, ScalarType
  <1>21. PICK r2 \in NotZero, r5 \in Int : r2 = pr.random[2] /\ r5 = pr.random[5]
    <2>1. 2 \in 1 .. 5 /\ 5 \in 1 .. 5
      OBVIOUS
    <2> QED BY <2>1, RandomAt, Zenon
  <1>22. ThreeParts(F, bv, Hk, T, d, r2)
    <2>1. p.d = Times(F, pr.random[2])
      BY <1>18, Zenon DEF Responses
    <2> QED BY <1>19, <1>20, <1>21, <2>1, Zenon DEF ThreeParts
  <1>23. Cong(rh, r5 - Invert(r2) * c)
    <2>1. rh = Minus(r5, Invert(r2) * c)
      BY <1>20, <1>21, Zenon DEF Responses
    <2>v. PICK v \in Int : v = Invert(r2)
      BY InvertType DEF NotZero
    <2>w. PICK x \in Int : x = v * c
      OBVIOUS
    <2>2. x = Invert(r2) * c
      BY <2>v, <2>w, Zenon
    <2>3. Cong(Minus(r5, x), r5 - x)
      BY MinusCong
    <2> QED BY <2>1, <2>2, <2>3, Zenon
  <1>24. PICK mh \in Seq(Int) : /\ mh = p.m_hat /\ Len(mh) = Len(W)
                                /\ \A i \in 1 .. Len(W) : Cong(mh[i], pr.random[5 + i] + H[i] * c)
    <2>1. /\ p.m_hat \in Seq(Int) /\ Len(p.m_hat) = Len(HiddenBy(pr)) + Len(pr.args.keys)
          /\ \A i \in 1 .. Len(HiddenBy(pr)) + Len(pr.args.keys) :
               Cong(p.m_hat[i], pr.random[5 + i] + HiddenScalars(pr)[i] * p.challenge)
      BY <1>18, ResponsesType, Zenon
    <2> QED BY <1>2, <1>13, <1>17, <1>20, <2>1, Zenon
  <1>25. PICK rt \in Seq(Int) : /\ rt = SubSeq(pr.random, 6, Len(pr.random)) /\ Len(rt) = Len(W)
                                /\ \A i \in 1 .. Len(W) : rt[i] = pr.random[5 + i]
    <2>1. PICK w \in Nat : w = Len(W)
      OBVIOUS
    <2>2. PICK r \in Seq(NotZero) : r = pr.random /\ Len(r) = 5 + w
      <3>1. PICK r \in Seq(NotZero) : r = pr.random /\ Len(r) = 5 + Len(HiddenBy(pr)) + Len(pr.args.keys)
        BY Zenon DEF Randomised
      <3>2. PICK h \in Nat : h = Len(HiddenBy(pr))
        BY RandomAt
      <3>3. Len(r) = 5 + h + k /\ w = h + k
        BY <1>2, <1>13, <1>17, <2>1, <3>1, <3>2, Zenon
      <3>4. Len(r) = 5 + w
        BY ONLY <3>3, h \in Nat, k \in Nat
      <3> QED BY <3>1, <3>4, Zenon
    <2>3. /\ SubSeq(r, 5 + 1, 5 + w) \in Seq(NotZero) /\ Len(SubSeq(r, 5 + 1, 5 + w)) = w
          /\ \A i \in 1 .. w : SubSeq(r, 5 + 1, 5 + w)[i] = r[5 + i]
      <3>1. 5 + w <= Len(r) /\ 5 \in Nat /\ 5 + w \in Nat
        BY <2>2
      <3> QED BY ONLY <3>1, RandomsMiddle, w \in Nat, r \in Seq(NotZero), SMTT(40)
    <2>4. PICK rt \in Seq(NotZero) : rt = SubSeq(r, 5 + 1, 5 + w) /\ Len(rt) = w /\ \A i \in 1 .. w : rt[i] = r[5 + i]
      BY <2>3, Zenon
    <2>5. 5 + 1 = 6
      OBVIOUS
    <2>6. rt \in Seq(Int)
      BY NotZeroSeq
    <2> QED BY <2>1, <2>2, <2>4, <2>5, <2>6, Zenon
  <1>26. PICK S \in Point : S = sumprod(W, rt)
    <2>1. Len(rt) >= Len(W)
      BY <1>25
    <2> QED BY <2>1, SumprodType
  <1>27. sumprod(W, mh) = Plus(S, Times(Hk, c))
    <2>1. \A i \in 1 .. Len(W) : Cong(mh[i], rt[i] + H[i] * c)
      BY <1>24, <1>25, Zenon
    <2>2. Len(mh) = Len(W) /\ Len(rt) = Len(W) /\ Len(H) = Len(W)
      BY <1>17, <1>24, <1>25
    <2>3. sumprod(W, mh) = Plus(sumprod(W, rt), Times(sumprod(W, H), c))
      BY ONLY <2>1, <2>2, SumprodAnswers, W \in Seq(Point), mh \in Seq(Int), rt \in Seq(Int), H \in Seq(Int), c \in Int
    <2> QED BY <1>14, <1>26, <2>3, Zenon
  <1>28. sumprod(<<bv, d>> \o W, <<c, rh>> \o mh) = Plus(Plus(Times(bv, c), Times(d, rh)), sumprod(W, mh))
    <2>1. Len(mh) = Len(W)
      BY <1>24
    <2> QED BY ONLY <2>1, PairedWith, bv \in Point, d \in Point, c \in Int, rh \in Int, W \in Seq(Point), mh \in Seq(Int)
  <1>29. Plus(Plus(Plus(Times(bv, c), Times(d, rh)), Plus(S, Times(Hk, c))), Times(T, c)) = Plus(Times(d, r5), S)
    <2>1. SecondSame(bv, Hk, T, S, d, c, r5, rh)
      BY ONLY <1>22, <1>23, T2Same, bv \in Point, Hk \in Point, T \in Point, S \in Point, F \in Point, d \in Point,
              c \in Int, r2 \in NotZero, r5 \in Int, rh \in Int
    <2> QED BY <2>1, Zenon DEF SecondSame
  <1> QED BY <1>3, <1>4, <1>5, <1>9, <1>15, <1>17, <1>20, <1>21, <1>24, <1>25, <1>26, <1>27, <1>28, <1>29, Zenon DEF T2Of

\* What a presentation was made of.
LEMMA PresentedParts ==
  ASSUME Case, NEW pr, ArgsType(pr.args), NEW o, Enough(o), NEW sg, Presented(stream, sg, pr, o)
  PROVE  \E dom \in Answer, B \in Point, c \in Answer :
           /\ B = Full(pr.args, dom) /\ c = pr.bbs_proof.challenge /\ c \in Int /\ c \in Scalar /\ dom \in Int /\ dom \in Scalar
           /\ Knows(o, DomainInput(IssuerKey, GeneratorsOf(pr.args), pr.args.header), dom)
           /\ Responses(sg, pr, pr.bbs_proof, B)
           /\ Knows(o, Challenged(sg, pr, B, dom), c)
  <1>1. PICK dom \in Answer : /\ Knows(o, DomainInput(stream[1], GeneratorsOf(pr.args), pr.args.header), dom)
                              /\ Responses(sg, pr, pr.bbs_proof, FullOf(stream, pr.args, dom))
                              /\ Knows(o, Challenged(sg, pr, FullOf(stream, pr.args, dom), dom), pr.bbs_proof.challenge)
    BY Zenon DEF Presented
  <1>2. PICK c : c = pr.bbs_proof.challenge
    OBVIOUS
  <1>3. c \in Answer /\ c \in Int /\ c \in Scalar
    <2>1. Knows(o, Challenged(sg, pr, FullOf(stream, pr.args, dom), dom), c)
      BY <1>1, <1>2, Zenon
    <2> QED BY <2>1, KnowsType, Zenon
  <1>4. dom \in Int /\ dom \in Scalar
    BY AnswersType
  <1>5. Full(pr.args, dom) \in Point /\ Full(pr.args, dom) = FullOf(stream, pr.args, dom)
    BY <1>4, FullIs, FullOfStream
  <1> QED BY <1>1, <1>2, <1>3, <1>4, <1>5, Zenon DEF IssuerKey

\* Each commitment's proof comes out as the prover had it.
LEMMA ProofsRecomputed ==
  ASSUME Case, NEW pr, ArgsType(pr.args), NEW o, Enough(o), NEW sg, sg.a \in Point, sg.e \in Int,
         Presented(stream, sg, pr, o), NEW i \in 1 .. Len(CommittedBy(pr))
  PROVE  /\ pr.commitments[i] \in Point
         /\ sumprod(com_dis_generators \o <<pr.commitments[i]>>,
                    <<pr.s_hat[i], pr.bbs_proof.m_hat[PositionOf(CommittedBy(pr)[i], HiddenSlots(pr))],
                      Minus(0, pr.bbs_proof.challenge)>>)
              = sumprod(com_dis_generators, <<pr.s_tilde[i], pr.random[5 + PositionOf(CommittedBy(pr)[i], HiddenBy(pr))]>>)
  <1>1. /\ pr.disclosures \in [1 .. Len(pr.args.messages) -> Disclosure] /\ Randomised(pr)
        /\ pr.commitments = CommitmentsOf(pr)
        /\ pr.s_hat = [j \in 1 .. Len(CommittedBy(pr)) |-> (pr.s_tilde[j] + pr.bbs_proof.challenge * pr.openings[j]) % q]
    BY Zenon DEF Presented
  <1>2. PICK p : p = pr.bbs_proof
    OBVIOUS
  <1>3. PICK B \in Point, c \in Int : c = p.challenge /\ Responses(sg, pr, p, B)
    BY <1>2, PresentedParts, Zenon
  <1>4. PICK l \in Nat :
          /\ Len(proof_scalars(pr.args)) = l + 1 /\ proof_scalars(pr.args) \in Seq(Int)
          /\ Indexing(HiddenBy(pr), l + 1, Rest(l + 1, DisclosedBy(pr), Len(DisclosedBy(pr))))
          /\ \E j \in 1 .. Len(HiddenBy(pr)) : HiddenBy(pr)[j] = CommittedBy(pr)[i]
    BY <1>1, PresentedSizes, Zenon
  <1>5. PICK k \in Nat : k = Len(pr.args.keys)
    BY KeysType
  <1>6. PICK U : U = HiddenBy(pr)
    OBVIOUS
  <1>7. PICK j \in 1 .. Len(U) : U[j] = CommittedBy(pr)[i]
    BY <1>4, <1>6, Zenon
  <1>8. PositionOf(U[j], U) = j /\ PositionOf(U[j], KeySlots(U, l + 1, k)) = j
    <2>1. Indexing(U, l + 1, Rest(l + 1, DisclosedBy(pr), Len(DisclosedBy(pr))))
      BY <1>4, <1>6, Zenon
    <2>2. l + 1 \in Nat
      OBVIOUS
    <2> QED BY <2>1, <2>2, PositionKept
  <1>9. HiddenSlots(pr) = KeySlots(U, l + 1, k)
    BY <1>4, <1>5, <1>6, Zenon DEF HiddenSlots, KeySlots
  <1>10. PICK m \in Int : m = proof_scalars(pr.args)[U[j]]
    <2>1. PICK s \in Seq(Int) : s = proof_scalars(pr.args) /\ Len(s) = l + 1
      BY <1>4, Zenon
    <2>2. U[j] \in 1 .. l + 1
      BY <1>4, <1>6, Zenon DEF Indexing
    <2>3. s[U[j]] \in Int
      BY ONLY <2>1, <2>2, s \in Seq(Int)
    <2> QED BY <2>1, <2>3, Zenon
  <1>11. PICK h \in Nat : h = Len(U)
    BY <1>1, <1>6, RandomAt
  <1>12. j \in 1 .. h /\ j \in 1 .. h + k /\ 5 + j \in 1 .. 5 + h + k
    BY <1>11
  <1>13. PICK mh \in Int, b \in Int : mh = p.m_hat[j] /\ b = pr.random[5 + j] /\ Cong(mh, b + m * c)
    <2>1. \A t \in 1 .. Len(HiddenBy(pr)) + Len(pr.args.keys) :
            /\ p.m_hat[t] \in Scalar
            /\ Cong(p.m_hat[t], pr.random[5 + t] + HiddenScalars(pr)[t] * p.challenge)
      BY <1>1, <1>3, ResponsesType, Zenon
    <2>2. \A t \in 1 .. Len(HiddenBy(pr)) : HiddenScalars(pr)[t] = proof_scalars(pr.args)[HiddenBy(pr)[t]]
      BY <1>1, HiddenScalarsType, Zenon
    <2>3. \A t \in 1 .. 5 + Len(HiddenBy(pr)) + Len(pr.args.keys) : pr.random[t] \in NotZero
      BY <1>1, RandomAt, Zenon
    <2>4. p.m_hat[j] \in Scalar /\ Cong(p.m_hat[j], pr.random[5 + j] + m * c) /\ pr.random[5 + j] \in NotZero
      BY <1>3, <1>5, <1>6, <1>10, <1>11, <1>12, <2>1, <2>2, <2>3, Zenon
    <2>5. p.m_hat[j] \in Int /\ pr.random[5 + j] \in Int
      BY <2>4, ScalarType, NotZeroIsScalar, Zenon
    <2> QED BY <2>4, <2>5, Zenon
  <1>14. PICK s \in Int, a \in Int : s = pr.openings[i] /\ a = pr.s_tilde[i]
    BY <1>1, RandomAt, Zenon
  <1>15. PICK sh \in Int : sh = pr.s_hat[i] /\ Cong(sh, a + s * c)
    <2>1. PICK x \in Int : x = a + c * s
      OBVIOUS
    <2>2. x % q \in Int /\ Cong(x % q, x)
      BY OrderType, CongMod
    <2>3. pr.s_hat[i] = (pr.s_tilde[i] + pr.bbs_proof.challenge * pr.openings[i]) % q
      BY <1>1, Zenon
    <2>4. pr.s_hat[i] = x % q
      BY <1>2, <1>3, <1>14, <2>1, <2>3, Zenon
    <2>5. x = a + s * c
      <3>1. c * s = s * c
        BY ONLY c \in Int, s \in Int
      <3> QED BY <2>1, <3>1, Zenon
    <2> QED BY <2>2, <2>4, <2>5, Zenon
  <1>16. PICK y0 \in Point, y1 \in Point : com_dis_generators = <<y0, y1>>
    BY GeneratorAt, Zenon DEF com_dis_generators
  <1>17. PICK C : C = pr.commitments[i]
    OBVIOUS
  <1>18. Commits(C, y0, y1, s, m)
    <2>1. pr.commitments[i] = sumprod(com_dis_generators, <<pr.openings[i], proof_scalars(pr.args)[CommittedBy(pr)[i]]>>)
      BY <1>1, Zenon DEF CommitmentsOf
    <2> QED BY <1>7, <1>10, <1>14, <1>16, <1>17, <2>1, Zenon DEF Commits
  <1>19. C \in Point /\ Recommits(C, y0, y1, sh, mh, c, a, b)
    BY ONLY <1>13, <1>15, <1>18, CommitmentSame, y0 \in Point, y1 \in Point, s \in Int, m \in Int, a \in Int, b \in Int, c \in Int,
            sh \in Int, mh \in Int
  <1> QED BY <1>2, <1>3, <1>6, <1>7, <1>8, <1>9, <1>13, <1>14, <1>15, <1>16, <1>17, <1>19, Zenon DEF Recommits

\* What the relying party reads of a presentation.
ShownBy(pr) ==
  [issuer_no |-> pr.args.issuer_no, disclosures |-> pr.disclosures,
   messages |-> Select(pr.args.messages, Chosen(pr.disclosures, "DISCLOSE")),
   header |-> pr.args.header, ph |-> pr.ph]

LEMMA ShownIs == Shown = ShownBy(state)
  BY Zenon DEF Shown, ShownBy

LEMMA ShownFields ==
  ASSUME NEW pr
  PROVE  /\ ShownBy(pr).issuer_no = pr.args.issuer_no /\ ShownBy(pr).disclosures = pr.disclosures
         /\ ShownBy(pr).messages = Select(pr.args.messages, Chosen(pr.disclosures, "DISCLOSE"))
         /\ ShownBy(pr).header = pr.args.header /\ ShownBy(pr).ph = pr.ph
  <1>1. PICK n, d, m, h, p : /\ n = pr.args.issuer_no /\ d = pr.disclosures
                             /\ m = Select(pr.args.messages, Chosen(pr.disclosures, "DISCLOSE"))
                             /\ h = pr.args.header /\ p = pr.ph
    OBVIOUS
  <1>2. PICK s : s = [issuer_no |-> n, disclosures |-> d, messages |-> m, header |-> h, ph |-> p]
    OBVIOUS
  <1>3. s.issuer_no = n /\ s.disclosures = d /\ s.messages = m /\ s.header = h /\ s.ph = p
    BY ONLY <1>2
  <1>4. ShownBy(pr) = s
    BY <1>1, <1>2, Zenon DEF ShownBy
  <1> QED BY <1>1, <1>3, <1>4, Zenon

\* What proof_verify_init recomputes, the keys added after.
VerifyInit(p, G, dom, ms, D, slots, tildes) ==
  [abar |-> p.abar, bbar |-> p.bbar, d |-> p.d,
   t1 |-> sumprod(<<p.bbar, p.abar, p.d>>, <<p.challenge, p.ehat, p.r1hat>>),
   t2 |-> T2Of(G, dom, D, ms, p, slots, tildes), domain |-> dom]

LEMMA VerifyInitIs ==
  ASSUME NEW p, NEW G, NEW dom, NEW ms, NEW D, NEW tildes
  PROVE  [proof_verify_init(p, G, dom, ms, D) EXCEPT !.t2 = Plus(@, Times(sum_points(tildes), p.challenge))]
           = VerifyInit(p, G, dom, ms, D, Without(Len(D) + Len(p.m_hat), D), tildes)
  <1>1. PICK a, b, d, x, y, z :
          /\ a = p.abar /\ b = p.bbar /\ d = p.d
          /\ x = sumprod(<<p.bbar, p.abar, p.d>>, <<p.challenge, p.ehat, p.r1hat>>)
          /\ y = sumprod(<<Known(G, dom, D, ms), p.d>> \o PointsAt(G, Without(Len(D) + Len(p.m_hat), D)),
                         <<p.challenge, p.r3hat>> \o p.m_hat)
          /\ z = Times(sum_points(tildes), p.challenge)
    OBVIOUS
  <1>2. proof_verify_init(p, G, dom, ms, D) = [abar |-> a, bbar |-> b, d |-> d, t1 |-> x, t2 |-> y, domain |-> dom]
    BY <1>1, Zenon DEF proof_verify_init, Known, PointsAt
  <1>3. PICK i : i = [abar |-> a, bbar |-> b, d |-> d, t1 |-> x, t2 |-> y, domain |-> dom]
    OBVIOUS
  <1>4. [i EXCEPT !.t2 = Plus(@, z)] = [abar |-> a, bbar |-> b, d |-> d, t1 |-> x, t2 |-> Plus(y, z), domain |-> dom]
    BY ONLY <1>3
  <1>5. T2Of(G, dom, D, ms, p, Without(Len(D) + Len(p.m_hat), D), tildes) = Plus(y, z)
    BY <1>1, Zenon DEF T2Of
  <1> QED BY <1>1, <1>2, <1>3, <1>4, <1>5, Zenon DEF VerifyInit

\* The slots that the verifier takes for hidden are those that are.
LEMMA HiddenSlotsFound ==
  ASSUME Case, NEW pr, ArgsType(pr.args), NEW o, Enough(o), NEW sg, sg.a \in Point, sg.e \in Int, Presented(stream, sg, pr, o)
  PROVE  /\ Len(DisclosedBy(pr)) + Len(pr.bbs_proof.m_hat) = (Len(pr.args.messages) + 1) + Len(pr.args.keys)
         /\ Without(Len(DisclosedBy(pr)) + Len(pr.bbs_proof.m_hat), DisclosedBy(pr)) = HiddenSlots(pr)
  <1>1. pr.disclosures \in [1 .. Len(pr.args.messages) -> Disclosure] /\ Randomised(pr)
    BY Zenon DEF Presented
  <1>2. PICK l \in Nat :
          /\ l = Len(pr.args.messages) /\ Len(proof_scalars(pr.args)) = l + 1
          /\ Len(DisclosedBy(pr)) + Len(HiddenBy(pr)) = l + 1
          /\ ToSet(DisclosedBy(pr)) \subseteq 1 .. l + 1
          /\ Slots(DisclosedBy(pr), Chosen(pr.disclosures, "DISCLOSE"), l, pr.args.issuer_no)
    BY <1>1, PresentedSizes, Zenon
  <1>3. PICK k \in Nat : k = Len(pr.args.keys)
    BY KeysType
  <1>4. Len(pr.bbs_proof.m_hat) = Len(HiddenBy(pr)) + Len(pr.args.keys)
    <2>1. PICK p : p = pr.bbs_proof
      OBVIOUS
    <2>2. PICK B \in Point : p.challenge \in Int /\ Responses(sg, pr, p, B)
      BY <2>1, PresentedParts, Zenon
    <2>3. Len(p.m_hat) = Len(HiddenBy(pr)) + Len(pr.args.keys)
      BY <1>1, <2>2, ResponsesType, Zenon
    <2> QED BY <2>1, <2>3, Zenon
  <1>5. PICK D : D = DisclosedBy(pr)
    OBVIOUS
  <1>6. PICK a \in Nat : a = Len(D)
    BY <1>2, <1>5, Zenon DEF Slots
  <1>7. PICK h \in Nat : h = Len(HiddenBy(pr))
    BY <1>1, RandomAt
  <1>8. a + (h + k) = (l + 1) + k
    <2>1. a + h = l + 1
      BY <1>2, <1>5, <1>6, <1>7, Zenon
    <2> QED BY ONLY <2>1, a \in Nat, h \in Nat, l \in Nat, k \in Nat
  <1>9. Len(DisclosedBy(pr)) + Len(pr.bbs_proof.m_hat) = (l + 1) + k
    BY <1>3, <1>4, <1>5, <1>6, <1>7, <1>8, Zenon
  <1>10. Without((l + 1) + k, D) = HiddenBy(pr) \o Following(l + 1, k)
    <2>1. PICK S : S = ToSet(D)
      OBVIOUS
    <2>2. PICK m \in Nat : m = l + 1
      OBVIOUS
    <2>3. S \subseteq 1 .. m
      BY <1>2, <1>5, <2>1, <2>2, Zenon
    <2>4. IndexesIn(m + k, (1 .. (m + k)) \ S) = IndexesIn(m, (1 .. m) \ S) \o Following(m, k)
      BY ONLY <2>3, WithoutMore, m \in Nat, k \in Nat
    <2> QED BY <1>2, <1>5, <2>1, <2>2, <2>4, Zenon DEF Without, HiddenBy
  <1> QED BY <1>2, <1>3, <1>5, <1>9, <1>10, Zenon DEF HiddenSlots

\* The slots that disclosures choose, when messages are split at issuer_no.
SlotsOf(seen, choice) == Shifted(Chosen(seen.disclosures, choice), seen.issuer_no)

\* The proofs of the commitments that blind_proof_verify recomputes, ji hidden.
ProofsOf(pr, committed, ji) ==
  [i \in 1 .. Len(committed) |->
     sumprod(com_dis_generators \o <<pr.commitments[i]>>,
             <<pr.s_hat[i], pr.bbs_proof.m_hat[PositionOf(committed[i], ji)], Minus(0, pr.bbs_proof.challenge)>>)]

\* What it hashes, of what is read, under generators and their domain.
Rehashed(pr, seen, G, dom, ji) ==
  ProofInput(VerifyInit(pr.bbs_proof, G, dom, seen.messages, SlotsOf(seen, "DISCLOSE"), ji, pr.pk_tildes),
             pr.commitments, ProofsOf(pr, SlotsOf(seen, "COMMIT"), ji), SlotsOf(seen, "COMMIT"), pr.pk_tildes,
             seen.messages, SlotsOf(seen, "DISCLOSE"), seen.ph)

\* Of what was shown, it hashes what the prover did.
LEMMA RehashedShown ==
  ASSUME Case, NEW pr, ArgsType(pr.args), NEW o, Enough(o), NEW sg, sg.a \in Point, sg.e \in Int, Presented(stream, sg, pr, o),
         NEW dom \in Int, Responses(sg, pr, pr.bbs_proof, Full(pr.args, dom)), pr.bbs_proof.challenge \in Int
  PROVE  Rehashed(pr, ShownBy(pr), GeneratorsOf(pr.args), dom, HiddenSlots(pr)) = Challenged(sg, pr, Full(pr.args, dom), dom)
  <1>1. /\ pr.disclosures \in [1 .. Len(pr.args.messages) -> Disclosure] /\ Randomised(pr)
        /\ pr.pk_tildes = Tildes(stream, pr)
    BY Zenon DEF Presented
  <1>2. SlotsOf(ShownBy(pr), "DISCLOSE") = DisclosedBy(pr) /\ SlotsOf(ShownBy(pr), "COMMIT") = CommittedBy(pr)
    BY ShownFields, Zenon DEF SlotsOf, DisclosedBy, CommittedBy
  <1>3. ShownBy(pr).messages = Select(proof_scalars(pr.args), DisclosedBy(pr))
    <2>1. PICK l \in Nat, n \in Nat :
             /\ Len(pr.args.messages) = l /\ n \in 0 .. l /\ n = pr.args.issuer_no
             /\ Slots(DisclosedBy(pr), Chosen(pr.disclosures, "DISCLOSE"), l, n)
      BY <1>1, PresentedSizes, Zenon
    <2>2. PICK args : args = pr.args
      OBVIOUS
    <2>3. PICK s, c : s = DisclosedBy(pr) /\ c = Chosen(pr.disclosures, "DISCLOSE")
      OBVIOUS
    <2>4. /\ args.messages \in Seq(Scalar) /\ Len(args.messages) = l /\ args.issuer_no \in 0 .. l /\ args.blind \in Scalar
          /\ Slots(s, c, l, args.issuer_no)
      BY <2>1, <2>2, <2>3, Zenon DEF ArgsType
    <2>5. Select(proof_scalars(args), s) = Select(args.messages, c)
      BY ONLY <2>4, SelectShown, l \in Nat
    <2> QED BY <2>2, <2>3, <2>5, ShownFields, Zenon
  <1>4. PICK p : p = pr.bbs_proof
    OBVIOUS
  <1>5. PICK F \in Point : F = Full(pr.args, dom)
    BY FullIs
  <1>6. Responses(sg, pr, p, F) /\ p.challenge \in Int
    BY <1>4, <1>5, Zenon
  <1>7. PICK r : r = pr.random
    OBVIOUS
  <1>8. r[1] \in Int /\ r[2] \in Int /\ r[3] \in Int /\ r[4] \in Int /\ r[5] \in Int
    <2>1. \A i \in 1 .. 5 : pr.random[i] \in Int
      BY <1>1, RandomAt, Zenon
    <2>2. 1 \in 1 .. 5 /\ 2 \in 1 .. 5 /\ 3 \in 1 .. 5 /\ 4 \in 1 .. 5 /\ 5 \in 1 .. 5
      OBVIOUS
    <2> QED BY <1>7, <2>1, <2>2, Zenon
  <1>9. /\ p.abar = Times(sg.a, (r[1] * r[2]) % q) /\ p.d = Times(F, r[2])
        /\ p.bbar = Plus(Times(p.d, r[1]), Times(p.abar, Minus(0, sg.e)))
        /\ p.ehat = (r[3] + sg.e * p.challenge) % q
        /\ p.r1hat = Minus(r[4], r[1] * p.challenge)
    BY <1>6, <1>7, Zenon DEF Responses
  <1>10. sumprod(<<p.bbar, p.abar, p.d>>, <<p.challenge, p.ehat, p.r1hat>>) = Plus(Times(p.abar, r[3]), Times(p.d, r[4]))
    <2>1. PICK a \in Point, d \in Point : a = p.abar /\ d = p.d
      BY <1>1, <1>6, ResponsesType, Zenon
    <2>2. PICK c \in Int, e \in Int : c = p.challenge /\ e = sg.e
      BY <1>6, Zenon
    <2>3. PICK r1 \in Int, r3 \in Int, r4 \in Int : r1 = r[1] /\ r3 = r[3] /\ r4 = r[4]
      BY <1>8, Zenon
    <2>4. PICK eh \in Int : eh = p.ehat /\ Cong(eh, r3 + e * c)
      <3>1. (r3 + e * c) % q \in Int /\ Cong((r3 + e * c) % q, r3 + e * c)
        BY ResponseType
      <3> QED BY <1>9, <2>2, <2>3, <3>1, Zenon
    <2>5. PICK rh \in Int : rh = p.r1hat /\ Cong(rh, r4 - r1 * c)
      <3>1. PICK x \in Int : x = r1 * c
        OBVIOUS
      <3>2. Minus(r4, x) \in Int /\ Cong(Minus(r4, x), r4 - x)
        BY MinusType, MinusCong
      <3> QED BY <1>9, <2>2, <2>3, <3>1, <3>2, Zenon
    <2>6. PICK bb : bb = Plus(Times(d, r1), Times(a, Minus(0, e)))
      OBVIOUS
    <2>7. SumOfTwo(bb, a, d, e, r1)
      BY <2>6, Zenon DEF SumOfTwo
    <2>8. Cong(eh, r3 + e * c) /\ Cong(rh, r4 - r1 * c)
      BY <2>4, <2>5, Zenon
    <2>9. FirstSame(bb, a, d, c, eh, rh, r3, r4)
      BY ONLY <2>7, <2>8, T1Same, a \in Point, d \in Point, e \in Int, c \in Int, r1 \in Int, r3 \in Int, r4 \in Int,
              eh \in Int, rh \in Int
    <2> QED BY <1>9, <2>1, <2>2, <2>3, <2>4, <2>5, <2>6, <2>9, Zenon DEF FirstSame
  <1>11. T2Of(GeneratorsOf(pr.args), dom, DisclosedBy(pr), Select(proof_scalars(pr.args), DisclosedBy(pr)), p,
              HiddenSlots(pr), pr.pk_tildes)
           = Plus(Times(p.d, r[5]),
                  sumprod(PointsAt(GeneratorsOf(pr.args), HiddenSlots(pr)), SubSeq(r, 6, Len(r))))
    <2>1. T2Of(GeneratorsOf(pr.args), dom, DisclosedBy(pr), Select(proof_scalars(pr.args), DisclosedBy(pr)), p,
               HiddenSlots(pr), Tildes(stream, pr))
            = Plus(Times(p.d, pr.random[5]),
                   sumprod(PointsAt(GeneratorsOf(pr.args), HiddenSlots(pr)), SubSeq(pr.random, 6, Len(pr.random))))
      BY <1>1, <1>5, <1>6, T2Recomputed, Zenon
    <2> QED BY <1>1, <1>7, <2>1, Zenon
  <1>12. VerifyInit(p, GeneratorsOf(pr.args), dom, Select(proof_scalars(pr.args), DisclosedBy(pr)), DisclosedBy(pr),
                    HiddenSlots(pr), pr.pk_tildes)
           = InitOf(sg, F, r, PointsAt(GeneratorsOf(pr.args), HiddenSlots(pr)), dom)
    BY <1>9, <1>10, <1>11, Zenon DEF VerifyInit, InitOf
  <1>13. ProofsOf(pr, CommittedBy(pr), HiddenSlots(pr)) = CommitmentProofsOf(pr)
    <2>1. \A i \in 1 .. Len(CommittedBy(pr)) :
            sumprod(com_dis_generators \o <<pr.commitments[i]>>,
                    <<pr.s_hat[i], pr.bbs_proof.m_hat[PositionOf(CommittedBy(pr)[i], HiddenSlots(pr))],
                      Minus(0, pr.bbs_proof.challenge)>>)
              = sumprod(com_dis_generators, <<pr.s_tilde[i], pr.random[5 + PositionOf(CommittedBy(pr)[i], HiddenBy(pr))]>>)
      BY ProofsRecomputed, Zenon
    <2> QED BY <2>1, Zenon DEF ProofsOf, CommitmentProofsOf
  <1>14. ShownBy(pr).ph = pr.ph
    BY ShownFields, Zenon
  <1> QED BY <1>2, <1>3, <1>4, <1>5, <1>7, <1>12, <1>13, <1>14, Zenon DEF Rehashed, Challenged

\* The parts of blind_proof_verify.
ReadLength(seen) == Len(SlotsOf(seen, "DISCLOSE")) + Len(state.bbs_proof.m_hat)
ReadTotal(seen) == ReadLength(seen) - 1 - Len(proof.sigs)
ReadGenerators(seen) == all_generators(seen.issuer_no, ReadTotal(seen), Len(proof.sigs))
ReadDomain(seen) == hash_to_scalar(asked, DomainInput(IssuerKey, ReadGenerators(seen), seen.header))
ReadHidden(seen) == Without(ReadLength(seen), SlotsOf(seen, "DISCLOSE"))

Lengths(seen) ==
  /\ seen.issuer_no <= ReadTotal(seen)
  /\ Len(seen.disclosures) = ReadTotal(seen)
  /\ Len(SlotsOf(seen, "DISCLOSE")) = Len(seen.messages)
  /\ Len(SlotsOf(seen, "COMMIT")) = Len(state.commitments)
NoIdentity ==
  Identity \notin {state.bbs_proof.abar, state.bbs_proof.bbar, state.bbs_proof.d}
                  \cup ToSet(state.commitments) \cup ToSet(state.pk_tildes)
SameChallenge(seen) ==
  hash_to_scalar(asked, Rehashed(state, seen, ReadGenerators(seen), ReadDomain(seen), ReadHidden(seen)))
    = state.bbs_proof.challenge
KeysAnswer(seen) ==
  \A i \in 1 .. Len(proof.sigs) :
    schnorr_verify(ReadGenerators(seen)[ReadLength(seen) + 1 - Len(proof.sigs) + i], state.pk_tildes[i], proof.sigs[i],
                   <<state.pk_tildes[i], state.bbs_proof.challenge>>)
PairingHolds == Times(state.bbs_proof.abar, IssuerKey) = state.bbs_proof.bbar

LEMMA VerifyParts ==
  ASSUME NEW seen
  PROVE  blind_proof_verify(seen) <=>
           Lengths(seen) /\ NoIdentity /\ SameChallenge(seen) /\ KeysAnswer(seen) /\ PairingHolds
  <1>1. PICK D, C, l, t, G, dom, ji, p, k, c :
          /\ D = SlotsOf(seen, "DISCLOSE") /\ C = SlotsOf(seen, "COMMIT") /\ p = state.bbs_proof /\ k = Len(proof.sigs)
          /\ c = p.challenge /\ l = ReadLength(seen) /\ t = ReadTotal(seen) /\ G = ReadGenerators(seen)
          /\ dom = ReadDomain(seen) /\ ji = ReadHidden(seen)
    OBVIOUS
  <1>2. /\ D = Shifted(Chosen(seen.disclosures, "DISCLOSE"), seen.issuer_no)
        /\ C = Shifted(Chosen(seen.disclosures, "COMMIT"), seen.issuer_no)
        /\ l = Len(D) + Len(p.m_hat) /\ t = l - 1 - k /\ G = all_generators(seen.issuer_no, t, k)
        /\ dom = hash_to_scalar(asked, DomainInput(IssuerKey, G, seen.header))
        /\ ji = Without(l, D)
    BY <1>1, Zenon DEF SlotsOf, ReadLength, ReadTotal, ReadGenerators, ReadDomain, ReadHidden
  <1>3. PICK i, j : /\ i = proof_verify_init(p, G, dom, seen.messages, D)
                    /\ j = [i EXCEPT !.t2 = Plus(@, Times(sum_points(state.pk_tildes), c))]
    OBVIOUS
  <1>4. j = VerifyInit(p, G, dom, seen.messages, D, ji, state.pk_tildes)
    <2>1. [proof_verify_init(p, G, dom, seen.messages, D) EXCEPT !.t2 = Plus(@, Times(sum_points(state.pk_tildes), p.challenge))]
            = VerifyInit(p, G, dom, seen.messages, D, Without(Len(D) + Len(p.m_hat), D), state.pk_tildes)
      BY VerifyInitIs
    <2> QED BY <1>1, <1>2, <1>3, <2>1, Zenon
  <1>5. PICK ps : ps = ProofsOf(state, C, ji)
    OBVIOUS
  <1>6. SameChallenge(seen) <=>
          hash_to_scalar(asked, ProofInput(j, state.commitments, ps, C, state.pk_tildes, seen.messages, D, seen.ph)) = c
    BY <1>1, <1>4, <1>5, Zenon DEF SameChallenge, Rehashed
  <1>7. KeysAnswer(seen) <=>
          \A x \in 1 .. k : schnorr_verify(G[l + 1 - k + x], state.pk_tildes[x], proof.sigs[x], <<state.pk_tildes[x], c>>)
    BY <1>1, Zenon DEF KeysAnswer
  <1>8. ps = [x \in 1 .. Len(C) |->
                sumprod(com_dis_generators \o <<state.commitments[x]>>,
                        <<state.s_hat[x], p.m_hat[PositionOf(C[x], ji)], Minus(0, c)>>)]
    BY <1>1, <1>5, Zenon DEF ProofsOf
  <1>9. Lengths(seen) <=> /\ seen.issuer_no <= t /\ Len(seen.disclosures) = t
                          /\ Len(D) = Len(seen.messages) /\ Len(C) = Len(state.commitments)
    BY <1>1, Zenon DEF Lengths
  <1>10. NoIdentity <=> Identity \notin {p.abar, p.bbar, p.d} \cup ToSet(state.commitments) \cup ToSet(state.pk_tildes)
    BY <1>1, Zenon DEF NoIdentity
  <1>11. PairingHolds <=> Times(p.abar, IssuerKey) = p.bbar
    BY <1>1, Zenon DEF PairingHolds
  <1>12. blind_proof_verify(seen) <=>
           /\ seen.issuer_no <= t
           /\ Len(seen.disclosures) = t
           /\ Len(D) = Len(seen.messages)
           /\ Len(C) = Len(state.commitments)
           /\ Identity \notin {p.abar, p.bbar, p.d} \cup ToSet(state.commitments) \cup ToSet(state.pk_tildes)
           /\ \E g \in {G} :
              \E dm \in {hash_to_scalar(asked, DomainInput(IssuerKey, g, seen.header))} :
              \E init \in {proof_verify_init(p, g, dm, seen.messages, D)} :
                /\ hash_to_scalar(asked,
                     ProofInput([init EXCEPT !.t2 = Plus(@, Times(sum_points(state.pk_tildes), c))],
                                state.commitments, ps, C, state.pk_tildes, seen.messages, D, seen.ph)) = c
                /\ \A x \in 1 .. k : schnorr_verify(g[l + 1 - k + x], state.pk_tildes[x], proof.sigs[x],
                                                   <<state.pk_tildes[x], c>>)
           /\ Times(p.abar, IssuerKey) = p.bbar
    BY <1>1, <1>2, <1>8, ZenonT(60) DEF blind_proof_verify
  <1>13. (\E g \in {G} :
            \E dm \in {hash_to_scalar(asked, DomainInput(IssuerKey, g, seen.header))} :
            \E init \in {proof_verify_init(p, g, dm, seen.messages, D)} :
              /\ hash_to_scalar(asked,
                   ProofInput([init EXCEPT !.t2 = Plus(@, Times(sum_points(state.pk_tildes), c))],
                              state.commitments, ps, C, state.pk_tildes, seen.messages, D, seen.ph)) = c
              /\ \A x \in 1 .. k : schnorr_verify(g[l + 1 - k + x], state.pk_tildes[x], proof.sigs[x],
                                                 <<state.pk_tildes[x], c>>))
         <=> /\ hash_to_scalar(asked, ProofInput(j, state.commitments, ps, C, state.pk_tildes, seen.messages, D, seen.ph)) = c
             /\ \A x \in 1 .. k : schnorr_verify(G[l + 1 - k + x], state.pk_tildes[x], proof.sigs[x],
                                                <<state.pk_tildes[x], c>>)
    <2> DEFINE f(g) == hash_to_scalar(asked, DomainInput(IssuerKey, g, seen.header))
               h(g, dm) == proof_verify_init(p, g, dm, seen.messages, D)
               Good(g, init) ==
                 /\ hash_to_scalar(asked,
                      ProofInput([init EXCEPT !.t2 = Plus(@, Times(sum_points(state.pk_tildes), c))],
                                 state.commitments, ps, C, state.pk_tildes, seen.messages, D, seen.ph)) = c
                 /\ \A x \in 1 .. k : schnorr_verify(g[l + 1 - k + x], state.pk_tildes[x], proof.sigs[x],
                                                    <<state.pk_tildes[x], c>>)
    <2>1. dom = f(G) /\ i = h(G, dom)
      BY <1>2, <1>3, Zenon
    <2>2. Good(G, i) <=>
            /\ hash_to_scalar(asked, ProofInput(j, state.commitments, ps, C, state.pk_tildes, seen.messages, D, seen.ph)) = c
            /\ \A x \in 1 .. k : schnorr_verify(G[l + 1 - k + x], state.pk_tildes[x], proof.sigs[x],
                                               <<state.pk_tildes[x], c>>)
      BY <1>3, Zenon
    <2> HIDE DEF f, h, Good
    <2>3. (\E g \in {G} : \E dm \in {f(g)} : \E init \in {h(g, dm)} : Good(g, init)) <=> Good(G, i)
      BY <2>1, Zenon
    <2> QED BY <2>2, <2>3, Zenon DEF f, h, Good
  <1> QED BY <1>6, <1>7, <1>9, <1>10, <1>11, <1>12, <1>13, Zenon

\* What the relying party may read: a record, of as many messages.
SeenType(seen, l) ==
  /\ seen = [issuer_no |-> seen.issuer_no, disclosures |-> seen.disclosures, messages |-> seen.messages,
             header |-> seen.header, ph |-> seen.ph]
  /\ seen.issuer_no \in 0 .. l
  /\ seen.disclosures \in [1 .. l -> Disclosure]

LEMMA ReadingsType ==
  ASSUME NEW l \in Nat, state.args.issuer_no \in 0 .. l, state.disclosures \in [1 .. l -> Disclosure], NEW seen \in Readings
  PROVE  SeenType(seen, l)
  <1>1. PICK n \in 0 .. l : n = state.args.issuer_no
    OBVIOUS
  <1>2. PICK d \in [1 .. l -> Disclosure] : d = state.disclosures
    OBVIOUS
  <1>3. PICK ms, hd, ph : /\ ms = Select(state.args.messages, Chosen(state.disclosures, "DISCLOSE"))
                          /\ hd = state.args.header /\ ph = state.ph
    OBVIOUS
  <1>4. PICK s : s = [issuer_no |-> n, disclosures |-> d, messages |-> ms, header |-> hd, ph |-> ph]
    OBVIOUS
  <1>5. Shown = s
    BY <1>1, <1>2, <1>3, <1>4, Zenon DEF Shown
  <1>6. Len(d) = l
    BY ONLY l \in Nat, d \in [1 .. l -> Disclosure]
  <1>7. PICK r : r = Reverse(d)
    OBVIOUS
  <1>8. r \in [1 .. l -> Disclosure]
    <2>1. r = [i \in 1 .. l |-> d[(l - i) + 1]]
      BY <1>6, <1>7, Zenon DEF Reverse
    <2>2. \A i \in 1 .. l : d[(l - i) + 1] \in Disclosure
      <3>1. \A i \in 1 .. l : (l - i) + 1 \in 1 .. l
        OBVIOUS
      <3> QED BY <3>1, Zenon
    <2> QED BY <2>1, <2>2, Zenon
  <1>9. ASSUME NEW m \in 0 .. l, NEW e \in [1 .. l -> Disclosure], NEW ns, NEW h, NEW p,
               seen = [issuer_no |-> m, disclosures |-> e, messages |-> ns, header |-> h, ph |-> p]
        PROVE  SeenType(seen, l)
    <2>1. seen.issuer_no = m /\ seen.disclosures = e /\ seen.messages = ns /\ seen.header = h /\ seen.ph = p
      BY ONLY <1>9
    <2> QED BY <1>9, <2>1, Zenon DEF SeenType
  <1>10. \/ seen = s
         \/ \E i \in DOMAIN s.messages : seen = [s EXCEPT !.messages[i] = (@ + 1) % q]
         \/ seen = [s EXCEPT !.disclosures = Reverse(@)]
         \/ \E m \in 0 .. l : seen = [s EXCEPT !.issuer_no = m]
         \/ \E h \in Header : seen = [s EXCEPT !.header = h]
         \/ \E h \in PresHeader : seen = [s EXCEPT !.ph = h]
    <2>1. Len(state.disclosures) = l
      BY <1>2, <1>6, Zenon
    <2> QED BY <1>5, <2>1 DEF Readings
  <1>11. s.messages = ms /\ s.disclosures = d
    BY ONLY <1>4
  <1>12. CASE seen = s
    BY <1>4, <1>9, <1>12, Zenon
  <1>13. CASE \E i \in DOMAIN s.messages : seen = [s EXCEPT !.messages[i] = (@ + 1) % q]
    <2>1. PICK i : seen = [s EXCEPT !.messages[i] = (@ + 1) % q]
      BY <1>13, Zenon
    <2>2. PICK ns : seen = [s EXCEPT !.messages = ns]
      BY <2>1
    <2>3. seen = [issuer_no |-> n, disclosures |-> d, messages |-> ns, header |-> hd, ph |-> ph]
      BY ONLY <1>4, <2>2
    <2> QED BY <1>9, <2>3, Zenon
  <1>14. CASE seen = [s EXCEPT !.disclosures = Reverse(@)]
    <2>1. seen = [s EXCEPT !.disclosures = r]
      BY <1>7, <1>11, <1>14
    <2>2. seen = [issuer_no |-> n, disclosures |-> r, messages |-> ms, header |-> hd, ph |-> ph]
      BY ONLY <1>4, <2>1
    <2> QED BY <1>8, <1>9, <2>2, Zenon
  <1>15. CASE \E m \in 0 .. l : seen = [s EXCEPT !.issuer_no = m]
    <2>1. PICK m \in 0 .. l : seen = [s EXCEPT !.issuer_no = m]
      BY <1>15
    <2>2. seen = [issuer_no |-> m, disclosures |-> d, messages |-> ms, header |-> hd, ph |-> ph]
      BY ONLY <1>4, <2>1
    <2> QED BY <1>9, <2>2, Zenon
  <1>16. CASE \E h \in Header : seen = [s EXCEPT !.header = h]
    <2>1. PICK h \in Header : seen = [s EXCEPT !.header = h]
      BY <1>16
    <2>2. seen = [issuer_no |-> n, disclosures |-> d, messages |-> ms, header |-> h, ph |-> ph]
      BY ONLY <1>4, <2>1
    <2> QED BY <1>9, <2>2, Zenon
  <1>17. CASE \E h \in PresHeader : seen = [s EXCEPT !.ph = h]
    <2>1. PICK h \in PresHeader : seen = [s EXCEPT !.ph = h]
      BY <1>17
    <2>2. seen = [issuer_no |-> n, disclosures |-> d, messages |-> ms, header |-> hd, ph |-> h]
      BY ONLY <1>4, <2>1
    <2> QED BY <1>9, <2>2, Zenon
  <1> QED BY <1>10, <1>12, <1>13, <1>14, <1>15, <1>16, <1>17, Zenon

\* An input shows what was hashed.
LEMMA ProofInputShows ==
  ASSUME NEW a, NEW b, NEW c, NEW d, NEW e, NEW f, NEW g, NEW h, NEW a2, NEW b2, NEW c2, NEW d2, NEW e2, NEW f2, NEW g2, NEW h2,
         ProofInput(a, b, c, d, e, f, g, h) = ProofInput(a2, b2, c2, d2, e2, f2, g2, h2)
  PROVE  a = a2 /\ d = d2 /\ f = f2 /\ g = g2 /\ h = h2
  BY DEF ProofInput

LEMMA DomainInputShows ==
  ASSUME NEW k, NEW g, NEW h, NEW g2, NEW h2, DomainInput(k, g, h) = DomainInput(k, g2, h2)
  PROVE  g = g2 /\ h = h2
  BY DEF DomainInput

LEMMA StartShows ==
  ASSUME NEW p, NEW G, NEW dm, NEW ms, NEW D, NEW sl, NEW ts, NEW sg, NEW B, NEW r, NEW ps, NEW dom,
         VerifyInit(p, G, dm, ms, D, sl, ts) = InitOf(sg, B, r, ps, dom)
  PROVE  dm = dom
  <1>1. PICK a, b, d, x, y : VerifyInit(p, G, dm, ms, D, sl, ts)
                               = [abar |-> a, bbar |-> b, d |-> d, t1 |-> x, t2 |-> y, domain |-> dm]
    BY Zenon DEF VerifyInit
  <1>2. PICK a2, b2, d2, x2, y2 : InitOf(sg, B, r, ps, dom)
                                    = [abar |-> a2, bbar |-> b2, d |-> d2, t1 |-> x2, t2 |-> y2, domain |-> dom]
    BY Zenon DEF InitOf
  <1>3. PICK i : i = InitOf(sg, B, r, ps, dom)
    OBVIOUS
  <1>4. /\ i = [abar |-> a, bbar |-> b, d |-> d, t1 |-> x, t2 |-> y, domain |-> dm]
        /\ i = [abar |-> a2, bbar |-> b2, d |-> d2, t1 |-> x2, t2 |-> y2, domain |-> dom]
    BY <1>1, <1>2, <1>3, Zenon
  <1>5. i.domain = dm
    BY ONLY <1>4
  <1>6. i.domain = dom
    BY ONLY <1>4
  <1> QED BY <1>5, <1>6, Zenon

\* Disclosed scalars are those of the messages that are shown.
LEMMA MessagesShown ==
  ASSUME Case, NEW pr, ArgsType(pr.args), pr.disclosures \in [1 .. Len(pr.args.messages) -> Disclosure]
  PROVE  ShownBy(pr).messages = Select(proof_scalars(pr.args), DisclosedBy(pr))
  <1>1. PICK l \in Nat, n \in Nat :
           /\ Len(pr.args.messages) = l /\ n \in 0 .. l /\ n = pr.args.issuer_no
           /\ Slots(DisclosedBy(pr), Chosen(pr.disclosures, "DISCLOSE"), l, n)
    BY PresentedSizes, Zenon
  <1>2. PICK args : args = pr.args
    OBVIOUS
  <1>3. PICK s, c : s = DisclosedBy(pr) /\ c = Chosen(pr.disclosures, "DISCLOSE")
    OBVIOUS
  <1>4. /\ args.messages \in Seq(Scalar) /\ Len(args.messages) = l /\ args.issuer_no \in 0 .. l /\ args.blind \in Scalar
        /\ Slots(s, c, l, args.issuer_no)
    BY <1>1, <1>2, <1>3, Zenon DEF ArgsType
  <1>5. Select(proof_scalars(args), s) = Select(args.messages, c)
    BY ONLY <1>4, SelectShown, l \in Nat
  <1> QED BY <1>2, <1>3, <1>5, ShownFields, Zenon

\* What is read of a proof that verifies is what was shown.
LEMMA SeenIsShown ==
  ASSUME Case, ArgsType(state.args), Enough(asked), signature.a \in Point, signature.e \in Int,
         Presented(stream, signature, state, asked), Finished(shape.keys, stream, state, proof, asked),
         NEW seen, SeenType(seen, Len(state.args.messages)), Lengths(seen), SameChallenge(seen)
  PROVE  seen = Shown
  <1>1. PICK pr : pr = state
    OBVIOUS
  <1>2. ArgsType(pr.args) /\ Presented(stream, signature, pr, asked)
    BY <1>1, Zenon
  <1>3. PICK dom \in Answer, B \in Point, c \in Answer :
          /\ c = pr.bbs_proof.challenge /\ dom \in Int
          /\ Knows(asked, DomainInput(IssuerKey, GeneratorsOf(pr.args), pr.args.header), dom)
          /\ Knows(asked, Challenged(signature, pr, B, dom), c)
    BY <1>2, PresentedParts, Zenon
  <1>4. pr.disclosures \in [1 .. Len(pr.args.messages) -> Disclosure] /\ Randomised(pr)
    BY <1>2, Zenon DEF Presented
  <1>5. PICK l \in Nat, n \in Nat : l = Len(pr.args.messages) /\ n \in 0 .. l /\ n = pr.args.issuer_no
    BY <1>2, <1>4, PresentedSizes, Zenon
  <1>6. PICK k \in Nat : k = Len(pr.args.keys) /\ k = Len(proof.sigs)
    <2>1. Len(pr.args.keys) \in Nat
      BY <1>2, KeysType, Zenon
    <2> QED BY <1>1, <2>1, Zenon DEF Finished
  <1>7. Rehashed(pr, seen, ReadGenerators(seen), ReadDomain(seen), ReadHidden(seen)) = Challenged(signature, pr, B, dom)
    <2>1. hash_to_scalar(asked, Rehashed(pr, seen, ReadGenerators(seen), ReadDomain(seen), ReadHidden(seen))) = c
      BY <1>1, <1>3, Zenon DEF SameChallenge
    <2>2. PICK x, z : /\ x = Challenged(signature, pr, B, dom)
                      /\ z = Rehashed(pr, seen, ReadGenerators(seen), ReadDomain(seen), ReadHidden(seen))
      OBVIOUS
    <2>3. Knows(asked, x, c) /\ hash_to_scalar(asked, z) = c
      BY <1>3, <2>1, <2>2, Zenon
    <2>4. z = x
      BY ONLY <2>3, KnowsOnly, Enough(asked)
    <2> QED BY <2>2, <2>4, Zenon
  <1>8. /\ VerifyInit(pr.bbs_proof, ReadGenerators(seen), ReadDomain(seen), seen.messages, SlotsOf(seen, "DISCLOSE"),
                      ReadHidden(seen), pr.pk_tildes)
             = InitOf(signature, B, pr.random, PointsAt(GeneratorsOf(pr.args), HiddenSlots(pr)), dom)
        /\ SlotsOf(seen, "COMMIT") = CommittedBy(pr)
        /\ seen.messages = Select(proof_scalars(pr.args), DisclosedBy(pr))
        /\ SlotsOf(seen, "DISCLOSE") = DisclosedBy(pr)
        /\ seen.ph = pr.ph
    <2>1. ProofInput(VerifyInit(pr.bbs_proof, ReadGenerators(seen), ReadDomain(seen), seen.messages,
                                SlotsOf(seen, "DISCLOSE"), ReadHidden(seen), pr.pk_tildes),
                     pr.commitments, ProofsOf(pr, SlotsOf(seen, "COMMIT"), ReadHidden(seen)), SlotsOf(seen, "COMMIT"),
                     pr.pk_tildes, seen.messages, SlotsOf(seen, "DISCLOSE"), seen.ph)
            = ProofInput(InitOf(signature, B, pr.random, PointsAt(GeneratorsOf(pr.args), HiddenSlots(pr)), dom),
                         pr.commitments, CommitmentProofsOf(pr), CommittedBy(pr), pr.pk_tildes,
                         Select(proof_scalars(pr.args), DisclosedBy(pr)), DisclosedBy(pr), pr.ph)
      BY <1>7, Zenon DEF Rehashed, Challenged
    <2> QED BY ONLY <2>1, ProofInputShows
  <1>9. ReadDomain(seen) = dom
    BY <1>8, StartShows, Zenon
  <1>10. ReadGenerators(seen) = GeneratorsOf(pr.args) /\ seen.header = pr.args.header
    <2>1. hash_to_scalar(asked, DomainInput(IssuerKey, ReadGenerators(seen), seen.header)) = dom
      BY <1>9, Zenon DEF ReadDomain
    <2>2. PICK x, z : /\ x = DomainInput(IssuerKey, GeneratorsOf(pr.args), pr.args.header)
                      /\ z = DomainInput(IssuerKey, ReadGenerators(seen), seen.header)
      OBVIOUS
    <2>3. Knows(asked, x, dom) /\ hash_to_scalar(asked, z) = dom
      BY <1>3, <2>1, <2>2, Zenon
    <2>4. z = x
      BY ONLY <2>3, KnowsOnly, Enough(asked)
    <2>5. DomainInput(IssuerKey, ReadGenerators(seen), seen.header)
            = DomainInput(IssuerKey, GeneratorsOf(pr.args), pr.args.header)
      BY <2>2, <2>4, Zenon
    <2> QED BY ONLY <2>5, DomainInputShows
  <1>11. PICK m \in 0 .. l, e \in [1 .. l -> Disclosure] : m = seen.issuer_no /\ e = seen.disclosures
    BY <1>1, <1>5, Zenon DEF SeenType
  <1>12. ReadTotal(seen) = l
    <2>1. Len(e) = l
      BY ONLY l \in Nat, e \in [1 .. l -> Disclosure]
    <2> QED BY <1>11, <2>1, Zenon DEF Lengths
  <1>13. m = n
    <2>1. all_generators(m, l, k) = all_generators(n, l, k)
      BY <1>5, <1>6, <1>10, <1>11, <1>12, Zenon DEF ReadGenerators, GeneratorsOf
    <2>2. n \in 0 .. l
      BY <1>5, Zenon
    <2> QED BY ONLY <2>1, <2>2, GeneratorsUnique, l \in Nat, m \in 0 .. l, k \in Nat
  <1>14. e = pr.disclosures
    <2>1. PICK d \in [1 .. l -> Disclosure] : d = pr.disclosures
      BY <1>4, <1>5, Zenon
    <2>2. /\ Shifted(Chosen(e, "DISCLOSE"), n) = Shifted(Chosen(d, "DISCLOSE"), n)
          /\ Shifted(Chosen(e, "COMMIT"), n) = Shifted(Chosen(d, "COMMIT"), n)
      BY <1>5, <1>8, <1>11, <1>13, <2>1, Zenon DEF SlotsOf, DisclosedBy, CommittedBy
    <2>3. n \in 0 .. l
      BY <1>5, Zenon
    <2>4. e = d
      BY ONLY <2>2, <2>3, DisclosuresShown, l \in Nat, e \in [1 .. l -> Disclosure], d \in [1 .. l -> Disclosure]
    <2> QED BY <2>1, <2>4, Zenon
  <1>15. ShownBy(pr).messages = Select(proof_scalars(pr.args), DisclosedBy(pr))
    BY <1>2, <1>4, MessagesShown, Zenon
  <1>16. seen = [issuer_no |-> seen.issuer_no, disclosures |-> seen.disclosures, messages |-> seen.messages,
                 header |-> seen.header, ph |-> seen.ph]
    BY Zenon DEF SeenType
  <1>17. /\ seen.issuer_no = pr.args.issuer_no /\ seen.disclosures = pr.disclosures
         /\ seen.messages = Select(pr.args.messages, Chosen(pr.disclosures, "DISCLOSE"))
         /\ seen.header = pr.args.header /\ seen.ph = pr.ph
    BY <1>5, <1>8, <1>10, <1>11, <1>13, <1>14, <1>15, ShownFields, Zenon
  <1>18. seen = ShownBy(pr)
    BY <1>16, <1>17, Zenon DEF ShownBy
  <1> QED BY <1>1, <1>18, ShownIs, Zenon

\* What was shown is read as it was made.
LEMMA CommitmentsType ==
  ASSUME Case, NEW pr, ArgsType(pr.args), NEW o, Enough(o), NEW sg, sg.a \in Point, sg.e \in Int, Presented(stream, sg, pr, o)
  PROVE  /\ pr.commitments \in Seq(Point) /\ Len(pr.commitments) = Len(CommittedBy(pr)) /\ Len(CommittedBy(pr)) \in Nat
         /\ DOMAIN pr.commitments = 1 .. Len(CommittedBy(pr))
  <1>1. /\ pr.disclosures \in [1 .. Len(pr.args.messages) -> Disclosure] /\ Randomised(pr)
        /\ pr.commitments = CommitmentsOf(pr)
    BY Zenon DEF Presented
  <1>2. PICK n \in Nat : n = Len(CommittedBy(pr))
    BY <1>1, RandomAt
  <1>3. PICK f : f = pr.commitments
    OBVIOUS
  <1>4. f = [i \in 1 .. n |-> sumprod(com_dis_generators, <<pr.openings[i], proof_scalars(pr.args)[CommittedBy(pr)[i]]>>)]
    BY <1>1, <1>2, <1>3, Zenon DEF CommitmentsOf
  <1>5. \A i \in 1 .. n : f[i] \in Point
    BY <1>2, <1>3, ProofsRecomputed, Zenon
  <1>6. f \in [1 .. n -> Point]
    BY <1>4, <1>5, Zenon
  <1>7. f \in Seq(Point) /\ Len(f) = n /\ DOMAIN f = 1 .. n
    BY ONLY <1>6, n \in Nat
  <1> QED BY <1>2, <1>3, <1>7, Zenon

LEMMA ShownRead ==
  ASSUME Case, ArgsType(state.args), Enough(asked), signature.a \in Point, signature.e \in Int,
         Presented(stream, signature, state, asked), Finished(shape.keys, stream, state, proof, asked)
  PROVE  /\ Lengths(Shown) /\ SameChallenge(Shown)
         /\ ReadGenerators(Shown) = GeneratorsOf(state.args)
         /\ ReadLength(Shown) = (Len(state.args.messages) + 1) + Len(state.args.keys)
  <1>1. PICK pr : pr = state
    OBVIOUS
  <1>2. ArgsType(pr.args) /\ Presented(stream, signature, pr, asked)
    BY <1>1, Zenon
  <1>3. PICK dom \in Answer, B \in Point, c \in Answer :
          /\ B = Full(pr.args, dom) /\ c = pr.bbs_proof.challenge /\ dom \in Int /\ c \in Int
          /\ Knows(asked, DomainInput(IssuerKey, GeneratorsOf(pr.args), pr.args.header), dom)
          /\ Responses(signature, pr, pr.bbs_proof, B)
          /\ Knows(asked, Challenged(signature, pr, B, dom), c)
    BY <1>2, PresentedParts, Zenon
  <1>4. pr.disclosures \in [1 .. Len(pr.args.messages) -> Disclosure] /\ Randomised(pr)
    BY <1>2, Zenon DEF Presented
  <1>5. PICK l \in Nat, n \in Nat : /\ l = Len(pr.args.messages) /\ n \in 0 .. l /\ n = pr.args.issuer_no
                                    /\ Len(proof_scalars(pr.args)) = l + 1 /\ proof_scalars(pr.args) \in Seq(Int)
                                    /\ Slots(DisclosedBy(pr), Chosen(pr.disclosures, "DISCLOSE"), l, n)
    BY <1>2, <1>4, PresentedSizes, Zenon
  <1>6. PICK k \in Nat : k = Len(pr.args.keys) /\ k = Len(proof.sigs)
    <2>1. Len(pr.args.keys) \in Nat
      BY <1>2, KeysType, Zenon
    <2> QED BY <1>1, <2>1, Zenon DEF Finished
  <1>7. SlotsOf(Shown, "DISCLOSE") = DisclosedBy(pr) /\ SlotsOf(Shown, "COMMIT") = CommittedBy(pr)
    BY <1>1, ShownIs, ShownFields, Zenon DEF SlotsOf, DisclosedBy, CommittedBy
  <1>8. /\ Len(DisclosedBy(pr)) + Len(pr.bbs_proof.m_hat) = (l + 1) + k
        /\ Without(Len(DisclosedBy(pr)) + Len(pr.bbs_proof.m_hat), DisclosedBy(pr)) = HiddenSlots(pr)
    BY <1>2, <1>5, <1>6, HiddenSlotsFound, Zenon
  <1>9. ReadLength(Shown) = (l + 1) + k /\ ReadHidden(Shown) = HiddenSlots(pr)
    BY <1>1, <1>7, <1>8, Zenon DEF ReadLength, ReadHidden
  <1>10. ReadTotal(Shown) = l
    <2>1. ReadTotal(Shown) = ((l + 1) + k) - 1 - k
      BY <1>6, <1>9, Zenon DEF ReadTotal
    <2>2. ((l + 1) + k) - 1 - k = l
      BY ONLY l \in Nat, k \in Nat
    <2> QED BY <2>1, <2>2, Zenon
  <1>11. ReadGenerators(Shown) = GeneratorsOf(pr.args)
    <2>1. Shown.issuer_no = n
      BY <1>1, <1>5, ShownIs, ShownFields, Zenon
    <2> QED BY <1>5, <1>6, <1>10, <2>1, Zenon DEF ReadGenerators, GeneratorsOf
  <1>12. ReadDomain(Shown) = dom
    <2>1. Shown.header = pr.args.header
      BY <1>1, ShownIs, ShownFields, Zenon
    <2> QED BY <1>3, <1>11, <2>1, Zenon DEF ReadDomain, Knows
  <1>13. SameChallenge(Shown)
    <2>1. Rehashed(pr, ShownBy(pr), GeneratorsOf(pr.args), dom, HiddenSlots(pr)) = Challenged(signature, pr, B, dom)
      <3>1. pr.bbs_proof.challenge \in Int /\ Responses(signature, pr, pr.bbs_proof, Full(pr.args, dom))
        BY <1>3, Zenon
      <3>2. Rehashed(pr, ShownBy(pr), GeneratorsOf(pr.args), dom, HiddenSlots(pr))
              = Challenged(signature, pr, Full(pr.args, dom), dom)
        BY <1>2, <1>3, <3>1, RehashedShown, Zenon
      <3> QED BY <1>3, <3>2, Zenon
    <2> QED BY <1>1, <1>3, <1>9, <1>11, <1>12, <2>1, ShownIs, Zenon DEF SameChallenge, Knows
  <1>14. Lengths(Shown)
    <2>1. Shown.issuer_no <= ReadTotal(Shown)
      <3>1. Shown.issuer_no = n
        BY <1>1, <1>5, ShownIs, ShownFields, Zenon
      <3>2. n <= l
        BY <1>5
      <3> QED BY <1>10, <3>1, <3>2, Zenon
    <2>2. Len(Shown.disclosures) = ReadTotal(Shown)
      <3>1. PICK d \in [1 .. l -> Disclosure] : d = pr.disclosures
        BY <1>4, <1>5, Zenon
      <3>2. Len(d) = l
        BY ONLY l \in Nat, d \in [1 .. l -> Disclosure]
      <3> QED BY <1>1, <1>10, <3>1, <3>2, ShownIs, ShownFields, Zenon
    <2>3. Len(SlotsOf(Shown, "DISCLOSE")) = Len(Shown.messages)
      <3>1. Shown.messages = Select(proof_scalars(pr.args), DisclosedBy(pr))
        BY <1>1, <1>2, <1>4, MessagesShown, ShownIs, Zenon
      <3>2. PICK D : D = DisclosedBy(pr)
        OBVIOUS
      <3>3. InSlots(D, l)
        BY <1>5, <3>2, Zenon DEF Slots, InSlots
      <3>4. PICK ss \in Seq(Int) : ss = proof_scalars(pr.args) /\ Len(ss) = l + 1
        BY <1>5, Zenon
      <3>5. SlotSummed(all_generators(n, l, k), ss, l, D)
        <4>1. n \in 0 .. l /\ Len(ss) = l + 1
          BY <1>5, <3>4, Zenon
        <4> QED BY ONLY <3>3, <4>1, SlotSum, l \in Nat, k \in Nat, ss \in Seq(Int)
      <3>6. Len(Select(ss, D)) = Len(D)
        BY <3>5, Zenon DEF SlotSummed
      <3> QED BY <1>7, <3>1, <3>2, <3>4, <3>6, Zenon
    <2>4. Len(SlotsOf(Shown, "COMMIT")) = Len(state.commitments)
      BY <1>1, <1>2, <1>7, CommitmentsType, Zenon
    <2> QED BY <2>1, <2>2, <2>3, <2>4, Zenon DEF Lengths
  <1> QED BY <1>1, <1>5, <1>6, <1>9, <1>11, <1>13, <1>14, Zenon

-----------------------------------------------------------------------------
(* The device keys, and the pairing.                                       *)

\* An adapted answer is good exactly if it is that of the key's own device, made
\* for the key's own position.
LEMMA KeyChecked ==
  ASSUME Case, ArgsType(state.args), Enough(asked), Presented(stream, signature, state, asked),
         Finished(shape.keys, stream, state, proof, asked), Len(state.args.keys) <= shape.keys,
         NEW i \in 1 .. Len(state.args.keys)
  PROVE  schnorr_verify(Generator("HK", i), state.pk_tildes[i], proof.sigs[i],
                        <<state.pk_tildes[i], state.bbs_proof.challenge>>)
           <=> proof.signers[i] = state.args.keys[i] /\ (state.args.keys[i] = i \/ proof.answers[i].s = 0)
  <1>1. PICK k : k = state.args.keys[i]
    OBVIOUS
  <1>2. PICK g : g = proof.signers[i]
    OBVIOUS
  <1>3. PICK nonce : nonce = proof.nonces[i]
    OBVIOUS
  <1>4. PICK s : s = proof.answers[i].s
    OBVIOUS
  <1>5. PICK c : c = proof.answers[i].c
    OBVIOUS
  <1>6. PICK r : r = state.r_key[i]
    OBVIOUS
  <1>7. PICK message : message = <<state.pk_tildes[i], state.bbs_proof.challenge>>
    OBVIOUS
  <1>8. i \in Positions /\ k \in Positions /\ g \in Positions
    <2>1. Len(state.args.keys) \in Nat /\ shape.keys \in Nat
      BY KeysType, ShapeAt
    <2>2. i \in Positions
      BY <2>1 DEF Positions
    <2>3. k \in Positions
      BY <1>1, KeysType
    <2>4. proof.signers \in [1 .. Len(state.args.keys) -> 1 .. shape.keys]
      BY DEF Finished
    <2>5. g \in Positions
      BY <1>2, <2>4 DEF Positions
    <2> QED
      BY <2>2, <2>3, <2>5
  <1>9. nonce \in NotZero /\ s = (nonce + stream[1 + g] * c) % q /\ Knows(asked, NonceInput(g, nonce, message), c)
    <2>1. DeviceAnswers(Len(state.args.keys), stream, proof.signers, proof.nonces,
                        [j \in 1 .. Len(state.args.keys) |-> <<state.pk_tildes[j], state.bbs_proof.challenge>>],
                        proof.answers, asked)
      BY Zenon DEF Finished
    <2>2. [j \in 1 .. Len(state.args.keys) |-> <<state.pk_tildes[j], state.bbs_proof.challenge>>][i] = message
      BY <1>7
    <2> QED
      BY <2>1, <2>2, <1>2, <1>3, <1>4, <1>5, Zenon DEF DeviceAnswers
  <1>10. c \in Answer /\ c \in Int
    BY <1>9, KnowsType, AnswersType
  <1>11. DeviceKey(g) \in Int /\ nonce \in Int
    BY <1>8, <1>9, ScalarsDrawn, NotZeroIsScalar
  <1>12. s = (nonce + DeviceKey(g) * c) % q
    BY <1>9, Zenon DEF DeviceKey
  <1>13. s \in Int
    BY <1>10, <1>11, <1>12, ResponseType
  <1>14. proof.sigs[i].s = (s + c * r) % q /\ proof.sigs[i].c = c
    BY <1>4, <1>5, <1>6, Zenon DEF Finished
  <1>15. Randomised(state) /\ state.pk_tildes = Tildes(stream, state)
         /\ state.disclosures \in [1 .. Len(state.args.messages) -> Disclosure]
    BY Zenon DEF Presented
  <1>16. r \in Int
    BY <1>6, <1>15, RandomAt
  <1>17. state.pk_tildes[i] = Plus(DevicePoint(k), Times(Generator("HK", i), r))
    BY <1>1, <1>6, <1>15, TildesType DEF Randomised
  <1>18. DevicePoint(k) \in Point /\ Generator("HK", i) \in Point
    BY <1>8, DevicePointType, GeneratorAt DEF Keyed
  <1>19. Plus(Times(Generator("HK", i), (s + c * r) % q), Times(Plus(DevicePoint(k), Times(Generator("HK", i), r)), Minus(0, c)))
           = Plus(Times(Generator("HK", i), s), Times(DevicePoint(k), Minus(0, c)))
    BY ONLY <1>10, <1>13, <1>16, <1>18, RandomisedCancels
  <1>20. schnorr_verify(Generator("HK", i), state.pk_tildes[i], proof.sigs[i], message)
           <=> hash_to_scalar(asked, <<"schnorr", Plus(Times(Generator("HK", i), s), Times(DevicePoint(k), Minus(0, c))),
                                       message>>) = c
    BY <1>14, <1>17, <1>19, Zenon DEF schnorr_verify
  <1>21. hash_to_scalar(asked, <<"schnorr", Plus(Times(Generator("HK", i), s), Times(DevicePoint(k), Minus(0, c))),
                                 message>>) = c
           <=> g = k /\ (k = i \/ s = 0)
    <2>1. Knows(asked, NonceInput(g, nonce, message), c)
      BY <1>9
    <2> QED
      BY ONLY <2>1, <1>8, <1>9, <1>12, Case, Enough(asked), SchnorrExact
  <1> QED
    BY <1>1, <1>2, <1>4, <1>7, <1>20, <1>21, Zenon

\* All keys are answered for exactly if each is.
LEMMA KeysAnswered ==
  ASSUME Case, ArgsType(state.args), Enough(asked), signature.a \in Point, signature.e \in Int,
         Presented(stream, signature, state, asked), Finished(shape.keys, stream, state, proof, asked),
         Len(state.args.keys) <= shape.keys
  PROVE  KeysAnswer(Shown)
           <=> \A i \in DOMAIN proof.signers :
                 proof.signers[i] = state.args.keys[i] /\ (state.args.keys[i] = i \/ proof.answers[i].s = 0)
  <1>1. DOMAIN proof.signers = 1 .. Len(state.args.keys) /\ Len(proof.sigs) = Len(state.args.keys)
    BY DEF Finished
  <1>2. PICK l \in Nat : /\ l = Len(state.args.messages) /\ state.args.issuer_no \in 0 .. l
    BY ArgsIs
  <1>3. Len(state.args.keys) \in Nat
    BY KeysType
  <1>4. ReadLength(Shown) = (l + 1) + Len(state.args.keys)
    BY <1>2, ShownRead
  <1>5. ReadGenerators(Shown) = all_generators(state.args.issuer_no, l, Len(state.args.keys))
    BY <1>2, ShownRead, Zenon DEF GeneratorsOf
  <1>6. ASSUME NEW i \in 1 .. Len(state.args.keys)
        PROVE  ReadGenerators(Shown)[ReadLength(Shown) + 1 - Len(proof.sigs) + i] = Generator("HK", i)
    <2>1. ReadLength(Shown) + 1 - Len(proof.sigs) + i = l + 2 + i
      <3>1. PICK k \in Nat : k = Len(state.args.keys)
        BY <1>3
      <3>2. PICK h : h = ReadLength(Shown)
        OBVIOUS
      <3>3. i \in Int
        BY <1>3
      <3>4. h = (l + 1) + k
        BY <3>1, <3>2, <1>4, Zenon
      <3>5. h + 1 - k + i = l + 2 + i
        BY ONLY <3>3, <3>4, l \in Nat, k \in Nat
      <3> QED
        BY <3>1, <3>2, <3>5, <1>1, Zenon
    <2>2. all_generators(state.args.issuer_no, l, Len(state.args.keys))[l + 2 + i] = Generator("HK", i)
      BY <1>2, <1>3, GeneratorsType
    <2> QED
      BY <2>1, <2>2, <1>5
  <1>7. KeysAnswer(Shown)
          <=> \A i \in 1 .. Len(state.args.keys) :
                schnorr_verify(Generator("HK", i), state.pk_tildes[i], proof.sigs[i],
                               <<state.pk_tildes[i], state.bbs_proof.challenge>>)
    BY <1>1, <1>6, Zenon DEF KeysAnswer
  <1> QED
    BY <1>1, <1>7, KeyChecked, Zenon

\* The points of a proof of B, blinded by r1 and r2.
Blinded(a, B, e, r1, r2, abar, d, bbar) ==
  /\ abar = Times(a, (r1 * r2) % q)
  /\ d = Times(B, r2)
  /\ bbar = Plus(Times(d, r1), Times(abar, Minus(0, e)))
IsSumOf(w, sk, e) == w = (sk + e) % q

LEMMA BlindingType ==
  ASSUME NEW r1 \in NotZero, NEW r2 \in NotZero
  PROVE  (r1 * r2) % q \in NotZero /\ Cong((r1 * r2) % q, r1 * r2)
  <1>1. r1 \in Int /\ r2 \in Int /\ r2 # 0 /\ r2 \in Scalar
    BY NotZeroIsScalar
  <1>2. PICK p \in Int : p = r1 * r2
    BY <1>1
  <1>3. p % q \in Scalar /\ p % q \in Int /\ Cong(p % q, p) /\ Cong(p, p % q)
    BY <1>2, Remainder, CongMod
  <1>4. p % q # 0
    <2>1. SUFFICES ASSUME p % q = 0 PROVE FALSE
      OBVIOUS
    <2>2. Cong(r1 * r2, 0)
      BY <1>2, <1>3, <2>1, Zenon
    <2>3. Cong(r2, 0)
      BY <1>1, <2>2, NoZeroDivisors DEF NotZero
    <2>4. 0 \in Scalar
      BY OrderType DEF Scalar
    <2> QED
      BY <1>1, <2>3, <2>4, CongScalar
  <1>5. p % q \in NotZero
    <2>1. PICK t : t = p % q
      OBVIOUS
    <2>2. t \in 0 .. (q - 1) /\ t # 0 /\ q \in Nat
      BY <2>1, <1>3, <1>4, OrderType DEF Scalar
    <2>3. t \in 1 .. (q - 1)
      BY ONLY <2>2
    <2> QED
      BY <2>1, <2>3, Zenon DEF NotZero
  <1> QED
    BY <1>2, <1>3, <1>5, Zenon

\* What the pairing finds: the signed B is the B of the proof.
LEMMA PairingOf ==
  ASSUME NEW a \in Point, NEW F \in Point, NEW B \in Point, NEW sk \in Int, NEW e \in Int, NEW w \in NotZero,
         IsSumOf(w, sk, e), Times(a, w) = F, NEW r1 \in NotZero, NEW r2 \in NotZero,
         NEW abar \in Point, NEW d \in Point, NEW bbar \in Point, Blinded(a, B, e, r1, r2, abar, d, bbar)
  PROVE  Times(abar, sk) = bbar <=> F = B
  <1>1. PICK rho : rho = (r1 * r2) % q
    OBVIOUS
  <1>2. rho \in NotZero /\ rho \in Int /\ Cong(rho, r1 * r2) /\ w \in Int /\ r1 \in Int /\ r2 \in Int
    BY <1>1, BlindingType, NotZeroIsScalar
  <1>3. PICK tb \in Point : tb = Times(B, rho)
    BY <1>2, TimesAt
  <1>4. Times(d, r1) = tb
    <2>1. d = Times(B, r2)
      BY Zenon DEF Blinded
    <2>2. Times(Times(B, r2), r1) = Times(B, r2 * r1)
      BY <1>2, TimesTwice
    <2>3. r2 * r1 = r1 * r2 /\ r1 * r2 \in Int
      BY ONLY <1>2
    <2>4. Times(B, rho) = Times(B, r1 * r2)
      BY <1>2, <2>3, TimesReduced
    <2> QED
      BY <2>1, <2>2, <2>3, <2>4, <1>3, Zenon
  <1>5. PICK x \in Point : x = Times(abar, sk)
    BY TimesAt
  <1>6. PICK n \in Point : n = Times(abar, e)
    BY TimesAt
  <1>7. PICK m \in Point : m = Times(abar, Minus(0, e))
    BY TimesAt, MinusType
  <1>8. Plus(n, m) = Identity
    <2>1. Times(abar, Minus(0, e)) = Times(abar, -e)
      BY MinusType, TimesReduced
    <2>2. Plus(Times(abar, e), Times(abar, -e)) = Identity
      BY TimesOpposite
    <2> QED
      BY <1>6, <1>7, <2>1, <2>2, Zenon
  <1>9. Plus(x, n) = Times(F, rho)
    <2>1. Times(abar, sk + e) = Plus(Times(abar, sk), Times(abar, e))
      BY TimesSum
    <2>2. Cong(w, sk + e)
      <3>1. PICK v \in Int : v = sk + e
        OBVIOUS
      <3>2. w = v % q
        BY <3>1, Zenon DEF IsSumOf
      <3> QED
        BY <3>1, <3>2, CongMod
    <2>3. Times(abar, w) = Times(abar, sk + e)
      <3>1. sk + e \in Int
        OBVIOUS
      <3> QED
        BY ONLY <3>1, <2>2, <1>2, abar \in Point, TimesReduced
    <2>4. abar = Times(a, rho)
      BY <1>1, Zenon DEF Blinded
    <2>5. Times(Times(a, rho), w) = Times(a, rho * w) /\ Times(Times(a, w), rho) = Times(a, w * rho)
      BY <1>2, TimesTwice
    <2>6. rho * w = w * rho
      BY ONLY <1>2
    <2> QED
      BY <1>5, <1>6, <2>1, <2>3, <2>4, <2>5, <2>6, Zenon
  <1>10. bbar = Plus(tb, m)
    BY <1>4, <1>7, Zenon DEF Blinded
  <1>11. ASSUME x = bbar PROVE F = B
    <2>1. Plus(Plus(tb, m), n) = Plus(tb, Plus(m, n)) /\ Plus(m, n) = Plus(n, m)
      BY PlusAssociates, PlusCommutes
    <2>2. Plus(tb, Identity) = tb
      BY PlusIdentity
    <2>3. Times(F, rho) = Times(B, rho)
      BY <1>3, <1>8, <1>9, <1>10, <1>11, <2>1, <2>2, Zenon
    <2>4. Times(Times(F, rho), Invert(rho)) = F /\ Times(Times(B, rho), Invert(rho)) = B
      BY <1>2, InvertCancels
    <2> QED
      BY <2>3, <2>4, Zenon
  <1>12. ASSUME F = B PROVE x = bbar
    <2>1. Plus(Plus(x, n), m) = Plus(x, Plus(n, m))
      BY PlusAssociates
    <2>2. Plus(x, Identity) = x
      BY PlusIdentity
    <2> QED
      BY <1>3, <1>8, <1>9, <1>10, <1>12, <2>1, <2>2, Zenon
  <1> QED
    BY <1>5, <1>11, <1>12, Zenon

\* The pairing finds that what was proved is what was signed.
LEMMA PairingExact ==
  ASSUME Case, Enough(asked), Called(state.args), ArgsType(Honest), Record(Honest), Honest.keys = InOrder(shape.keys),
         Signed(stream, Honest, signature, asked), Presented(stream, signature, state, asked)
  PROVE  PairingHolds <=> SignedAs(state.args)
  <1>1. PICK dom0 \in Answer :
          /\ Knows(asked, DomainInput(IssuerKey, GeneratorsOf(Honest), Honest.header), dom0)
          /\ Full(Honest, dom0) \in Point
          /\ (IssuerKey + signature.e) % q \in NotZero
          /\ signature.a \in Point
          /\ Times(signature.a, (IssuerKey + signature.e) % q) = Full(Honest, dom0)
    BY SignedTimes
  <1>2. signature.e \in Int /\ signature.e \in Answer
    BY AnswersType DEF Signed
  <1>3. ArgsType(state.args) /\ Record(state.args)
    BY DEF Called
  <1>4. PICK dom \in Answer, B \in Point, c \in Answer :
          /\ B = Full(state.args, dom) /\ c = state.bbs_proof.challenge /\ c \in Int
          /\ Knows(asked, DomainInput(IssuerKey, GeneratorsOf(state.args), state.args.header), dom)
          /\ Responses(signature, state, state.bbs_proof, B)
    BY <1>3, PresentedParts
  <1>5. Randomised(state) /\ state.disclosures \in [1 .. Len(state.args.messages) -> Disclosure]
    BY Zenon DEF Presented
  <1>6. PICK r1 : r1 = state.random[1]
    OBVIOUS
  <1>7. PICK r2 : r2 = state.random[2]
    OBVIOUS
  <1>8. r1 \in NotZero /\ r2 \in NotZero
    <2>1. \A i \in 1 .. 5 : state.random[i] \in NotZero
      BY <1>3, <1>5, RandomAt
    <2>2. 1 \in 1 .. 5 /\ 2 \in 1 .. 5
      OBVIOUS
    <2> QED
      BY <2>1, <2>2, <1>6, <1>7, Zenon
  <1>9. /\ state.bbs_proof.abar \in Point /\ state.bbs_proof.d \in Point /\ state.bbs_proof.bbar \in Point
    BY <1>1, <1>2, <1>3, <1>4, <1>5, ResponsesType
  <1>10. Blinded(signature.a, B, signature.e, r1, r2, state.bbs_proof.abar, state.bbs_proof.d, state.bbs_proof.bbar)
    BY <1>4, <1>6, <1>7, Zenon DEF Responses, Blinded
  <1>11. PairingHolds <=> Full(Honest, dom0) = B
    <2>1. PICK w \in NotZero : w = (IssuerKey + signature.e) % q
      BY <1>1
    <2>2. IsSumOf(w, IssuerKey, signature.e) /\ Times(signature.a, w) = Full(Honest, dom0)
      BY <2>1, <1>1, Zenon DEF IsSumOf
    <2>3. IssuerKey \in Int
      BY ScalarsDrawn, NotZeroIsScalar
    <2>4. Times(state.bbs_proof.abar, IssuerKey) = state.bbs_proof.bbar <=> Full(Honest, dom0) = B
      BY ONLY <2>2, <2>3, <1>1, <1>2, <1>8, <1>9, <1>10, w \in NotZero, B \in Point, PairingOf, SMTT(40)
    <2> QED
      BY <2>4, Zenon DEF PairingHolds
  <1>12. hash_to_scalar(asked, DomainInput(IssuerKey, GeneratorsOf(state.args), state.args.header)) = dom
    BY <1>4, Zenon DEF Knows
  <1>13. Full(state.args, dom) = Full(Honest, dom0) <=> Covers(state.args, Honest)
    BY <1>1, <1>12, SameB
  <1>14. SignedAs(state.args) <=> Covers(state.args, Honest)
    BY <1>3, SignedAsIs
  <1> QED
    BY <1>4, <1>11, <1>13, <1>14, Zenon

-----------------------------------------------------------------------------
(* No point of a proof is the identity.                                    *)

LEMMA NotIdentityAt ==
  ASSUME NEW x \in Point, NEW b \in 1 .. Dim, x[b] # 0
  PROVE  x # Identity
  BY IdentityAt

LEMMA NotIdentityTimes ==
  ASSUME NEW x \in Point, x # Identity, NEW s \in NotZero
  PROVE  Times(x, s) # Identity
  <1>1. Invert(s) \in Int
    BY InvertType DEF NotZero
  <1>2. Times(Times(x, s), Invert(s)) = x /\ Times(Identity, Invert(s)) = Identity
    BY <1>1, InvertCancels, TimesIdentity
  <1> QED
    BY <1>2, Zenon

\* A commitment has its opening, which is not zero, under Y_0.
LEMMA NotIdentityCommitment ==
  ASSUME NEW s \in NotZero, NEW m \in Int, NEW x, x = sumprod(com_dis_generators, <<s, m>>)
  PROVE  x # Identity
  <1>1. PICK y0 \in Point : y0 = Generator("Y0", 1)
    BY GeneratorAt
  <1>2. PICK y1 \in Point : y1 = Generator("Y1", 1)
    BY GeneratorAt
  <1>3. s \in Int /\ s \in Scalar /\ s # 0
    BY NotZeroIsScalar
  <1>4. x = Plus(Times(y0, s), Times(y1, m))
    <2>1. sumprod(<<y0, y1>>, <<s, m>>) = Plus(Times(y0, s), Times(y1, m))
      BY <1>3, SumprodTwo
    <2> QED
      BY <2>1, <1>1, <1>2, Zenon DEF com_dis_generators
  <1>5. PICK b \in 1 .. Dim : Basis[b] = <<"Y0", 1>>
    <2>1. "Y0" \in Names /\ 1 \in 1 .. SizeOf("Y0")
      BY DEF Names, SizeOf
    <2> QED
      BY <2>1, BasisHas
  <1>6. y0[b] = 1 /\ y1[b] = 0
    <2>1. <<"Y0", 1>> # <<"Y1", 1>>
      OBVIOUS
    <2> QED
      BY <1>1, <1>2, <1>5, <2>1, GeneratorAt
  <1>7. PICK t0 \in Point : t0 = Times(y0, s)
    BY <1>3, TimesAt
  <1>8. PICK t1 \in Point : t1 = Times(y1, m)
    BY TimesAt
  <1>9. t0[b] = s
    <2>1. t0[b] = (1 * s) % q
      <3>1. Times(y0, s)[b] = (y0[b] * s) % q
        BY <1>3, TimesAt
      <3> QED
        BY <3>1, <1>6, <1>7, Zenon
    <2>2. 1 * s = s /\ s % q = s
      BY <1>3, ScalarMod
    <2> QED
      BY <2>1, <2>2, Zenon
  <1>10. t1[b] = 0
    <2>1. t1[b] = (0 * m) % q
      BY <1>6, <1>8, TimesAt
    <2>2. 0 * m = 0 /\ 0 \in Scalar
      BY OrderType DEF Scalar
    <2>3. 0 % q = 0
      BY <2>2, ScalarMod
    <2> QED
      BY <2>1, <2>2, <2>3, Zenon
  <1>11. Plus(t0, t1)[b] = (s + 0) % q
    BY <1>9, <1>10, PlusAt
  <1>12. s + 0 = s /\ s % q = s
    BY <1>3, ScalarMod
  <1>13. Plus(t0, t1) \in Point /\ Plus(t0, t1)[b] # 0
    BY <1>3, <1>11, <1>12, PlusAt
  <1> QED
    BY <1>4, <1>7, <1>8, <1>13, NotIdentityAt, Zenon

\* What the pairing accepts has no identity in it.
LEMMA NoneIsIdentity ==
  ASSUME Case, Enough(asked), Called(state.args), ArgsType(Honest), Record(Honest), Honest.keys = InOrder(shape.keys),
         Signed(stream, Honest, signature, asked), Presented(stream, signature, state, asked),
         Finished(shape.keys, stream, state, proof, asked), PairingHolds
  PROVE  NoIdentity
  <1>1. PICK dom0 \in Answer, b0 \in 1 .. Dim :
          /\ Full(Honest, dom0) \in Point
          /\ Full(Honest, dom0)[b0] = 1
          /\ (IssuerKey + signature.e) % q \in NotZero
          /\ signature.a \in Point
          /\ Times(signature.a, (IssuerKey + signature.e) % q) = Full(Honest, dom0)
    BY SignedTimes
  <1>2. signature.e \in Int
    BY AnswersType DEF Signed
  <1>3. ArgsType(state.args)
    BY DEF Called
  <1>4. PICK dom \in Answer, B \in Point, c \in Answer :
          /\ B = Full(state.args, dom) /\ dom \in Int /\ c = state.bbs_proof.challenge /\ c \in Int
          /\ Responses(signature, state, state.bbs_proof, B)
    BY <1>3, PresentedParts
  <1>5. Randomised(state) /\ state.disclosures \in [1 .. Len(state.args.messages) -> Disclosure]
        /\ state.commitments = CommitmentsOf(state)
    BY Zenon DEF Presented
  <1>6. PICK r1 : r1 = state.random[1]
    OBVIOUS
  <1>7. PICK r2 : r2 = state.random[2]
    OBVIOUS
  <1>8. r1 \in NotZero /\ r2 \in NotZero
    <2>1. \A i \in 1 .. 5 : state.random[i] \in NotZero
      BY <1>3, <1>5, RandomAt
    <2>2. 1 \in 1 .. 5 /\ 2 \in 1 .. 5
      OBVIOUS
    <2> QED
      BY <2>1, <2>2, <1>6, <1>7, Zenon
  <1>9. signature.a # Identity
    <2>1. Full(Honest, dom0) # Identity
      BY <1>1, NotIdentityAt
    <2>2. Times(Identity, (IssuerKey + signature.e) % q) = Identity
      BY <1>1, NotZeroIsScalar, TimesIdentity
    <2> QED
      BY <1>1, <2>1, <2>2, Zenon
  <1>10. PICK abar \in Point : abar = state.bbs_proof.abar /\ abar # Identity
    <2>1. PICK rho \in NotZero : rho = (r1 * r2) % q
      BY <1>8, BlindingType
    <2>2. state.bbs_proof.abar = Times(signature.a, rho)
      BY <1>4, <1>6, <1>7, <2>1, Zenon DEF Responses
    <2>3. Times(signature.a, rho) # Identity
      BY <1>1, <1>9, NotIdentityTimes
    <2>4. state.bbs_proof.abar \in Point
      BY <1>1, <1>2, <1>3, <1>4, <1>5, ResponsesType
    <2> QED
      BY <2>2, <2>3, <2>4
  <1>11. state.bbs_proof.bbar # Identity
    <2>1. Times(abar, IssuerKey) # Identity
      BY <1>10, ScalarsDrawn, NotIdentityTimes
    <2> QED
      BY <1>10, <2>1, Zenon DEF PairingHolds
  <1>12. state.bbs_proof.d # Identity
    <2>1. \E b \in 1 .. Dim : Full(state.args, dom)[b] = 1
      BY <1>3, <1>4, FullIs
    <2>2. B # Identity
      BY <1>4, <2>1, NotIdentityAt
    <2>3. Times(B, r2) # Identity
      BY <1>8, <2>2, NotIdentityTimes
    <2> QED
      BY <1>4, <1>7, <2>3, Zenon DEF Responses
  <1>13. Identity \notin ToSet(state.commitments)
    <2>1. DOMAIN state.commitments = 1 .. Len(CommittedBy(state))
      BY <1>1, <1>2, <1>3, CommitmentsType
    <2>2. ASSUME NEW i \in 1 .. Len(CommittedBy(state)) PROVE state.commitments[i] # Identity
      <3>1. PICK m : m = proof_scalars(state.args)[CommittedBy(state)[i]]
        OBVIOUS
      <3>2. PICK s : s = state.openings[i]
        OBVIOUS
      <3>3. s \in NotZero
        BY <1>3, <1>5, <3>2, RandomAt
      <3>4. m \in Int
        <4>1. PICK l \in Nat, n \in Nat :
                /\ Len(proof_scalars(state.args)) = l + 1 /\ proof_scalars(state.args) \in Seq(Int)
                /\ Slots(CommittedBy(state), Chosen(state.disclosures, "COMMIT"), l, n)
          BY <1>3, <1>5, PresentedSizes
        <4>2. CommittedBy(state)[i] \in 1 .. l + 1
          BY <4>1 DEF Slots
        <4> QED
          BY <3>1, <4>1, <4>2
      <3>5. state.commitments[i] = sumprod(com_dis_generators, <<s, m>>)
        BY <1>5, <3>1, <3>2, Zenon DEF CommitmentsOf
      <3> QED
        BY <3>3, <3>4, <3>5, NotIdentityCommitment
    <2> QED
      BY <2>1, <2>2, Zenon DEF ToSet
  <1>14. Identity \notin ToSet(state.pk_tildes)
    BY Zenon DEF Finished
  <1> QED
    BY <1>10, <1>11, <1>12, <1>13, <1>14, Zenon DEF NoIdentity

-----------------------------------------------------------------------------
(* What blind_proof_verify accepts.                                        *)

\* Prover and relying party mean the same, and every key has answered.
Agreed(seen) ==
  /\ SignedAs(state.args)
  /\ seen = Shown
  /\ \A i \in DOMAIN proof.signers :
       proof.signers[i] = state.args.keys[i] /\ (state.args.keys[i] = i \/ proof.answers[i].s = 0)

LEMMA VerifyIs ==
  ASSUME IInv, proof # NotYet, NEW seen \in Readings
  PROVE  blind_proof_verify(seen) <=> Agreed(seen)
  <1>1. Case /\ Enough(asked)
    BY NeverDry, Zenon DEF IInv
  <1>2. state # NotYet /\ signature \notin {NotYet, Refused}
    BY Zenon DEF IInv, InTurn
  <1>3. /\ Called(state.args) /\ Presented(stream, signature, state, asked)
        /\ Finished(shape.keys, stream, state, proof, asked)
    BY <1>2, Zenon DEF IInv, Presents, Finishes
  <1>4. ArgsType(state.args)
    BY <1>3, Zenon DEF Called
  <1>5. /\ commit.secret_prover_blind \in NotZero
        /\ Signed(stream, Honest, signature, asked)
        /\ ArgsType(Honest) /\ Record(Honest)
        /\ signature.a \in Point /\ signature.e \in Int
    BY <1>2, SignatureIs, Zenon
  <1>6. Honest.keys = InOrder(shape.keys)
    BY <1>1, <1>5, HonestIs, SignableType, Zenon DEF InOrder
  <1>7. Len(state.args.keys) <= shape.keys
    <2>1. Len(state.args.keys) \in {0, shape.keys} /\ shape.keys \in Nat
      BY <1>1, <1>3, CalledKeys, ShapeAt
    <2> QED BY <2>1
  <1>8. SeenType(seen, Len(state.args.messages))
    <2>1. PICK l \in Nat : l = Len(state.args.messages) /\ state.args.issuer_no \in 0 .. l
      BY <1>1, <1>4, ArgsIs
    <2>2. state.disclosures \in [1 .. l -> Disclosure]
      BY <1>3, <2>1, Zenon DEF Presented
    <2> QED BY <2>1, <2>2, ReadingsType, Zenon
  <1>9. blind_proof_verify(seen) <=>
          Lengths(seen) /\ NoIdentity /\ SameChallenge(seen) /\ KeysAnswer(seen) /\ PairingHolds
    BY VerifyParts, Zenon
  <1>10. PairingHolds <=> SignedAs(state.args)
    BY <1>1, <1>3, <1>5, <1>6, PairingExact, Zenon
  <1>11. KeysAnswer(Shown)
           <=> \A i \in DOMAIN proof.signers :
                 proof.signers[i] = state.args.keys[i] /\ (state.args.keys[i] = i \/ proof.answers[i].s = 0)
    BY <1>1, <1>3, <1>4, <1>5, <1>7, KeysAnswered, Zenon
  <1>12. ASSUME blind_proof_verify(seen) PROVE Agreed(seen)
    <2>1. seen = Shown
      BY <1>1, <1>3, <1>4, <1>5, <1>8, <1>9, <1>12, SeenIsShown, Zenon
    <2> QED BY <1>9, <1>10, <1>11, <1>12, <2>1, Zenon DEF Agreed
  <1>13. ASSUME Agreed(seen) PROVE blind_proof_verify(seen)
    <2>1. seen = Shown /\ SignedAs(state.args) /\ PairingHolds /\ KeysAnswer(Shown)
      BY <1>10, <1>11, <1>13, Zenon DEF Agreed
    <2>2. Lengths(Shown) /\ SameChallenge(Shown)
      BY <1>1, <1>3, <1>4, <1>5, ShownRead, Zenon
    <2>3. NoIdentity
      BY <1>1, <1>3, <1>5, <1>6, <2>1, NoneIsIdentity, Zenon
    <2> QED BY <1>9, <2>1, <2>2, <2>3, Zenon
  <1> QED BY <1>12, <1>13

LEMMA VerifyExactly ==
  ASSUME IInv, NEW seen \in Readings, Verify(seen)
  PROVE  ProofExact'
  <1>1. /\ UNCHANGED <<shape, stream, drawn, asked, commit, request, signature, accepted, state, proof>>
        /\ proof # NotYet
        /\ verified' = [seen |-> seen, ok |-> blind_proof_verify(seen)]
    BY Zenon DEF Verify
  <1>2. PICK a : a = seen
    OBVIOUS
  <1>3. PICK v \in BOOLEAN : v = blind_proof_verify(seen)
    <2>1. blind_proof_verify(seen) \in BOOLEAN
      BY Zenon DEF blind_proof_verify
    <2> QED BY <2>1, Zenon
  <1>4. verified'.seen = seen /\ verified'.ok = blind_proof_verify(seen)
    <2>1. verified' = [seen |-> a, ok |-> v]
      BY <1>1, <1>2, <1>3, Zenon
    <2>2. verified'.seen = a /\ verified'.ok = v
      BY ONLY <2>1
    <2> QED BY <1>2, <1>3, <2>2, Zenon
  <1>5. blind_proof_verify(seen) <=> Agreed(seen)
    BY <1>1, VerifyIs
  <1>6. Honest' = Honest /\ Shown' = Shown /\ Positions' = Positions
    BY <1>1, HonestKept, Zenon DEF Shown, Positions
  <1>7. SignedAs(state.args)' <=> SignedAs(state.args)
    BY <1>1, <1>6, Zenon DEF SignedAs
  <1> QED BY <1>1, <1>4, <1>5, <1>6, <1>7, Zenon DEF ProofExact, Agreed

\* Once a proof is verified nothing is left to do.
LEMMA ProofStep == ASSUME IInv, ProofExact, [Next]_vars PROVE ProofExact'
  <1>1. CASE \E seen \in Readings : Verify(seen)
    BY <1>1, VerifyExactly, Zenon
  <1>2. ASSUME ~ \E seen \in Readings : Verify(seen)
        PROVE  \/ UNCHANGED verified /\ UNCHANGED vars
               \/ UNCHANGED verified /\ NotYet \in {commit, request, signature, state, proof}
    <2>1. ASSUME CommitInit PROVE UNCHANGED verified /\ commit = NotYet
      BY <2>1, Zenon DEF CommitInit
    <2>2. ASSUME NEW signers, CommitFinalize(signers) PROVE UNCHANGED verified /\ request = NotYet
      BY <2>2, Zenon DEF CommitFinalize
    <2>3. ASSUME NEW h, BlindSign(h) PROVE UNCHANGED verified /\ signature = NotYet
      BY <2>3, Zenon DEF BlindSign
    <2>4. ASSUME NEW args, Accept(args) PROVE UNCHANGED verified /\ state = NotYet
      BY <2>4, Zenon DEF Accept
    <2>5. ASSUME NEW args, NEW disclosures, NEW ph, ProofGenInit(args, disclosures, ph)
          PROVE  UNCHANGED verified /\ state = NotYet
      BY <2>5, Zenon DEF ProofGenInit
    <2>6. ASSUME NEW signers, ProofGenFinalize(signers) PROVE UNCHANGED verified /\ proof = NotYet
      BY <2>6, Zenon DEF ProofGenFinalize
    <2>7. ASSUME UNCHANGED vars PROVE UNCHANGED verified
      BY <2>7, Zenon DEF vars
    <2> QED BY <1>2, <2>1, <2>2, <2>3, <2>4, <2>5, <2>6, <2>7, Zenon DEF Next
  <1>3. CASE ~ \E seen \in Readings : Verify(seen)
    <2>1. CASE verified = NotYet
      <3>1. UNCHANGED verified
        BY <1>2, <1>3, Zenon
      <3> QED BY <2>1, <3>1, Zenon DEF ProofExact
    <2>2. CASE verified # NotYet
      <3>1. /\ commit # NotYet /\ request # NotYet /\ signature # NotYet /\ state # NotYet /\ proof # NotYet
        BY <2>2, Zenon DEF IInv, InTurn
      <3>2. UNCHANGED vars
        BY <1>2, <1>3, <3>1, Zenon
      <3>3. UNCHANGED <<shape, stream, drawn, asked, commit, request, signature, accepted, state, proof, verified>>
        BY <3>2, Zenon DEF vars
      <3>4. Honest' = Honest /\ Shown' = Shown /\ Positions' = Positions
        BY <3>3, HonestKept, Zenon DEF Shown, Positions
      <3>5. SignedAs(state.args)' <=> SignedAs(state.args)
        BY <3>3, <3>4, Zenon DEF SignedAs
      <3> QED BY <3>3, <3>4, <3>5, Zenon DEF ProofExact
    <2> QED BY <2>1, <2>2, Zenon
  <1> QED BY <1>1, <1>3, Zenon

(* blind_proof_verify accepts exactly when what was proved was signed, what *)
(* is read is what was shown, and each key's own device has answered for it *)
(* at the position it was made for (or answered zero), whatever is          *)
(* disclosed, hidden or committed to.                                       *)
THEOREM ProofIsExact == Spec => []ProofExact
  <1>1. Init => ProofExact
    BY Zenon DEF Init, ProofExact
  <1> QED BY <1>1, ProofStep, Invariant, PTL DEF Spec
=============================================================================
