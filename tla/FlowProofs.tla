----------------------------- MODULE FlowProofs -----------------------------
(***************************************************************************)
(* Proofs about Flow: the inductive invariant IInv, type correctness, the   *)
(* safety properties and the refinement of Promise, for every set of        *)
(* issuers, devices, sessions, claims and key lists.                       *)
(***************************************************************************)
EXTENDS Flow, TLAPS, FiniteSetTheorems, SequenceTheorems, WellFoundedInduction

-----------------------------------------------------------------------------
(* Lemmas about the operators of Flow.                                     *)

\* committed_messages keeps the number of claims, for values and pointers.
LEMMA ClaimParts ==
  ASSUME NEW claims \in Claims
  PROVE  /\ Messages(claims) \in Seq(Value)
         /\ Pointers(claims) \in Seq(Pointer)
         /\ Len(Messages(claims)) = Len(claims)
         /\ Len(Pointers(claims)) = Len(claims)
         /\ \A i \in 1 .. Len(claims) : /\ Messages(claims)[i] = claims[i].value
                                        /\ Pointers(claims)[i] = claims[i].pointer
<1>1. /\ Len(claims) \in Nat
      /\ \A i \in 1 .. Len(claims) : claims[i] \in [pointer: Pointer, value: Value]
  BY ElementOfSeq, LenProperties DEF Claims
<1> QED
  BY <1>1 DEF Messages, Pointers

\* The sum of the keys counts each device.
LEMMA KeySumType ==
  ASSUME NEW keys \in Seq(Device)
  PROVE  /\ KeySum(keys) \in [Device -> Nat]
         /\ \A d \in Device : KeySum(keys)[d] = 0 <=> d \notin Elements(keys)
<1>1. SUFFICES ASSUME NEW d \in Device
               PROVE  LET places == {i \in DOMAIN keys : keys[i] = d}
                      IN  /\ Cardinality(places) \in Nat
                          /\ Cardinality(places) = 0 <=> d \notin Elements(keys)
  BY DEF KeySum
<1> DEFINE places == {i \in DOMAIN keys : keys[i] = d}
<1>2. DOMAIN keys = 1 .. Len(keys) /\ Len(keys) \in Nat
  BY LenProperties
<1>3. IsFiniteSet(places)
  <2>1. IsFiniteSet(1 .. Len(keys))
    BY <1>2, FS_Interval
  <2> QED
    BY <1>2, <2>1, FS_Subset
<1>4. Cardinality(places) \in Nat
  BY <1>3, FS_CardinalityType
<1>5. Cardinality(places) = 0 <=> places = {}
  BY <1>3, FS_EmptySet
<1> QED
  BY <1>4, <1>5 DEF Elements

\* Two key lists with the same sum hold the same keys.
LEMMA KeySumElements ==
  ASSUME NEW keys \in Seq(Device), NEW others \in Seq(Device),
         KeySum(keys) = KeySum(others)
  PROVE  Elements(keys) = Elements(others)
<1>1. /\ Elements(keys) \subseteq Device
      /\ Elements(others) \subseteq Device
  BY ElementOfSeq, LenProperties DEF Elements
<1>2. ASSUME NEW d \in Device PROVE d \in Elements(keys) <=> d \in Elements(others)
  BY KeySumType
<1> QED
  BY <1>1, <1>2

\* A header's counts are numbers.
LEMMA HeaderCounts ==
  ASSUME NEW header \in Header
  PROVE  /\ num_signer_messages(header) \in Nat
         /\ num_messages(header) \in Nat
         /\ num_messages(header) = num_signer_messages(header) + Len(header.holder_claims)
<1>1. /\ header.issuer_claims \in Seq(Pointer)
      /\ header.holder_claims \in Seq(Pointer)
  BY DEF Header
<1> DEFINE signer == Len(header.issuer_claims)
<1> DEFINE holder == Len(header.holder_claims)
<1>2. signer \in Nat /\ holder \in Nat
  BY <1>1, LenProperties
<1>3. num_messages(header) = signer + holder /\ num_signer_messages(header) = signer
  BY DEF num_messages, num_signer_messages
<1> HIDE DEF signer
<1>4. /\ num_signer_messages(header) \in Nat
      /\ num_messages(header) \in Nat
  BY <1>2, <1>3
<1> QED
  BY <1>3, <1>4

\* The header names one pointer for each message.
LEMMA PointersType ==
  ASSUME NEW header \in Header
  PROVE  /\ pointers(header) \in Seq(Pointer)
         /\ DOMAIN pointers(header) = 1 .. num_messages(header)
<1>1. /\ header.issuer_claims \in Seq(Pointer)
      /\ header.holder_claims \in Seq(Pointer)
  BY DEF Header
<1> QED
  BY <1>1, ConcatProperties, LenProperties DEF pointers, num_messages

\* Every pointer the header names has an index.
LEMMA IndexInRange ==
  ASSUME NEW header \in Header, NEW i \in DOMAIN pointers(header)
  PROVE  /\ index_of(header, pointers(header)[i]) \in 1 .. num_messages(header)
         /\ pointers(header)[index_of(header, pointers(header)[i])] = pointers(header)[i]
<1> DEFINE places == {j \in DOMAIN pointers(header) : pointers(header)[j] = pointers(header)[i]}
<1>1. DOMAIN pointers(header) = 1 .. num_messages(header)
  BY PointersType
<1>2. places \subseteq Nat /\ places # {}
  BY <1>1
<1> DEFINE Before == {pair \in Nat \X Nat : pair[1] < pair[2]}
<1>3. PICK first \in places : \A j \in places : ~(j < first)
  <2>1. IsWellFoundedOn(Before, Nat)
    BY NatLessThanWellFounded DEF OpToRel
  <2>2. \E first \in places : \A j \in places : <<j, first>> \notin Before
    BY <1>2, <2>1, WFMin
  <2> QED
    BY <1>2, <2>2
<1>4. /\ first \in DOMAIN pointers(header)
      /\ pointers(header)[first] = pointers(header)[i]
      /\ \A j \in 1 .. (first - 1) : pointers(header)[j] # pointers(header)[i]
  <2>1. first \in 1 .. num_messages(header) /\ num_messages(header) \in Nat
    BY <1>1, LenProperties DEF num_messages, Header
  <2>2. ASSUME NEW j \in 1 .. (first - 1)
        PROVE  pointers(header)[j] # pointers(header)[i]
    <3>1. j \in DOMAIN pointers(header) /\ j < first
      BY <1>1, <2>1
    <3> QED
      BY <1>3, <3>1
  <2> QED
    BY <1>3, <2>2
<1>5. /\ index_of(header, pointers(header)[i]) \in DOMAIN pointers(header)
      /\ pointers(header)[index_of(header, pointers(header)[i])] = pointers(header)[i]
  BY <1>4 DEF index_of
<1> QED
  BY <1>1, <1>5

\* The message vector an issuer signs is the one a wallet rebuilds.
LEMMA ConcatSplits ==
  ASSUME NEW S, NEW front \in Seq(S), NEW back \in Seq(S)
  PROVE  /\ front \o back \in Seq(S)
         /\ Len(front \o back) = Len(front) + Len(back)
         /\ [i \in 1 .. Len(front) |-> (front \o back)[i]] = front
         /\ [i \in 1 .. Len(back) |-> (front \o back)[Len(front) + i]] = back
<1>1. /\ Len(front) \in Nat /\ Len(back) \in Nat
      /\ front \in [1 .. Len(front) -> S]
      /\ back \in [1 .. Len(back) -> S]
  BY LenProperties
<1>2. /\ front \o back \in Seq(S)
      /\ Len(front \o back) = Len(front) + Len(back)
      /\ \A i \in 1 .. Len(front) + Len(back) :
           (front \o back)[i] = IF i <= Len(front) THEN front[i] ELSE back[i - Len(front)]
  BY ConcatProperties
<1>3. \A i \in 1 .. Len(front) : (front \o back)[i] = front[i]
  BY <1>1, <1>2
<1>4. \A i \in 1 .. Len(back) : (front \o back)[Len(front) + i] = back[i]
  BY <1>1, <1>2
<1> QED
  BY <1>1, <1>2, <1>3, <1>4

-----------------------------------------------------------------------------
(* Type correctness.                                                       *)

LEMMA InitTypes == Init => TypeOK
  BY DEF Init, TypeOK

\* A table with one more entry is still a table.
LEMMA ExtendType ==
  ASSUME NEW f, NEW S, f \in [DOMAIN f -> S], NEW x, NEW v \in S, x \notin DOMAIN f
  PROVE  /\ DOMAIN Extend(f, x, v) = DOMAIN f \cup {x}
         /\ Extend(f, x, v) \in [DOMAIN f \cup {x} -> S]
         /\ Extend(f, x, v)[x] = v
         /\ \A y \in DOMAIN f : Extend(f, x, v)[y] = f[y]
  BY DEF Extend

LEMMA CommitInitTypes ==
  ASSUME TypeOK, NEW c \in CommitId, NEW claims \in HolderClaims, NEW keys \in KeyLists,
         CommitInit(c, claims, keys)
  PROVE  TypeOK'
<1> DEFINE s == [claims |-> claims, keys |-> keys]
<1>1. s \in CommitSession
  BY FlowAssumption DEF CommitSession, Claims
<1> HIDE DEF s
<1>2. /\ DOMAIN Extend(commits, c, s) = DOMAIN commits \cup {c}
      /\ Extend(commits, c, s) \in [DOMAIN commits \cup {c} -> CommitSession]
  BY <1>1, ExtendType, ZenonT(40) DEF CommitInit, TypeOK
<1>3. commits' = Extend(commits, c, s)
  BY DEF CommitInit, s
<1>4. /\ DOMAIN commits' = DOMAIN commits \cup {c}
      /\ commits' \in [DOMAIN commits' -> CommitSession]
  BY <1>2, <1>3
<1> QED
  BY <1>4 DEF CommitInit, TypeOK

LEMMA ChallengeType ==
  ASSUME TypeOK, NEW d \in Device, NEW challenge \in Challenges(d)
  PROVE  challenge \in Challenge
<1>1. ASSUME NEW c \in DOMAIN commits PROVE CommitChallenge(c) \in Challenge
  BY <1>1 DEF TypeOK, CommitChallenge, Challenge
<1>2. ASSUME NEW p \in DOMAIN presents, NEW i \in DOMAIN presents[p].keys
      PROVE  KeybindChallenge(p, i) \in Challenge
  <2>1. presents[p].keys \in Seq(Device) /\ p \in PresentId
    BY DEF TypeOK, PresentSession
  <2>2. i \in Nat \ {0}
    BY <2>1, LenProperties
  <2> QED
    BY <2>1, <2>2 DEF KeybindChallenge, Challenge
<1> QED
  BY <1>1, <1>2 DEF Challenges

LEMMA DeviceSignTypes ==
  ASSUME TypeOK, NEW d \in Device, NEW challenge \in Challenges(d), DeviceSign(d, challenge)
  PROVE  TypeOK'
<1>1. [device |-> d, challenge |-> challenge] \in DeviceSignature
  BY ChallengeType DEF DeviceSignature
<1> QED
  BY <1>1 DEF DeviceSign, TypeOK

\* What a caller can hand to a finalize call is a list of answers.
LEMMA AnswersType ==
  ASSUME TypeOK, NEW n \in Nat, NEW sigs \in Answers(n)
  PROVE  /\ sigs \in Seq(DeviceSignature)
         /\ \A i \in DOMAIN sigs : sigs[i] \in signatures
  BY DEF Answers, TypeOK

LEMMA CommitFinalizeTypes ==
  ASSUME TypeOK, NEW c \in DOMAIN commits, NEW sigs \in Answers(Len(commits[c].keys)),
         CommitFinalize(c, sigs)
  PROVE  TypeOK'
<1> DEFINE s == commits[c]
<1> DEFINE r == [session |-> c, keys |-> s.keys, keybind_signatures |-> sigs,
                 commitment |-> Commitment(Messages(s.claims), c),
                 holder_pointers |-> Pointers(s.claims)]
<1>1. s.claims \in Claims /\ s.keys \in Seq(Device) /\ c \in CommitId
  BY DEF TypeOK, CommitSession
<1>2. sigs \in Seq(DeviceSignature)
  BY <1>1, AnswersType, LenProperties
<1>3. Messages(s.claims) \in Seq(Value) /\ Pointers(s.claims) \in Seq(Pointer)
  BY <1>1, ClaimParts
<1>4. r \in Request
  BY <1>1, <1>2, <1>3 DEF Request, Commitment
<1> QED
  BY <1>4 DEF CommitFinalize, TypeOK

LEMMA JwpIssueTypes ==
  ASSUME TypeOK, NEW r \in requests, NEW pk \in IssuerKey, NEW claims \in IssuerClaims,
         NEW kb \in BOOLEAN, JwpIssue(r, pk, claims, kb)
  PROVE  TypeOK'
<1> DEFINE header == [issuer_claims |-> Pointers(claims),
                      holder_claims |-> r.holder_pointers, kb |-> kb]
<1> DEFINE jwp == [issuer_header |-> header, payloads |-> Messages(claims),
                   signature |-> BPoint(pk, header, Messages(claims), r.commitment, r.keys)]
<1>1. claims \in Claims
  BY FlowAssumption DEF Claims
<1>2. Messages(claims) \in Seq(Value) /\ Pointers(claims) \in Seq(Pointer)
  BY <1>1, ClaimParts
<1>3. r \in Request
  BY DEF TypeOK
<1>4. /\ r.keys \in Seq(Device)
      /\ r.commitment \in [messages : Seq(Value), secret_prover_blind : CommitId]
      /\ r.holder_pointers \in Seq(Pointer)
  BY <1>3 DEF Request
<1>5. header \in Header
  BY <1>2, <1>4 DEF Header
<1>6. KeySum(r.keys) \in [Device -> Nat] /\ Len(r.keys) \in Nat
  BY <1>4, KeySumType, LenProperties
<1> HIDE DEF header
<1>7. BPoint(pk, header, Messages(claims), r.commitment, r.keys) \in Point
  BY <1>2, <1>4, <1>5, <1>6 DEF BPoint, Point
<1>8. jwp \in IssuedJwp
  BY <1>2, <1>5, <1>7 DEF IssuedJwp
<1>9. issued' = issued \cup {jwp}
  BY DEF JwpIssue, header
<1> QED
  BY <1>8, <1>9 DEF JwpIssue, TypeOK

LEMMA AcceptTypes ==
  ASSUME TypeOK, NEW jwp \in issued, NEW pk \in IssuerKey, NEW claims \in HolderClaims,
         NEW keys \in KeyLists, NEW blind \in DOMAIN commits,
         Accept(jwp, pk, Messages(claims), keys, blind)
  PROVE  TypeOK'
<1>1. claims \in Claims /\ keys \in Seq(Device)
  BY FlowAssumption DEF Claims
<1>2. Messages(claims) \in Seq(Value)
  BY <1>1, ClaimParts
<1>3. jwp \in IssuedJwp /\ blind \in CommitId
  BY DEF TypeOK
<1>4. [jwp |-> jwp, pk |-> pk, committed |-> Messages(claims), keys |-> keys,
       secret_prover_blind |-> blind] \in StoredCredential
  BY <1>1, <1>2, <1>3 DEF StoredCredential
<1> QED
  BY <1>4 DEF Accept, TypeOK

\* Both halves of a container's message vector, put together and counted.
LEMMA MessagesCounted ==
  ASSUME NEW jwp \in IssuedJwp, NEW committed \in Seq(Value), CountsAgree(jwp, committed)
  PROVE  /\ jwp.payloads \o committed \in Seq(Value)
         /\ Len(jwp.payloads \o committed) = num_messages(jwp.issuer_header)
<1>1. jwp.payloads \in Seq(Value)
  BY DEF IssuedJwp
<1> QED
  BY <1>1, ConcatSplits DEF CountsAgree

\* The indices that the requested pointers find are indices of the message
\* vector: one for each pointer, and at it that pointer's name.
LEMMA RequestedIndices ==
  ASSUME NEW header \in Header, NEW requested \in SUBSET Elements(pointers(header))
  PROVE  /\ disclosures_for(header, requested) \subseteq 1 .. num_messages(header)
         /\ {pointers(header)[i] : i \in disclosures_for(header, requested)} = requested
         /\ \A i, j \in disclosures_for(header, requested) :
              pointers(header)[i] = pointers(header)[j] => i = j
<1>1. ASSUME NEW name \in requested
      PROVE  /\ index_of(header, name) \in 1 .. num_messages(header)
             /\ pointers(header)[index_of(header, name)] = name
  <2>1. PICK i \in DOMAIN pointers(header) : name = pointers(header)[i]
    BY DEF Elements
  <2> QED
    BY <2>1, IndexInRange
<1> QED
  BY <1>1, Zenon DEF disclosures_for

\* Beginning a presentation by pointers is beginning one of the messages
\* that the pointers find.
LEMMA PresentInitBegins ==
  ASSUME NEW p, NEW jwp, NEW pk, NEW ph, NEW committed, NEW keys, NEW blind, NEW requested,
         PresentInit(p, jwp, pk, ph, requested, committed, keys, blind)
  PROVE  \E reveal :
           BlindProofGenInit(p, jwp, pk, ph, jwp.payloads \o committed, reveal, keys, blind)
BY Zenon DEF PresentInit

LEMMA ProofInitTypes ==
  ASSUME TypeOK, NEW p \in PresentId, NEW jwp \in issued, NEW pk \in IssuerKey,
         NEW ph \in PresHeader, NEW claims \in HolderClaims, NEW keys \in KeyLists,
         NEW blind \in DOMAIN commits, NEW reveal,
         BlindProofGenInit(p, jwp, pk, ph, jwp.payloads \o Messages(claims), reveal, keys, blind)
  PROVE  TypeOK'
<1> DEFINE messages == jwp.payloads \o Messages(claims)
<1> DEFINE s == [jwp |-> jwp, pk |-> pk, presentation_header |-> ph,
                 messages |-> messages, reveal |-> reveal,
                 keys |-> keys, secret_prover_blind |-> blind]
<1>1. /\ claims \in Claims
      /\ keys \in Seq(Device)
      /\ jwp \in IssuedJwp
      /\ blind \in CommitId
  BY FlowAssumption DEF Claims, TypeOK
<1>2. Messages(claims) \in Seq(Value)
  BY <1>1, ClaimParts
<1>3. messages \in Seq(Value)
  BY <1>1, <1>2, ConcatProperties DEF IssuedJwp
<1>4. presents' = Extend(presents, p, s) /\ reveal \subseteq 1 .. Len(messages)
  BY DEF BlindProofGenInit
<1> HIDE DEF messages
<1>5. reveal \in SUBSET Nat
  BY <1>3, <1>4, LenProperties
<1>6. s \in PresentSession
  BY <1>1, <1>3, <1>5 DEF PresentSession
<1> HIDE DEF s
<1>7. /\ DOMAIN Extend(presents, p, s) = DOMAIN presents \cup {p}
      /\ Extend(presents, p, s) \in [DOMAIN presents \cup {p} -> PresentSession]
  BY <1>6, ExtendType, ZenonT(60) DEF BlindProofGenInit, TypeOK
<1>8. /\ DOMAIN presents' = DOMAIN presents \cup {p}
      /\ presents' \in [DOMAIN presents' -> PresentSession]
  BY <1>4, <1>7
<1> QED
  BY <1>8 DEF BlindProofGenInit, TypeOK

LEMMA SlotsType ==
  ASSUME NEW messages \in Seq(Value), NEW reveal
  PROVE  /\ Slots(messages, reveal) \in Seq(Value \cup {Omitted})
         /\ Len(Slots(messages, reveal)) = Len(messages)
         /\ DOMAIN Slots(messages, reveal) = 1 .. Len(messages)
<1>1. Len(messages) \in Nat /\ \A i \in 1 .. Len(messages) : messages[i] \in Value
  BY ElementOfSeq, LenProperties
<1>2. Slots(messages, reveal) \in [1 .. Len(messages) -> Value \cup {Omitted}]
  BY <1>1 DEF Slots
<1> QED
  BY <1>1, <1>2

\* The slots that are not empty are those of the disclosed messages.
LEMMA SlotsShown ==
  ASSUME NEW messages \in Seq(Value), NEW reveal \in SUBSET (1 .. Len(messages)), NEW payloads,
         payloads = Slots(messages, reveal)
  PROVE  /\ {i \in DOMAIN payloads : payloads[i] # Omitted} = reveal
         /\ \A i \in reveal : payloads[i] = messages[i]
<1>1. DOMAIN payloads = 1 .. Len(messages)
  BY SlotsType
<1>2. ASSUME NEW i \in 1 .. Len(messages)
      PROVE  /\ payloads[i] # Omitted <=> i \in reveal
             /\ i \in reveal => payloads[i] = messages[i]
  <2>1. messages[i] # Omitted
    BY ElementOfSeq, FlowAssumption
  <2> QED
    BY <2>1 DEF Slots
<1> QED
  BY <1>1, <1>2, Zenon

LEMMA PresentFinalizeTypes ==
  ASSUME TypeOK, NEW p \in DOMAIN presents, NEW sigs \in Answers(Len(presents[p].keys)),
         PresentFinalize(p, sigs)
  PROVE  TypeOK'
<1> DEFINE s == presents[p]
<1> DEFINE q == [presentation_header |-> s.presentation_header,
                 issuer_header |-> s.jwp.issuer_header,
                 payloads |-> Slots(s.messages, s.reveal),
                 proof |-> [session |-> p, keybind_signatures |-> sigs]]
<1>1. s \in PresentSession /\ p \in PresentId
  BY DEF TypeOK
<1>2. /\ s.presentation_header \in PresHeader
      /\ s.jwp.issuer_header \in Header
      /\ s.messages \in Seq(Value)
      /\ s.keys \in Seq(Device)
  BY <1>1 DEF PresentSession, IssuedJwp
<1>3. sigs \in Seq(DeviceSignature)
  BY <1>2, AnswersType, LenProperties
<1>4. Slots(s.messages, s.reveal) \in Seq(Value \cup {Omitted})
  BY <1>2, SlotsType
<1>5. [session |-> p, keybind_signatures |-> sigs] \in Proof
  BY <1>1, <1>3 DEF Proof
<1>6. q \in PresentedJwp
  BY <1>2, <1>4, <1>5 DEF PresentedJwp
<1> QED
  BY <1>6 DEF PresentFinalize, TypeOK

LEMMA VerifyTypes ==
  ASSUME TypeOK, NEW q \in presented, NEW pk \in IssuerKey, Verify(q, pk)
  PROVE  TypeOK'
BY DEF Verify, TypeOK

LEMMA RestartTypes == TypeOK /\ WalletRestart => TypeOK'
BY DEF WalletRestart, TypeOK

LEMMA NextTypes == TypeOK /\ [Next]_vars => TypeOK'
<1> SUFFICES ASSUME TypeOK, [Next]_vars PROVE TypeOK'
  OBVIOUS
<1>1. CASE \E c \in CommitId, claims \in HolderClaims, keys \in KeyLists :
             CommitInit(c, claims, keys)
  BY <1>1, CommitInitTypes
<1>2. CASE \E d \in Device : \E challenge \in Challenges(d) : DeviceSign(d, challenge)
  BY <1>2, DeviceSignTypes
<1>3. CASE \E c \in DOMAIN commits : \E sigs \in Answers(Len(commits[c].keys)) :
             CommitFinalize(c, sigs)
  BY <1>3, CommitFinalizeTypes
<1>4. CASE \E r \in requests, pk \in IssuerKey, claims \in IssuerClaims, kb \in BOOLEAN :
             JwpIssue(r, pk, claims, kb)
  BY <1>4, JwpIssueTypes
<1>5. CASE \E jwp \in issued, pk \in IssuerKey, claims \in HolderClaims,
              keys \in KeyLists, blind \in DOMAIN commits :
             Accept(jwp, pk, Messages(claims), keys, blind)
  BY <1>5, AcceptTypes
<1>6. CASE \E p \in PresentId, jwp \in issued, pk \in IssuerKey, ph \in PresHeader,
              claims \in HolderClaims, keys \in KeyLists, blind \in DOMAIN commits :
             \E requested \in SUBSET Elements(pointers(jwp.issuer_header)) :
               PresentInit(p, jwp, pk, ph, requested, Messages(claims), keys, blind)
  BY <1>6, PresentInitBegins, ProofInitTypes
<1>7. CASE \E p \in PresentId, jwp \in issued, pk \in IssuerKey, ph \in PresHeader,
              claims \in HolderClaims, keys \in KeyLists, blind \in DOMAIN commits :
             \E reveal \in SUBSET (1 .. Len(jwp.payloads \o Messages(claims))) :
               BlindProofGenInit(p, jwp, pk, ph, jwp.payloads \o Messages(claims), reveal,
                                 keys, blind)
  BY <1>7, ProofInitTypes
<1>8. CASE \E p \in DOMAIN presents : \E sigs \in Answers(Len(presents[p].keys)) :
             PresentFinalize(p, sigs)
  BY <1>8, PresentFinalizeTypes
<1>9. CASE \E q \in presented, pk \in IssuerKey : Verify(q, pk)
  BY <1>9, VerifyTypes
<1>10. CASE WalletRestart
  BY <1>10, RestartTypes
<1>11. CASE UNCHANGED vars
  BY <1>11 DEF vars, TypeOK
<1> QED
  BY <1>1, <1>2, <1>3, <1>4, <1>5, <1>6, <1>7, <1>8, <1>9, <1>10, <1>11 DEF Next

(* Whatever the calls and their order, each party holds values of the       *)
(* shapes the source gives them; in particular every device answer is to a  *)
(* challenge some session made, and every payload slot is a claim or empty. *)
THEOREM TypeCorrect == Spec => []TypeOK
<1>1. Init => TypeOK
  BY InitTypes
<1>2. TypeOK /\ [Next]_vars => TypeOK'
  BY NextTypes
<1> QED
  BY <1>1, <1>2, PTL DEF Spec

-----------------------------------------------------------------------------
(* The inductive invariant.  Nothing is forgotten or rewritten, so each     *)
(* step only has to establish the part about what it adds.                 *)

Grows ==
  /\ \A c \in DOMAIN commits : c \in DOMAIN commits' /\ commits'[c] = commits[c]
  /\ \A p \in DOMAIN presents : p \in DOMAIN presents' /\ presents'[p] = presents[p]
  /\ signatures \subseteq signatures'
  /\ issued \subseteq issued'
  /\ presented \subseteq presented'

LEMMA ExtendGrows ==
  ASSUME NEW f, NEW x, NEW v, x \notin DOMAIN f
  PROVE  \A y \in DOMAIN f : y \in DOMAIN Extend(f, x, v) /\ Extend(f, x, v)[y] = f[y]
BY DEF Extend

LEMMA NextGrows == [Next]_vars => Grows
<1> SUFFICES ASSUME [Next]_vars PROVE Grows
  OBVIOUS
<1> USE DEF Grows
<1>1. ASSUME NEW c \in CommitId, NEW claims \in HolderClaims, NEW keys \in KeyLists,
             CommitInit(c, claims, keys)
      PROVE  Grows
  BY <1>1, ExtendGrows DEF CommitInit
<1>2. ASSUME NEW d \in Device, NEW challenge \in Challenges(d), DeviceSign(d, challenge)
      PROVE  Grows
  BY <1>2 DEF DeviceSign
<1>3. ASSUME NEW c \in DOMAIN commits, NEW sigs \in Answers(Len(commits[c].keys)),
             CommitFinalize(c, sigs)
      PROVE  Grows
  BY <1>3 DEF CommitFinalize
<1>4. ASSUME NEW r \in requests, NEW pk \in IssuerKey, NEW claims \in IssuerClaims,
             NEW kb \in BOOLEAN, JwpIssue(r, pk, claims, kb)
      PROVE  Grows
  BY <1>4 DEF JwpIssue
<1>5. ASSUME NEW jwp \in issued, NEW pk \in IssuerKey, NEW claims \in HolderClaims,
             NEW keys \in KeyLists, NEW blind \in DOMAIN commits,
             Accept(jwp, pk, Messages(claims), keys, blind)
      PROVE  Grows
  BY <1>5 DEF Accept
<1>6. ASSUME NEW p \in PresentId, NEW jwp \in issued, NEW pk \in IssuerKey,
             NEW ph \in PresHeader, NEW claims \in HolderClaims, NEW keys \in KeyLists,
             NEW blind \in DOMAIN commits,
             NEW requested \in SUBSET Elements(pointers(jwp.issuer_header)),
             PresentInit(p, jwp, pk, ph, requested, Messages(claims), keys, blind)
      PROVE  Grows
  BY <1>6, ExtendGrows DEF PresentInit, BlindProofGenInit
<1>11. ASSUME NEW p \in PresentId, NEW jwp \in issued, NEW pk \in IssuerKey,
             NEW ph \in PresHeader, NEW claims \in HolderClaims, NEW keys \in KeyLists,
             NEW blind \in DOMAIN commits,
             NEW reveal \in SUBSET (1 .. Len(jwp.payloads \o Messages(claims))),
             BlindProofGenInit(p, jwp, pk, ph, jwp.payloads \o Messages(claims), reveal,
                               keys, blind)
      PROVE  Grows
  BY <1>11, ExtendGrows DEF BlindProofGenInit
<1>7. ASSUME NEW p \in DOMAIN presents, NEW sigs \in Answers(Len(presents[p].keys)),
             PresentFinalize(p, sigs)
      PROVE  Grows
  BY <1>7 DEF PresentFinalize
<1>8. ASSUME NEW q \in presented, NEW pk \in IssuerKey, Verify(q, pk)
      PROVE  Grows
  BY <1>8 DEF Verify
<1>9. CASE WalletRestart
  BY <1>9 DEF WalletRestart
<1>10. CASE UNCHANGED vars
  BY <1>10 DEF vars
<1> HIDE DEF Grows
<1> QED
  BY <1>1, <1>2, <1>3, <1>4, <1>5, <1>6, <1>7, <1>8, <1>9, <1>10, <1>11 DEF Next

\* A challenge, once out, stays out.
LEMMA ChallengesGrow ==
  ASSUME Grows, NEW d
  PROVE  Challenges(d) \subseteq Challenges(d)'
<1>1. ASSUME NEW c \in DOMAIN commits,
             \E i \in DOMAIN commits[c].keys : commits[c].keys[i] = d
      PROVE  CommitChallenge(c) \in Challenges(d)'
  <2>1. c \in DOMAIN commits' /\ commits'[c] = commits[c]
    BY DEF Grows
  <2> QED
    BY <1>1, <2>1 DEF Challenges
<1>2. ASSUME NEW p \in DOMAIN presents,
             NEW i \in {x \in DOMAIN presents[p].keys : presents[p].keys[x] = d}
      PROVE  KeybindChallenge(p, i) \in Challenges(d)'
  <2>1. p \in DOMAIN presents' /\ presents'[p] = presents[p]
    BY DEF Grows
  <2> QED
    BY <1>2, <2>1 DEF Challenges
<1>3. ASSUME NEW challenge \in Challenges(d)
      PROVE  challenge \in Challenges(d)'
  BY <1>1, <1>2 DEF Challenges
<1> QED
  BY <1>3

LEMMA DeviceSignAnswers ==
  ASSUME IInv, Grows, NEW d \in Device, NEW challenge \in Challenges(d),
         DeviceSign(d, challenge)
  PROVE  AnswersWereAsked'
<1> SUFFICES ASSUME NEW x \in signatures'
             PROVE  x.challenge \in Challenges(x.device)'
  BY DEF AnswersWereAsked
<1>1. x \in signatures \/ x = [device |-> d, challenge |-> challenge]
  BY DEF DeviceSign
<1>2. x.challenge \in Challenges(x.device)
  BY <1>1 DEF IInv, AnswersWereAsked
<1> QED
  BY <1>2, ChallengesGrow

\* What was true of a stored thing when it was made stays true.
LEMMA PartsKept ==
  ASSUME IInv, Grows
  PROVE  /\ signatures' = signatures => AnswersWereAsked'
         /\ requests' = requests => RequestsMatchSession'
         /\ issued' = issued => IssuedMatchesSession'
         /\ stored' = stored => StoredVerifies'
         /\ presents' = presents => SessionsInRange'
         /\ presented' = presented => PresentedMatchesSession'
         /\ results' = results => ResultsVerify'
<1>1. ASSUME requests' = requests PROVE RequestsMatchSession'
  BY <1>1 DEF IInv, RequestsMatchSession, Grows
<1>2. ASSUME issued' = issued PROVE IssuedMatchesSession'
  <2>1. ASSUME NEW jwp, NEW c, NEW s, IssuedFrom(jwp, c, s)
        PROVE  IssuedFrom(jwp, c, s)'
    BY <2>1 DEF IssuedFrom, Signed, Grows
  <2> QED
    BY <1>2, <2>1 DEF IInv, IssuedMatchesSession, Grows
<1>3. ASSUME stored' = stored PROVE StoredVerifies'
  BY <1>3 DEF IInv, StoredVerifies, Grows
<1>4. ASSUME presents' = presents PROVE SessionsInRange'
  BY <1>4 DEF IInv, SessionsInRange, Grows
<1>5. ASSUME presented' = presented PROVE PresentedMatchesSession'
  BY <1>5 DEF IInv, PresentedMatchesSession, ChallengeMatches, Grows
<1>6. ASSUME results' = results PROVE ResultsVerify'
  <2>1. ASSUME NEW r \in results
        PROVE  r.presented \in presented' /\ ProofVerifies(r.presented, r.pk)'
    <3>1. /\ r.presented \in presented
          /\ ProofVerifies(r.presented, r.pk)
          /\ r.presented.proof.session \in DOMAIN presents
      BY DEF IInv, ResultsVerify, PresentedMatchesSession
    <3> QED
      BY <3>1 DEF ProofVerifies, ChallengeMatches, Grows
  <2> QED
    BY <1>6, <2>1 DEF ResultsVerify
<1>7. ASSUME signatures' = signatures PROVE AnswersWereAsked'
  <2>1. ASSUME NEW x \in signatures PROVE x.challenge \in Challenges(x.device)'
    <3>1. x.challenge \in Challenges(x.device)
      BY DEF IInv, AnswersWereAsked
    <3> QED
      BY <3>1, ChallengesGrow
  <2> QED
    BY <1>7, <2>1 DEF AnswersWereAsked
<1> QED
  BY <1>1, <1>2, <1>3, <1>4, <1>5, <1>6, <1>7

LEMMA InitIInv == Init => IInv
<1> SUFFICES ASSUME Init PROVE IInv
  OBVIOUS
<1>1. TypeOK
  BY InitTypes
<1>2. AnswersWereAsked /\ RequestsMatchSession /\ IssuedMatchesSession /\ StoredVerifies
  BY DEF Init, AnswersWereAsked, RequestsMatchSession, IssuedMatchesSession, StoredVerifies
<1>3. SessionsInRange /\ PresentedMatchesSession /\ ResultsVerify
  BY DEF Init, SessionsInRange, PresentedMatchesSession, ResultsVerify
<1> QED
  BY <1>1, <1>2, <1>3 DEF IInv

\* A request says what its session's commit_init was given.
LEMMA CommitFinalizeMatches ==
  ASSUME IInv, NEW c \in DOMAIN commits, NEW sigs \in Answers(Len(commits[c].keys)),
         CommitFinalize(c, sigs)
  PROVE  RequestsMatchSession'
<1>1. \A i \in DOMAIN sigs : sigs[i] \in signatures
  <2>1. TypeOK /\ commits[c].keys \in Seq(Device)
    BY DEF IInv, TypeOK, CommitSession
  <2> QED
    BY <2>1, AnswersType, LenProperties
<1> QED
  BY <1>1 DEF CommitFinalize, IInv, RequestsMatchSession

\* blind_sign verified a signature per key, so every key has signed.
LEMMA JwpIssueMatches ==
  ASSUME IInv, NEW r \in requests, NEW pk \in IssuerKey, NEW claims \in IssuerClaims,
         NEW kb \in BOOLEAN, JwpIssue(r, pk, claims, kb)
  PROVE  IssuedMatchesSession'
<1> DEFINE c == r.session
<1> DEFINE s == commits[c]
<1> DEFINE header == [issuer_claims |-> Pointers(claims),
                      holder_claims |-> r.holder_pointers, kb |-> kb]
<1> DEFINE jwp == [issuer_header |-> header, payloads |-> Messages(claims),
                   signature |-> BPoint(pk, header, Messages(claims), r.commitment, r.keys)]
<1>1. /\ c \in DOMAIN commits
      /\ r.keys = s.keys
      /\ r.commitment = Commitment(Messages(s.claims), c)
      /\ r.holder_pointers = Pointers(s.claims)
      /\ \A i \in DOMAIN r.keybind_signatures : r.keybind_signatures[i] \in signatures
  BY DEF IInv, RequestsMatchSession
<1>2. /\ kb <=> Len(s.keys) > 0
      /\ Len(r.keybind_signatures) = Len(r.keys)
      /\ \A i \in DOMAIN r.keys :
           SigVerifies(r.keybind_signatures[i], r.keys[i], i, CommitChallenge(c))
  BY <1>1 DEF JwpIssue, RequestAgrees, CommitVerifies
<1>3. DOMAIN r.keybind_signatures = DOMAIN r.keys
  <2>1. r.keybind_signatures \in Seq(DeviceSignature) /\ r.keys \in Seq(Device)
    BY DEF IInv, TypeOK, Request
  <2> QED
    BY <1>2, <2>1, LenProperties
<1>4. \A i \in DOMAIN s.keys : /\ Slot[s.keys[i]] = i
                               /\ Signed(s.keys[i], CommitChallenge(c))
  BY <1>1, <1>2, <1>3 DEF SigVerifies, Signed
<1>5. issued' = issued \cup {jwp} /\ commits' = commits /\ signatures' = signatures
  BY DEF JwpIssue
<1>6. /\ jwp.signature.commitment = Commitment(Messages(s.claims), c)
      /\ jwp.signature.commitment.secret_prover_blind = c
      /\ jwp.signature.pk = pk
  BY <1>1 DEF BPoint, Commitment
<1>7. IssuedFrom(jwp, c, s)'
  BY <1>1, <1>2, <1>4, <1>5, <1>6 DEF IssuedFrom, Signed
<1>8. ASSUME NEW old \in issued
      PROVE  LET o == old.signature.commitment.secret_prover_blind
             IN  o \in DOMAIN commits /\ IssuedFrom(old, o, commits[o])'
  <2>1. ASSUME NEW o, NEW x, IssuedFrom(old, o, x) PROVE IssuedFrom(old, o, x)'
    BY <1>5, <2>1 DEF IssuedFrom, Signed
  <2> QED
    BY <1>5, <2>1 DEF IInv, IssuedMatchesSession
<1> HIDE DEF jwp
<1>9. ASSUME NEW x \in issued'
      PROVE  LET o == x.signature.commitment.secret_prover_blind
             IN  o \in DOMAIN commits' /\ IssuedFrom(x, o, commits[o])'
  <2>1. CASE x = jwp
    BY <1>1, <1>5, <1>6, <1>7, <2>1
  <2>2. CASE x \in issued
    BY <1>5, <1>8, <2>2
  <2> QED
    BY <1>5, <2>1, <2>2
<1> QED
  BY <1>9 DEF IssuedMatchesSession

LEMMA AcceptVerifies ==
  ASSUME IInv, NEW jwp \in issued, NEW pk \in IssuerKey, NEW claims \in HolderClaims,
         NEW keys \in KeyLists, NEW blind \in DOMAIN commits,
         Accept(jwp, pk, Messages(claims), keys, blind)
  PROVE  StoredVerifies'
BY DEF Accept, IInv, StoredVerifies

LEMMA ProofInitInRange ==
  ASSUME IInv, NEW p \in PresentId, NEW jwp \in issued, NEW pk, NEW ph, NEW messages,
         NEW reveal, NEW keys, NEW blind,
         BlindProofGenInit(p, jwp, pk, ph, messages, reveal, keys, blind)
  PROVE  SessionsInRange'
<1> DEFINE s == [jwp |-> jwp, pk |-> pk, presentation_header |-> ph,
                 messages |-> messages, reveal |-> reveal,
                 keys |-> keys, secret_prover_blind |-> blind]
<1>1. presents' = Extend(presents, p, s) /\ issued' = issued /\ p \notin DOMAIN presents
  BY DEF BlindProofGenInit
<1>2. s.jwp \in issued /\ s.reveal \subseteq 1 .. Len(s.messages)
  BY DEF BlindProofGenInit
<1> HIDE DEF s
<1>3. ASSUME NEW x \in DOMAIN presents'
      PROVE  \/ presents'[x] = s
             \/ x \in DOMAIN presents /\ presents'[x] = presents[x]
  <2>1. CASE x = p
    BY <1>1, <2>1 DEF Extend
  <2>2. CASE x # p
    BY <1>1, <2>2 DEF Extend
  <2> QED
    BY <2>1, <2>2
<1> QED
  BY <1>1, <1>2, <1>3 DEF SessionsInRange, IInv

LEMMA PresentFinalizeMatches ==
  ASSUME IInv, NEW p \in DOMAIN presents, NEW sigs \in Answers(Len(presents[p].keys)),
         PresentFinalize(p, sigs)
  PROVE  PresentedMatchesSession'
<1> DEFINE s == presents[p]
<1> DEFINE q == [presentation_header |-> s.presentation_header,
                 issuer_header |-> s.jwp.issuer_header,
                 payloads |-> Slots(s.messages, s.reveal),
                 proof |-> [session |-> p, keybind_signatures |-> sigs]]
<1>1. \A i \in DOMAIN sigs : sigs[i] \in signatures
  <2>1. TypeOK /\ s.keys \in Seq(Device)
    BY DEF IInv, TypeOK, PresentSession
  <2> QED
    BY <2>1, AnswersType, LenProperties
<1>2. ASSUME NEW x, x = q
      PROVE  ChallengeMatches(x, presents[x.proof.session].pk)'
  BY <1>2 DEF ChallengeMatches, PresentFinalize
<1>3. ASSUME NEW old \in presented
      PROVE  /\ ChallengeMatches(old, presents[old.proof.session].pk)'
             /\ old.proof.session \in DOMAIN presents
             /\ \A i \in DOMAIN old.proof.keybind_signatures :
                  old.proof.keybind_signatures[i] \in signatures
  BY DEF IInv, PresentedMatchesSession, ChallengeMatches, PresentFinalize
<1>4. /\ presented' = presented \cup {q}
      /\ presents' = presents
      /\ signatures' = signatures
  BY DEF PresentFinalize
<1>5. q.proof.session = p /\ q.proof.keybind_signatures = sigs
  OBVIOUS
<1> HIDE DEF q
<1>6. ASSUME NEW x \in presented'
      PROVE  /\ x.proof.session \in DOMAIN presents'
             /\ ChallengeMatches(x, presents[x.proof.session].pk)'
             /\ \A i \in DOMAIN x.proof.keybind_signatures :
                  x.proof.keybind_signatures[i] \in signatures'
  <2>1. CASE x = q
    BY <1>1, <1>2, <1>4, <1>5, <2>1
  <2>2. CASE x \in presented
    BY <1>3, <1>4, <2>2
  <2> QED
    BY <1>4, <2>1, <2>2
<1> QED
  BY <1>6 DEF PresentedMatchesSession

LEMMA VerifyVerifies ==
  ASSUME IInv, NEW q \in presented, NEW pk \in IssuerKey, Verify(q, pk)
  PROVE  ResultsVerify'
<1>1. ASSUME NEW x, NEW k, ProofVerifies(x, k) PROVE ProofVerifies(x, k)'
  BY <1>1 DEF ProofVerifies, ChallengeMatches, Verify
<1>2. results' = results \cup {[presented |-> q, pk |-> pk]} /\ presented' = presented
  BY DEF Verify
<1>3. ProofVerifies(q, pk)
  BY DEF Verify
<1> QED
  BY <1>1, <1>2, <1>3 DEF ResultsVerify, IInv

LEMMA NextIInv == IInv /\ [Next]_vars => IInv'
<1> SUFFICES ASSUME IInv, [Next]_vars PROVE IInv'
  OBVIOUS
<1>1. TypeOK'
  BY NextTypes DEF IInv
<1>2. /\ signatures' = signatures => AnswersWereAsked'
      /\ requests' = requests => RequestsMatchSession'
      /\ issued' = issued => IssuedMatchesSession'
      /\ stored' = stored => StoredVerifies'
      /\ presents' = presents => SessionsInRange'
      /\ presented' = presented => PresentedMatchesSession'
      /\ results' = results => ResultsVerify'
  BY NextGrows, PartsKept
<1> DEFINE Matching == /\ AnswersWereAsked
                       /\ RequestsMatchSession
                       /\ IssuedMatchesSession
                       /\ StoredVerifies
                       /\ SessionsInRange
                       /\ PresentedMatchesSession
                       /\ ResultsVerify
<1>3. ASSUME NEW c \in CommitId, NEW claims \in HolderClaims, NEW keys \in KeyLists,
             CommitInit(c, claims, keys)
      PROVE  Matching'
  <2>1. UNCHANGED <<signatures, presents, requests, issued, stored, presented, results>>
    BY <1>3 DEF CommitInit
  <2> QED
    BY <1>2, <2>1
<1>4. ASSUME NEW d \in Device, NEW challenge \in Challenges(d), DeviceSign(d, challenge)
      PROVE  Matching'
  <2>1. UNCHANGED <<presents, requests, issued, stored, presented, results>>
    BY <1>4 DEF DeviceSign
  <2> QED
    BY <1>2, <1>4, <2>1, NextGrows, DeviceSignAnswers
<1>5. ASSUME NEW c \in DOMAIN commits, NEW sigs \in Answers(Len(commits[c].keys)),
             CommitFinalize(c, sigs)
      PROVE  Matching'
  <2>1. UNCHANGED <<signatures, presents, issued, stored, presented, results>>
    BY <1>5 DEF CommitFinalize
  <2> QED
    BY <1>2, <1>5, <2>1, CommitFinalizeMatches
<1>6. ASSUME NEW r \in requests, NEW pk \in IssuerKey, NEW claims \in IssuerClaims,
             NEW kb \in BOOLEAN, JwpIssue(r, pk, claims, kb)
      PROVE  Matching'
  <2>1. UNCHANGED <<signatures, presents, requests, stored, presented, results>>
    BY <1>6 DEF JwpIssue
  <2> QED
    BY <1>2, <1>6, <2>1, JwpIssueMatches
<1>7. ASSUME NEW jwp \in issued, NEW pk \in IssuerKey, NEW claims \in HolderClaims,
             NEW keys \in KeyLists, NEW blind \in DOMAIN commits,
             Accept(jwp, pk, Messages(claims), keys, blind)
      PROVE  Matching'
  <2>1. UNCHANGED <<signatures, presents, requests, issued, presented, results>>
    BY <1>7 DEF Accept
  <2> QED
    BY <1>2, <1>7, <2>1, AcceptVerifies
<1>8. ASSUME NEW p \in PresentId, NEW jwp \in issued, NEW pk \in IssuerKey,
             NEW ph \in PresHeader, NEW claims \in HolderClaims, NEW keys \in KeyLists,
             NEW blind \in DOMAIN commits,
             NEW requested \in SUBSET Elements(pointers(jwp.issuer_header)),
             PresentInit(p, jwp, pk, ph, requested, Messages(claims), keys, blind)
      PROVE  Matching'
  <2>1. PICK reveal :
          BlindProofGenInit(p, jwp, pk, ph, jwp.payloads \o Messages(claims), reveal, keys, blind)
    BY <1>8, PresentInitBegins
  <2>2. UNCHANGED <<signatures, requests, issued, stored, presented, results>>
    BY <2>1 DEF BlindProofGenInit
  <2> QED
    BY <1>2, <2>1, <2>2, ProofInitInRange
<1>13. ASSUME NEW p \in PresentId, NEW jwp \in issued, NEW pk \in IssuerKey,
              NEW ph \in PresHeader, NEW claims \in HolderClaims, NEW keys \in KeyLists,
              NEW blind \in DOMAIN commits,
              NEW reveal \in SUBSET (1 .. Len(jwp.payloads \o Messages(claims))),
              BlindProofGenInit(p, jwp, pk, ph, jwp.payloads \o Messages(claims), reveal,
                                 keys, blind)
       PROVE  Matching'
  <2>1. UNCHANGED <<signatures, requests, issued, stored, presented, results>>
    BY <1>13 DEF BlindProofGenInit
  <2> QED
    BY <1>2, <1>13, <2>1, ProofInitInRange
<1>9. ASSUME NEW p \in DOMAIN presents, NEW sigs \in Answers(Len(presents[p].keys)),
             PresentFinalize(p, sigs)
      PROVE  Matching'
  <2>1. UNCHANGED <<signatures, presents, requests, issued, stored, results>>
    BY <1>9 DEF PresentFinalize
  <2> QED
    BY <1>2, <1>9, <2>1, PresentFinalizeMatches
<1>10. ASSUME NEW q \in presented, NEW pk \in IssuerKey, Verify(q, pk)
       PROVE  Matching'
  <2>1. UNCHANGED <<signatures, presents, requests, issued, stored, presented>>
    BY <1>10 DEF Verify
  <2> QED
    BY <1>2, <1>10, <2>1, VerifyVerifies
<1>11. ASSUME WalletRestart \/ UNCHANGED vars
       PROVE  Matching'
  <2>1. UNCHANGED <<signatures, presents, requests, issued, stored, presented, results>>
    BY <1>11 DEF WalletRestart, vars
  <2> QED
    BY <1>2, <2>1
<1> HIDE DEF Matching
<1>12. Matching'
  BY <1>3, <1>4, <1>5, <1>6, <1>7, <1>8, <1>9, <1>10, <1>11, <1>13 DEF Next
<1> QED
  BY <1>1, <1>12 DEF IInv, Matching

(* Each request, credential, stored credential, presentation and result     *)
(* keeps agreeing with the session it was made in.                         *)
THEOREM Invariant == Spec => []IInv
<1>1. Init => IInv
  BY InitIInv
<1>2. IInv /\ [Next]_vars => IInv'
  BY NextIInv
<1> QED
  BY <1>1, <1>2, PTL DEF Spec

-----------------------------------------------------------------------------
(* What the invariant gives the callers.                                   *)

\* A signature that verifies was made for these messages, keys and blind.
LEMMA VerifiedIsOwn ==
  ASSUME IInv, NEW jwp \in issued, NEW pk, NEW messages, NEW keys, NEW blind,
         SignatureVerifies(jwp, pk, messages, keys, blind)
  PROVE  LET n == num_signer_messages(jwp.issuer_header)
         IN  /\ jwp.signature.pk = pk
             /\ jwp.signature.commitment.secret_prover_blind = blind
             /\ blind \in DOMAIN commits
             /\ IssuedFrom(jwp, blind, commits[blind])
             /\ [i \in 1 .. n |-> messages[i]] = jwp.payloads
             /\ [i \in 1 .. (Len(messages) - n) |-> messages[n + i]]
                  = Messages(commits[blind].claims)
             /\ Len(keys) = Len(commits[blind].keys)
             /\ KeySum(keys) = KeySum(commits[blind].keys)
<1> DEFINE n == num_signer_messages(jwp.issuer_header)
<1> DEFINE c == jwp.signature.commitment.secret_prover_blind
<1> DEFINE front == [i \in 1 .. n |-> messages[i]]
<1> DEFINE rest == [i \in 1 .. (Len(messages) - n) |-> messages[n + i]]
<1>1. /\ c \in DOMAIN commits
      /\ IssuedFrom(jwp, c, commits[c])
  BY DEF IInv, IssuedMatchesSession
<1>2. jwp.signature = BPoint(jwp.signature.pk, jwp.issuer_header, jwp.payloads,
                             Commitment(Messages(commits[c].claims), c), commits[c].keys)
  BY <1>1 DEF IssuedFrom
<1>3. jwp.signature = BPoint(pk, jwp.issuer_header, front, Commitment(rest, blind), keys)
  BY DEF SignatureVerifies, SplitB
<1> HIDE DEF n, c, front, rest
<1>4. /\ jwp.signature.pk = pk
      /\ front = jwp.payloads
      /\ Commitment(rest, blind) = Commitment(Messages(commits[c].claims), c)
      /\ Len(keys) = Len(commits[c].keys)
      /\ KeySum(keys) = KeySum(commits[c].keys)
  BY <1>2, <1>3 DEF BPoint
<1>5. blind = c /\ rest = Messages(commits[c].claims)
  BY <1>4 DEF Commitment
<1> QED
  BY <1>1, <1>4, <1>5 DEF n, c, front, rest

(* TypeOK and the parts of IInv that a presentation rests on once it has    *)
(* verified.                                                               *)
LEMMA VerifiedFacts ==
  ASSUME IInv, NEW q \in presented, NEW pk, ProofVerifies(q, pk)
  PROVE  LET s == presents[q.proof.session]
         IN  /\ q \in PresentedJwp
             /\ q.proof.session \in DOMAIN presents
             /\ s \in PresentSession
             /\ s.jwp \in issued
             /\ s.jwp \in IssuedJwp
             /\ s.pk = pk
             /\ q.issuer_header = s.jwp.issuer_header
             /\ q.presentation_header = s.presentation_header
             /\ q.payloads = Slots(s.messages, s.reveal)
             /\ Len(s.messages) = num_messages(s.jwp.issuer_header)
             /\ s.reveal \subseteq 1 .. Len(s.messages)
             /\ SignatureVerifies(s.jwp, s.pk, s.messages, s.keys, s.secret_prover_blind)
             /\ Len(q.proof.keybind_signatures) = Len(s.keys)
             /\ \A i \in DOMAIN q.proof.keybind_signatures :
                  q.proof.keybind_signatures[i] \in signatures
             /\ \A i \in DOMAIN s.keys :
                  SigVerifies(q.proof.keybind_signatures[i], s.keys[i], i,
                              KeybindChallenge(q.proof.session, i))
<1>1. /\ q.proof.session \in DOMAIN presents
      /\ \A i \in DOMAIN q.proof.keybind_signatures :
           q.proof.keybind_signatures[i] \in signatures
  BY DEF IInv, PresentedMatchesSession
<1>2. presents[q.proof.session] \in PresentSession
  BY <1>1 DEF IInv, TypeOK
<1>3. presents[q.proof.session].jwp \in issued
  BY <1>1 DEF IInv, SessionsInRange
<1>4. /\ Len(q.payloads) = num_messages(q.issuer_header)
      /\ q.payloads = Slots(presents[q.proof.session].messages, presents[q.proof.session].reveal)
      /\ q.issuer_header = presents[q.proof.session].jwp.issuer_header
  BY DEF ProofVerifies, ChallengeMatches
<1>5. Len(presents[q.proof.session].messages)
        = num_messages(presents[q.proof.session].jwp.issuer_header)
  <2>1. PICK messages \in Seq(Value) : messages = presents[q.proof.session].messages
    BY <1>2 DEF PresentSession
  <2>2. Len(Slots(messages, presents[q.proof.session].reveal)) = Len(messages)
    BY SlotsType
  <2> QED
    BY <1>4, <2>1, <2>2, Zenon
<1> QED
  BY <1>1, <1>2, <1>3, <1>5
     DEF IInv, TypeOK, SessionsInRange, ProofVerifies, ChallengeMatches

LEMMA ResultFacts ==
  ASSUME IInv, NEW r \in results
  PROVE  LET q == r.presented
             s == presents[q.proof.session]
         IN  /\ q \in PresentedJwp
             /\ q.proof.session \in DOMAIN presents
             /\ s \in PresentSession
             /\ s.jwp \in issued
             /\ s.pk = r.pk
             /\ q.issuer_header = s.jwp.issuer_header
             /\ q.payloads = Slots(s.messages, s.reveal)
             /\ Len(s.messages) = num_messages(s.jwp.issuer_header)
             /\ s.reveal \subseteq 1 .. Len(s.messages)
             /\ SignatureVerifies(s.jwp, s.pk, s.messages, s.keys, s.secret_prover_blind)
             /\ Len(q.proof.keybind_signatures) = Len(s.keys)
             /\ \A i \in DOMAIN q.proof.keybind_signatures :
                  q.proof.keybind_signatures[i] \in signatures
             /\ \A i \in DOMAIN s.keys :
                  SigVerifies(q.proof.keybind_signatures[i], s.keys[i], i,
                              KeybindChallenge(q.proof.session, i))
<1>1. /\ r.presented \in presented
      /\ ProofVerifies(r.presented, r.pk)
  BY DEF IInv, ResultsVerify
<1> QED
  BY <1>1, VerifiedFacts

LEMMA WithConsent == IInv => LearnedWithConsent
<1> SUFFICES ASSUME IInv, NEW r \in results
             PROVE  LET p == r.presented.proof.session
                    IN  \E jwp \in issued :
                          /\ jwp = presents[p].jwp
                          /\ LET bound == commits[jwp.signature.commitment.secret_prover_blind].keys
                             IN  \A i \in DOMAIN bound : Signed(bound[i], KeybindChallenge(p, i))
  BY DEF LearnedWithConsent
<1> DEFINE p == r.presented.proof.session
<1> DEFINE s == presents[p]
<1> DEFINE sigs == r.presented.proof.keybind_signatures
<1> DEFINE blind == s.secret_prover_blind
<1> DEFINE bound == commits[blind].keys
<1>1. /\ s \in PresentSession
      /\ s.jwp \in issued
      /\ SignatureVerifies(s.jwp, s.pk, s.messages, s.keys, blind)
      /\ Len(sigs) = Len(s.keys)
      /\ r.presented \in PresentedJwp
      /\ \A i \in DOMAIN sigs : sigs[i] \in signatures
      /\ \A i \in DOMAIN s.keys : SigVerifies(sigs[i], s.keys[i], i, KeybindChallenge(p, i))
  BY ResultFacts
<1>2. /\ s.jwp.signature.commitment.secret_prover_blind = blind
      /\ blind \in DOMAIN commits
      /\ IssuedFrom(s.jwp, blind, commits[blind])
      /\ KeySum(s.keys) = KeySum(bound)
  <2> HIDE DEF s
  <2> QED
    BY <1>1, VerifiedIsOwn
<1>3. s.keys \in Seq(Device) /\ bound \in Seq(Device)
  BY <1>1, <1>2 DEF PresentSession, IInv, TypeOK, CommitSession
<1>4. DOMAIN sigs = DOMAIN s.keys
  <2>1. sigs \in Seq(DeviceSignature)
    BY <1>1 DEF PresentedJwp, Proof
  <2> QED
    BY <1>1, <1>3, <2>1, LenProperties
<1>5. Elements(s.keys) = Elements(bound)
  BY <1>2, <1>3, KeySumElements
<1>6. ASSUME NEW i \in DOMAIN bound
      PROVE  Signed(bound[i], KeybindChallenge(p, i))
  <2>1. PICK j \in DOMAIN s.keys : s.keys[j] = bound[i]
    BY <1>5 DEF Elements
  <2>2. SigVerifies(sigs[j], s.keys[j], j, KeybindChallenge(p, j))
    BY <1>1
  <2>3. sigs[j] \in signatures
    BY <1>1, <1>4
  <2>4. Slot[bound[i]] = i
    BY <1>2 DEF IssuedFrom
  <2>5. j = i
    BY <2>1, <2>2, <2>4 DEF SigVerifies
  <2> QED
    BY <2>1, <2>2, <2>3, <2>5 DEF SigVerifies, Signed
<1> QED
  BY <1>1, <1>2, <1>6

(* For every number of devices, keys, credentials and sessions: what        *)
(* verify() let through had every bound key answer this presentation's own  *)
(* challenge.  Keys are verified only as a sum; that no other arrangement   *)
(* of them passes rests on the generator each key was committed under.     *)
THEOREM ConsentIsNecessary == Spec => []LearnedWithConsent
BY Invariant, WithConsent, PTL

LEMMA WithPossession == IInv => IssuedWithPossession
<1> SUFFICES ASSUME IInv, NEW jwp \in issued
             PROVE  LET c == jwp.signature.commitment.secret_prover_blind
                    IN  /\ c \in DOMAIN commits
                        /\ jwp.issuer_header.holder_claims = Pointers(commits[c].claims)
                        /\ jwp.signature.commitment.messages = Messages(commits[c].claims)
                        /\ \A i \in DOMAIN commits[c].keys :
                             Signed(commits[c].keys[i], CommitChallenge(c))
  BY DEF IssuedWithPossession
<1> DEFINE c == jwp.signature.commitment.secret_prover_blind
<1>1. c \in DOMAIN commits /\ IssuedFrom(jwp, c, commits[c])
  BY DEF IInv, IssuedMatchesSession
<1>2. jwp.signature.commitment = Commitment(Messages(commits[c].claims), c)
  BY <1>1 DEF IssuedFrom, BPoint
<1> QED
  BY <1>1, <1>2 DEF IssuedFrom, Commitment

(* No credential exists without every one of its keys having signed its own *)
(* commitment's challenge, whatever requests the issuer was sent.           *)
THEOREM PossessionIsProved == Spec => []IssuedWithPossession
BY Invariant, WithPossession, PTL

\* The header says key bound exactly when the proof covers keys.
LEMMA KbAgrees == IInv => KbMeansBound
<1> SUFFICES ASSUME IInv, NEW r \in results
             PROVE  r.presented.issuer_header.kb
                      <=> presents[r.presented.proof.session].keys # <<>>
  BY DEF KbMeansBound
<1> DEFINE s == presents[r.presented.proof.session]
<1>1. /\ s \in PresentSession
      /\ s.jwp \in issued
      /\ SignatureVerifies(s.jwp, s.pk, s.messages, s.keys, s.secret_prover_blind)
      /\ r.presented.issuer_header = s.jwp.issuer_header
  BY ResultFacts
<1>2. s.keys \in Seq(Device)
  BY <1>1 DEF PresentSession
<1>3. /\ s.jwp \in issued
      /\ SignatureVerifies(s.jwp, s.pk, s.messages, s.keys, s.secret_prover_blind)
  BY <1>1
<1> HIDE DEF s
<1>4. /\ IssuedFrom(s.jwp, s.secret_prover_blind, commits[s.secret_prover_blind])
      /\ Len(s.keys) = Len(commits[s.secret_prover_blind].keys)
  BY <1>3, VerifiedIsOwn
<1>5. s.jwp.issuer_header.kb <=> Len(s.keys) > 0
  BY <1>4 DEF IssuedFrom
<1>6. Len(s.keys) > 0 <=> s.keys # <<>>
  BY <1>2, EmptySeq
<1> QED
  BY <1>1, <1>5, <1>6 DEF s

(* A relying party may read kb off the header of a verified presentation.   *)
THEOREM KbIsTruthful == Spec => []KbMeansBound
BY Invariant, KbAgrees, PTL

LEMMA StoredOwn == IInv => StoredIsOwn
<1> SUFFICES ASSUME IInv, NEW s \in stored
             PROVE  LET own == commits[s.secret_prover_blind]
                    IN  /\ s.secret_prover_blind
                             = s.jwp.signature.commitment.secret_prover_blind
                        /\ s.committed = Messages(own.claims)
                        /\ KeySum(s.keys) = KeySum(own.keys)
                        /\ s.jwp.issuer_header.holder_claims = Pointers(own.claims)
  BY DEF StoredIsOwn
<1> DEFINE n == num_signer_messages(s.jwp.issuer_header)
<1> DEFINE messages == s.jwp.payloads \o s.committed
<1>1. /\ s.jwp \in issued
      /\ CountsAgree(s.jwp, s.committed)
      /\ SignatureVerifies(s.jwp, s.pk, messages, s.keys, s.secret_prover_blind)
  BY DEF IInv, StoredVerifies
<1>2. s.committed \in Seq(Value) /\ s.jwp.payloads \in Seq(Value)
  BY DEF IInv, TypeOK, StoredCredential, IssuedJwp
<1> HIDE DEF messages
<1>3. /\ s.jwp.signature.commitment.secret_prover_blind = s.secret_prover_blind
      /\ IssuedFrom(s.jwp, s.secret_prover_blind, commits[s.secret_prover_blind])
      /\ [i \in 1 .. (Len(messages) - n) |-> messages[n + i]]
           = Messages(commits[s.secret_prover_blind].claims)
      /\ KeySum(s.keys) = KeySum(commits[s.secret_prover_blind].keys)
  BY <1>1, VerifiedIsOwn
<1>4. /\ Len(messages) - n = Len(s.committed)
      /\ [i \in 1 .. Len(s.committed) |-> messages[n + i]] = s.committed
  <2> DEFINE front == Len(s.jwp.payloads)
  <2> DEFINE back == Len(s.committed)
  <2>1. n = front /\ front \in Nat /\ back \in Nat
    BY <1>1, <1>2, LenProperties DEF CountsAgree
  <2>2. /\ Len(messages) = front + back
        /\ [i \in 1 .. back |-> messages[front + i]] = s.committed
    <3> DEFINE payloads == s.jwp.payloads
    <3> DEFINE committed == s.committed
    <3>1. payloads \in Seq(Value) /\ committed \in Seq(Value)
      BY <1>2
    <3> HIDE DEF payloads, committed
    <3>2. /\ Len(payloads \o committed) = Len(payloads) + Len(committed)
          /\ [i \in 1 .. Len(committed) |-> (payloads \o committed)[Len(payloads) + i]]
               = committed
      BY <3>1, ConcatSplits
    <3> QED
      BY <3>2 DEF messages, payloads, committed
  <2> HIDE DEF front, back, n
  <2>3. Len(messages) - n = back /\ [i \in 1 .. back |-> messages[n + i]] = s.committed
    BY <2>1, <2>2
  <2> QED
    BY <2>3 DEF back, n
<1>5. s.committed = Messages(commits[s.secret_prover_blind].claims)
  BY <1>3, <1>4
<1> QED
  BY <1>3, <1>5 DEF IssuedFrom

(* However sessions are mixed up, accept() passes only what the one commit  *)
(* session behind the credential kept; the keys only up to their order.     *)
THEOREM AcceptedIsOwn == Spec => []StoredIsOwn
BY Invariant, StoredOwn, PTL

\* A claim is the pair of what Pointers and Messages make of it.
LEMMA ClaimAgain ==
  ASSUME NEW claims \in Claims, NEW i \in 1 .. Len(claims)
  PROVE  [pointer |-> Pointers(claims)[i], value |-> Messages(claims)[i]] \in Elements(claims)
<1>1. claims[i] \in [pointer: Pointer, value: Value] /\ DOMAIN claims = 1 .. Len(claims)
  BY ElementOfSeq, LenProperties DEF Claims
<1>2. claims[i] = [pointer |-> claims[i].pointer, value |-> claims[i].value]
  BY <1>1
<1>3. Pointers(claims)[i] = claims[i].pointer /\ Messages(claims)[i] = claims[i].value
  BY ClaimParts
<1> QED
  BY <1>1, <1>2, <1>3 DEF Elements

\* Reading pointers and messages side by side: slot i is an asserted claim
\* below the boundary and a committed one above it.
LEMMA SlotIsClaim ==
  ASSUME NEW asserted \in Claims, NEW committed \in Claims, NEW header, NEW messages,
         header.issuer_claims = Pointers(asserted),
         header.holder_claims = Pointers(committed),
         LET n == num_signer_messages(header)
         IN  /\ [i \in 1 .. n |-> messages[i]] = Messages(asserted)
             /\ [i \in 1 .. (Len(messages) - n) |-> messages[n + i]] = Messages(committed),
         Len(messages) = num_messages(header),
         NEW i \in 1 .. Len(messages)
  PROVE  [pointer |-> pointers(header)[i], value |-> messages[i]]
           \in Elements(asserted) \cup Elements(committed)
<1> DEFINE n == Len(asserted)
<1> DEFINE m == Len(committed)
<1>1. n \in Nat /\ m \in Nat
  BY LenProperties DEF Claims
<1>2. /\ Pointers(asserted) \in Seq(Pointer) /\ Len(Pointers(asserted)) = n
      /\ Pointers(committed) \in Seq(Pointer) /\ Len(Pointers(committed)) = m
  BY ClaimParts
<1>3. num_signer_messages(header) = n
  BY <1>2 DEF num_signer_messages
<1>4. Len(messages) = n + m
  BY <1>2 DEF num_messages
<1>5. \A k \in 1 .. n + m : pointers(header)[k] =
        IF k <= n THEN Pointers(asserted)[k] ELSE Pointers(committed)[k - n]
  BY <1>2, ConcatProperties DEF pointers
<1>6. /\ [k \in 1 .. n |-> messages[k]] = Messages(asserted)
      /\ [k \in 1 .. (Len(messages) - n) |-> messages[n + k]] = Messages(committed)
  BY <1>3
<1> HIDE DEF n, m
<1>7. CASE i <= n
  <2>1. i \in 1 .. n
    BY <1>1, <1>4, <1>7
  <2>2. messages[i] = Messages(asserted)[i]
    BY <1>6, <2>1
  <2>3. pointers(header)[i] = Pointers(asserted)[i]
    BY <1>4, <1>5, <1>7
  <2> QED
    BY <2>1, <2>2, <2>3, ClaimAgain DEF n
<1>8. CASE ~(i <= n)
  <2>1. PICK j \in 1 .. m : i = n + j
    BY <1>1, <1>4, <1>8
  <2>2. messages[i] = Messages(committed)[j]
    <3>1. Len(messages) - n = m
      BY <1>1, <1>4
    <3>2. [k \in 1 .. m |-> messages[n + k]] = Messages(committed)
      BY <1>6, <3>1
    <3> QED
      BY <2>1, <3>2
  <2>3. pointers(header)[i] = Pointers(committed)[j]
    BY <1>1, <1>4, <1>5, <1>8, <2>1
  <2> QED
    BY <2>1, <2>2, <2>3, ClaimAgain DEF m
<1> QED
  BY <1>7, <1>8

LEMMA WasSigned == IInv => LearnedWasSigned
<1> SUFFICES ASSUME IInv, NEW r \in results
             PROVE  \E jwp \in issued :
                      /\ jwp.signature.pk = r.pk
                      /\ jwp.issuer_header = r.presented.issuer_header
                      /\ \E asserted \in IssuerClaims :
                           /\ jwp.issuer_header.issuer_claims = Pointers(asserted)
                           /\ LET committed ==
                                    commits[jwp.signature.commitment.secret_prover_blind].claims
                              IN  Disclosed(r.presented)
                                    \subseteq Elements(asserted) \cup Elements(committed)
  BY DEF LearnedWasSigned
<1> DEFINE q == r.presented
<1> DEFINE s == presents[q.proof.session]
<1> DEFINE blind == s.secret_prover_blind
<1> DEFINE committed == commits[blind].claims
<1> DEFINE n == num_signer_messages(s.jwp.issuer_header)
<1>1. /\ s \in PresentSession
      /\ s.jwp \in issued
      /\ s.pk = r.pk
      /\ q.issuer_header = s.jwp.issuer_header
      /\ q.payloads = Slots(s.messages, s.reveal)
      /\ Len(s.messages) = num_messages(s.jwp.issuer_header)
      /\ SignatureVerifies(s.jwp, s.pk, s.messages, s.keys, blind)
  BY ResultFacts
<1> HIDE DEF s
<1>2. /\ s.jwp.signature.pk = s.pk
      /\ s.jwp.signature.commitment.secret_prover_blind = blind
      /\ blind \in DOMAIN commits
      /\ IssuedFrom(s.jwp, blind, commits[blind])
      /\ [i \in 1 .. n |-> s.messages[i]] = s.jwp.payloads
      /\ [i \in 1 .. (Len(s.messages) - n) |-> s.messages[n + i]] = Messages(committed)
  BY <1>1, VerifiedIsOwn
<1>3. PICK asserted \in IssuerClaims : /\ s.jwp.issuer_header.issuer_claims = Pointers(asserted)
                                       /\ s.jwp.payloads = Messages(asserted)
  BY <1>2 DEF IssuedFrom
<1>4. s.jwp.issuer_header.holder_claims = Pointers(committed)
  BY <1>2 DEF IssuedFrom
<1>5. asserted \in Claims /\ committed \in Claims
  BY <1>2, FlowAssumption DEF Claims, IInv, TypeOK, CommitSession
<1>6. ASSUME NEW i \in DOMAIN q.payloads, q.payloads[i] # Omitted
      PROVE  [pointer |-> pointers(q.issuer_header)[i], value |-> q.payloads[i]]
               \in Elements(asserted) \cup Elements(committed)
  <2>1. i \in 1 .. Len(s.messages) /\ q.payloads[i] = s.messages[i]
    BY <1>1, <1>6 DEF Slots
  <2> DEFINE header == s.jwp.issuer_header
  <2> DEFINE messages == s.messages
  <2>2. /\ header.issuer_claims = Pointers(asserted)
        /\ header.holder_claims = Pointers(committed)
        /\ [k \in 1 .. num_signer_messages(header) |-> messages[k]] = Messages(asserted)
        /\ [k \in 1 .. (Len(messages) - num_signer_messages(header)) |->
              messages[num_signer_messages(header) + k]] = Messages(committed)
        /\ Len(messages) = num_messages(header)
    BY <1>1, <1>2, <1>3, <1>4
  <2>3. i \in 1 .. Len(messages) /\ q.payloads[i] = messages[i] /\ q.issuer_header = header
    BY <1>1, <2>1
  <2> HIDE DEF header, messages, committed, q
  <2> QED
    BY <1>5, <2>2, <2>3, SlotIsClaim
<1>7. Disclosed(q) \subseteq Elements(asserted) \cup Elements(committed)
  BY <1>6 DEF Disclosed
<1> QED
  BY <1>1, <1>2, <1>3, <1>7

(* Every pointer and value pair a relying party is handed was asserted by   *)
(* the issuer under whose key it verified, or committed by the wallet under *)
(* that pointer, all in one credential, for message vectors of any length.  *)
THEOREM LearnedIsSigned == Spec => []LearnedWasSigned
BY Invariant, WasSigned, PTL

LEMMA RequestedShown == IInv => RequestedIsShown
<1> SUFFICES ASSUME IInv, NEW r \in results,
                    NEW requested \in SUBSET Elements(pointers(r.presented.issuer_header)),
                    presents[r.presented.proof.session].reveal
                      = disclosures_for(r.presented.issuer_header, requested)
             PROVE  /\ DOMAIN DisclosedClaims(r.presented) = requested
                    /\ \A c \in Disclosed(r.presented) :
                         DisclosedClaims(r.presented)[c.pointer] = c.value
  BY DEF RequestedIsShown
<1> DEFINE q == r.presented
           s == presents[q.proof.session]
           messages == s.messages
           reveal == s.reveal
           header == q.issuer_header
           name == pointers(header)
           slots == {i \in DOMAIN q.payloads : q.payloads[i] # Omitted}
<1>1. /\ q.payloads = Slots(messages, reveal)
      /\ reveal \in SUBSET (1 .. Len(messages))
      /\ messages \in Seq(Value)
      /\ header \in Header
  BY ResultFacts DEF PresentSession, PresentedJwp
<1>2. reveal = disclosures_for(header, requested)
  OBVIOUS
<1>3. slots = reveal
  <2> HIDE DEF messages, reveal
  <2> QED
    BY <1>1, SlotsShown
<1>4. /\ {name[i] : i \in reveal} = requested
      /\ \A i, j \in reveal : name[i] = name[j] => i = j
  <2> HIDE DEF header, reveal
  <2> QED
    BY <1>1, <1>2, RequestedIndices DEF header
<1>5. DOMAIN DisclosedClaims(q) = requested
  BY <1>3, <1>4 DEF DisclosedClaims
<1>6. ASSUME NEW i \in slots
      PROVE  DisclosedClaims(q)[name[i]] = q.payloads[i]
  <2>1. i \in Nat
    BY <1>1, <1>3
  <2>2. \A j \in slots : name[j] = name[i] => j = i
    BY <1>3, <1>4
  <2>3. (CHOOSE j \in slots : name[j] = name[i]
           /\ \A k \in slots : name[k] = name[i] => k <= j) = i
    BY <2>1, <2>2
  <2> QED
    BY <2>3 DEF DisclosedClaims
<1> QED
  BY <1>5, <1>6 DEF Disclosed

(* A presentation of the messages that present_init finds for some pointers *)
(* shows just those pointers, each with the value verify() returned, for    *)
(* every header, also one with a pointer in both maps.                      *)
THEOREM RequestedClaimsArrive == Spec => []RequestedIsShown
BY Invariant, RequestedShown, PTL

LEMMA CanBePresented == IInv => StoredCanBePresented
<1> DEFINE x(q) == presents[q.proof.session]
<1> SUFFICES ASSUME IInv, NEW q \in presented, NEW s \in stored,
                    x(q).jwp = s.jwp,
                    x(q).pk = s.pk,
                    x(q).messages = s.jwp.payloads \o s.committed,
                    x(q).keys = s.keys,
                    x(q).secret_prover_blind = s.secret_prover_blind,
                    s.keys = commits[s.secret_prover_blind].keys,
                    q.proof.keybind_signatures = [i \in DOMAIN x(q).keys |->
                      [device |-> x(q).keys[i],
                       challenge |-> KeybindChallenge(q.proof.session, i)]]
             PROVE  ProofVerifies(q, s.pk)
  BY DEF StoredCanBePresented
<1>1. /\ s.jwp \in issued
      /\ SignatureVerifies(s.jwp, s.pk, x(q).messages, s.keys, s.secret_prover_blind)
  BY DEF IInv, StoredVerifies
<1>2. IssuedFrom(s.jwp, s.secret_prover_blind, commits[s.secret_prover_blind])
  BY <1>1, VerifiedIsOwn
<1>3. /\ q.proof.session \in DOMAIN presents
      /\ ChallengeMatches(q, s.pk)
  BY DEF IInv, PresentedMatchesSession
<1>4. x(q) \in PresentSession
  BY <1>3 DEF IInv, TypeOK
<1>5. x(q).messages \in Seq(Value) /\ x(q).keys \in Seq(Device)
  BY <1>4 DEF PresentSession
<1>6. Len(q.payloads) = num_messages(q.issuer_header)
  <2>1. Len(x(q).messages) = num_messages(x(q).jwp.issuer_header)
    <3>1. /\ s.jwp \in IssuedJwp
          /\ s.committed \in Seq(Value)
          /\ CountsAgree(s.jwp, s.committed)
      BY DEF IInv, TypeOK, StoredVerifies, StoredCredential
    <3>2. Len(s.jwp.payloads \o s.committed) = num_messages(s.jwp.issuer_header)
      BY <3>1, MessagesCounted
    <3> QED
      BY <3>2
  <2>2. /\ q.payloads = Slots(x(q).messages, x(q).reveal)
        /\ q.issuer_header = x(q).jwp.issuer_header
    BY <1>3 DEF ChallengeMatches
  <2>3. Len(q.payloads) = Len(x(q).messages)
    <3> DEFINE messages == x(q).messages
    <3> DEFINE reveal == x(q).reveal
    <3>1. messages \in Seq(Value) /\ q.payloads = Slots(messages, reveal)
      BY <1>5, <2>2
    <3> HIDE DEF messages, reveal
    <3>2. Len(Slots(messages, reveal)) = Len(messages)
      BY <3>1, SlotsType
    <3>3. Len(q.payloads) = Len(messages)
      BY <3>1, <3>2
    <3> QED
      BY <3>3 DEF messages
  <2> QED
    BY <2>1, <2>2, <2>3
<1>7. Len(q.proof.keybind_signatures) = Len(x(q).keys)
  <2>1. DOMAIN x(q).keys = 1 .. Len(x(q).keys) /\ Len(x(q).keys) \in Nat
    BY <1>5, LenProperties
  <2> QED
    BY <2>1, SMTT(40)
<1>8. \A i \in DOMAIN x(q).keys :
        SigVerifies(q.proof.keybind_signatures[i], x(q).keys[i], i,
                    KeybindChallenge(q.proof.session, i))
  <2>1. \A i \in DOMAIN x(q).keys : Slot[x(q).keys[i]] = i
    <3>1. \A i \in DOMAIN commits[s.secret_prover_blind].keys :
            Slot[commits[s.secret_prover_blind].keys[i]] = i
      BY <1>2, Zenon DEF IssuedFrom
    <3>2. x(q).keys = commits[s.secret_prover_blind].keys
      OBVIOUS
    <3> QED
      BY <3>1, <3>2, Zenon
  <2>2. \A i \in DOMAIN x(q).keys :
          q.proof.keybind_signatures[i] =
            [device |-> x(q).keys[i], challenge |-> KeybindChallenge(q.proof.session, i)]
    OBVIOUS
  <2> QED
    BY <2>1, <2>2, Zenon DEF SigVerifies
<1> QED
  BY <1>1, <1>3, <1>6, <1>7, <1>8 DEF ProofVerifies

(* accept() is enough: what it let in, with the keys in committed order,    *)
(* always gives a presentation that verifies, so a credential that passed   *)
(* never fails at a relying party for a fault of the issuance.              *)
THEOREM AcceptedCanBePresented == Spec => []StoredCanBePresented
BY Invariant, CanBePresented, PTL

-----------------------------------------------------------------------------
(* Flow implements Promise: each call of the library maps to one step of    *)
(* the promise or to none.                                                 *)

(* What the mapping makes of claims and keys.                              *)

LEMMA InitPromised == Init => Promised!Init
BY DEF Init, Promised!Init, Commitments, Bindings, Credentials, Shows, Learned, AnswersIn

\* An asserted or committed claim is at the slot of its place in its list.
LEMMA ClaimHasSlot ==
  ASSUME NEW asserted \in Claims, NEW committed \in Claims, NEW header, NEW messages,
         header.issuer_claims = Pointers(asserted),
         header.holder_claims = Pointers(committed),
         messages = Messages(asserted) \o Messages(committed)
  PROVE  ClaimsAt(header, messages, DOMAIN messages)
           = Elements(asserted) \cup Elements(committed)
<1> DEFINE n == Len(asserted)
           m == Len(committed)
           all == ClaimsAt(header, messages, DOMAIN messages)
<1>1. /\ n \in Nat /\ m \in Nat
      /\ DOMAIN asserted = 1 .. n
      /\ DOMAIN committed = 1 .. m
  BY LenProperties DEF Claims
<1>2. /\ Messages(asserted) \in Seq(Value) /\ Len(Messages(asserted)) = n
      /\ Pointers(asserted) \in Seq(Pointer) /\ Len(Pointers(asserted)) = n
      /\ Messages(committed) \in Seq(Value) /\ Len(Messages(committed)) = m
      /\ Pointers(committed) \in Seq(Pointer) /\ Len(Pointers(committed)) = m
      /\ \A i \in 1 .. n : /\ Messages(asserted)[i] = asserted[i].value
                           /\ Pointers(asserted)[i] = asserted[i].pointer
      /\ \A i \in 1 .. m : /\ Messages(committed)[i] = committed[i].value
                           /\ Pointers(committed)[i] = committed[i].pointer
  BY ClaimParts
<1>3. /\ DOMAIN messages = 1 .. n + m
      /\ \A i \in 1 .. n + m : messages[i] =
           IF i <= n THEN Messages(asserted)[i] ELSE Messages(committed)[i - n]
      /\ \A i \in 1 .. n + m : pointers(header)[i] =
           IF i <= n THEN Pointers(asserted)[i] ELSE Pointers(committed)[i - n]
  <2> HIDE DEF n, m
  <2>1. /\ messages \in Seq(Value) /\ Len(messages) = n + m
        /\ \A i \in 1 .. n + m : messages[i] =
             IF i <= n THEN Messages(asserted)[i] ELSE Messages(committed)[i - n]
    BY <1>2, ConcatProperties
  <2>2. \A i \in 1 .. n + m : pointers(header)[i] =
          IF i <= n THEN Pointers(asserted)[i] ELSE Pointers(committed)[i - n]
    BY <1>2, ConcatProperties DEF pointers
  <2> QED
    BY <2>1, <2>2, LenProperties
<1> DEFINE claim(i) == [pointer |-> pointers(header)[i], value |-> messages[i]]
<1>4. /\ \A i \in 1 .. n : asserted[i] \in [pointer : Pointer, value : Value]
      /\ \A i \in 1 .. m : committed[i] \in [pointer : Pointer, value : Value]
  BY <1>1, ElementOfSeq DEF Claims
<1> HIDE DEF n, m
<1>5. ASSUME NEW i \in 1 .. n PROVE i \in DOMAIN messages /\ claim(i) = asserted[i]
  <2>1. i \in 1 .. n + m /\ i <= n
    BY <1>1
  <2>2. asserted[i] = [pointer |-> asserted[i].pointer, value |-> asserted[i].value]
    BY <1>4
  <2> QED
    BY <1>2, <1>3, <2>1, <2>2
<1>6. ASSUME NEW i \in 1 .. m PROVE n + i \in DOMAIN messages /\ claim(n + i) = committed[i]
  <2>1. n + i \in 1 .. n + m /\ ~(n + i <= n) /\ (n + i) - n = i
    BY <1>1
  <2>2. committed[i] = [pointer |-> committed[i].pointer, value |-> committed[i].value]
    BY <1>4
  <2> QED
    BY <1>2, <1>3, <2>1, <2>2
<1>7. ASSUME NEW x \in Elements(asserted) \cup Elements(committed) PROVE x \in all
  <2>1. (\E i \in 1 .. n : x = asserted[i]) \/ (\E i \in 1 .. m : x = committed[i])
    BY <1>1 DEF Elements
  <2>2. \E i \in DOMAIN messages : x = claim(i)
    BY <1>5, <1>6, <2>1
  <2> QED
    BY <2>2 DEF ClaimsAt
<1>8. ASSUME NEW i \in DOMAIN messages
      PROVE  claim(i) \in Elements(asserted) \cup Elements(committed)
  <2>1. (i \in 1 .. n) \/ (\E j \in 1 .. m : i = n + j)
    <3>1. i \in 1 .. n + m
      BY <1>3
    <3>2. (i - n \in 1 .. m /\ i = n + (i - n)) \/ i \in 1 .. n
      BY <1>1, <3>1
    <3> QED
      BY <3>2
  <2> QED
    BY <1>1, <1>5, <1>6, <2>1, ZenonT(40) DEF Elements
<1> QED
  BY <1>7, <1>8 DEF ClaimsAt

\* The devices of a sum of keys are the keys.
LEMMA DevicesOfSum ==
  ASSUME NEW keys \in Seq(Device)
  PROVE  {d \in Device : KeySum(keys)[d] > 0} = Elements(keys)
<1>1. Elements(keys) \subseteq Device
  BY ElementOfSeq, LenProperties DEF Elements
<1>2. ASSUME NEW d \in Device PROVE KeySum(keys)[d] > 0 <=> d \in Elements(keys)
  BY KeySumType
<1> QED
  BY <1>1, <1>2

\* A header's kb, which counts keys, says whether there is a device.
LEMMA KeysOrNone ==
  ASSUME NEW keys \in Seq(Device)
  PROVE  Len(keys) > 0 <=> Elements(keys) # {}
<1>1. DOMAIN keys = 1 .. Len(keys) /\ Len(keys) \in Nat
  BY LenProperties
<1>2. Len(keys) > 0 <=> DOMAIN keys # {}
  BY <1>1
<1>3. DOMAIN keys # {} <=> Elements(keys) # {}
  BY DEF Elements
<1> QED
  BY <1>2, <1>3

\* A credential of the calls, read as one of the promise.
LEMMA CredentialParts ==
  ASSUME IInv, NEW jwp \in issued
  PROVE  LET c == jwp.signature.commitment.secret_prover_blind
         IN  /\ c \in DOMAIN commits
             /\ \E asserted \in IssuerClaims :
                  CredentialOf(jwp) =
                    [issuer |-> jwp.signature.pk, id |-> c,
                     claims |-> Elements(asserted) \cup Elements(commits[c].claims),
                     devices |-> Elements(commits[c].keys),
                     kb |-> Elements(commits[c].keys) # {}]
<1> DEFINE c == jwp.signature.commitment.secret_prover_blind
<1> DEFINE s == commits[c]
<1> DEFINE b == jwp.signature
<1>1. c \in DOMAIN commits /\ IssuedFrom(jwp, c, s)
  BY DEF IInv, IssuedMatchesSession
<1>2. /\ b.known = jwp.payloads
      /\ b.commitment.messages = Messages(s.claims)
      /\ b.key_sum = KeySum(s.keys)
  BY <1>1 DEF IssuedFrom, BPoint, Commitment
<1>3. PICK asserted \in IssuerClaims : /\ jwp.issuer_header.issuer_claims = Pointers(asserted)
                                       /\ jwp.payloads = Messages(asserted)
  BY <1>1 DEF IssuedFrom
<1>4. asserted \in Claims /\ s.claims \in Claims /\ s.keys \in Seq(Device)
  BY <1>1, FlowAssumption DEF Claims, IInv, TypeOK, CommitSession
<1> DEFINE messages == b.known \o b.commitment.messages
<1>5. ClaimsAt(jwp.issuer_header, messages, DOMAIN messages)
        = Elements(asserted) \cup Elements(s.claims)
  <2>1. messages = Messages(asserted) \o Messages(s.claims)
    BY <1>2, <1>3
  <2>2. jwp.issuer_header.holder_claims = Pointers(s.claims)
    BY <1>1 DEF IssuedFrom
  <2> DEFINE header == jwp.issuer_header
             committed == s.claims
  <2>3. /\ header.issuer_claims = Pointers(asserted)
        /\ header.holder_claims = Pointers(committed)
        /\ asserted \in Claims /\ committed \in Claims
        /\ messages = Messages(asserted) \o Messages(committed)
    BY <1>3, <1>4, <2>1, <2>2
  <2> HIDE DEF messages, header, committed
  <2>4. ClaimsAt(header, messages, DOMAIN messages) = Elements(asserted) \cup Elements(committed)
    BY <2>3, ClaimHasSlot
  <2> QED
    BY <2>4 DEF header, committed
<1>6. {d \in Device : b.key_sum[d] > 0} = Elements(s.keys)
  BY <1>2, <1>4, DevicesOfSum
<1>7. jwp.issuer_header.kb = (Elements(s.keys) # {})
  <2>1. jwp.issuer_header.kb <=> Len(s.keys) > 0
    BY <1>1 DEF IssuedFrom
  <2>2. Len(s.keys) > 0 <=> Elements(s.keys) # {}
    BY <1>4, KeysOrNone
  <2>3. jwp.issuer_header.kb \in BOOLEAN
    BY DEF IInv, TypeOK, IssuedJwp, Header
  <2> QED
    BY <2>1, <2>2, <2>3
<1> HIDE DEF messages, s
<1>8. CredentialOf(jwp) =
        [issuer |-> b.pk, id |-> c, claims |-> Elements(asserted) \cup Elements(s.claims),
         devices |-> Elements(s.keys), kb |-> Elements(s.keys) # {}]
  BY <1>5, <1>6, <1>7 DEF CredentialOf, messages
<1> QED
  BY <1>1, <1>8 DEF s

-----------------------------------------------------------------------------
(* What no call takes back.                                                *)

\* Who answered a device challenge of a presentation answered a session
\* that had begun.
LEMMA AnswerFacts ==
  ASSUME IInv, NEW x \in AnswersIn("present")
  PROVE  x.challenge.session \in DOMAIN presents
<1>1. x \in signatures /\ x.challenge.flow = "present" /\ x.challenge \in Challenges(x.device)
  BY DEF AnswersIn, IInv, AnswersWereAsked
<1> QED
  BY <1>1 DEF Challenges, CommitChallenge, KeybindChallenge

LEMMA MappingKept ==
  ASSUME IInv, Grows
  PROVE  /\ \A c \in DOMAIN commits : CommitmentOf(c)' = CommitmentOf(c)
         /\ \A x \in AnswersIn("present") : ShowOf(x)' = ShowOf(x)
         /\ commits' = commits => Commitments' = Commitments
         /\ signatures' = signatures => Bindings' = Bindings
         /\ issued' = issued => Credentials' = Credentials
         /\ signatures' = signatures => Shows' = Shows
         /\ results' = results => Learned' = Learned
<1>1. \A c \in DOMAIN commits : CommitmentOf(c)' = CommitmentOf(c)
  BY DEF Grows, CommitmentOf
<1>2. ASSUME NEW x \in AnswersIn("present") PROVE ShowOf(x)' = ShowOf(x)
  <2>1. presents'[x.challenge.session] = presents[x.challenge.session]
    BY AnswerFacts DEF Grows
  <2> QED
    BY <2>1 DEF ShowOf, Showing
<1>3. commits' = commits => Commitments' = Commitments
  BY <1>1 DEF Commitments
<1>4. signatures' = signatures => Bindings' = Bindings
  BY DEF Bindings, BindingOf, AnswersIn
<1>5. issued' = issued => Credentials' = Credentials
  BY DEF Credentials
<1>6. signatures' = signatures => Shows' = Shows
  BY <1>2 DEF Shows, AnswersIn
<1>7. results' = results => Learned' = Learned
  BY DEF Learned
<1> QED
  BY <1>1, <1>2, <1>3, <1>4, <1>5, <1>6, <1>7

-----------------------------------------------------------------------------
(* The calls that the promise knows of.                                    *)

LEMMA CommitInitCommits ==
  ASSUME IInv, Grows, NEW c \in CommitId, NEW claims \in HolderClaims,
         NEW keys \in KeyLists, CommitInit(c, claims, keys)
  PROVE  Promised!Next
<1> DEFINE new == [id |-> c, claims |-> Elements(claims), devices |-> Elements(keys)]
<1>1. /\ c \notin DOMAIN commits
      /\ commits' = Extend(commits, c, [claims |-> claims, keys |-> keys])
      /\ UNCHANGED <<signatures, issued, results>>
  BY DEF CommitInit
<1>2. DOMAIN commits' = DOMAIN commits \cup {c} /\ CommitmentOf(c)' = new
  BY <1>1 DEF Extend, CommitmentOf
<1>3. Commitments' = Commitments \cup {new}
  BY <1>2, MappingKept DEF Commitments
<1>4. UNCHANGED <<Bindings, Credentials, Shows, Learned>>
  BY <1>1, MappingKept
<1>5. \A x \in Commitments : x.id # c
  BY <1>1 DEF Commitments, CommitmentOf
<1>6. Elements(claims) \in ClaimSets(HolderClaims) /\ Elements(keys) \in SUBSET Device
  <2>1. keys \in Seq(Device)
    BY FlowAssumption
  <2> QED
    BY <2>1, ElementOfSeq, LenProperties DEF ClaimSets, Elements
<1>7. Promised!Commit(c, Elements(claims), Elements(keys))
  BY <1>3, <1>4, <1>5 DEF Promised!Commit
<1> QED
  BY <1>6, <1>7 DEF Promised!Next

LEMMA DeviceSignAgrees ==
  ASSUME IInv, Grows, NEW d \in Device, NEW challenge \in Challenges(d),
         DeviceSign(d, challenge)
  PROVE  Promised!Next
<1> DEFINE x == [device |-> d, challenge |-> challenge]
<1>1. /\ signatures' = signatures \cup {x}
      /\ UNCHANGED <<commits, presents, issued, results>>
  BY DEF DeviceSign
<1>2. UNCHANGED <<Commitments, Credentials, Learned>>
  BY <1>1, MappingKept
<1>3. ASSUME NEW c \in DOMAIN commits, challenge = CommitChallenge(c),
             \E i \in DOMAIN commits[c].keys : commits[c].keys[i] = d
      PROVE  Promised!Next
  <2>1. challenge.flow = "commit" /\ challenge.session = c
    BY <1>3 DEF CommitChallenge
  <2>2. Bindings' = Bindings \cup {[device |-> d, id |-> c]}
    <3>1. AnswersIn("commit")' = AnswersIn("commit") \cup {x}
      BY <1>1, <2>1 DEF AnswersIn
    <3>2. BindingOf(x) = [device |-> d, id |-> c]
      BY <2>1 DEF BindingOf
    <3> HIDE DEF x
    <3>3. Bindings' = {BindingOf(y) : y \in AnswersIn("commit") \cup {x}}
      BY <3>1 DEF Bindings, BindingOf
    <3> QED
      BY <3>2, <3>3 DEF Bindings
  <2>3. Shows' = Shows
    <3>1. AnswersIn("present")' = AnswersIn("present")
      BY <1>1, <2>1 DEF AnswersIn
    <3> HIDE DEF x
    <3> QED
      BY <1>1, <3>1 DEF Shows, ShowOf, Showing
  <2>4. CommitmentOf(c) \in Commitments /\ d \in CommitmentOf(c).devices
                                        /\ CommitmentOf(c).id = c
    BY <1>3 DEF Commitments, CommitmentOf, Elements
  <2>5. Promised!Bind(d, CommitmentOf(c))
    BY <1>2, <2>2, <2>3, <2>4 DEF Promised!Bind
  <2> QED
    BY <2>4, <2>5 DEF Promised!Next
<1>4. ASSUME NEW p \in DOMAIN presents, NEW i \in DOMAIN presents[p].keys,
             challenge = KeybindChallenge(p, i)
      PROVE  Promised!Next
  <2> DEFINE s == presents[p]
  <2>1. challenge.flow = "present" /\ challenge.session = p
    BY <1>4 DEF KeybindChallenge
  <2>2. Bindings' = Bindings
    BY <1>1, <2>1 DEF Bindings, BindingOf, AnswersIn
  <2>3. Shows' = Shows \cup
          {[device |-> d, header |-> s.presentation_header, claims |-> Showing(p)]}
    <3>1. AnswersIn("present")' = AnswersIn("present") \cup {x}
      BY <1>1, <2>1 DEF AnswersIn
    <3>2. ShowOf(x) =
            [device |-> d, header |-> s.presentation_header, claims |-> Showing(p)]
      BY <2>1 DEF ShowOf
    <3> HIDE DEF x
    <3>3. Shows' = {ShowOf(y) : y \in AnswersIn("present") \cup {x}}
      BY <1>1, <3>1 DEF Shows, ShowOf, Showing
    <3> QED
      BY <3>2, <3>3 DEF Shows
  <2>4. s \in PresentSession
    BY DEF IInv, TypeOK
  <2>5. Showing(p) \in SUBSET [pointer : Pointer, value : Value]
    <3> DEFINE header == s.jwp.issuer_header
               messages == s.messages
    <3>1. s.jwp \in issued /\ s.reveal \subseteq 1 .. Len(messages)
      BY DEF IInv, SessionsInRange
    <3>2. header \in Header /\ messages \in Seq(Value)
      BY <2>4, <3>1 DEF PresentSession, IssuedJwp
    <3>3. Showing(p) = ClaimsAt(header, messages, s.reveal \cap DOMAIN pointers(header))
      BY DEF Showing
    <3> HIDE DEF header, messages
    <3>4. pointers(header) \in Seq(Pointer)
      BY <3>2, PointersType
    <3>5. ASSUME NEW j \in s.reveal \cap DOMAIN pointers(header)
          PROVE  pointers(header)[j] \in Pointer /\ messages[j] \in Value
      BY <3>1, <3>2, <3>4, ElementOfSeq, LenProperties
    <3> QED
      BY <3>3, <3>5 DEF ClaimsAt
  <2>6. s.presentation_header \in PresHeader
    BY <2>4 DEF PresentSession
  <2>7. Promised!Show(d, s.presentation_header, Showing(p))
    BY <1>2, <2>2, <2>3 DEF Promised!Show
  <2> QED
    BY <2>5, <2>6, <2>7 DEF Promised!Next
<1> QED
  BY <1>3, <1>4 DEF Challenges

\* The invariant after the step says what the new credential is.
LEMMA JwpIssueIssues ==
  ASSUME IInv, IInv', Grows, NEW r \in requests, NEW pk \in IssuerKey,
         NEW claims \in IssuerClaims, NEW kb \in BOOLEAN, JwpIssue(r, pk, claims, kb)
  PROVE  Promised!Next
<1> DEFINE c == r.session
           s == commits[c]
           header == [issuer_claims |-> Pointers(claims),
                      holder_claims |-> r.holder_pointers, kb |-> kb]
           jwp == [issuer_header |-> header, payloads |-> Messages(claims),
                   signature |-> BPoint(pk, header, Messages(claims), r.commitment, r.keys)]
           new == [issuer |-> pk, id |-> c, claims |-> Elements(claims) \cup Elements(s.claims),
                   devices |-> Elements(s.keys), kb |-> Elements(s.keys) # {}]
<1>1. /\ issued' = issued \cup {jwp}
      /\ UNCHANGED <<commits, presents, signatures, results>>
  BY DEF JwpIssue
<1>2. /\ c \in DOMAIN commits
      /\ r.commitment = Commitment(Messages(s.claims), c)
      /\ r.keys = s.keys
      /\ r.holder_pointers = Pointers(s.claims)
  BY DEF IInv, RequestsMatchSession
<1>3. IssuedFrom(jwp, c, s)'
  <2>1. jwp.signature.commitment.secret_prover_blind = c
    BY <1>2 DEF BPoint, Commitment
  <2>2. IssuedMatchesSession'
    BY DEF IInv
  <2>3. jwp \in issued'
    BY <1>1
  <2>4. \A j \in issued' : IssuedFrom(j, j.signature.commitment.secret_prover_blind,
                                      commits[j.signature.commitment.secret_prover_blind])'
    BY <2>2, <1>1 DEF IssuedMatchesSession
  <2> HIDE DEF jwp
  <2> QED
    BY <2>1, <2>3, <2>4
<1>4. ASSUME NEW d \in Elements(s.keys)
      PROVE  [device |-> d, id |-> c] \in Bindings
  <2>1. PICK i \in DOMAIN s.keys : d = s.keys[i]
    BY DEF Elements
  <2>2. [device |-> d, challenge |-> CommitChallenge(c)] \in signatures
    BY <1>1, <1>3, <2>1 DEF IssuedFrom, Signed
  <2> DEFINE x == [device |-> d, challenge |-> CommitChallenge(c)]
  <2>3. x \in AnswersIn("commit") /\ BindingOf(x) = [device |-> d, id |-> c]
    BY <2>2 DEF AnswersIn, BindingOf, CommitChallenge
  <2> HIDE DEF x
  <2> QED
    BY <2>3 DEF Bindings
<1>5. CredentialOf(jwp) = new
  <2>1. /\ claims \in Claims /\ s.claims \in Claims /\ s.keys \in Seq(Device)
        /\ header \in Header
    <3>1. claims \in Claims /\ s.claims \in Claims /\ s.keys \in Seq(Device)
      BY <1>2, FlowAssumption DEF Claims, IInv, TypeOK, CommitSession
    <3> QED
      BY <3>1, <1>2, ClaimParts DEF Header
  <2> DEFINE messages == Messages(claims) \o Messages(s.claims)
             committed == s.claims
  <2>2. ClaimsAt(header, messages, DOMAIN messages) = Elements(claims) \cup Elements(s.claims)
    <3>1. /\ header.issuer_claims = Pointers(claims)
          /\ header.holder_claims = Pointers(committed)
          /\ claims \in Claims /\ committed \in Claims
          /\ messages = Messages(claims) \o Messages(committed)
      BY <1>2, <2>1
    <3> HIDE DEF messages, header, committed
    <3>2. ClaimsAt(header, messages, DOMAIN messages) = Elements(claims) \cup Elements(committed)
      BY <3>1, ClaimHasSlot
    <3> QED
      BY <3>2 DEF committed
  <2>3. {d \in Device : KeySum(s.keys)[d] > 0} = Elements(s.keys)
    BY <2>1, DevicesOfSum
  <2>4. kb = (Elements(s.keys) # {})
    <3>1. kb <=> Len(r.keys) > 0
      BY DEF JwpIssue, RequestAgrees
    <3>2. Len(s.keys) > 0 <=> Elements(s.keys) # {}
      BY <2>1, KeysOrNone
    <3> QED
      BY <1>2, <3>1, <3>2
  <2>5. /\ jwp.signature.known = Messages(claims)
        /\ jwp.signature.commitment.messages = Messages(s.claims)
        /\ jwp.signature.commitment.secret_prover_blind = c
        /\ jwp.signature.key_sum = KeySum(s.keys)
        /\ jwp.signature.pk = pk
        /\ jwp.issuer_header = header
        /\ header.kb = kb
    BY <1>2 DEF BPoint, Commitment
  <2> HIDE DEF jwp, header, s
  <2> QED
    BY <2>2, <2>3, <2>4, <2>5 DEF CredentialOf
<1>6. Credentials' = Credentials \cup {new}
  <2> HIDE DEF jwp, new
  <2> QED
    BY <1>1, <1>5 DEF Credentials, CredentialOf
<1>7. UNCHANGED <<Commitments, Bindings, Shows, Learned>>
  BY <1>1, MappingKept
<1>8. /\ CommitmentOf(c) \in Commitments
      /\ CommitmentOf(c).id = c
      /\ CommitmentOf(c).claims = Elements(s.claims)
      /\ CommitmentOf(c).devices = Elements(s.keys)
  BY <1>2 DEF Commitments, CommitmentOf
<1>9. Promised!Issue(CommitmentOf(c), pk, Elements(claims))
  <2> HIDE DEF c, s
  <2> QED
    BY <1>4, <1>6, <1>7, <1>8 DEF Promised!Issue, new
<1>10. Elements(claims) \in ClaimSets(IssuerClaims)
  BY DEF ClaimSets
<1> QED
  BY <1>8, <1>9, <1>10 DEF Promised!Next

\* What verify() returns is what the session was showing, and each device of
\* the credential has answered that session.
LEMMA VerifyLearns ==
  ASSUME IInv, Grows, NEW q \in presented, NEW pk \in IssuerKey, Verify(q, pk)
  PROVE  Promised!Next
<1> DEFINE p == q.proof.session
           s == presents[p]
           cred == CredentialOf(s.jwp)
           b == s.jwp.signature
           sigs == q.proof.keybind_signatures
<1>1. /\ ProofVerifies(q, pk)
      /\ results' = results \cup {[presented |-> q, pk |-> pk]}
      /\ UNCHANGED <<commits, presents, signatures, issued>>
  BY DEF Verify
<1>2. /\ q \in PresentedJwp
      /\ p \in DOMAIN presents
      /\ s \in PresentSession
      /\ s.jwp \in issued
      /\ s.jwp \in IssuedJwp
      /\ s.pk = pk
      /\ q.issuer_header = s.jwp.issuer_header
      /\ q.presentation_header = s.presentation_header
      /\ q.payloads = Slots(s.messages, s.reveal)
      /\ Len(s.messages) = num_messages(s.jwp.issuer_header)
      /\ s.reveal \subseteq 1 .. Len(s.messages)
      /\ SignatureVerifies(s.jwp, s.pk, s.messages, s.keys, s.secret_prover_blind)
      /\ Len(sigs) = Len(s.keys)
      /\ \A i \in DOMAIN sigs : sigs[i] \in signatures
      /\ \A i \in DOMAIN s.keys : SigVerifies(sigs[i], s.keys[i], i, KeybindChallenge(p, i))
  BY <1>1, VerifiedFacts
<1>3. Disclosed(q) = Showing(p)
  <2> DEFINE messages == s.messages
             reveal == s.reveal
             header == s.jwp.issuer_header
  <2>1. /\ messages \in Seq(Value)
        /\ q.payloads = Slots(messages, reveal)
        /\ reveal \in SUBSET (1 .. Len(messages))
        /\ q.issuer_header = header
        /\ header \in Header
        /\ Len(messages) = num_messages(header)
    BY <1>2 DEF PresentSession, IssuedJwp
  <2>2. Showing(p) = ClaimsAt(header, messages, reveal \cap DOMAIN pointers(header))
    BY DEF Showing
  <2> HIDE DEF messages, reveal, header, s, p
  <2>3. reveal \cap DOMAIN pointers(header) = reveal
    BY <2>1, PointersType
  <2>4. /\ {i \in DOMAIN q.payloads : q.payloads[i] # Omitted} = reveal
        /\ \A i \in reveal : q.payloads[i] = messages[i]
    BY <2>1, SlotsShown
  <2> QED
    BY <2>1, <2>2, <2>3, <2>4 DEF Disclosed, ClaimsAt
<1>4. /\ b.pk = pk
      /\ b.key_sum = KeySum(s.keys)
      /\ b.known \o b.commitment.messages = s.messages
  <2> DEFINE messages == s.messages
             header == s.jwp.issuer_header
             n == num_signer_messages(header)
             front == [i \in 1 .. n |-> messages[i]]
             back == [i \in 1 .. (Len(messages) - n) |-> messages[n + i]]
  <2>1. b = BPoint(pk, header, front, Commitment(back, s.secret_prover_blind), s.keys)
    BY <1>2 DEF SignatureVerifies, SplitB
  <2>2. messages \in Seq(Value) /\ header \in Header /\ Len(messages) = num_messages(header)
    BY <1>2 DEF PresentSession, IssuedJwp
  <2> HIDE DEF messages, header, s, b
  <2>3. b.pk = pk /\ b.key_sum = KeySum(s.keys) /\ b.known = front
                  /\ b.commitment.messages = back
    BY <2>1 DEF BPoint, Commitment
  <2>4. n \in Nat /\ Len(messages) \in Nat /\ n <= Len(messages)
    BY <2>2, HeaderCounts, LenProperties DEF Header
  <2> HIDE DEF n
  <2>5. front \o back = messages
    <3>1. \A i \in 1 .. Len(messages) : messages[i] \in Value
      BY <2>2, ElementOfSeq
    <3>2. front \in Seq(Value) /\ Len(front) = n
      BY <2>4, <3>1
    <3>3. back \in Seq(Value) /\ Len(back) = Len(messages) - n
      BY <2>4, <3>1
    <3>4. /\ front \o back \in Seq(Value)
          /\ Len(front \o back) = Len(messages)
          /\ \A i \in 1 .. Len(messages) :
               (front \o back)[i] = IF i <= n THEN front[i] ELSE back[i - n]
      <4> HIDE DEF front, back
      <4> QED
        BY <2>4, <3>2, <3>3, ConcatProperties
    <3>5. ASSUME NEW i \in 1 .. Len(messages) PROVE (front \o back)[i] = messages[i]
      BY <2>4, <3>4
    <3> HIDE DEF front, back
    <3> QED
      BY <2>2, <3>4, <3>5, SeqEqual
  <2> QED
    BY <2>3, <2>5 DEF messages
<1>5. Disclosed(q) \subseteq cred.claims
  <2> DEFINE messages == s.messages
  <2>1. cred.claims = ClaimsAt(s.jwp.issuer_header, messages, DOMAIN messages)
    BY <1>4 DEF CredentialOf
  <2>2. s.reveal \subseteq DOMAIN messages
    BY <1>2, LenProperties DEF PresentSession
  <2> QED
    BY <1>3, <2>1, <2>2 DEF Showing, ClaimsAt
<1>6. ASSUME NEW d \in cred.devices
      PROVE  [device |-> d, header |-> s.presentation_header, claims |-> Disclosed(q)] \in Shows
  <2> DEFINE keys == s.keys
  <2>1. keys \in Seq(Device) /\ sigs \in Seq(DeviceSignature)
    BY <1>2 DEF PresentSession, PresentedJwp, Proof
  <2>2. cred.devices = Elements(keys)
    BY <1>4, <2>1, DevicesOfSum DEF CredentialOf
  <2>3. PICK i \in DOMAIN keys : d = keys[i]
    BY <2>2 DEF Elements
  <2>4. i \in DOMAIN sigs
    BY <1>2, <2>1, LenProperties
  <2>5. sigs[i] = [device |-> d, challenge |-> KeybindChallenge(p, i)] /\ sigs[i] \in signatures
    BY <1>2, <2>3, <2>4 DEF SigVerifies
  <2> DEFINE x == [device |-> d, challenge |-> KeybindChallenge(p, i)]
  <2>6. x \in AnswersIn("present")
    BY <2>5 DEF AnswersIn, KeybindChallenge
  <2>7. ShowOf(x) = [device |-> d, header |-> s.presentation_header, claims |-> Showing(p)]
    BY DEF ShowOf, KeybindChallenge
  <2> HIDE DEF x
  <2> QED
    BY <1>3, <2>6, <2>7 DEF Shows
<1>7. Learned' = Learned \cup {[issuer |-> cred.issuer, header |-> s.presentation_header,
                                claims |-> Disclosed(q), kb |-> cred.kb]}
  <2> DEFINE r == [presented |-> q, pk |-> pk]
  <2>1. LearnedFrom(r) = [issuer |-> cred.issuer, header |-> s.presentation_header,
                          claims |-> Disclosed(q), kb |-> cred.kb]
    BY <1>2, <1>4 DEF LearnedFrom, CredentialOf
  <2> HIDE DEF r
  <2> QED
    BY <1>1, <2>1 DEF Learned, r
<1>8. UNCHANGED <<Commitments, Bindings, Credentials, Shows>>
  BY <1>1, MappingKept
<1>9. Promised!Learn(cred, s.presentation_header, Disclosed(q))
  BY <1>5, <1>6, <1>7, <1>8 DEF Promised!Learn
<1>10. cred \in Credentials /\ s.presentation_header \in PresHeader
  BY <1>2 DEF Credentials, PresentSession
<1> QED
  BY <1>5, <1>9, <1>10 DEF Promised!Next

-----------------------------------------------------------------------------
\* Commit, sign, issue and verify are steps of the promise, the rest is its
\* stuttering.
LEMMA NextPromised ==
  IInv /\ IInv' /\ [Next]_vars => [Promised!Next]_Promised!vars
<1> SUFFICES ASSUME IInv, IInv', [Next]_vars PROVE Promised!Next \/ UNCHANGED Promised!vars
  OBVIOUS
<1>1. Grows
  BY NextGrows
<1>2. ASSUME UNCHANGED <<commits, signatures, issued, results>>
      PROVE  UNCHANGED Promised!vars
  BY <1>1, <1>2, MappingKept DEF Promised!vars
<1>3. ASSUME NEW c \in CommitId, NEW claims \in HolderClaims, NEW keys \in KeyLists,
             CommitInit(c, claims, keys)
      PROVE  Promised!Next
  BY <1>1, <1>3, CommitInitCommits
<1>4. ASSUME NEW d \in Device, NEW challenge \in Challenges(d), DeviceSign(d, challenge)
      PROVE  Promised!Next
  BY <1>1, <1>4, DeviceSignAgrees
<1>5. ASSUME NEW c \in DOMAIN commits, NEW sigs \in Answers(Len(commits[c].keys)),
             CommitFinalize(c, sigs)
      PROVE  UNCHANGED Promised!vars
  BY <1>2, <1>5 DEF CommitFinalize
<1>6. ASSUME NEW r \in requests, NEW pk \in IssuerKey, NEW claims \in IssuerClaims,
             NEW kb \in BOOLEAN, JwpIssue(r, pk, claims, kb)
      PROVE  Promised!Next
  BY <1>1, <1>6, JwpIssueIssues
<1>7. ASSUME NEW jwp \in issued, NEW pk \in IssuerKey, NEW claims \in HolderClaims,
             NEW keys \in KeyLists, NEW blind \in DOMAIN commits,
             Accept(jwp, pk, Messages(claims), keys, blind)
      PROVE  UNCHANGED Promised!vars
  BY <1>2, <1>7 DEF Accept
<1>8. ASSUME NEW p \in PresentId, NEW jwp \in issued, NEW pk \in IssuerKey,
             NEW ph \in PresHeader, NEW claims \in HolderClaims, NEW keys \in KeyLists,
             NEW blind \in DOMAIN commits,
             NEW requested \in SUBSET Elements(pointers(jwp.issuer_header)),
             PresentInit(p, jwp, pk, ph, requested, Messages(claims), keys, blind)
      PROVE  UNCHANGED Promised!vars
  BY <1>2, <1>8 DEF PresentInit, BlindProofGenInit
<1>12. ASSUME NEW p \in PresentId, NEW jwp \in issued, NEW pk \in IssuerKey,
              NEW ph \in PresHeader, NEW claims \in HolderClaims, NEW keys \in KeyLists,
              NEW blind \in DOMAIN commits,
              NEW reveal \in SUBSET (1 .. Len(jwp.payloads \o Messages(claims))),
              BlindProofGenInit(p, jwp, pk, ph, jwp.payloads \o Messages(claims), reveal,
                                 keys, blind)
       PROVE  UNCHANGED Promised!vars
  BY <1>2, <1>12 DEF BlindProofGenInit
<1>9. ASSUME NEW p \in DOMAIN presents, NEW sigs \in Answers(Len(presents[p].keys)),
             PresentFinalize(p, sigs)
      PROVE  UNCHANGED Promised!vars
  BY <1>2, <1>9 DEF PresentFinalize
<1>10. ASSUME NEW q \in presented, NEW pk \in IssuerKey, Verify(q, pk)
       PROVE  Promised!Next
  BY <1>1, <1>10, VerifyLearns
<1>11. ASSUME WalletRestart \/ UNCHANGED vars
       PROVE  UNCHANGED Promised!vars
  BY <1>2, <1>11 DEF WalletRestart, vars
<1> QED
  BY <1>3, <1>4, <1>5, <1>6, <1>7, <1>8, <1>9, <1>10, <1>11, <1>12 DEF Next

(* The calls implement the promise: whatever the order, loss, repetition or *)
(* mix-up of sessions, a relying party learns only claims of one            *)
(* credential, and only once each of its devices has agreed to show just    *)
(* those claims under that presentation header.                            *)
THEOREM FlowImplementsPromise == Spec => FlowKeepsPromise
<1>1. Init => Promised!Init
  BY InitPromised
<1>2. IInv /\ IInv' /\ [Next]_vars => [Promised!Next]_Promised!vars
  BY NextPromised
<1> QED
  BY <1>1, <1>2, Invariant, PTL DEF Spec, FlowKeepsPromise, Promised!Spec
=============================================================================
