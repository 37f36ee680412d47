-------------------------------- MODULE Wire --------------------------------
(***************************************************************************)
(* The octet strings the protocol's calls hand to their caller, who keeps   *)
(* them all and may hand any of them to any later call: two sessions at     *)
(* once, a call made again, an old string for a new one.  Flow takes what a *)
(* call returned as a value; here it is octets, and each call reads what it *)
(* is given.                                                               *)
(***************************************************************************)
EXTENDS Codec, Container, Schnorr

CONSTANTS
  MaxMade,       \* bound: strings made
  MaxSessions,   \* bound: strings made with new names
  MaxKeys,       \* bound: keys of a session
  MaxAsked,      \* bound: device signatures asked for
  CommitShapes,  \* numbers of committed messages and of keys of a commit_init
  ProofShapes,   \* numbers of hidden, committed and disclosed messages, and keys
  Headers,       \* presentation header and issuer header, octets
  Payloads,      \* the issuer's messages in a credential: lists of octet strings
  Committed      \* lists of committed messages a caller has: octet strings

ASSUME WireAssumption ==
  /\ MaxMade \in Nat /\ MaxSessions \in Nat /\ MaxKeys \in Nat /\ MaxAsked \in Nat
  /\ Requests = (1 .. MaxSessions) \X (1 .. MaxKeys)
  /\ CommitShapes \subseteq [messages : Nat, keys : Nat]
  /\ ProofShapes \subseteq [hidden : Nat, committed : Nat, disclosed : Nat, keys : Nat]
  /\ MaxSessions <= 255            \* the number of a session is an octet
  /\ Payloads \cup Committed \subseteq Seq(Seq(0 .. 255))
  /\ <<>> \notin Payloads           \* claims contain no values to sign
  /\ Headers \subseteq Seq(0 .. 255) \X Seq(0 .. 255)

VARIABLE
  made           \* strings made: their kind, octets, and the value they stand for

vars == <<made, signing>>

Of(kind) == {x \in made : x.kind = kind}

\* The name of the next call that draws scalars and points.
Session == Cardinality({x.session : x \in made}) + 1

Name(what, session, i) == <<<<what, session, i>>>>
Scalars(what, session, n) == [i \in 1 .. n |-> Scalar(Name(what, session, i))]
Points(what, session, n) == [i \in 1 .. n |-> G1(Name(what, session, i))]

Init == made = {} /\ SchnorrInit

Make(new) ==
  /\ made' = made \cup new
  /\ Cardinality(made') <= MaxMade
  /\ UNCHANGED signing

Draw(new) == Session <= MaxSessions /\ Make(new)

-----------------------------------------------------------------------------
(* Device signatures.                                                      *)

\* A device is asked for the answer of one of its keys to a challenge.
DeviceSign(x, i, kind) ==
  /\ x.kind \in {"commitment state", "proof state"}
  /\ i \in DOMAIN x.value.keys
  /\ Cardinality({r \in Requests : signing[r] # Idle}) < MaxAsked
  /\ Sign(<<x.session, i>>, kind)
  /\ UNCHANGED made

\* Each attempt of a call of sign.
Continue(r) == Attempt(r) /\ UNCHANGED made

\* What the signer returns, and n of them that a caller collected: the answers
\* of one session, which need not be the session they are handed to.
Response(r) == Scalar(<<<<"k_hat", r[1], r[2]>>>>)
Hash(r) == Scalar(<<<<"c", r[1], r[2]>>>>)

Answers(session, n) == [i \in 1 .. n |-> <<session, i>>]

Collected(session, n) == \A i \in 1 .. n : signing[<<session, i>>].status = "signed"

Signatures(answers) ==
  [i \in DOMAIN answers |-> serialize(<<Response(answers[i]), Hash(answers[i])>>)]

\* adapt_sig parses two scalars, and adds c times the randomizer to the first.
Adapted(s, r_key) == Scalar(s.name \o r_key.name)

adapt_sig(signature, r_key) ==
  IF Len(signature) # 8 THEN {}
  ELSE {serialize(<<Adapted(x[1], r_key), x[2]>>) :
          x \in ReadAll(signature, 1, <<"scalar", "scalar">>)}

-----------------------------------------------------------------------------
(* Commit and issue.                                                       *)

CommitInit(shape) ==
  LET s == Session
      state == [c |-> G1(<<<<"c", s, 0>>>>), s_hat |-> Scalar(<<<<"s_hat", s, 0>>>>),
                m_hat |-> Scalars("m_hat", s, shape.messages),
                challenge |-> Scalar(<<<<"challenge", s, 0>>>>),
                keys |-> Points("key", s, shape.keys)]
  IN  Draw({[kind |-> "commitment state", session |-> s, value |-> state,
             octets |-> commitment_state_to_octets(state)]})

CommitFinalize(x, session, n) ==
  /\ Collected(session, n)
  /\ \E state \in octets_to_commitment_state(x.octets) :
       /\ n = Len(state.keys)
       /\ Make({[kind |-> "commitment", session |-> x.session,
                 value |-> [answers |-> Answers(session, n)],
                 octets |-> commitment_with_proof_to_octets(state,
                              Signatures(Answers(session, n)))]})

\* That the issuer signs only what verifies is in Flow: here it reads the
\* commitment, and may sign what it could read.
BlindSign(x) ==
  LET s == Session
      signature == [a |-> G1(<<<<"A", s, 0>>>>), e |-> Scalar(<<<<"e", s, 0>>>>)]
  IN  /\ octets_to_commitment_with_proof(x.octets) # {}
      /\ Draw({[kind |-> "signature", session |-> s, value |-> signature,
                octets |-> signature_to_octets(signature)]})

\* jwp_issue: the signature goes into a container with the issuer's messages,
\* where it is the octet that numbers its session.  The header says how many
\* messages there are with the committed ones.
JwpIssue(x, issuer_header, payloads) ==
  LET s == Session
      signature == [a |-> G1(<<<<"A", s, 0>>>>), e |-> Scalar(<<<<"e", s, 0>>>>)]
      jwp == [issuer_header |-> issuer_header, payloads |-> payloads,
              signature |-> <<s>>]
  IN  \E commitment \in octets_to_commitment_with_proof(x.octets) :
        Draw({[kind |-> "issued", session |-> s, octets |-> issued_encode(jwp),
               value |-> [jwp |-> jwp, signature |-> signature_to_octets(signature),
                          num_messages |-> Len(payloads) + Len(commitment.m_hat)]]})

-----------------------------------------------------------------------------
(* Present.                                                                *)

\* The hidden scalars of a BBS proof: hidden and committed messages, the
\* prover blind, and a zero per key.
ProofState(shape, s) ==
  [bbs_proof |->
     [points |-> Points("bbs", s, 3),
      scalars |-> Scalars("bbs", s, 3 + (shape.hidden + shape.committed + 1
                                           + shape.keys) + 1)],
   commitments |-> Points("commitment", s, shape.committed),
   s_hat |-> Scalars("s_hat", s, shape.committed),
   challenge |-> Scalar(<<<<"challenge", s, 0>>>>),
   keys |-> Points("pk_tilde", s, shape.keys),
   r_key |-> Scalars("r_key", s, shape.keys)]

StateString(shape, s) ==
  [kind |-> "proof state", session |-> s, value |-> ProofState(shape, s),
   messages |-> shape.hidden + shape.committed + shape.disclosed,
   disclosed |-> shape.disclosed,
   octets |-> proof_gen_state_to_octets(ProofState(shape, s))]

\* blind_proof_gen_init on its own: the caller keeps the state itself.
ProofGenInit(x, shape) ==
  /\ octets_to_signature(x.octets) # {}
  /\ Draw({StateString(shape, Session)})

\* all_messages: the issuer's in the container, and as many committed ones as
\* the header has.
all_messages(x, issued, committed) ==
  {messages \in {issued.payloads \o committed} : Len(messages) = x.value.num_messages}

\* present_init: one slot per message, and the state goes into a carry, where
\* it is the octet that numbers its session.
PresentInit(x, presentation_header, committed, disclose, keys) ==
  \E issued \in issued_decode(x.octets) :
  \E messages \in all_messages(x, issued, committed) :
    LET s == Session
        shape == [hidden |-> Len(messages) - Cardinality(disclose), committed |-> 0,
                  disclosed |-> Cardinality(disclose), keys |-> keys]
        carry == [inner |-> <<s>>, presentation_header |-> presentation_header,
                  issuer_header |-> issued.issuer_header,
                  payloads |-> [i \in DOMAIN messages |->
                                  IF i \in disclose THEN <<messages[i]>> ELSE <<>>]]
    IN  /\ disclose \subseteq DOMAIN messages
        /\ shape \in ProofShapes
        /\ issued.signature = <<x.session>>
        /\ octets_to_signature(x.value.signature) # {}
        /\ Draw({StateString(shape, s),
                 [kind |-> "carry", session |-> s, value |-> carry,
                  octets |-> carry_encode(carry)]})

blind_proof_gen_finalize(octets, answers) ==
  UNION {
    IF Len(answers) # Len(state.keys) THEN {}
    ELSE LET adapted == [i \in DOMAIN answers |->
                           adapt_sig(Signatures(answers)[i], state.r_key[i])]
         IN  IF \E i \in DOMAIN adapted : adapted[i] = {} THEN {}
             ELSE {state.incomplete_proof \o serialize(state.keys)
                     \o FlattenSeq([i \in DOMAIN adapted |->
                                      CHOOSE a \in adapted[i] : TRUE])} :
    state \in octets_to_proof_gen_state(octets)}

ProofGenFinalize(x, session, n) ==
  /\ Collected(session, n)
  /\ \E proof \in blind_proof_gen_finalize(x.octets, Answers(session, n)) :
       Make({[kind |-> "proof", session |-> x.session, octets |-> proof,
              value |-> [answers |-> Answers(session, n)]]})

\* A proof in a container is the octets that number its session and answers.
ProofNumber(session, answers) == <<session>> \o [i \in DOMAIN answers |-> answers[i][1]]

PresentFinalize(x, session, n) ==
  /\ Collected(session, n)
  /\ \E carried \in carry_decode(x.octets), state \in Of("proof state") :
       /\ carried.inner = <<state.session>>
       /\ \E proof \in blind_proof_gen_finalize(state.octets, Answers(session, n)) :
            Make({[kind |-> "presentation", session |-> x.session,
                   value |-> [answers |-> Answers(session, n), proof |-> proof],
                   octets |-> presented_encode(
                     [presentation_header |-> carried.presentation_header,
                      issuer_header |-> carried.issuer_header,
                      payloads |-> carried.payloads,
                      proof |-> ProofNumber(state.session, Answers(session, n))])]})

\* What verify makes of the proof's length: how many messages there are.
\* Mutant: the floor counts three scalars, without the challenge.
ShortFloor == 8 * (3 * 6 + 3 * 4)
ProofFloor == 8 * (3 * 6 + 4 * 4)

message_count(octets, disclosed) ==
  UNION {LET proof_msgs_no == (len - ProofFloor) \div 32 + disclosed
         IN  {proof_msgs_no - (1 + k) :
                k \in {x \in read_u64(octets, 3) : 1 + x <= proof_msgs_no}} :
          len \in {l \in read_u64(octets, 1) :
                     l >= ProofFloor /\ (l - ProofFloor) % 32 = 0}}

-----------------------------------------------------------------------------

\* The strings of the blind layer: a carry or the text of a container is of
\* another layer, and other octets, and handed to the calls of that one alone.
Blind == made \ (Of("carry") \cup Of("issued") \cup Of("presentation"))

Next ==
  \/ \E shape \in CommitShapes : CommitInit(shape)
  \/ \E x \in made, i \in 1 .. MaxKeys, kind \in Sources : DeviceSign(x, i, kind)
  \/ \E r \in Requests : Continue(r)
  \/ \E session \in 1 .. MaxSessions, n \in 0 .. MaxKeys :
       \/ \E x \in Blind : CommitFinalize(x, session, n)
       \/ \E x \in Blind : ProofGenFinalize(x, session, n)
       \/ \E x \in Of("carry") : PresentFinalize(x, session, n)
  \/ \E x \in Blind : BlindSign(x)
  \/ \E x \in Blind, headers \in Headers, payloads \in Payloads :
       JwpIssue(x, headers[2], payloads)
  \/ \E x \in Blind, shape \in ProofShapes : ProofGenInit(x, shape)
  \/ \E x \in Of("issued"), headers \in Headers, committed \in Committed :
     \E disclose \in SUBSET (1 .. x.value.num_messages), keys \in 0 .. MaxKeys :
       PresentInit(x, headers[1], committed, disclose, keys)

Spec == Init /\ [][Next]_vars

\* sign is a loop that waits for nothing: once called, it runs on.
FairSpec == Spec /\ \A r \in Requests : WF_vars(Continue(r))

-----------------------------------------------------------------------------
(* What the octets are for.                                                *)

\* What was finished is what one init call made, field for field, with the
\* answers that were handed in, each adapted with the randomizer of its place:
\* whatever strings the caller mixed up on the way, none is taken for a state
\* it is not (blind.rs:193-210, 805-826, flow.rs:247-259).
ProofOf(p, proof, s) ==
  /\ s.session = p.session
  /\ Len(p.value.answers) = Len(s.value.keys)
  /\ octets_to_blind_proof(proof) =
       {[bbs_proof |-> s.value.bbs_proof, commitments |-> s.value.commitments,
         s_hat |-> s.value.s_hat, keys |-> s.value.keys,
         signatures |-> [i \in DOMAIN p.value.answers |->
           LET r == p.value.answers[i]
           IN  serialize(<<Adapted(Response(r), s.value.r_key[i]), Hash(r)>>)]]}

FinishedIsOneInit ==
  /\ \A p \in Of("commitment") : \E s \in Of("commitment state") :
       /\ s.session = p.session
       /\ Len(p.value.answers) = Len(s.value.keys)
       /\ octets_to_commitment_with_proof(p.octets) =
            {[c |-> s.value.c, keys |-> s.value.keys, s_hat |-> s.value.s_hat,
              m_hat |-> s.value.m_hat, challenge |-> s.value.challenge,
              signatures |-> Signatures(p.value.answers)]}
  /\ \A p \in Of("proof") : \E s \in Of("proof state") : ProofOf(p, p.octets, s)
  /\ \A p \in Of("presentation") :
       \E s \in Of("proof state"), c \in Of("carry") :
         /\ ProofOf(p, p.value.proof, s)
         /\ c.session = s.session
         /\ presented_decode(p.octets) =
              {[presentation_header |-> c.value.presentation_header,
                issuer_header |-> c.value.issuer_header,
                payloads |-> c.value.payloads,
                proof |-> ProofNumber(s.session, p.value.answers)]}

\* The kinds a reader of each kind accepts.
ReadAs(kind, octets) ==
  CASE kind = "commitment state" -> octets_to_commitment_state(octets) # {}
    [] kind = "commitment" -> octets_to_commitment_with_proof(octets) # {}
    [] kind = "signature" -> octets_to_signature(octets) # {}
    [] kind = "proof state" -> octets_to_proof_gen_state(octets) # {}
    [] kind = "proof" -> octets_to_blind_proof(octets) # {}

BlindKinds == {"commitment state", "commitment", "signature", "proof state", "proof"}

\* No string bears its kind, yet each is read as what it is and as nothing
\* else: the exception is the commitment of a holder without keys, which is
\* its state octet for octet, so that finishing it does nothing.  For one key
\* a proof is as long as its state, and only the flag of a compressed point
\* tells them apart (blind.rs:481-608, 927-973, 1175-1231, bbs.rs:88-120).
EachReadAsItself ==
  \A x \in Blind, kind \in BlindKinds :
      (ReadAs(kind, x.octets) <=>
         \/ kind = x.kind
         \/ /\ {x.kind, kind} = {"commitment state", "commitment"}
            /\ \E s \in Of("commitment state") :
                 s.session = x.session /\ s.value.keys = <<>>)

\* A string cut anywhere, or with another one after it, is refused by the
\* reader of its kind: by the counts it starts with it says where it ends
\* (blind.rs:491-500, 562-574, 937-946, 1188-1197, flow.rs:374-404).
CutIsRefused ==
  \A x \in Blind \cup Of("carry") :
    LET cuts == {SubSeq(x.octets, 1, n) : n \in 0 .. Len(x.octets) - 1}
    IN  IF x.kind = "carry"
        THEN \A octets \in cuts \cup {x.octets \o y.octets : y \in Of("carry")} :
               carry_decode(octets) = {}
        ELSE \A octets \in cuts \cup {x.octets \o y.octets : y \in Blind} :
               ~ReadAs(x.kind, octets)

\* A credential and a presentation are read back from their text as they were
\* put in, what is empty as empty and what is withheld as withheld, and are
\* never taken for each other.  Two texts in one are refused, and of a text
\* cut short at most the end of the signature or proof is missing, whose
\* length is looked at next (jwp.rs:463-537, 572-612).
TextReadAsItself ==
  /\ \A x \in Of("issued") :
       issued_decode(x.octets) = {x.value.jwp} /\ presented_decode(x.octets) = {}
  /\ \A x \in Of("presentation") : issued_decode(x.octets) = {}
  /\ \A x \in Of("issued") \cup Of("presentation") :
       LET Read(text) == IF x.kind = "issued" THEN issued_decode(text)
                         ELSE presented_decode(text)
           end == IF x.kind = "issued" THEN "signature" ELSE "proof"
       IN  /\ \A y \in Of("issued") \cup Of("presentation") :
                 Read(x.octets \o y.octets) = {}
           /\ \A n \in 0 .. Len(x.octets) - 1 :
               \A cut \in Read(SubSeq(x.octets, 1, n)) :
               \A whole \in Read(x.octets) :
                 /\ IsStrictPrefix(cut[end], whole[end])
                 /\ whole = [cut EXCEPT ![end] = whole[end]]

\* The relying party is not told how many messages a credential has: it takes
\* the proof's length for it, and the number of slots has to agree.  It finds
\* the number the holder had, whatever was hidden, committed or disclosed
\* (blind.rs:1003-1027, flow.rs:227-239).
MessagesCounted ==
  /\ \A p \in Of("proof") : \E s \in Of("proof state") :
       /\ s.session = p.session
       /\ message_count(p.octets, s.disclosed) = {s.messages}
  /\ \A p \in Of("presentation") : \A presented \in presented_decode(p.octets) :
       LET slots == presented.payloads
       IN  message_count(p.value.proof,
                         Cardinality({i \in DOMAIN slots : slots[i] # <<>>}))
             = {Len(slots)}

=============================================================================
