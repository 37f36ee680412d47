-------------------------------- MODULE Flow --------------------------------
(***************************************************************************)
(* A credential's whole life, as the calls of this library drive it: the   *)
(* wallet commits to its own claims (commit_init), its hardware keys sign   *)
(* the commit challenge, commit_finalize folds the answers in, the issuer   *)
(* issues (jwp_issue, which blind-signs), the wallet accepts, and each      *)
(* presentation runs present_init, a device signature per key binding key, *)
(* present_finalize and, at the relying party, verify.                     *)
(*                                                                         *)
(* Every call is a pure function on octet strings: what lasts is what the   *)
(* callers keep, so the state here is what each of them holds.  Several     *)
(* sessions run at once, every message may be lost, repeated or overtaken  *)
(* (a message once sent stays available), a device may answer late, the    *)
(* finalize calls take whatever device signatures they are handed, and a    *)
(* restart of the wallet loses the opaque session states.                  *)
(*                                                                         *)
(* Cryptography is symbolic.  A group element is the record of what was     *)
(* summed into it and a hash is the identity of what was hashed, so equal  *)
(* terms stand for equal octets and distinct terms never collide.          *)
(***************************************************************************)
EXTENDS Naturals, Sequences, FiniteSets

CONSTANTS
  IssuerKey,     \* issuer key pairs; one name stands for both halves
  Device,        \* hardware keys that can be bound to a credential
  Slot,          \* Slot[d]: the key binding generator device d's key is made over
  CommitId,      \* commit_init calls; names the fresh randomness, the prover blind
  PresentId,     \* present_init calls; names the fresh randomness of the proof
  Pointer,       \* RFC 6901 claim pointers
  Value,         \* claim values
  Omitted,       \* the empty payload slot of an undisclosed message
  IssuerClaims,  \* what an issuer may assert: claims flattened in pointer order
  HolderClaims,  \* what a wallet may commit to, in the same form
  KeyLists,      \* key binding key lists a wallet may pass
  PresHeader,    \* presentation headers (nonce and audience)
  MaxFinalize    \* bound: finalize calls the wallet makes on one session state

ASSUME FlowAssumption ==
  /\ Slot \in [Device -> Nat \ {0}]
  /\ IssuerClaims \subseteq Seq([pointer: Pointer, value: Value])
  /\ HolderClaims \subseteq Seq([pointer: Pointer, value: Value])
  /\ KeyLists \subseteq Seq(Device)
  /\ Omitted \notin Value
  /\ CommitId \cap PresentId = {}
  /\ MaxFinalize \in Nat

VARIABLES
  commits,       \* what the wallet passed to each commit_init
  presents,      \* what the wallet passed to each present_init
  live,          \* the sessions whose opaque state the wallet still holds
  signatures,    \* the answers devices have given
  requests,      \* credential requests sent to the issuer
  issued,        \* credentials the issuer has returned
  stored,        \* credentials accept() succeeded on, with the caller's arguments
  presented,     \* presentations sent to relying parties
  results        \* presentations verify() succeeded on, with the key it was given

vars == <<commits, presents, live, signatures, requests, issued, stored,
          presented, results>>

-----------------------------------------------------------------------------
(* Claims, headers and group elements.                                     *)

\* The elements of a list, without order.
Elements(list) == {list[i] : i \in DOMAIN list}

Messages(claims) == [i \in 1 .. Len(claims) |-> claims[i].value]
Pointers(claims) == [i \in 1 .. Len(claims) |-> claims[i].pointer]

num_signer_messages(header) == Len(header.issuer_claims)
num_messages(header) == Len(header.issuer_claims) + Len(header.holder_claims)

\* Mutant: the two halves of the vector swapped.
PointersHolderFirst(header) == header.holder_claims \o header.issuer_claims

\* IssuerHeaderView::pointers: issuer claims are the low half of the vector.
pointers(header) == header.issuer_claims \o header.holder_claims

\* IssuerHeaderView::index_of finds the issuer's claim first when both maps
\* name the pointer.
index_of(header, p) ==
  CHOOSE i \in DOMAIN pointers(header) :
    /\ pointers(header)[i] = p
    /\ \A j \in 1 .. (i - 1) : pointers(header)[j] # p

\* The Pedersen commitment C to the wallet's messages under its prover blind.
Commitment(messages, blind) ==
  [messages |-> messages, secret_prover_blind |-> blind]

\* sum_points: B holds the sum of the keys, which has no order.
KeySum(keys) == [d \in Device |-> Cardinality({i \in DOMAIN keys : keys[i] = d})]

\* B, with the domain: issuer key, header and the number of each kind of
\* generator, then the issuer's messages, C and the sum of the keys.
BPoint(pk, header, known, commitment, keys) ==
  [pk |-> pk, header |-> header, known |-> known, commitment |-> commitment,
   keybind_count |-> Len(keys), key_sum |-> KeySum(keys)]

\* B as verify_blind_sign and blind_proof_gen_init rebuild it from the full
\* message vector: split at num_signer_messages, the blind in between.
SplitB(pk, header, messages, keys, blind) ==
  LET n == num_signer_messages(header)
      rest == [i \in 1 .. (Len(messages) - n) |-> messages[n + i]]
  IN  BPoint(pk, header, [i \in 1 .. n |-> messages[i]],
             Commitment(rest, blind), keys)

-----------------------------------------------------------------------------
(* Device challenges.  The commit challenge is one scalar for all keys; a   *)
(* presentation has one per key, the hash of that key's randomised form    *)
(* and the proof challenge.                                                *)

CommitChallenge(c) == [flow |-> "commit", session |-> c, index |-> 0]
KeybindChallenge(p, i) == [flow |-> "present", session |-> p, index |-> i]

Challenge == [flow : {"commit"}, session : CommitId, index : {0}]
       \cup [flow : {"present"}, session : PresentId, index : Nat \ {0}]

\* Mutant: any answer of the right device counts.
SigOfDevice(sig, d, i, challenge) == sig.device = d /\ Slot[d] = i

\* SignatureScheme::verify under generator i, for a plain key or, once
\* adapt_sig has shifted the answer, for its randomised form.
SigVerifies(sig, d, i, challenge) ==
  /\ sig = [device |-> d, challenge |-> challenge]
  /\ Slot[d] = i

-----------------------------------------------------------------------------
(* State.                                                                  *)

Claims == Seq([pointer: Pointer, value: Value])
Header == [issuer_claims : Seq(Pointer), holder_claims : Seq(Pointer), kb : BOOLEAN]
Point == [pk : IssuerKey, header : Header, known : Seq(Value),
          commitment : [messages : Seq(Value), secret_prover_blind : CommitId],
          keybind_count : Nat, key_sum : [Device -> Nat]]
DeviceSignature == [device : Device, challenge : Challenge]
Request == [session : CommitId, keys : Seq(Device),
            commitment : [messages : Seq(Value), secret_prover_blind : CommitId],
            keybind_signatures : Seq(DeviceSignature),
            holder_pointers : Seq(Pointer)]
IssuedJwp == [issuer_header : Header, payloads : Seq(Value), signature : Point]
StoredCredential == [jwp : IssuedJwp, pk : IssuerKey, committed : Seq(Value),
                     keys : Seq(Device), secret_prover_blind : CommitId]
CommitSession == [claims : Claims, keys : Seq(Device)]
PresentSession == [jwp : IssuedJwp, pk : IssuerKey, presentation_header : PresHeader,
                   messages : Seq(Value), reveal : SUBSET Nat, keys : Seq(Device),
                   secret_prover_blind : CommitId]
Proof == [session : PresentId, keybind_signatures : Seq(DeviceSignature)]
PresentedJwp == [presentation_header : PresHeader, issuer_header : Header,
                 payloads : Seq(Value \cup {Omitted}), proof : Proof]

TypeOK ==
  /\ DOMAIN commits \subseteq CommitId
  /\ commits \in [DOMAIN commits -> CommitSession]
  /\ DOMAIN presents \subseteq PresentId
  /\ presents \in [DOMAIN presents -> PresentSession]
  /\ live \subseteq (DOMAIN commits \cup DOMAIN presents)
  /\ signatures \subseteq DeviceSignature
  /\ requests \subseteq Request
  /\ issued \subseteq IssuedJwp
  /\ stored \subseteq StoredCredential
  /\ presented \subseteq PresentedJwp
  /\ results \subseteq [presented : PresentedJwp, pk : IssuerKey]

Init ==
  /\ commits = [c \in {} |-> {}]
  /\ presents = [p \in {} |-> {}]
  /\ live = {}
  /\ signatures = {}
  /\ requests = {}
  /\ issued = {}
  /\ stored = {}
  /\ presented = {}
  /\ results = {}

\* f with x mapped to v.
Extend(f, x, v) == [y \in DOMAIN f \cup {x} |-> IF y = x THEN v ELSE f[y]]

-----------------------------------------------------------------------------
(* Issuance.                                                               *)

\* committed_messages flattens the claims, commit_init draws the blind and
\* returns the state and the commit challenge.
CommitInit(c, claims, keys) ==
  /\ c \notin DOMAIN commits
  /\ commits' = Extend(commits, c, [claims |-> claims, keys |-> keys])
  /\ live' = live \cup {c}
  /\ UNCHANGED <<presents, signatures, requests, issued, stored, presented, results>>

\* The challenges out for device d to sign.
Challenges(d) ==
  {CommitChallenge(c) : c \in {x \in DOMAIN commits :
       \E i \in DOMAIN commits[x].keys : commits[x].keys[i] = d}}
  \cup UNION {{KeybindChallenge(p, i) : i \in {x \in DOMAIN presents[p].keys :
       presents[p].keys[x] = d}} : p \in DOMAIN presents}

\* A device answers a challenge it was sent, perhaps long after.
DeviceSign(d, challenge) ==
  /\ challenge \in Challenges(d)
  /\ signatures' = signatures \cup {[device |-> d, challenge |-> challenge]}
  /\ UNCHANGED <<commits, presents, live, requests, issued, stored, presented, results>>

\* commit_finalize counts the signatures and does not verify them; the
\* request carries the result and the pointers of committed_messages.
CommitFinalize(c, sigs) ==
  LET s == commits[c] IN
  /\ c \in DOMAIN commits \cap live
  /\ Len(sigs) = Len(s.keys)
  /\ Cardinality({r \in requests : r.session = c}) < MaxFinalize
  /\ requests' = requests \cup
       {[session |-> c, keys |-> s.keys, keybind_signatures |-> sigs,
         commitment |-> Commitment(Messages(s.claims), c),
         holder_pointers |-> Pointers(s.claims)]}
  /\ UNCHANGED <<commits, presents, live, signatures, issued, stored, presented, results>>

\* Mutant: the signatures are counted and not verified.
CommitCounts(r) ==
  LET s == commits[r.session] IN
  /\ r.keys = s.keys
  /\ r.commitment = Commitment(Messages(s.claims), r.session)
  /\ Len(r.keybind_signatures) = Len(r.keys)

\* core_commit_verify: the challenge binds C and the keys of the session
\* that made it, and every key has signed it under its own generator.
CommitVerifies(r) ==
  LET s == commits[r.session] IN
  /\ r.keys = s.keys
  /\ r.commitment = Commitment(Messages(s.claims), r.session)
  /\ Len(r.keybind_signatures) = Len(r.keys)
  /\ \A i \in DOMAIN r.keys :
       SigVerifies(r.keybind_signatures[i], r.keys[i], i, CommitChallenge(r.session))

\* Mutant: kb is taken from the caller as it is.
PointersAgree(r, kb) == Len(r.holder_pointers) = Len(r.commitment.messages)

\* jwp_issue's own checks: the pointers match the commitment's message count
\* and the key binding selector its keys.
RequestAgrees(r, kb) ==
  /\ Len(r.holder_pointers) = Len(r.commitment.messages)
  /\ (kb <=> Len(r.keys) > 0)

\* jwp_issue, then blind_sign, which verifies the commitment and signs.
JwpIssue(r, pk, claims, kb) ==
  LET known == Messages(claims)
      header == [issuer_claims |-> Pointers(claims),
                 holder_claims |-> r.holder_pointers, kb |-> kb]
  IN
  /\ RequestAgrees(r, kb)
  /\ CommitVerifies(r)
  /\ issued' = issued \cup
       {[issuer_header |-> header, payloads |-> known,
         signature |-> BPoint(pk, header, known, r.commitment, r.keys)]}
  /\ UNCHANGED <<commits, presents, live, signatures, requests, stored, presented, results>>

\* all_messages: the issuer's payloads, then the caller's; IssuedJwp::header
\* and all_messages check both halves' counts against the header.
CountsAgree(jwp, committed) ==
  /\ Len(jwp.payloads) = num_signer_messages(jwp.issuer_header)
  /\ Len(jwp.payloads) + Len(committed) = num_messages(jwp.issuer_header)

\* Mutant: the blind is not part of what is checked.
VerifiesUnderAnyBlind(jwp, pk, messages, keys, blind) ==
  jwp.signature = SplitB(pk, jwp.issuer_header, messages, keys,
                         jwp.signature.commitment.secret_prover_blind)

\* The pairing check of a blind signature against a rebuilt B.
SignatureVerifies(jwp, pk, messages, keys, blind) ==
  jwp.signature = SplitB(pk, jwp.issuer_header, messages, keys, blind)

\* accept: verify_blind_sign over the arguments the wallet kept.
Accept(jwp, pk, committed, keys, blind) ==
  /\ CountsAgree(jwp, committed)
  /\ SignatureVerifies(jwp, pk, jwp.payloads \o committed, keys, blind)
  /\ stored' = stored \cup {[jwp |-> jwp, pk |-> pk, committed |-> committed,
                             keys |-> keys, secret_prover_blind |-> blind]}
  /\ UNCHANGED <<commits, presents, live, signatures, requests, issued, presented, results>>

-----------------------------------------------------------------------------
(* Presentation.                                                           *)

\* Mutant: every message of a name is disclosed.
EverySlotNamed(header, requested) ==
  {i \in DOMAIN pointers(header) : pointers(header)[i] \in requested}

disclosures_for(header, requested) == {index_of(header, q) : q \in requested}

\* blind_proof_gen_init, which every binding exports too: whoever holds a
\* credential may disclose any of its messages, and none of the arguments is
\* held against the header or the signature.  With those of another session
\* it makes a proof all the same.
BlindProofGenInit(p, jwp, pk, ph, messages, reveal, keys, blind) ==
  /\ p \notin DOMAIN presents
  /\ reveal \subseteq 1 .. Len(messages)
  /\ num_signer_messages(jwp.issuer_header) <= Len(messages)
  /\ presents' = Extend(presents, p,
       [jwp |-> jwp, pk |-> pk, presentation_header |-> ph, messages |-> messages,
        reveal |-> reveal, keys |-> keys, secret_prover_blind |-> blind])
  /\ live' = live \cup {p}
  /\ UNCHANGED <<commits, signatures, requests, issued, stored, presented, results>>

\* present_init checks the counts, resolves the requested pointers and
\* begins the proof.  It does not verify the credential.
PresentInit(p, jwp, pk, ph, requested, committed, keys, blind) ==
  /\ CountsAgree(jwp, committed)
  /\ requested \subseteq Elements(pointers(jwp.issuer_header))
  /\ BlindProofGenInit(p, jwp, pk, ph, jwp.payloads \o committed,
                       disclosures_for(jwp.issuer_header, requested), keys, blind)

\* Mutant: a withheld message gets an empty payload instead of an empty slot.
SlotsEmptied(messages, reveal) ==
  [i \in 1 .. Len(messages) |-> IF i \in reveal THEN messages[i] ELSE <<>>]

\* One payload slot per message, empty where the message is withheld.
Slots(messages, reveal) ==
  [i \in 1 .. Len(messages) |-> IF i \in reveal THEN messages[i] ELSE Omitted]

\* blind_proof_gen_finalize counts the signatures, adapts them and does not
\* verify them.  The container is built by present_finalize from what
\* travelled in the state (PresentCarry), or by a holder that called
\* blind_proof_gen_init itself from what it passed there (PresentedJwp).
PresentFinalize(p, sigs) ==
  LET s == presents[p] IN
  /\ p \in DOMAIN presents \cap live
  /\ Len(sigs) = Len(s.keys)
  /\ Cardinality({q \in presented : q.proof.session = p}) < MaxFinalize
  /\ presented' = presented \cup
       {[presentation_header |-> s.presentation_header,
         issuer_header |-> s.jwp.issuer_header,
         payloads |-> Slots(s.messages, s.reveal),
         proof |-> [session |-> p, keybind_signatures |-> sigs]]}
  /\ UNCHANGED <<commits, presents, live, signatures, requests, issued, stored, results>>

\* The proof challenge the verifier recomputes from the container equals the
\* prover's: key, header, presentation header and disclosed messages are the
\* ones hashed at present_init.
ChallengeMatches(q, pk) ==
  LET s == presents[q.proof.session] IN
  /\ pk = s.pk
  /\ q.issuer_header = s.jwp.issuer_header
  /\ q.presentation_header = s.presentation_header
  /\ q.payloads = Slots(s.messages, s.reveal)

\* blind_core_proof_verify: challenge, every adapted device signature under
\* its randomised key, and the pairing, which holds when the B the prover
\* rebuilt is the B the issuer signed.
ProofVerifies(q, pk) ==
  LET s == presents[q.proof.session]
      sigs == q.proof.keybind_signatures
  IN
  /\ Len(q.payloads) = num_messages(q.issuer_header)
  /\ ChallengeMatches(q, pk)
  /\ Len(sigs) = Len(s.keys)
  /\ \A i \in DOMAIN s.keys :
       SigVerifies(sigs[i], s.keys[i], i, KeybindChallenge(q.proof.session, i))
  /\ SignatureVerifies(s.jwp, s.pk, s.messages, s.keys, s.secret_prover_blind)

\* What verify() returns: each disclosed payload under the pointer the
\* header gives its slot.
Disclosed(q) ==
  {[pointer |-> pointers(q.issuer_header)[i], value |-> q.payloads[i]] :
     i \in {x \in DOMAIN q.payloads : q.payloads[x] # Omitted}}

\* What the browser gets instead: an object with a member per pointer, in
\* which a later claim of a pointer replaces an earlier one.
DisclosedClaims(q) ==
  LET slots == {i \in DOMAIN q.payloads : q.payloads[i] # Omitted}
      name == pointers(q.issuer_header)
  IN  [p \in {name[i] : i \in slots} |->
         q.payloads[CHOOSE i \in slots :
                      name[i] = p /\ \A j \in slots : name[j] = p => j <= i]]

Verify(q, pk) ==
  /\ ProofVerifies(q, pk)
  /\ results' = results \cup {[presented |-> q, pk |-> pk]}
  /\ UNCHANGED <<commits, presents, live, signatures, requests, issued, stored, presented>>

-----------------------------------------------------------------------------
\* The wallet process ends and restarts: opaque session states are gone,
\* what the application stored (claims, keys, blind, credentials) is not.
WalletRestart ==
  /\ live # {}
  /\ live' = {}
  /\ UNCHANGED <<commits, presents, signatures, requests, issued, stored,
                 presented, results>>

\* The device signatures a caller can hand to a finalize call for n keys.
Answers(n) == [1 .. n -> signatures]

Next ==
  \/ \E c \in CommitId, claims \in HolderClaims, keys \in KeyLists :
       CommitInit(c, claims, keys)
  \/ \E d \in Device : \E challenge \in Challenges(d) : DeviceSign(d, challenge)
  \/ \E c \in DOMAIN commits : \E sigs \in Answers(Len(commits[c].keys)) :
       CommitFinalize(c, sigs)
  \/ \E r \in requests, pk \in IssuerKey, claims \in IssuerClaims, kb \in BOOLEAN :
       JwpIssue(r, pk, claims, kb)
  \/ \E jwp \in issued, pk \in IssuerKey, claims \in HolderClaims,
        keys \in KeyLists, blind \in DOMAIN commits :
       Accept(jwp, pk, Messages(claims), keys, blind)
  \/ \E p \in PresentId, jwp \in issued, pk \in IssuerKey, ph \in PresHeader,
        claims \in HolderClaims, keys \in KeyLists, blind \in DOMAIN commits :
       \E requested \in SUBSET Elements(pointers(jwp.issuer_header)) :
         PresentInit(p, jwp, pk, ph, requested, Messages(claims), keys, blind)
  \/ \E p \in PresentId, jwp \in issued, pk \in IssuerKey, ph \in PresHeader,
        claims \in HolderClaims, keys \in KeyLists, blind \in DOMAIN commits :
       \E reveal \in SUBSET (1 .. Len(jwp.payloads \o Messages(claims))) :
         BlindProofGenInit(p, jwp, pk, ph, jwp.payloads \o Messages(claims), reveal, keys, blind)
  \/ \E p \in DOMAIN presents : \E sigs \in Answers(Len(presents[p].keys)) :
       PresentFinalize(p, sigs)
  \/ \E q \in presented, pk \in IssuerKey : Verify(q, pk)
  \/ WalletRestart

Spec == Init /\ [][Next]_vars

-----------------------------------------------------------------------------
(* Properties.                                                             *)

\* Device d has answered the given challenge.
Signed(d, challenge) == [device |-> d, challenge |-> challenge] \in signatures

(* Every pair of pointer and value that verify() returns (flow.rs: "every   *)
(* pointer/value pair here is one the issuer actually signed") is one an     *)
(* issuer asserted under that key or the wallet committed to under that     *)
(* very pointer, in one and the same credential.                            *)
LearnedWasSigned ==
  \A r \in results : \E jwp \in issued :
    /\ jwp.signature.pk = r.pk
    /\ jwp.issuer_header = r.presented.issuer_header
    /\ \E asserted \in IssuerClaims :
         /\ jwp.issuer_header.issuer_claims = Pointers(asserted)
         /\ LET committed == commits[jwp.signature.commitment.secret_prover_blind].claims
            IN  Disclosed(r.presented) \subseteq Elements(asserted) \cup Elements(committed)

(* A presentation verifies only if every key the issuer bound the           *)
(* credential to has answered that presentation's own challenge: answers to *)
(* another presentation, to the commit challenge or of another device never *)
(* make it verify (blind_core_proof_verify after the count-only             *)
(* blind_proof_gen_finalize).                                               *)
LearnedWithConsent ==
  \A r \in results : \E jwp \in issued :
    LET p == r.presented.proof.session
        bound == commits[jwp.signature.commitment.secret_prover_blind].keys
    IN
    /\ jwp = presents[p].jwp
    /\ \A i \in DOMAIN bound : Signed(bound[i], KeybindChallenge(p, i))

(* No credential exists unless every key in it proved possession by signing *)
(* that commitment's own challenge (blind_sign), and the header names the   *)
(* committed claims in the order they were committed.                       *)
IssuedWithPossession ==
  \A jwp \in issued :
    LET c == jwp.signature.commitment.secret_prover_blind IN
    /\ c \in DOMAIN commits
    /\ jwp.issuer_header.holder_claims = Pointers(commits[c].claims)
    /\ jwp.signature.commitment.messages = Messages(commits[c].claims)
    /\ \A i \in DOMAIN commits[c].keys : Signed(commits[c].keys[i], CommitChallenge(c))

(* accept() succeeds only with the blind, the messages and the set of keys  *)
(* of the one commit session the credential was issued from: what another   *)
(* session kept never passes (verify_blind_sign).                           *)
StoredIsOwn ==
  \A s \in stored :
    LET own == commits[s.secret_prover_blind] IN
    /\ s.secret_prover_blind = s.jwp.signature.commitment.secret_prover_blind
    /\ s.committed = Messages(own.claims)
    /\ KeySum(s.keys) = KeySum(own.keys)
    /\ s.jwp.issuer_header.holder_claims = Pointers(own.claims)

(* The header's kb, from which a relying party reads whether the credential *)
(* is key bound, agrees with what a verified proof covers, though verify()  *)
(* never compares the two: only jwp_issue does.                             *)
KbMeansBound ==
  \A r \in results :
    r.presented.issuer_header.kb <=> presents[r.presented.proof.session].keys # <<>>

(* The object a browser indexes by pointer has every claim that verify()    *)
(* returned in its list: none is replaced by another of its name, though   *)
(* issuer and wallet may both have a claim of that name (js_api.rs: "it     *)
(* cannot disagree with what every other binding returns").  It does not    *)
(* hold: a proof may disclose both.                                        *)
NothingReplaced ==
  \A r \in results : \A c \in Disclosed(r.presented) :
    DisclosedClaims(r.presented)[c.pointer] = c.value

(* A presentation of the messages that present_init picks for some pointers *)
(* ("disclosing exactly `requested_pointers`") gives a relying party just   *)
(* those pointers, in a browser too: each name once, with the value that    *)
(* verify() returned, though both parties may have a claim of that name.    *)
RequestedIsShown ==
  \A r \in results :
    LET q == r.presented IN
    \A requested \in SUBSET Elements(pointers(q.issuer_header)) :
      presents[q.proof.session].reveal = disclosures_for(q.issuer_header, requested) =>
        /\ DOMAIN DisclosedClaims(q) = requested
        /\ \A c \in Disclosed(q) : DisclosedClaims(q)[c.pointer] = c.value

(* What accept() let in can be presented: a presentation made with the      *)
(* arguments of a stored credential, its keys in the order they were        *)
(* committed and each challenge answered by its own key, verifies           *)
(* ("both of which otherwise surface much later, as a presentation that     *)
(* will not verify", flow.rs).                                              *)
StoredCanBePresented ==
  \A q \in presented, s \in stored :
    LET x == presents[q.proof.session] IN
    ( /\ x.jwp = s.jwp
      /\ x.pk = s.pk
      /\ x.messages = s.jwp.payloads \o s.committed
      /\ x.keys = s.keys
      /\ x.secret_prover_blind = s.secret_prover_blind
      /\ s.keys = commits[s.secret_prover_blind].keys
      /\ q.proof.keybind_signatures = [i \in DOMAIN x.keys |->
           [device |-> x.keys[i],
            challenge |-> KeybindChallenge(q.proof.session, i)]] )
    => ProofVerifies(q, s.pk)

-----------------------------------------------------------------------------
(* The inductive invariant: what each stored thing says of the session it   *)
(* came from.  A session never changes once begun, so what was checked when *)
(* a thing was made still holds of it later.                               *)

AnswersWereAsked ==
  \A x \in signatures : x.challenge \in Challenges(x.device)

RequestsMatchSession ==
  \A r \in requests :
    LET s == commits[r.session] IN
    /\ r.session \in DOMAIN commits
    /\ r.keys = s.keys
    /\ r.commitment = Commitment(Messages(s.claims), r.session)
    /\ r.holder_pointers = Pointers(s.claims)
    /\ \A i \in DOMAIN r.keybind_signatures : r.keybind_signatures[i] \in signatures

\* The credential that JwpIssue makes for session s, named c.
IssuedFrom(jwp, c, s) ==
  LET b == jwp.signature IN
  /\ \E asserted \in IssuerClaims :
       /\ jwp.issuer_header.issuer_claims = Pointers(asserted)
       /\ jwp.payloads = Messages(asserted)
  /\ jwp.issuer_header.holder_claims = Pointers(s.claims)
  /\ (jwp.issuer_header.kb <=> Len(s.keys) > 0)
  /\ b = BPoint(b.pk, jwp.issuer_header, jwp.payloads,
                Commitment(Messages(s.claims), c), s.keys)
  /\ \A i \in DOMAIN s.keys : /\ Slot[s.keys[i]] = i
                              /\ Signed(s.keys[i], CommitChallenge(c))

IssuedMatchesSession ==
  \A jwp \in issued :
    LET c == jwp.signature.commitment.secret_prover_blind IN
    /\ c \in DOMAIN commits
    /\ IssuedFrom(jwp, c, commits[c])

StoredVerifies ==
  \A s \in stored :
    /\ s.jwp \in issued
    /\ CountsAgree(s.jwp, s.committed)
    /\ SignatureVerifies(s.jwp, s.pk, s.jwp.payloads \o s.committed, s.keys,
                         s.secret_prover_blind)

SessionsInRange ==
  \A p \in DOMAIN presents :
    /\ presents[p].jwp \in issued
    /\ presents[p].reveal \subseteq 1 .. Len(presents[p].messages)

PresentedMatchesSession ==
  \A q \in presented :
    LET s == presents[q.proof.session] IN
    /\ q.proof.session \in DOMAIN presents
    /\ ChallengeMatches(q, s.pk)
    /\ \A i \in DOMAIN q.proof.keybind_signatures :
         q.proof.keybind_signatures[i] \in signatures

ResultsVerify ==
  \A r \in results : r.presented \in presented /\ ProofVerifies(r.presented, r.pk)

(* Each request, credential, presentation and result agrees with the        *)
(* session it was made in, and each signature check that let one in still   *)
(* succeeds; the safety properties above follow from it.                    *)
IInv ==
  /\ TypeOK
  /\ AnswersWereAsked
  /\ RequestsMatchSession
  /\ IssuedMatchesSession
  /\ StoredVerifies
  /\ SessionsInRange
  /\ PresentedMatchesSession
  /\ ResultsVerify

-----------------------------------------------------------------------------
(* What the flow promises.                                                 *)

\* The claims of a header under a message vector, restricted to some slots.
ClaimsAt(header, messages, slots) ==
  {[pointer |-> pointers(header)[i], value |-> messages[i]] : i \in slots}

\* The claims a presentation session is about to show; a message past the
\* header's last name is no claim, and no proof with one verifies.
Showing(p) ==
  LET s == presents[p]
      header == s.jwp.issuer_header
  IN  ClaimsAt(header, s.messages, s.reveal \cap DOMAIN pointers(header))

CommitmentOf(c) ==
  [id |-> c, claims |-> Elements(commits[c].claims), devices |-> Elements(commits[c].keys)]

BindingOf(x) == [device |-> x.device, id |-> x.challenge.session]

CredentialOf(jwp) ==
  LET b == jwp.signature
      messages == b.known \o b.commitment.messages
  IN [issuer |-> b.pk, id |-> b.commitment.secret_prover_blind,
      claims |-> ClaimsAt(jwp.issuer_header, messages, DOMAIN messages),
      devices |-> {d \in Device : b.key_sum[d] > 0},
      kb |-> jwp.issuer_header.kb]

ShowOf(x) ==
  [device |-> x.device,
   header |-> presents[x.challenge.session].presentation_header,
   claims |-> Showing(x.challenge.session)]

LearnedFrom(r) ==
  [issuer |-> r.pk, header |-> r.presented.presentation_header,
   claims |-> Disclosed(r.presented), kb |-> r.presented.issuer_header.kb]

\* What the devices have answered in one of the two flows.
AnswersIn(flow) == {x \in signatures : x.challenge.flow = flow}

Commitments == {CommitmentOf(c) : c \in DOMAIN commits}
Bindings == {BindingOf(x) : x \in AnswersIn("commit")}
Credentials == {CredentialOf(jwp) : jwp \in issued}
Shows == {ShowOf(x) : x \in AnswersIn("present")}
Learned == {LearnedFrom(r) : r \in results}

ClaimSets(lists) == {Elements(claims) : claims \in lists}

Promised == INSTANCE Promise WITH
  Claim <- [pointer : Pointer, value : Value],
  Assertable <- ClaimSets(IssuerClaims),
  Committable <- ClaimSets(HolderClaims),
  commitments <- Commitments,
  bindings <- Bindings,
  credentials <- Credentials,
  shows <- Shows,
  learned <- Learned

(* Every behaviour of the calls, whatever the order, loss, repetition or    *)
(* mix-up of sessions, is a behaviour of Promise: in particular a step of   *)
(* verify() that returns something new is backed by one credential and by   *)
(* each of its devices' consent to those claims under that header.          *)
FlowKeepsPromise == Promised!Spec
=============================================================================
