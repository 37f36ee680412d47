# Verification of zk-cred-bbs

TLA+ models of the credential library in `src/`: the issuance and
presentation protocol, the group equations under it, the octets and texts that
cross from call to call, the claim maps of the issuer header, the memory rules
of the C boundary and the key generation tool; TLC runs over small instances;
and proofs that TLAPS checks for every value of the constants.

## The system

The library issues and presents credentials signed with *blind BBS*. Its core
(`src/src/*.rs`) is pure: octets in, octets out, no I/O, no global state. What
lasts is what its callers keep and send to each other, so the protocol is in
the callers' hands, and the library must be right whatever they do with it.

    wallet                          issuer                    relying party
    committed_messages
    commit_init   --challenge--> device keys
    commit_finalize <--answers--
        --request-->                jwp_issue (blind_sign)
    accept <--credential--
    present_init  --challenges-> device keys
    present_finalize <--answers--
        --presentation-->                                     verify

| Component | State it keeps | Operations | What makes it correct |
|---|---|---|---|
| flow (`flow.rs`, `blind.rs`, `go_ffi.rs`) | none of its own; opaque session states between init and finalize, held by the caller | the calls above | nothing verifies without the consent of every bound device to exactly that presentation; what verifies was signed; what was accepted is the wallet's own and can be presented |
| blind, bbs (`blind.rs`, `bbs.rs`) | none | commit, sign, verify, proof generation and verification | both sides rebuild the same group elements from the same vector; the prover blind's slot shifts every later index |
| keybind (`keybind.rs`) | the attempts of one call | sign, verify, adapt_sig | a signature verifies under one key, generator and message; the signer's retry ends, and spends no attempt in vain |
| claim maps (`jwp.rs`) | the issuer header's octets | build_cmap, build_cmap_from_pointers, parse, index_of | wallet and issuer number the messages alike without seeing each other's half; each message has one name |
| containers (`jwp.rs`) | none | encode, decode | one slot per message; withheld and empty stay different |
| bbs-keygen (`bin/bbs-keygen.rs`, `keygen.rs`) | two files | generate, `--force`, `--check` | a reported pair is a pair; existing keys are not replaced |
| C ABI (`go_ffi.rs`, `bbs.go`) | output buffers, error strings, copied argument lists | issue, sign, verify, free | each block is freed once, as what it is, by its owner; each caller gets its own answer |
| codecs (`blind.rs`, `bbs.rs`, `flow.rs`) | none | state, commitment, signature, proof and carry octets | a string is read as what it was written as, whole or not at all |
| facades (`ffi_api.rs`, `js_api.rs`), generated bindings, tooling | none | argument conversion | what was asked for is what the browser's object has |

What is hard here is not concurrency inside a call, of which there is none,
but *between* calls. Callers on several threads share one heap across the C
boundary. Sessions are split around device signatures and run side
by side; the finalize calls do not verify the signatures they fold in;
`present_init` does not verify the credential; keys, blinds and committed
messages come back from storage and may be another session's; the octet strings
a caller keeps have no tag that says what they are; messages are
repeated, lost and overtaken; a restart loses session states whose challenges
are already out. `PROJECT.json` lists each such hazard at its line with the
properties that would catch it.

## Modules

| Module | What it is |
|---|---|
| `Flow` | the protocol: one action per call, symbolic cryptography, its safety properties, the inductive invariant `IInv` and the refinement mapping to `Promise` |
| `Promise` | the abstract specification: commitments, bindings, credentials, consents, learned claims; no messages, sessions or cryptography |
| `MCFlow` | constants of the runs `flow_*` |
| `FlowProofs` | the theorems of `Flow`, and that it implements `Promise` |
| `Codec` | the octet layouts: a writer and a reader each |
| `Split` | texts cut at a mark and joined with it, for `Container` and `Jwp` |
| `Container` | the text of an issued and of a presented JWP: base64url, groups, parts |
| `Schnorr` | the device's signing loop |
| `Wire` | composes the three: the calls once more, now handing strings to each other, while devices sign |
| `MCWire` | constants of the run `wire` |
| `SeqLemmas` | induction over numbers and sequences, concatenation, splitting, joining: the lemmas that the proofs about strings, texts and sums rest on |
| `WireProofs` | each reader of `Codec` reads back what its writer wrote, and nothing of another kind; the same of the texts of `Container`, also cut short or two in one; the theorems of `Wire`: what its strings are, and the signing loop |
| `CAbi` | callers inside the library at once, over one heap |
| `MCCAbi` | constants and allocator of the runs `cabi*` |
| `CAbiProofs` | the theorems of `CAbi` |
| `BlindSuite` | one blind credential, every scalar computed: commitment, signature, proof, device signatures |
| `MCBlindSuite` | constants of the run `blind` |
| `BlindSuiteAlgebra` | scalars modulo a prime, points, sums of products, index sets and the oracle, for the next |
| `BlindSuiteProofs` | the theorems of `BlindSuite` |
| `Jwp` | the claim maps, on strings of character codes |
| `MCJwp` | constants of the runs `jwp*` |
| `JwpProofs` | the theorems of `Jwp` |
| `Keygen` | `bbs-keygen`: any number of runs over two files |
| `MCKeygen` | symmetry of the runs `keygen*` |
| `KeygenProofs` | the theorems of `Keygen` |

### Flow

State: `commits` and `presents` hold what was passed to each `commit_init` and
`present_init` (the session's content, which the opaque state carries and the
challenge hashes); `live` the sessions whose state the wallet still has;
`signatures` the devices' answers; `requests`, `issued`, `stored`,
`presented`, `results` what the calls returned. All of them but `live` only
grow: a message once sent can be delivered late, twice or never, and any
session's results can be handed to any other call.

Actions: `CommitInit`, `DeviceSign`, `CommitFinalize`, `JwpIssue`, `Accept`,
`PresentInit`, `BlindProofGenInit`, `PresentFinalize`, `Verify`,
`WalletRestart`. Each is one call
of the library with all its checks; a call that returns an error changes
nothing, so it is no step. Callers are free in what the library lets them be
free in: `Accept` and `PresentInit` are tried with every combination of
committed claims, key list and blind, the finalize calls with every list of
answers that exists. A holder need not go through `present_init`, which
discloses at most one message of a name: `BlindProofGenInit` is the call below
it, which every binding exports, with any choice of messages, and
`PresentFinalize` stands for finishing either (a `PresentedJwp` can be assembled
around the holder's own proof). The issuer and the relying party use whichever issuer key
they like.

Cryptography is symbolic: a group element is the record of what was summed
into it, a hash is the identity of what was hashed. A commitment is thus its
messages and blind; the signed point `BPoint` is the issuer key, header and
generator counts (the domain), the issuer's messages, the commitment, and the
keys as a bag, since a sum has no order; a device signature verifies under one
key, one position (`Slot[d]`, the generator the key was made over) and one
challenge. What this takes on trust is exactly what BBS, Schnorr and the hash
are assumed to give: no forgery, no collisions. The parties that hold no
secret of a device or an issuer cannot make its answers; they can reuse every
one there is.

Properties:

- `LearnedWasSigned`: what `verify` returns was asserted by an issuer under
  that key, or committed by the wallet under that very pointer, in one credential.
- `LearnedWithConsent`: a verified presentation has an answer of *every* bound
  device to that presentation's own challenge.
- `IssuedWithPossession`: every key in a credential signed its commitment's
  challenge, and the header has the committed claims' names in order.
- `StoredIsOwn`: `accept` passes with one session's arguments only.
- `KbMeansBound`: the header's `kb` tells whether a verified proof is key
  bound, although `verify` never compares the two.
- `StoredCanBePresented`: what was accepted verifies later, when each
  challenge is answered by its key and the keys keep their order. (That the
  order matters is itself something the model shows: `accept` is insensitive to it.)
- `RequestedIsShown`: a verified presentation of the messages that
  `disclosures_for` finds for some pointers shows just those pointers, in the
  browser's `disclosed` object too, which has one member per pointer: each name
  once and with the value `verify` returned, also when issuer and wallet both
  have a claim of that name.
- `NothingReplaced`, which does not hold: that object has every claim that
  `verify` returned, whatever the holder disclosed.
- `FlowKeepsPromise`: every behaviour of `Flow` is one of `Promise`. The mapping
  forgets messages, sessions and answers, and reads a credential as the claims
  of both parties joined, its devices as those of the summed keys.

### BlindSuite

One credential, from `commit_init` to `blind_proof_verify`, with the equations
of `blind.rs`, `bbs.rs` and `keybind.rs` computed instead of assumed: scalars
are integers modulo a prime, a point is the vector of its coefficients over
the generators, and the pairing checks become equations of points because the
issuer's logarithm is known to the model. `hash_to_scalar` is an oracle:
`asked` lists what has been hashed, a new input gets the next of `Answers`, and
what nobody has hashed has an answer that nothing else has (1, which is not among
them). Random scalars come from a stream and are fresh on every call, as they
are from the system's source (the seeded source, which repeats itself, serves
test vectors only). `BlindSuiteAssumption` says what the cryptography takes for
granted: the order is prime, no scalar drawn is zero, no two inputs
have one answer, and neither the stream nor the answers run out (`Needed` bounds what
one credential takes). Each fails by accident with a chance of about one in the order.
Results carry what the devices and the wallet know of them (nonces, openings,
answers before they are adapted), for the properties to speak of;
no check reads these fields. `NotYet` and `Refused` stand in place of a result.

Actions: `CommitInit`, `CommitFinalize`, `BlindSign`, `Accept`
(`verify_blind_sign`), `ProofGenInit`, `ProofGenFinalize`, `Verify`, each the
whole call. Devices may answer in the wrong place or twice. `Accept` and
`ProofGenInit` are tried with the signed arguments and with each one of them
changed (a message, the split, the keys' order or absence, header, blind), and
`Verify` with what was shown and with each part of that changed; the two
calls on a signature are tried one at a time, as neither leaves a trace the
other could see.

- `PossessionExact`, `AcceptExact`, `ProofExact`: each check passes *exactly*
  when both sides mean the same. These are the three facts `Flow` takes as
  equality of terms (`CommitVerifies`, `SignatureVerifies`, `ProofVerifies`),
  including what a reader may not expect: exchanged keys pass
  `verify_blind_sign` and fail when presented. Two accidents show in them because
  the code can meet them whatever is drawn: an answer of the oracle may be the negated issuer
  key, and `blind_sign` then refuses (`KeyCancels`); and a device's answer may be
  zero, in which case no generator is left in it and it is good at any position.
- `CommitmentsOpen`: a Pedersen commitment in a verified proof opens to the
  message that was chosen. `proof_index` is written twice, in prover and
  verifier, so a wrong shift would be wrong alike on both sides, and no proof
  would fail.

### Jwp

A document is the set of its leaves' paths, a path a sequence of names, a name
a sequence of character codes, so that escaping, joining, trimming, splitting
and byte order are what they are in the code; values are left out. That no path
of a document begins another (`IsDocument`) is what a JSON object is: a leaf is
not an object with leaves in it. `JwpIssue` writes the header from the issuer's document and the request's pointers, in
whatever order those arrive; `Parse` is the wallet reading it.

- `SlotsAgree`: the name the header gives each message is the one its author
  put the value under (names without `/`, `~`, and not empty).
- `EveryMessageNamed`: whatever the names, a header that parses names each
  signed message once. The merging of names that begin with empty ones always
  costs an index, which the coverage check of `parse` notices.
- `NamedIsIssued`: documents without empty names that fit together are issued
  and can be read: slashes and tildes never make two claims collide.
- `DisclosesRequested`: `index_of` finds the claim asked for, the issuer's when
  both halves have one of that name.

### Keygen

A run is a sequence of file system calls (test, test, open, write, open,
write, read, read, compare), interleaved with other runs' calls, failing or
killed at any of them. A run draws one pair, so a file holds a run's name.

- `AllSucceededMeansPair`: however many runs write at once, if every one of
  them reports success the two files are a pair, and one of theirs: the run that
  printed this public key, which is printed from memory, is among them.
- `UnforcedLeavesFiles`: a run without `--force` that begins when a file is
  there changes neither.

### CAbi

State: the heap, each block with the kind of its free function, its length and
its owner; and per caller where it stands, its call, its copied argument lists,
the buffer the library has not handed out yet, its variables behind the
out-parameters, and what it has read. Go callers are the methods of `Native` in
`bbs.go` (`byteArrays`, the C call, `takeError`, `GoBytes`, the frees, the
deferred free); raw callers use the functions as the header documents, with
null out-parameters and an error variable that outlives the call.

Actions: `GoCall`, `RawCall`, then `Body` (the `catch_unwind` closure, which may
succeed, fail or panic), `FinishOk`, `FinishNoOut`, `FinishFailed`
(`finish_buffer` and its two written-out copies), `takeError`, `CopyOut`,
`free_buffer`, `Return`. What a body refuses before the algebra
(`bytes_or_empty`, selectors, disclosure codes, the pointers' JSON) is computed
from the arguments (the Go wrapper marshals a nil `HolderPointers` to `null`,
which `jwp_issue` refuses); what the algebra answers is left open, `Flow` has it. The
allocator is a constant; the instance's reuses the lowest free address first,
the worst case for whoever frees twice or reads late.

- `NoUndefined`: no double, mismatched or stale free, no null or stale read.
- `EveryBlockHeld`: nothing leaks, at any moment: what is allocated is held by
  a caller that will free it.
- `AnswersAreOwn`: a Go method returns its own call's octets or error text, and
  says "panic" exactly if it was one.
- `EveryBlockFreed`: each block is freed in the end (under fairness, below).

### Codec, Container, Schnorr, Wire

`Codec` has one writer and one reader per string of the blind layer, over units
of 8 octets (every field is a multiple of that), and the carry of a
presentation over octets proper; `Container` has the two JWP texts over
characters, with base64url computed. A reader yields the values it accepts,
none or one, and does what the code does with octets that are not its own: a
scalar is read out of any octets but those that start with a point's
compression flag, a count out of something else is a number too large to be a
length.

`Wire` hands these strings from call to call: `CommitInit`, `CommitFinalize`,
`BlindSign` and `JwpIssue`, `ProofGenInit` and `PresentInit`,
`ProofGenFinalize` and `PresentFinalize`, each of which reads the octets it is
given. A caller keeps every string it ever got and may hand any of the blind
layer's to any of its calls; containers and carries go to the calls of their own layer
(a carry's and a container's inner string is there the octets that number its
session). Whether a proof or commitment *verifies* is `Flow`'s and
`BlindSuite`'s matter; here a call succeeds if it can read what it is given.
Meanwhile the devices sign: `DeviceSign` starts a call of `sign`, and
`Continue` is one turn of its loop (`Succeed`, `Retry`, `FailToDraw`, `GiveUp`),
with a source that draws afresh or one that is a function of its seed.

- `FinishedIsOneInit`: what was finished is one session's init, field for
  field, with the answers handed in, each adapted with the randomizer of its
  place; a presentation's headers and payloads are those of its carry.
- `EachReadAsItself`: each string of the blind layer is read by its own reader
  and no other. The one exception is harmless and worth knowing: the commitment of a
  holder without keys is its state octet for octet. With one key a finished proof is
  exactly as long as its state; only a point's compression flag tells them apart.
- `CutIsRefused`: a string cut anywhere, or two joined, are refused by the
  reader of their kind. (Of a proof state without keys the last 32 octets can be cut and
  what is left be read as a finished proof, which is what it is.)
- `TextReadAsItself`: credentials and presentations are read back from their
  text as written, an empty value as empty (`_`) and a withheld one as withheld;
  neither is taken for the other, and a text cut short loses at most the end of its
  signature or proof. (The other way round is not so: bits left over in a last
  character are not looked at, so several texts are one container.)
- `MessagesCounted`: the relying party recovers the number of messages from the
  proof's length, and it is the number of slots.
- `FailsOnlyAfterAllNonces`: `sign` gives up only when as many *different*
  nonces as it has attempts were refused, also from a source that repeats itself.
- `EverySigningEnds`: every call of `sign` returns.

## Runs

| Run | Instance | Question |
|---|---|---|
| `flow_sessions` | 2 commitments, 2 presentations, 1 device key bound, a second device that is not, 1 finalize per state | can sessions be crossed? |
| `flow_keys` | 1 of each, key lists `<<>>`, `<<d1>>`, `<<d1,d2>>`, `<<d2,d1>>`, one claim of each party under the same name, every choice of messages, 2 finalize calls per state | is key binding what the header says, in every layout, with retries and restarts; is the promise kept; does a relying party see what was asked for when a name is used twice? |
| `blind` | modulo 1013; 1 or 2 issuer messages, 0 to 2 committed, 0 to 2 keys, 2 headers of each kind, all disclosures | do the equations accept what they should, and nothing else? |
| `wire` | 6 strings of 3 sessions, 3 shapes of commitment and of proof, 2 signing calls of 2 attempts | are strings read as what they are, and do signers end? |
| `cabi` | a Go caller and a C caller, 5 addresses, 2 lengths, lists of at most 1 item | is memory freed once, and is each answer its own? |
| `keygen` | 3 runs | do concurrent or interrupted runs go unnoticed? |
| `jwp` | documents of 1 or 2 leaves, at most 2 deep, over ordinary, empty, slashed and tilded names; limit 3 | are messages numbered and named alike? |
| `keygen_refuse`, `keygen_mode`, `jwp_pointer`, `jwp_ready`, `flow_replaced` | small | the five disagreements below |

Why the bounds are enough to be of interest: crossing sessions takes two of
each kind, a credential without committed claims is among the shapes of `blind`
(and of the proofs); a wrong key order takes two keys, of different positions; `keygen` needs two runs to mix files and
a third to hide it; name merging takes two paths of which one begins with an
empty name, and the size limit of 3 can be exceeded only by both halves
together. In `blind`, an equation that is not an identity survives one choice
of scalars with a chance of its degree in 1013, and every case is run in 18
shapes; what a wrong index could mix up takes two messages on each side of the
split, and two keys. In `cabi`, a stale pointer does harm once its address is
handed out again, for which two callers suffice, and 5 addresses are what both
can hold at once. In `wire`, six strings are a whole issuance and presentation,
or a part of one and mix-ups; shapes have 0, 1 and 2 keys, committed messages on
neither or both sides, everything or only a part disclosed, and one empty
message: the kinds whose lengths coincide do so at no key or one. `MaxAttempts` is 64 in the code and 2 here, where a source that
repeats itself already fails; the proof covers any number.

Bounds on counters, each in a guard: `MaxFinalize` (finalize calls per state) in
`Flow`; `MaxMade`, `MaxSessions`, `MaxKeys`, `MaxAsked` in `Wire` (sessions are at most
255, as a session's number is one octet of the containers and carries that stand
for it); `MaxItems` in `CAbi`. Symmetry is used for session and run names only, never with a property
that tells them apart. The flow, blind, wire, jwp and keygen runs stop when the instance's
sessions are used up, hence `CHECK_DEADLOCK FALSE`; `cabi` has no end, and deadlock is
checked.

Fairness is assumed in two places. `CAbi`: a caller that has entered a call goes on
(`WF` of `Continue`), as a call waits for nothing and the schedulers of the Go
runtime and the system run every runnable thread; nobody is obliged to begin a
call. `Wire`: a device goes on with a call of `sign` (`WF` of `Continue`), whose loop
waits for nothing either. The protocol has no fairness and claims no
liveness: a wallet, a device or an issuer may stop at any point.

## What the runs found

Five statements in the repository are not what the code does.

1. `keygen_refuse`: "Refuse rather than overwrite" (`bin/bbs-keygen.rs:61`).
   The test and the truncating open are separate calls, so of two runs one
   replaces the other's key without `--force`.
2. `keygen_mode`: "The secret key is written `0600`" (`bin/bbs-keygen.rs:16`).
   With `--force` an existing file keeps its mode, and the tool still prints
   `(mode 0600)`.
3. `jwp_pointer`: `ClaimIndex::pointer` is documented as the RFC 6901 pointer
   (`jwp.rs:94`). Names are escaped when stored and again when read, so `a/b`
   becomes `/a~01b`; consistently so, hence no proof fails, but a request by the
   real pointer finds nothing.
4. `jwp_ready`: `jwp_issue` returns a JWP "ready to hand to the wallet"
   (`go_ffi.rs:351`). The two maps are held to 512 messages one by one, and
   `parse` holds their sum to it.
5. `flow_replaced`: the browser's object "cannot disagree with what every other
   binding returns" (`js_api.rs:387`). It is a map by pointer. A holder that calls
   `blindProofGenInit` itself can disclose both messages of a name that issuer
   and wallet share; `verify` then returns two claims and the object has only the
   later, the wallet's, in place of the issuer's.

## Proofs

`FlowProofs` proves, for all devices, sessions, claims, key lists and bounds,
`TypeOK`, `IInv` and the safety properties above. The only assumption is
`FlowAssumption`: the types of the constants, that `Omitted` is no value and
that commit and present sessions have different names. The properties are not
inductive: `LearnedWithConsent`, for one, needs that the credential a
presentation names was checked against the session that made it. `IInv` says
of every stored thing what it has in common with its session
(`AnswersWereAsked`, `RequestsMatchSession`, `IssuedMatchesSession`,
`StoredVerifies`, `SessionsInRange`, `PresentedMatchesSession`,
`ResultsVerify`). It is kept because a session never changes once begun and the
sets only grow: a step can disturb only the conjunct about what it adds. Lemmas
about `BPoint`, `SplitB` and `Slots` then give each property from the equality of
the signed and the rebuilt point. `Invariant` is the theorem that `IInv` always
holds; run `flow_keys` checks it on its instance.
`RequestedClaimsArrive`, the theorem of `RequestedIsShown`, rests on
`disclosures_for` picking one slot per name: of the slots it picks, two with one
pointer are one slot. Since a session may disclose any messages, `IInv` says no
more of them than that they are messages; that their number is the header's
follows from the check of a proof, not from its making.

`FlowImplementsPromise` is the refinement, `Spec => FlowKeepsPromise`. Each call maps
to one step of `Promise` or to none: `CommitInit` to a commitment, `DeviceSign`
to a device's consent, `JwpIssue` to a credential, `Verify` to what is learned; the others
are stutters. The mapped commitments, bindings and shows are read off sessions and
answers, so a step must not change what older ones map to: that needs
`AnswersWereAsked` (an answer is to a challenge of a session already there).
That a learned claim is one of a credential with every bound device's
consent is `LearnedWasSigned` and `LearnedWithConsent` in the terms of `Promise`.

`KeygenProofs` proves `KInv`, `AllSucceededMeansPair` and
`UnforcedLeavesFiles` for any number of runs, from `KeygenAssumption` (the four
kinds of content differ). `KInv` says that what a run has read is still in the
file unless a run that could have replaced it is unfinished or did not succeed:
when all have succeeded, nothing is left to have hidden a mix-up.

`CAbiProofs` proves `IInv`, `NoUndefined`, `EveryBlockHeld` and `AnswersAreOwn`
for any number of callers, any heap and any allocator that hands out free
blocks (`CAbiAssumption`). The argument: a block names its owner, and where a
caller stands in its call says exactly which live blocks it holds (`Holds`), of
which kind and length. So what one caller allocates or frees is no block of
another's, and each step only has to keep its own caller's part of `IInv`. One part is not
local in time: a variable that was passed for an error is null
after a success (`ErrorTellsFailure`), or the next `takeError` would free again.

`SeqLemmas` makes the rest possible. The induction theorems of the library take
a predicate as an operator, which the provers cannot instantiate; stated of a
*set* of numbers or of sequences, the same principle is first-order
(`NumberInduction`, `SequenceInduction`), and a property is proved by naming the
set of what has it. From this follow what `FlattenSeq` makes of a sequence of
sequences and what `SplitBy` makes of a text: parts without the mark, joined with
it, are split into themselves again (`SplitJoined`), and a text that was cut has
the parts it had, the last one cut (`CutOfJoined`).

`WireProofs` begins with what each reader makes of what each writer wrote, for any
number of messages and keys: the place where a reader looks for its i-th item is
the width of the types before it, where a writer put an item if the items before
it have those types (`ReadBack`); an item of another type at that place is
refused (`ReadRefused`). Two kinds are then told apart by their lengths, or by the
flag of a point. The same follows for the text of containers, from
base64url (three octets are four characters; `Base64ReadBack`) over groups to the
two containers, and for texts cut short or joined.

From these come the six safety properties of `Wire`, for any number of
sessions (up to 255), keys, messages, headers, payloads and attempts. Those about
strings rest on the inductive invariant `StringsInv`: each string that was made is
what one of the writers makes of a value, and what was finished is made of the
value of an init in its own session. It is needed because a caller may hand any
string to any call: that a call accepts only what was meant is just what
the lemmas about readers say, and it is what keeps the invariant.
`FailsOnlyAfterAllNonces` holds because the refused nonces of a call are those of
its attempts, and no two attempts draw the same one, from either kind of source.
The assumptions are those of `Wire` and `Codec`: at most 65535 messages, octets
below 256, and no credential without a payload, which `build_cmap` refuses
(`jwp.rs:299`).

`JwpProofs` proves `TypeOK` and the four properties of `Jwp` for all documents, any
limit, and whatever characters their names have. `JInv` says that the header is
one of those that `jwp_issue` can have written for these documents, and the view one of
those that `parse` makes of it; it is inductive at once, and the
work is in what these operators compute:

- there is one way to enumerate a set of strings in byte order, so the order in
  which a request lists the pointers does not matter (`SlotsAgree`);
- escaping is undone by unescaping, one replacement after the other
  (`EscapeUndone`): the `~1` that the first replacement looks for cannot arise
  across two escaped characters; so different leaves of a document have different
  pointers (`PointersDiffer`);
- a pointer whose first name is not empty is placed at its own path, escaped, and a
  document's paths never shadow each other: placing all of them succeeds
  (`PlacedNamed`), hence `NamedIsIssued`;
- placing never makes two leaves of one index, and each leaf replaced is an index lost
  for good: a map has as many leaves as there were pointers only if none was
  merged (`PlacedFilled`). `parse` counts, hence `EveryMessageNamed`. Without that count
  the property would be false for names that begin with empty ones.

`BlindSuiteProofs` proves all five properties of `BlindSuite` for any prime order,
any numbers of messages and keys, any stream and any oracle that
`BlindSuiteAssumption` admits, and any choice of disclosing, hiding or
committing each message. `IInv` says of each result how it came about: a commitment
is the opening of its messages under scalars that were drawn (`Opened`), a
request has the answers of its signers (`DeviceAnswers`), a signature is `B`
divided by the exponent, its domain known to the oracle (`Signed`), a
proof is the responses of its randomness and of the hidden scalars, keys included
(`Presented`, `Responses`), and a finished one has each answer adapted
(`Finished`); and it counts what was drawn and asked (`Drawing`,
`Asking`), so that nothing runs dry. All of this is said relative to
`asked`, which only grows (`KnowsKept`). The argument:

- points form a module over the scalars and the generators are independent:
  `BaseUnique` reads each scalar of `B` off a coordinate that only
  its generator has, and `GeneratorsUnique` the split and the number of keys off
  the list of generators; so equal points are made from equal arguments
  (`SameB`), and only the order of keys is lost in their sum;
- what is disclosed and what is hidden partition the slots (`Partition`), so `B` is the
  part that the verifier knows and the part that the responses hide (`PartedB`);
- in a Schnorr equation with the responses put in, everything but the
  commitments cancels (`AnswersCancel`, `T1Same`, `T2Same`, `CommitmentSame`), with
  the keys, which have no generator in the domain, riding along
  (`HiddenSum`): of what was shown the verifier hashes just what the prover did
  (`RehashedShown`), and an input that was never hashed is no challenge
  (`KnowsOnly`), so what is read is what was shown (`SeenIsShown`);
- the pairing then compares `B` with the `B` that was signed (`PairingExact`),
  which division by scalars that are not zero makes exact (`InverseExists`,
  `NoZeroDivisors`); and a device's equation holds for its own key at its own
  position only (`DeviceEquation`, `KeyChecked`).

Only model-checked: `EverySigningEnds` and `EveryBlockFreed`, the two liveness
properties, since `ENABLED` is out of the prover's reach. `RECURSIVE` operators
are not used anywhere. `SortSeq` and `SelectSeq` the prover does not expand: `Jwp` states
its order as a choice among the enumerations of a set, and `BlindSuite` has its own
`IndexesIn`.

## Not modelled, and why

- Curve and hash arithmetic (most of `suite.rs`, `util.rs`) and the derivation in
  `keygen.rs`: sequential arithmetic whose security is the symbolic assumption.
- The unblinded `core_sign`, `core_verify` and proof of `bbs.rs`, which the
  credential calls do not use; of `keybind.rs`, the import of a key from
  coordinates and `NoKeybind`.
- In the codecs: overflow of the sums of lengths (`blind.rs:565`), which takes a
  count that no writer writes, so that no property reaches it; lengths that four
  octets do not hold (`flow.rs:352`): the longest string here has far less than 2^16; two random scalars that are equal or
  zero, points that are the identity (negligible). Carries or containers handed to
  the blind layer's readers and the other way round.
- In the C boundary: `C.int(outLen)` for results over 2 GiB; the wrapper's error path for
  JSON it cannot unmarshal, which the library never returns.
- The facades but for `disclosed` in `js_api.rs`: conversion of arguments without
  state. Numbers over 2^53 lose digits in `JSON.parse` there.
- JSON syntax beyond objects, arrays and leaves, and the header parameters besides
  the maps and `kb`.
- `inspect` and `build_presentation_header`, which change nothing; argument parsing
  and printing of `bbs-keygen`; generated bindings and release tooling.

## Plan

Done, in this order: `Flow`, `Promise`, `FlowProofs`, `Keygen`, `KeygenProofs`,
`Jwp`, `BlindSuite`; then `CAbi` with its proofs, `Codec`, `Schnorr` and `Wire`
with the proof of its loop, `RequestedIsShown`, the printed public key in `Keygen`, the
refinement proof, `Container`; then `SeqLemmas` and with it `WireProofs` and
`JwpProofs`; last `BlindSuiteAlgebra` and `BlindSuiteProofs`. Every safety property
that a run checks and that holds has its theorem. What could be added: the
unblinded suite of `bbs.rs`, whose equations are those of `BlindSuite` without
commitment and keys; and the algebra for several credentials at once, which
`Flow` has in symbols.
