-------------------------------- MODULE Jwp --------------------------------
(***************************************************************************)
(* The claim maps of the issuer header: how the names in a claims document  *)
(* become indexed leaves (build_cmap, build_cmap_from_pointers), and what   *)
(* whoever parses the header reads back from them (walk_cmap, parse).  The  *)
(* wallet derives its pointers from its own document, the issuer places     *)
(* them without seeing it, and both must number the messages alike.         *)
(*                                                                         *)
(* A document is the set of the paths of its leaves; a path is a sequence   *)
(* of object keys (an array's items have decimal keys).  Strings are        *)
(* sequences of character codes, so that escaping, joining, splitting and   *)
(* string order are what they are in the code.  Values are left out: one    *)
(* leaf is one message.  A call that may return an error yields the set of  *)
(* what it returns when it does not: nothing, or one value.                *)
(***************************************************************************)
EXTENDS Integers, Sequences, SequencesExt, FiniteSets, Split

CONSTANTS
  IssuerDocs,      \* the claims documents an issuer may be given
  HolderDocs,      \* the ones a wallet may commit to; {} when it commits to none
  MAX_MESSAGES,    \* 512 in the code
  Refused,         \* the result of a step that returns an error
  NotYet           \* of a step that was not taken yet

Name == Seq(Nat)
Path == Seq(Name)
Leaf == [path : Path, index : Nat]
Entry == [pointer : Name, index : Nat]
Header == [cmap : SUBSET Leaf, hcmap : SUBSET Leaf]
View == [issuer_claims : Seq(Entry), holder_claims : Seq(Entry)]

\* The leaves of a JSON object: no leaf is an object on the way to another.
IsDocument(doc) ==
  /\ IsFiniteSet(doc)
  /\ \A path \in doc : path \in Path /\ path # <<>>
  /\ \A p, q \in doc : IsPrefix(p, q) => p = q

ASSUME JwpAssumption ==
  /\ MAX_MESSAGES \in Nat \ {0}
  /\ \A doc \in IssuerDocs \cup HolderDocs : IsDocument(doc)
  /\ NotYet # Refused
  /\ {NotYet, Refused} \cap (Header \cup View) = {}

VARIABLES
  claims,       \* the issuer's document
  committed,    \* the wallet's document
  given,        \* the holder pointers of the request, in the list's order
  header,       \* the two maps of the header that jwp_issue wrote
  view          \* what IssuerHeaderView::parse makes of it

vars == <<claims, committed, given, header, view>>

-----------------------------------------------------------------------------
(* Strings and pointers.                                                   *)

SLASH == 47
ZERO == 48
ONE == 49
TILDE == 126

\* Mutant: a slash in a name is left as it is.
EscapeTildeOnly(name) ==
  FlattenSeq([i \in DOMAIN name |-> IF name[i] = TILDE THEN <<TILDE, ZERO>> ELSE <<name[i]>>])

Escape(name) ==
  FlattenSeq([i \in DOMAIN name |->
    CASE name[i] = TILDE -> <<TILDE, ZERO>>
      [] name[i] = SLASH -> <<TILDE, ONE>>
      [] OTHER -> <<name[i]>>])

\* The pair of characters <<c, d>> of s, wherever it occurs, becomes e.
ReplacePair(s, c, d, e) ==
  LET At(i) == i \in DOMAIN s /\ i + 1 \in DOMAIN s /\ s[i] = c /\ s[i + 1] = d
  IN  FlattenSeq([i \in DOMAIN s |->
        IF At(i) THEN <<e>> ELSE IF At(i - 1) THEN <<>> ELSE <<s[i]>>])

Unescape(part) == ReplacePair(ReplacePair(part, TILDE, ONE, SLASH), TILDE, ZERO, TILDE)

\* The prefix that the recursion of collect_leaves and walk_cmap builds up.
PointerTo(path) ==
  IF path = <<>> THEN <<SLASH>>
  ELSE FlattenSeq([i \in DOMAIN path |-> <<SLASH>> \o Escape(path[i])])

\* Byte order of two strings.
StringLess(s, t) ==
  \/ IsStrictPrefix(s, t)
  \/ \E i \in DOMAIN s \cap DOMAIN t :
       /\ s[i] < t[i]
       /\ \A j \in 1 .. (i - 1) : s[j] = t[j]

Sorted(strings) ==
  CHOOSE s \in SetToSeqs(strings) : \A i, j \in DOMAIN s : i < j => StringLess(s[i], s[j])

TrimmedLeft(s) ==
  LET keep == {i \in DOMAIN s : s[i] # SLASH}
  IN  IF keep = {} THEN <<>>
      ELSE SubSeq(s, CHOOSE i \in keep : \A j \in keep : i <= j, Len(s))

Parts(s) == SplitBy(s, SLASH)

-----------------------------------------------------------------------------
(* Building the maps.  A map is the set of its leaves.                     *)

collect_leaves(doc) == {PointerTo(path) : path \in doc}

\* insert_at_pointer: an inner node that is already a leaf is a conflict, and
\* what the last key held before, leaf or object, is replaced.
insert_at_pointer(map, pointer, index) ==
  LET parts == Parts(TrimmedLeft(pointer))
      path == IF pointer = <<SLASH>> THEN <<>>
              ELSE [k \in DOMAIN parts |-> Escape(Unescape(parts[k]))]
  IN
  IF \E leaf \in map : IsStrictPrefix(leaf.path, path) THEN {}
  ELSE {{leaf \in map : ~IsPrefix(path, leaf.path)} \cup {[path |-> path, index |-> index]}}

\* One leaf per pointer, numbered from first_index in list order.
PlaceAll(pointers, first_index) ==
  LET placed[n \in 0 .. Len(pointers)] ==
        IF n = 0 THEN {{}}
        ELSE UNION {insert_at_pointer(map, pointers[n], first_index + n - 1) : map \in placed[n - 1]}
  IN  placed[Len(pointers)]

build_cmap(doc, first_index) ==
  IF doc = {} \/ Cardinality(doc) > MAX_MESSAGES THEN {}
  ELSE PlaceAll(Sorted(collect_leaves(doc)), first_index)

\* Mutant: the order of the caller's list decides.
PlacedAsGiven(pointers, first_index) ==
  IF \/ pointers = <<>>
     \/ Len(pointers) > MAX_MESSAGES
     \/ Cardinality(ToSet(pointers)) # Len(pointers)
     \/ \E i \in DOMAIN pointers : ~IsPrefix(<<SLASH>>, pointers[i])
  THEN {}
  ELSE PlaceAll(pointers, first_index)

build_cmap_from_pointers(pointers, first_index) ==
  IF \/ pointers = <<>>
     \/ Len(pointers) > MAX_MESSAGES
     \/ Cardinality(ToSet(pointers)) # Len(pointers)
     \/ \E i \in DOMAIN pointers : ~IsPrefix(<<SLASH>>, pointers[i])
  THEN {}
  ELSE PlaceAll(Sorted(ToSet(pointers)), first_index)

\* committed_messages: the pointers the wallet sends, or none.
committed_messages(doc) == IF doc = {} THEN <<>> ELSE Sorted(collect_leaves(doc))

-----------------------------------------------------------------------------
(* Reading the maps.                                                       *)

walk_cmap(map) ==
  IF \E leaf \in map : leaf.index >= MAX_MESSAGES THEN {}
  ELSE {{[pointer |-> PointerTo(leaf.path), index |-> leaf.index] : leaf \in map}}

ByIndex(entries) ==
  CHOOSE s \in SetToSeqs(entries) : \A i, j \in DOMAIN s : i < j => s[i].index <= s[j].index

\* Mutant: only the number of indices is compared.
CoverSome(indices, n) == n > 0 /\ n <= MAX_MESSAGES

\* The two maps together name 0 .. n - 1 once each.
CoverOnce(indices, n) == n > 0 /\ n <= MAX_MESSAGES /\ indices = 0 .. (n - 1)

\* IssuerHeaderView::parse, as far as the maps go: the issuer's messages are
\* the low half.
MapsOK(issuer, holder) ==
  /\ CoverOnce({e.index : e \in issuer \cup holder}, Cardinality(issuer) + Cardinality(holder))
  /\ \A e \in issuer : e.index < Cardinality(issuer)

parse(h) ==
  {[issuer_claims |-> ByIndex(maps[1]), holder_claims |-> ByIndex(maps[2])] :
     maps \in {m \in walk_cmap(h.cmap) \X walk_cmap(h.hcmap) : MapsOK(m[1], m[2])}}

\* IssuedJwp::header: the payloads are counted too.
issued_header(h, num_payloads) == {v \in parse(h) : Len(v.issuer_claims) = num_payloads}

\* Mutant: the position in the half that holds the claim.
IndexInHalf(v, pointer) ==
  LET half == IF \E i \in DOMAIN v.issuer_claims : v.issuer_claims[i].pointer = pointer
              THEN v.issuer_claims ELSE v.holder_claims
  IN  (CHOOSE i \in DOMAIN half : half[i].pointer = pointer) - 1

\* index_of: the issuer's claims are searched first.
index_of(v, pointer) ==
  LET all == v.issuer_claims \o v.holder_claims
  IN  all[CHOOSE i \in DOMAIN all : /\ all[i].pointer = pointer
                                    /\ \A j \in 1 .. (i - 1) : all[j].pointer # pointer].index

-----------------------------------------------------------------------------
(* The steps.                                                              *)

\* The wallet's own document passed build_cmap before it committed; its
\* pointers reach the issuer in whatever order the request lists them.
Init ==
  /\ committed \in {doc \in HolderDocs : doc = {} \/ build_cmap(doc, 0) # {}}
  /\ given \in SetToSeqs(ToSet(committed_messages(committed)))
  /\ claims \in IssuerDocs
  /\ header = NotYet
  /\ view = NotYet

\* What the call returns: an error, or its value.
Returned(values) == IF values = {} THEN {Refused} ELSE values

\* The part of jwp_issue that writes the header: no map is checked against
\* what parse will ask of it.
JwpIssue ==
  LET cmaps == build_cmap(claims, 0)
      hcmaps == IF given = <<>> THEN {{}}
                ELSE build_cmap_from_pointers(given, Cardinality(claims))
  IN
  /\ header = NotYet
  /\ header' \in Returned({[cmap |-> cmap, hcmap |-> hcmap] : cmap \in cmaps, hcmap \in hcmaps})
  /\ UNCHANGED <<claims, committed, given, view>>

\* The wallet reads the header of the credential it was sent, to inspect, to
\* accept or to present it.
Parse ==
  /\ header \notin {NotYet, Refused}
  /\ view = NotYet
  /\ view' \in Returned(issued_header(header, Cardinality(claims)))
  /\ UNCHANGED <<claims, committed, given, header>>

Next == JwpIssue \/ Parse

Spec == Init /\ [][Next]_vars

-----------------------------------------------------------------------------
(* Properties.                                                             *)

TypeOK ==
  /\ claims \in IssuerDocs
  /\ committed \in HolderDocs
  /\ given \in Seq({PointerTo(path) : path \in committed})
  /\ header \in Header \cup {NotYet, Refused}
  /\ view \in View \cup {NotYet, Refused}
  /\ view \in View =>
       \A e \in ToSet(view.issuer_claims \o view.holder_claims) :
         e.index < Len(view.issuer_claims) + Len(view.holder_claims)

Parsed == view \notin {NotYet, Refused}

\* Names without an escaped character, and never empty.
Plain(doc) == \A path \in doc : \A k \in DOMAIN path :
                path[k] # <<>> /\ ToSet(path[k]) \cap {SLASH, TILDE} = {}

\* No empty names: any other character may occur.
Named(doc) == \A path \in doc : \A k \in DOMAIN path : path[k] # <<>>

\* The message vector that is signed, by the names its two authors gave its
\* messages: the payload order of build_cmap, the issuer's half first.
SignedPointers == Sorted(collect_leaves(claims)) \o committed_messages(committed)

\* Every slot has the name its author meant: whatever order the request listed
\* the wallet's pointers in, the name that the header gives a message is the
\* one under which issuer or wallet put its value there.
SlotsAgree ==
  Parsed /\ Plain(claims) /\ Plain(committed) =>
    [i \in DOMAIN SignedPointers |-> (view.issuer_claims \o view.holder_claims)[i].pointer]
      = SignedPointers

\* A header that parses names each signed message once, with no two claims of
\* one half alike, even when the names are ones that placing a pointer merges:
\* then the header does not parse.
EveryMessageNamed ==
  Parsed =>
    /\ Len(view.issuer_claims) = Cardinality(claims)
    /\ Len(view.holder_claims) = Cardinality(committed)
    /\ \A i \in DOMAIN SignedPointers : (view.issuer_claims \o view.holder_claims)[i].index = i - 1
    /\ IsInjective([i \in DOMAIN view.issuer_claims |-> view.issuer_claims[i].pointer])
    /\ IsInjective([i \in DOMAIN view.holder_claims |-> view.holder_claims[i].pointer])

\* Documents with no empty name that fit together are issued, and the wallet
\* can read the result: no slash or tilde in a name makes two claims collide.
NamedIsIssued ==
  claims # {} /\ Named(claims) /\ Named(committed) /\ Cardinality(claims) + Cardinality(committed) <= MAX_MESSAGES =>
    header # Refused /\ view # Refused

\* Asking for a claim by the name the header gives it discloses that claim's
\* message, unless the issuer has a claim with the same name: then the issuer's.
DisclosesRequested ==
  Parsed =>
    \A e \in ToSet(view.issuer_claims \o view.holder_claims) :
      \/ index_of(view, e.pointer) = e.index
      \/ /\ e \in ToSet(view.holder_claims)
         /\ [pointer |-> e.pointer, index |-> index_of(view, e.pointer)] \in ToSet(view.issuer_claims)

\* What the doc of ClaimIndex says: the pointer is the RFC 6901 pointer to the
\* claim in the claim tree.  The code escapes a name with a slash or a tilde
\* twice and drops empty leading names, so it does not hold for those.
PointersAreRFC6901 ==
  Parsed =>
    \A i \in DOMAIN SignedPointers :
      (view.issuer_claims \o view.holder_claims)[i].pointer = SignedPointers[i]

\* What the doc of jwp_issue says: the JWP it returns is finished, ready to
\* hand to the wallet.  Each map is held to the limit alone, the two together
\* only when the wallet parses them.
IssuedIsReady == header \notin {NotYet, Refused} => view # Refused
=============================================================================
