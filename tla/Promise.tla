------------------------------ MODULE Promise ------------------------------
(***************************************************************************)
(* What the library promises, without messages, sessions or cryptography:  *)
(* a credential joins what an issuer asserts to what one commitment holds,  *)
(* exists only once every device named in the commitment has agreed to be   *)
(* bound, and a relying party learns only claims of one credential, each    *)
(* of whose devices has agreed to show exactly those claims under exactly   *)
(* that presentation header.                                               *)
(***************************************************************************)
EXTENDS FiniteSets

CONSTANTS
  IssuerKey, Device, CommitId, PresHeader,
  Claim,         \* pairs of a pointer and a value
  Assertable,    \* the sets of claims an issuer may assert
  Committable    \* the sets of claims a wallet may commit to

VARIABLES commitments, bindings, credentials, shows, learned

vars == <<commitments, bindings, credentials, shows, learned>>

Init ==
  /\ commitments = {}
  /\ bindings = {}
  /\ credentials = {}
  /\ shows = {}
  /\ learned = {}

\* A wallet commits to claims, to be bound to some devices.
Commit(id, claims, devices) ==
  /\ \A c \in commitments : c.id # id
  /\ commitments' = commitments \cup
       {[id |-> id, claims |-> claims, devices |-> devices]}
  /\ UNCHANGED <<bindings, credentials, shows, learned>>

\* A device named by a commitment agrees to be bound.
Bind(d, c) ==
  /\ d \in c.devices
  /\ bindings' = bindings \cup {[device |-> d, id |-> c.id]}
  /\ UNCHANGED <<commitments, credentials, shows, learned>>

\* An issuer turns a commitment all of whose devices agreed into a credential.
Issue(c, issuer, asserted) ==
  /\ \A d \in c.devices : [device |-> d, id |-> c.id] \in bindings
  /\ credentials' = credentials \cup
       {[issuer |-> issuer, id |-> c.id, claims |-> asserted \cup c.claims,
         devices |-> c.devices, kb |-> c.devices # {}]}
  /\ UNCHANGED <<commitments, bindings, shows, learned>>

\* A device agrees to show some claims under a presentation header.
Show(d, header, claims) ==
  /\ shows' = shows \cup {[device |-> d, header |-> header, claims |-> claims]}
  /\ UNCHANGED <<commitments, bindings, credentials, learned>>

\* A relying party learns claims of a credential.
Learn(c, header, claims) ==
  /\ claims \subseteq c.claims
  /\ \A d \in c.devices :
       [device |-> d, header |-> header, claims |-> claims] \in shows
  /\ learned' = learned \cup
       {[issuer |-> c.issuer, header |-> header, claims |-> claims, kb |-> c.kb]}
  /\ UNCHANGED <<commitments, bindings, credentials, shows>>

Next ==
  \/ \E id \in CommitId, claims \in Committable, devices \in SUBSET Device :
       Commit(id, claims, devices)
  \/ \E d \in Device, c \in commitments : Bind(d, c)
  \/ \E c \in commitments, issuer \in IssuerKey, asserted \in Assertable :
       Issue(c, issuer, asserted)
  \/ \E d \in Device, header \in PresHeader, claims \in SUBSET Claim :
       Show(d, header, claims)
  \/ \E c \in credentials, header \in PresHeader : \E claims \in SUBSET c.claims :
       Learn(c, header, claims)

Spec == Init /\ [][Next]_vars
=============================================================================
