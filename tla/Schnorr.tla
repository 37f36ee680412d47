------------------------------ MODULE Schnorr -------------------------------
(***************************************************************************)
(* SchnorrBls12381::sign: nonces are drawn until the hash of one is a       *)
(* canonical scalar, MaxAttempts times at most.  A hash is out of range for *)
(* more than half of the nonces, and a nonce has one hash: drawing a nonce  *)
(* again is of no use.                                                     *)
(***************************************************************************)
EXTENDS Integers, FiniteSets

CONSTANTS
  Requests,      \* calls of sign
  Sources,       \* kinds of ScalarSource in use: "system", "seeded"
  MaxAttempts    \* how often sign tries; 64 in the code

ASSUME SchnorrAssumption ==
  /\ Sources \subseteq {"system", "seeded"}
  /\ MaxAttempts \in Nat \ {0}

VARIABLE
  signing        \* per call: how far it is, and the nonces it refused

\* A source is its kind and the retry mixed into its dst, 0 for none.  A
\* nonce is the source it was drawn from and, as randomness differs each time
\* it is drawn, the attempt that drew it.

\* A call of sign.
Call(status, attempt, refused, source) ==
  [status |-> status, attempt |-> attempt, refused |-> refused, source |-> source]

\* One that was not made, or that returned: its nonces are of no interest.
Ended(status) == Call(status, 0, {}, [kind |-> "none", retry |-> 0])
Idle == Ended("idle")

SchnorrInit == signing = [r \in Requests |-> Idle]

\* Mutant: the attempt is not mixed in.
SameSource(source, attempt) == source

for_attempt(source, attempt) ==
  IF source.kind = "system" \/ attempt = 0 THEN source
  ELSE [source EXCEPT !.retry = attempt]

\* A seeded source is a function of its seed and dst.
calculate(source, attempt) ==
  IF source.kind = "system" THEN <<source, attempt>> ELSE <<source, 0>>

\* Mutant: the loop does not count.
SameAttempt(attempt) == attempt

NextAttempt(attempt) == attempt + 1

\* sign is called.
Sign(r, kind) ==
  /\ signing[r].status = "idle"
  /\ signing' = [signing EXCEPT ![r] =
                                Call("trying", 0, {}, [kind |-> kind, retry |-> 0])]

Drawn(r) == calculate(for_attempt(signing[r].source, signing[r].attempt),
                      signing[r].attempt)

Trying(r) ==
  /\ signing[r].status = "trying"
  /\ signing[r].attempt < MaxAttempts

\* The hash of the nonce is a scalar, and sign returns the signature.
Succeed(r) ==
  /\ Trying(r)
  /\ Drawn(r) \notin signing[r].refused
  /\ signing' = [signing EXCEPT ![r] = Ended("signed")]

\* The hash is r or more.
Retry(r) ==
  /\ Trying(r)
  /\ signing' = [signing EXCEPT ![r] =
                   Call("trying", NextAttempt(signing[r].attempt),
                        signing[r].refused \cup {Drawn(r)}, signing[r].source)]

\* getrandom fails, and with it sign.
FailToDraw(r) ==
  /\ Trying(r)
  /\ signing[r].source.kind = "system"
  /\ signing' = [signing EXCEPT ![r] = Ended("no_randomness")]

\* The retry limit is exceeded.
GiveUp(r) ==
  /\ signing[r].status = "trying"
  /\ signing[r].attempt >= MaxAttempts
  /\ signing' = [signing EXCEPT ![r] =
                   Call("exhausted", signing[r].attempt, signing[r].refused,
                        signing[r].source)]

Attempt(r) == Succeed(r) \/ Retry(r) \/ FailToDraw(r) \/ GiveUp(r)

-----------------------------------------------------------------------------
(* What sign promises.                                                     *)

\* sign gives up only when as many different nonces as it has attempts have
\* been refused: no attempt is spent on a nonce known to be of no use, which
\* is what for_attempt is for with a source that repeats itself
\* (keybind.rs:199-221, suite.rs:46-70).
FailsOnlyAfterAllNonces ==
  \A r \in Requests :
    signing[r].status = "exhausted" => Cardinality(signing[r].refused) = MaxAttempts

\* Every call of sign returns, whatever the source yields: the loop is
\* bounded, and waits for nothing (keybind.rs:200-203).
EverySigningEnds ==
  \A r \in Requests :
    signing[r].status = "trying"
      ~> signing[r].status \in {"signed", "exhausted", "no_randomness"}

=============================================================================
