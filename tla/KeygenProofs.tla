---------------------------- MODULE KeygenProofs ----------------------------
(***************************************************************************)
(* Proofs about Keygen for any number of runs: the read-back notices every  *)
(* mix-up of two generators' files, and a run without --force that finds a  *)
(* file changes none.                                                      *)
(***************************************************************************)
EXTENDS Keygen, TLAPS

LEMMA KeygenInit == Init => KInv
BY KeygenAssumption
   DEF Init, KInv, TypeOK, Content, Key, OnlyGeneratorsWrite, PublicHasWriter,
       SecretReadIsCurrent, PublicReadIsCurrent, SuccessMatched, FoundIsRefused,
       Written, Generating, Reading, Ended

LEMMA KeygenTypes == TypeOK /\ [Next]_vars => TypeOK'
<1> SUFFICES ASSUME TypeOK, [Next]_vars PROVE TypeOK'
  OBVIOUS
<1> USE DEF TypeOK, Content, Key, Goto, Generating, Reading, Ended
<1>1. ASSUME NEW p \in Proc, NEW k \in {"plain", "force", "check"}, Start(p, k)
      PROVE  TypeOK'
  BY <1>1 DEF Start
<1>2. ASSUME NEW p \in Proc, Exists(p) PROVE TypeOK'
  BY <1>2 DEF Exists
<1>3. ASSUME NEW p \in Proc, KeyGen(p) PROVE TypeOK'
  BY <1>3 DEF KeyGen
<1>4. ASSUME NEW p \in Proc, OpenSecret(p) PROVE TypeOK'
  BY <1>4 DEF OpenSecret
<1>5. ASSUME NEW p \in Proc, WriteSecret(p) PROVE TypeOK'
  BY <1>5 DEF WriteSecret
<1>6. ASSUME NEW p \in Proc, OpenPublic(p) PROVE TypeOK'
  BY <1>6 DEF OpenPublic
<1>7. ASSUME NEW p \in Proc, WritePublic(p) PROVE TypeOK'
  BY <1>7 DEF WritePublic
<1>8. ASSUME NEW p \in Proc, ReadSecret(p) PROVE TypeOK'
  BY <1>8 DEF ReadSecret
<1>9. ASSUME NEW p \in Proc, ReadPublic(p) PROVE TypeOK'
  BY <1>9 DEF ReadPublic
<1>10. ASSUME NEW p \in Proc, Compare(p) PROVE TypeOK'
  BY <1>10 DEF Compare
<1>11. ASSUME NEW p \in Proc, IoError(p) \/ Crash(p) PROVE TypeOK'
  BY <1>11 DEF IoError, Crash, CutShort
<1>12. CASE UNCHANGED vars
  BY <1>12 DEF vars
<1> QED
  BY <1>1, <1>2, <1>3, <1>4, <1>5, <1>6, <1>7, <1>8, <1>9, <1>10, <1>11, <1>12
     DEF Next, Step

LEMMA StartKeeps ==
  ASSUME KInv, TypeOK', NEW p \in Proc, NEW k \in {"plain", "force", "check"}, Start(p, k)
  PROVE  KInv'
<1> USE KeygenAssumption DEF KInv, TypeOK, Key, Content, Goto, Generating, Reading, Ended, Written,
        Start
<1>1. OnlyGeneratorsWrite'
  BY DEF OnlyGeneratorsWrite
<1>2. PublicHasWriter'
  BY DEF PublicPending, PublicHasWriter
<1>3. SecretReadIsCurrent'
  BY DEF SecretReadIsCurrent, SecretPending
<1>4. PublicReadIsCurrent'
  BY DEF PublicReadIsCurrent, PublicPending
<1>5. SuccessMatched'
  BY DEF SuccessMatched
<1>6. FoundIsRefused'
  BY DEF FoundIsRefused
<1> QED
  BY <1>1, <1>2, <1>3, <1>4, <1>5, <1>6

LEMMA ExistsKeeps ==
  ASSUME KInv, TypeOK', NEW p \in Proc, Exists(p)
  PROVE  KInv'
<1> USE KeygenAssumption DEF KInv, TypeOK, Key, Content, Goto, Generating, Reading, Ended, Written,
        Exists
<1>1. OnlyGeneratorsWrite'
  BY DEF OnlyGeneratorsWrite
<1>2. PublicHasWriter'
  BY DEF PublicPending, PublicHasWriter
<1>3. SecretReadIsCurrent'
  BY DEF SecretReadIsCurrent, SecretPending
<1>4. PublicReadIsCurrent'
  BY DEF PublicReadIsCurrent, PublicPending
<1>5. SuccessMatched'
  BY DEF SuccessMatched
<1>6. FoundIsRefused'
  BY DEF FoundIsRefused
<1> QED
  BY <1>1, <1>2, <1>3, <1>4, <1>5, <1>6

LEMMA KeyGenKeeps ==
  ASSUME KInv, TypeOK', NEW p \in Proc, KeyGen(p)
  PROVE  KInv'
<1> USE KeygenAssumption DEF KInv, TypeOK, Key, Content, Goto, Generating, Reading, Ended, Written,
        KeyGen
<1>1. OnlyGeneratorsWrite'
  BY DEF OnlyGeneratorsWrite
<1>2. PublicHasWriter'
  BY DEF PublicPending, PublicHasWriter
<1>3. SecretReadIsCurrent'
  BY DEF SecretReadIsCurrent, SecretPending
<1>4. PublicReadIsCurrent'
  BY DEF PublicReadIsCurrent, PublicPending
<1>5. SuccessMatched'
  BY DEF SuccessMatched
<1>6. FoundIsRefused'
  BY DEF FoundIsRefused
<1> QED
  BY <1>1, <1>2, <1>3, <1>4, <1>5, <1>6

LEMMA OpenSecretKeeps ==
  ASSUME KInv, TypeOK', NEW p \in Proc, OpenSecret(p)
  PROVE  KInv'
<1> USE KeygenAssumption DEF KInv, TypeOK, Key, Content, Goto, Generating, Reading, Ended, Written,
        OpenSecret
<1>1. OnlyGeneratorsWrite'
  BY DEF OnlyGeneratorsWrite
<1>2. PublicHasWriter'
  BY DEF PublicPending, PublicHasWriter
<1>3. SecretReadIsCurrent'
  <2>1. kind'[p] # "check" /\ pc'[p] \in {"write_secret", "open_public"}
    BY DEF OnlyGeneratorsWrite
  <2>2. SecretPending'
    BY <2>1 DEF SecretPending
  <2> QED
    BY <2>2 DEF SecretReadIsCurrent
<1>4. PublicReadIsCurrent'
  BY DEF PublicReadIsCurrent, PublicPending
<1>5. SuccessMatched'
  BY DEF SuccessMatched
<1>6. FoundIsRefused'
  BY DEF FoundIsRefused
<1> QED
  BY <1>1, <1>2, <1>3, <1>4, <1>5, <1>6

LEMMA WriteSecretKeeps ==
  ASSUME KInv, TypeOK', NEW p \in Proc, WriteSecret(p)
  PROVE  KInv'
<1> USE KeygenAssumption DEF KInv, TypeOK, Key, Content, Goto, Generating, Reading, Ended, Written,
        WriteSecret
<1>1. OnlyGeneratorsWrite'
  BY DEF OnlyGeneratorsWrite
<1>2. PublicHasWriter'
  BY DEF PublicPending, PublicHasWriter
<1>3. SecretReadIsCurrent'
  <2>1. kind'[p] # "check" /\ pc'[p] \in {"write_secret", "open_public"}
    BY DEF OnlyGeneratorsWrite
  <2>2. SecretPending'
    BY <2>1 DEF SecretPending
  <2> QED
    BY <2>2 DEF SecretReadIsCurrent
<1>4. PublicReadIsCurrent'
  BY DEF PublicReadIsCurrent, PublicPending
<1>5. SuccessMatched'
  BY DEF SuccessMatched
<1>6. FoundIsRefused'
  BY DEF FoundIsRefused
<1> QED
  BY <1>1, <1>2, <1>3, <1>4, <1>5, <1>6

LEMMA OpenPublicKeeps ==
  ASSUME KInv, TypeOK', NEW p \in Proc, OpenPublic(p)
  PROVE  KInv'
<1> USE KeygenAssumption DEF KInv, TypeOK, Key, Content, Goto, Generating, Reading, Ended, Written,
        OpenPublic
<1>1. OnlyGeneratorsWrite'
  BY DEF OnlyGeneratorsWrite
<1>2. PublicHasWriter'
  <2>1. kind'[p] # "check" /\ pc'[p] = "write_public"
    BY DEF OnlyGeneratorsWrite
  <2>2. PublicPending'
    BY <2>1 DEF PublicPending
  <2> QED
    BY <2>2 DEF PublicHasWriter
<1>3. SecretReadIsCurrent'
  BY DEF SecretReadIsCurrent, SecretPending
<1>4. PublicReadIsCurrent'
  BY DEF PublicReadIsCurrent, PublicPending
<1>5. SuccessMatched'
  BY DEF SuccessMatched
<1>6. FoundIsRefused'
  BY DEF FoundIsRefused
<1> QED
  BY <1>1, <1>2, <1>3, <1>4, <1>5, <1>6

LEMMA WritePublicKeeps ==
  ASSUME KInv, TypeOK', NEW p \in Proc, WritePublic(p)
  PROVE  KInv'
<1> USE KeygenAssumption DEF KInv, TypeOK, Key, Content, Goto, Generating, Reading, Ended, Written,
        WritePublic
<1>1. OnlyGeneratorsWrite'
  BY DEF OnlyGeneratorsWrite
<1>2. PublicHasWriter'
  <2>1. kind'[p] # "check" /\ pc'[p] = "read_secret"
    BY DEF OnlyGeneratorsWrite
  <2>2. public' = p
    OBVIOUS
  <2>3. public' \in Proc /\ Written(public)'
    BY <2>1, <2>2
  <2> QED
    BY <2>3 DEF PublicHasWriter
<1>3. SecretReadIsCurrent'
  BY DEF SecretReadIsCurrent, SecretPending
<1>4. PublicReadIsCurrent'
  BY DEF PublicReadIsCurrent, PublicPending
<1>5. SuccessMatched'
  BY DEF SuccessMatched
<1>6. FoundIsRefused'
  BY DEF FoundIsRefused
<1> QED
  BY <1>1, <1>2, <1>3, <1>4, <1>5, <1>6

LEMMA ReadSecretKeeps ==
  ASSUME KInv, TypeOK', NEW p \in Proc, ReadSecret(p)
  PROVE  KInv'
<1> USE KeygenAssumption DEF KInv, TypeOK, Key, Content, Goto, Generating, Reading, Ended, Written,
        ReadSecret
<1>1. OnlyGeneratorsWrite'
  BY DEF OnlyGeneratorsWrite
<1>2. PublicHasWriter'
  BY DEF PublicPending, PublicHasWriter
<1>3. SecretReadIsCurrent'
  BY DEF SecretReadIsCurrent, SecretPending
<1>4. PublicReadIsCurrent'
  BY DEF PublicReadIsCurrent, PublicPending
<1>5. SuccessMatched'
  BY DEF SuccessMatched
<1>6. FoundIsRefused'
  BY DEF FoundIsRefused
<1> QED
  BY <1>1, <1>2, <1>3, <1>4, <1>5, <1>6

LEMMA ReadPublicKeeps ==
  ASSUME KInv, TypeOK', NEW p \in Proc, ReadPublic(p)
  PROVE  KInv'
<1> USE KeygenAssumption DEF KInv, TypeOK, Key, Content, Goto, Generating, Reading, Ended, Written,
        ReadPublic
<1>1. OnlyGeneratorsWrite'
  BY DEF OnlyGeneratorsWrite
<1>2. PublicHasWriter'
  BY DEF PublicPending, PublicHasWriter
<1>3. SecretReadIsCurrent'
  BY DEF SecretReadIsCurrent, SecretPending
<1>4. PublicReadIsCurrent'
  BY DEF PublicReadIsCurrent, PublicPending
<1>5. SuccessMatched'
  BY DEF SuccessMatched
<1>6. FoundIsRefused'
  BY DEF FoundIsRefused
<1> QED
  BY <1>1, <1>2, <1>3, <1>4, <1>5, <1>6

LEMMA CompareKeeps ==
  ASSUME KInv, TypeOK', NEW p \in Proc, Compare(p)
  PROVE  KInv'
<1> USE KeygenAssumption DEF KInv, TypeOK, Key, Content, Goto, Generating, Reading, Ended, Written,
        Compare, KeyPairMatches
<1>1. OnlyGeneratorsWrite'
  BY DEF OnlyGeneratorsWrite
<1>2. PublicHasWriter'
  BY DEF PublicPending, PublicHasWriter
<1>3. SecretReadIsCurrent'
  BY DEF SecretReadIsCurrent, SecretPending
<1>4. PublicReadIsCurrent'
  BY DEF PublicReadIsCurrent, PublicPending
<1>5. SuccessMatched'
  BY DEF SuccessMatched
<1>6. FoundIsRefused'
  BY DEF FoundIsRefused
<1> QED
  BY <1>1, <1>2, <1>3, <1>4, <1>5, <1>6

LEMMA EndsKeeps ==
  ASSUME KInv, TypeOK', NEW p \in Proc, IoError(p) \/ Crash(p)
  PROVE  KInv'
<1> USE KeygenAssumption DEF KInv, TypeOK, Key, Content, Goto, Generating, Reading, Ended, Written,
        IoError, Crash, CutShort
<1>1. OnlyGeneratorsWrite'
  BY DEF OnlyGeneratorsWrite
<1>2. PublicHasWriter'
  <2>1. CASE kind[p] # "check"
    <3>1. PublicPending'
      BY <2>1 DEF PublicPending
    <3> QED
      BY <3>1 DEF PublicHasWriter
  <2>2. CASE kind[p] = "check"
    <3>1. UNCHANGED <<secret, public>>
      BY <2>2 DEF OnlyGeneratorsWrite
    <3>2. PublicPending => PublicPending'
      BY <2>2 DEF PublicPending
    <3>3. ASSUME NEW q \in Proc PROVE Written(q)' <=> Written(q)
      BY <2>2
    <3> QED
      BY <3>1, <3>2, <3>3 DEF PublicHasWriter
  <2> QED
    BY <2>1, <2>2
<1>3. SecretReadIsCurrent'
  <2>1. CASE kind[p] # "check"
    <3>1. SecretPending'
      BY <2>1 DEF SecretPending
    <3> QED
      BY <3>1 DEF SecretReadIsCurrent
  <2>2. CASE kind[p] = "check"
    <3>1. UNCHANGED <<secret, public>>
      BY <2>2 DEF OnlyGeneratorsWrite
    <3>2. SecretPending => SecretPending'
      BY <2>2 DEF SecretPending
    <3> QED
      BY <2>2, <3>1, <3>2 DEF SecretReadIsCurrent
  <2> QED
    BY <2>1, <2>2
<1>4. PublicReadIsCurrent'
  BY DEF PublicReadIsCurrent, PublicPending
<1>5. SuccessMatched'
  BY DEF SuccessMatched
<1>6. FoundIsRefused'
  BY DEF FoundIsRefused
<1> QED
  BY <1>1, <1>2, <1>3, <1>4, <1>5, <1>6

LEMMA KeygenNext == KInv /\ [Next]_vars => KInv'
<1> SUFFICES ASSUME KInv, [Next]_vars PROVE KInv'
  OBVIOUS
<1>1. TypeOK'
  BY KeygenTypes DEF KInv
<1>2. CASE Next
  <2>1. PICK p \in Proc : \/ \E k \in {"plain", "force", "check"} : Start(p, k)
                          \/ Step(p)
    BY <1>2 DEF Next
  <2>2. CASE \E k \in {"plain", "force", "check"} : Start(p, k)
    BY <1>1, <2>2, StartKeeps
  <2>3. CASE Step(p)
    BY <1>1, <2>3, ExistsKeeps, KeyGenKeeps, OpenSecretKeeps, WriteSecretKeeps,
       OpenPublicKeeps, WritePublicKeeps, ReadSecretKeeps, ReadPublicKeeps,
       CompareKeeps, EndsKeeps DEF Step
  <2> QED
    BY <2>1, <2>2, <2>3
<1>3. CASE UNCHANGED vars
  BY <1>1, <1>3
     DEF vars, KInv, OnlyGeneratorsWrite, PublicHasWriter, SecretReadIsCurrent,
         PublicReadIsCurrent, SuccessMatched, FoundIsRefused, Written,
         PublicPending, SecretPending
<1> QED
  BY <1>2, <1>3

\* For any number of runs the parts of KInv hold throughout.
THEOREM KeygenInvariant == Spec => []KInv
<1>1. KInv /\ [Next]_vars => KInv'
  BY KeygenNext
<1> QED
  BY <1>1, KeygenInit, PTL DEF Spec

LEMMA SucceededArePair == KInv => AllSucceededMeansPair
<1> SUFFICES ASSUME KInv,
                    NEW g \in Proc, Generator(g),
                    \A p \in Proc : Generator(p) => pc[p] = "ok"
             PROVE  public \in Proc /\ Generator(public) /\ secret = public
  BY DEF AllSucceededMeansPair
<1>1. ~SecretPending /\ ~PublicPending
  BY DEF SecretPending, PublicPending, Generator
<1>2. Written(g)
  BY DEF Written, Generator
<1>3. public \in Proc /\ Written(public)
  BY <1>1, <1>2 DEF KInv, PublicHasWriter
<1>4. pc[public] = "ok"
  BY <1>3 DEF Written, Generator, Reading
<1>5. /\ read_sk[public] = secret
      /\ read_pk[public] = public
      /\ read_sk[public] = read_pk[public]
  BY <1>1, <1>3, <1>4
     DEF KInv, SecretReadIsCurrent, PublicReadIsCurrent, SuccessMatched
<1>6. Generator(public)
  BY <1>3, <1>4 DEF Written, Generator
<1> QED
  BY <1>3, <1>5, <1>6

(* However many runs of bbs-keygen write the two files at once, when all of *)
(* them reported success the files are the pair of one of them: the last    *)
(* writer of the public key reads after every other write.                 *)
THEOREM MixUpIsNoticed == Spec => []AllSucceededMeansPair
BY KeygenInvariant, SucceededArePair, PTL

(* A run without --force that finds a file never opens either for writing. *)
THEOREM FoundIsKept == Spec => UnforcedLeavesFiles
<1> DEFINE Kept == \A p \in found :
             kind[p] = "plain" /\ pc[p] # pc'[p] => UNCHANGED <<secret, public>>
<1>1. KInv /\ [Next]_vars => [Kept]_vars
  <2> SUFFICES ASSUME KInv, Next,
                      NEW q \in found, kind[q] = "plain", pc[q] # pc'[q]
               PROVE  UNCHANGED <<secret, public>>
    BY DEF vars
  <2>1. q \in Proc /\ pc \in [Proc -> {"idle"} \cup Generating \cup Reading \cup Ended]
    BY DEF KInv, TypeOK
  <2>2. pc[q] \in {"exists_secret", "exists_public"} \cup Ended
    BY DEF KInv, FoundIsRefused
  <2>3. PICK p \in Proc : (\E k \in {"plain", "force", "check"} : Start(p, k)) \/ Step(p)
    BY DEF Next
  <2>4. p = q
    BY <2>1, <2>3
       DEF Step, Start, Exists, KeyGen, OpenSecret, WriteSecret, OpenPublic, WritePublic,
           ReadSecret, ReadPublic, Compare, IoError, Crash, Goto
  <2> QED
    BY <2>2, <2>3, <2>4
       DEF Step, Start, Exists, KeyGen, OpenSecret, WriteSecret, OpenPublic, WritePublic,
           ReadSecret, ReadPublic, Compare, IoError, Crash, CutShort, Goto, Ended
<1> QED
  BY <1>1, KeygenInvariant, PTL DEF Spec, UnforcedLeavesFiles
=============================================================================
