------------------------------- MODULE Keygen -------------------------------
(***************************************************************************)
(* The bbs-keygen tool: any number of runs of it against one directory, in  *)
(* any interleaving of their file system calls, each of which may end at    *)
(* any of them.  A run draws one key pair, so the run's name stands for it: *)
(* a file holds run p's key, the key that was there before (Old), a text    *)
(* that is no whole key (Empty), or is absent (NoFile).                    *)
(***************************************************************************)
EXTENDS Naturals, FiniteSets

CONSTANTS
  Proc,          \* runs of the tool
  Old, Empty, NoFile

ASSUME KeygenAssumption ==
  /\ {Old, Empty, NoFile} \cap Proc = {}
  /\ Old # Empty /\ Old # NoFile /\ Empty # NoFile

VARIABLES
  secret, public,     \* what the two files hold
  mode,               \* the secret file's permissions
  pc,                 \* the call each run makes next
  kind,               \* how each run was called: plain, --force or --check
  read_sk, read_pk,   \* what each run has read back
  found               \* runs that began when one of the files was there

vars == <<secret, public, mode, pc, kind, read_sk, read_pk, found>>

Key == Proc \cup {Old}
Content == Key \cup {Empty, NoFile}

Generating == {"exists_secret", "exists_public", "key_gen", "open_secret",
               "write_secret", "open_public", "write_public"}
Reading == {"read_secret", "read_public", "compare"}
Ended == {"ok", "failed", "crashed"}

TypeOK ==
  /\ secret \in Content
  /\ public \in Content
  /\ mode \in {"0600", "wide"}
  /\ pc \in [Proc -> {"idle"} \cup Generating \cup Reading \cup Ended]
  /\ kind \in [Proc -> {"plain", "force", "check"}]
  /\ read_sk \in [Proc -> Content]
  /\ read_pk \in [Proc -> Content]
  /\ found \subseteq Proc

\* The directory may hold an earlier pair, or half of one, and an operator may
\* have given the secret wider permissions.
Init ==
  /\ secret \in {NoFile, Old}
  /\ public \in {NoFile, Old}
  /\ mode \in {"0600", "wide"}
  /\ (secret = NoFile => mode = "0600")
  /\ pc = [p \in Proc |-> "idle"]
  /\ kind = [p \in Proc |-> "plain"]
  /\ read_sk = [p \in Proc |-> NoFile]
  /\ read_pk = [p \in Proc |-> NoFile]
  /\ found = {}

Goto(p, from, to) == pc[p] = from /\ pc' = [pc EXCEPT ![p] = to]

\* --check goes straight to reading, --force skips the existence checks.
Start(p, k) ==
  /\ Goto(p, "idle", CASE k = "plain" -> "exists_secret"
                       [] k = "force" -> "key_gen"
                       [] k = "check" -> "read_secret")
  /\ kind' = [kind EXCEPT ![p] = k]
  /\ found' = IF secret # NoFile \/ public # NoFile THEN found \cup {p} ELSE found
  /\ UNCHANGED <<secret, public, mode, read_sk, read_pk>>

\* Mutant: only the secret's path is tested.
ExistsSecretOnly(p) ==
  /\ \/ Goto(p, "exists_secret", IF secret = NoFile THEN "exists_public" ELSE "failed")
     \/ Goto(p, "exists_public", "key_gen")
  /\ UNCHANGED <<secret, public, mode, kind, read_sk, read_pk, found>>

\* Refuse when either file exists, the secret's path first.
Exists(p) ==
  /\ \/ Goto(p, "exists_secret", IF secret = NoFile THEN "exists_public" ELSE "failed")
     \/ Goto(p, "exists_public", IF public = NoFile THEN "key_gen" ELSE "failed")
  /\ UNCHANGED <<secret, public, mode, kind, read_sk, read_pk, found>>

\* key_gen_random and create_dir_all touch neither file.
KeyGen(p) ==
  /\ Goto(p, "key_gen", "open_secret")
  /\ UNCHANGED <<secret, public, mode, kind, read_sk, read_pk, found>>

\* open with create, truncate and mode: the mode is for a file it creates.
OpenSecret(p) ==
  /\ Goto(p, "open_secret", "write_secret")
  /\ secret' = Empty
  /\ mode' = IF secret = NoFile THEN "0600" ELSE mode
  /\ UNCHANGED <<public, kind, read_sk, read_pk, found>>

WriteSecret(p) ==
  /\ Goto(p, "write_secret", "open_public")
  /\ secret' = p
  /\ UNCHANGED <<public, mode, kind, read_sk, read_pk, found>>

\* write_public is fs::write, an open that truncates and a write.
OpenPublic(p) ==
  /\ Goto(p, "open_public", "write_public")
  /\ public' = Empty
  /\ UNCHANGED <<secret, mode, kind, read_sk, read_pk, found>>

WritePublic(p) ==
  /\ Goto(p, "write_public", "read_secret")
  /\ public' = p
  /\ UNCHANGED <<secret, mode, kind, read_sk, read_pk, found>>

ReadSecret(p) ==
  /\ secret # NoFile
  /\ Goto(p, "read_secret", "read_public")
  /\ read_sk' = [read_sk EXCEPT ![p] = secret]
  /\ UNCHANGED <<secret, public, mode, kind, read_pk, found>>

ReadPublic(p) ==
  /\ public # NoFile
  /\ Goto(p, "read_public", "compare")
  /\ read_pk' = [read_pk EXCEPT ![p] = public]
  /\ UNCHANGED <<secret, public, mode, kind, read_sk, found>>

\* Mutant: each half is a key, but of any pair.
BothAreKeys(p) == read_sk[p] \in Key /\ read_pk[p] \in Key

\* key_pair_matches on what was read back; a text that is not a whole key has
\* the wrong length.
KeyPairMatches(p) == read_sk[p] \in Key /\ read_pk[p] = read_sk[p]

Compare(p) ==
  /\ Goto(p, "compare", IF KeyPairMatches(p) THEN "ok" ELSE "failed")
  /\ UNCHANGED <<secret, public, mode, kind, read_sk, read_pk, found>>

\* What a write that is cut short leaves: part of the text, over what was there.
CutShort(p) ==
  /\ secret' \in IF pc[p] = "write_secret" THEN {secret, Empty} ELSE {secret}
  /\ public' \in IF pc[p] = "write_public" THEN {public, Empty} ELSE {public}

\* A call returns an error (no randomness, no space, no permission, no file),
\* and the run ends with a message.
IoError(p) ==
  /\ pc[p] \in {"key_gen", "open_secret", "write_secret", "open_public",
                "write_public", "read_secret", "read_public"}
  /\ Goto(p, pc[p], "failed")
  /\ CutShort(p)
  /\ UNCHANGED <<mode, kind, read_sk, read_pk, found>>

\* The process is killed in a call or between two.
Crash(p) ==
  /\ pc[p] \in Generating \cup Reading
  /\ Goto(p, pc[p], "crashed")
  /\ CutShort(p)
  /\ UNCHANGED <<mode, kind, read_sk, read_pk, found>>

Step(p) ==
  \/ Exists(p)
  \/ KeyGen(p)
  \/ OpenSecret(p)
  \/ WriteSecret(p)
  \/ OpenPublic(p)
  \/ WritePublic(p)
  \/ ReadSecret(p)
  \/ ReadPublic(p)
  \/ Compare(p)
  \/ IoError(p)
  \/ Crash(p)

Next == \E p \in Proc : \/ \E k \in {"plain", "force", "check"} : Start(p, k)
                        \/ Step(p)

Spec == Init /\ [][Next]_vars

-----------------------------------------------------------------------------
(* Properties.                                                             *)

Generator(p) == pc[p] # "idle" /\ kind[p] # "check"

(* Reading the files back is enough to notice a mix-up: however many runs   *)
(* write at once, if every one of them reported success then the two files  *)
(* are a pair, and it is the pair of one of them, whose printed public key  *)
(* it is.  The others have printed a key that is in no file.               *)
AllSucceededMeansPair ==
  (/\ \E p \in Proc : Generator(p)
   /\ \A p \in Proc : Generator(p) => pc[p] = "ok")
  => public \in Proc /\ Generator(public) /\ secret = public

(* A run without --force that begins when either file is there changes      *)
(* neither, whatever runs beside it.                                       *)
UnforcedLeavesFiles ==
  [][\A p \in found : kind[p] = "plain" /\ pc[p] # pc'[p] => UNCHANGED <<secret, public>>]_vars

(* "Refuse rather than overwrite": only a run with --force replaces a key.  *)
OnlyForceReplaces ==
  [][\A p \in Proc : secret \in Key /\ secret' # secret /\ pc[p] # pc'[p]
                       => kind[p] = "force"]_vars

(* "The secret key is written 0600": a run that reports success has left    *)
(* its secret to its owner alone.                                          *)
SecretIsPrivate ==
  \A p \in Proc : Generator(p) /\ pc[p] = "ok" /\ secret = p => mode = "0600"

-----------------------------------------------------------------------------
(* The inductive invariant.  Who has begun to replace a file and not ended  *)
(* in success is what a run that read it earlier could have missed.         *)

\* A run that may have replaced the secret since, and has yet to write public.
SecretPending == \E r \in Proc :
  /\ kind[r] # "check"
  /\ pc[r] \in {"write_secret", "open_public", "write_public", "failed", "crashed"}

PublicPending == \E r \in Proc :
  /\ kind[r] # "check"
  /\ pc[r] \in {"write_public", "failed", "crashed"}

Written(p) == kind[p] # "check" /\ pc[p] \in Reading \cup {"ok"}

OnlyGeneratorsWrite == \A p \in Proc : pc[p] \in Generating => kind[p] # "check"

\* Once a run has written both files, public holds such a run's key or is
\* being replaced.
PublicHasWriter ==
  (\E p \in Proc : Written(p)) =>
    PublicPending \/ (public \in Proc /\ Written(public))

\* While p's key is the public one, what p read of the secret is still there
\* or being replaced; likewise of the public key.
SecretReadIsCurrent ==
  \A p \in Proc : Written(p) /\ pc[p] # "read_secret" =>
    read_sk[p] = secret \/ public # p \/ SecretPending

PublicReadIsCurrent ==
  \A p \in Proc : Written(p) /\ pc[p] \notin {"read_secret", "read_public"} =>
    read_pk[p] = public \/ public # p \/ PublicPending

SuccessMatched == \A p \in Proc : pc[p] = "ok" => read_sk[p] = read_pk[p]

\* A file that is there stays there, and stops an unforced run at one of the
\* two tests.
FoundIsRefused ==
  \A p \in found :
    /\ secret # NoFile \/ public # NoFile
    /\ kind[p] = "plain" => pc[p] \in {"exists_secret", "exists_public"} \cup Ended
    /\ kind[p] = "plain" /\ pc[p] = "exists_public" => public # NoFile

KInv ==
  /\ TypeOK
  /\ OnlyGeneratorsWrite
  /\ PublicHasWriter
  /\ SecretReadIsCurrent
  /\ PublicReadIsCurrent
  /\ SuccessMatched
  /\ FoundIsRefused
=============================================================================
