------------------------------- MODULE MCJwp -------------------------------
(* Jwp on the documents with at most two leaves, no deeper than two, over   *)
(* the names below.                                                        *)
EXTENDS Jwp, TLC

EmptyName == <<>>
NameA == <<97>>                   \* a
NameB == <<98>>                   \* b
NameDash == <<97, 45>>            \* a-   ('-' sorts before '/')
NameSlash == <<97, 47, 98>>       \* a/b
NameTilde == <<126, 49>>          \* ~1

PathsOver(names) == {<<n>> : n \in names} \cup {<<n, m>> : n, m \in names}

\* A leaf is not also an object.
DocsOver(names) ==
  {{p} : p \in PathsOver(names)} \cup
  {{p, q} : <<p, q>> \in {pq \in PathsOver(names) \X PathsOver(names) :
                            ~IsPrefix(pq[1], pq[2]) /\ ~IsPrefix(pq[2], pq[1])}}

MCIssuerDocs == DocsOver({EmptyName, NameA, NameSlash}) \cup DocsOver({NameB, NameTilde})
MCHolderDocs == {{}} \cup DocsOver({EmptyName, NameA, NameB}) \cup DocsOver({NameA, NameDash, NameSlash})

MCPlainDocs == DocsOver({NameA, NameB})
MCPlainOptional == {{}} \cup MCPlainDocs
MCOddDocs == DocsOver({NameA, NameSlash})
=============================================================================
