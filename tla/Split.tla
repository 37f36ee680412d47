-------------------------------- MODULE Split --------------------------------
(***************************************************************************)
(* Texts made of parts between marks: the octet strings of a container     *)
(* (jwp.rs, split at '.' and '~') and the names of a claim pointer (split   *)
(* at '/').  A text is a sequence of numbers, one per character.           *)
(***************************************************************************)
EXTENDS Integers, Sequences, SequencesExt

JoinedBy(parts, mark) ==
  FlattenSeq([i \in DOMAIN parts |->
                IF i = 1 THEN parts[i] ELSE <<mark>> \o parts[i]])

\* str::split: one part more than there are marks.  A mark starts a part,
\* any other character goes to the last one.
SplitBy(text, mark) ==
  LET split[i \in 0 .. Len(text)] ==
        IF i = 0 THEN <<<<>>>>
        ELSE IF text[i] = mark THEN Append(split[i - 1], <<>>)
        ELSE LET parts == split[i - 1]
             IN  [parts EXCEPT ![Len(parts)] = Append(@, text[i])]
  IN  split[Len(text)]
=============================================================================
