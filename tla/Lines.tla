------------------------------- MODULE Lines -------------------------------
(***************************************************************************)
(* A line that one leaves from wherever one stands.                        *)
(***************************************************************************)
EXTENDS Naturals, Sequences

\* s without r, the others in their order: a filter, written out as a function
\* because nothing can be proved about SelectSeq.
Without(s, r) ==
  LET kept[i \in 0..Len(s)] ==
        IF i = 0 THEN <<>>
        ELSE IF s[i] = r THEN kept[i - 1] ELSE Append(kept[i - 1], s[i])
  IN  kept[Len(s)]
=============================================================================
