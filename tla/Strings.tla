------------------------------- MODULE Strings -------------------------------
(***************************************************************************)
(* The operations on std::string the program's formats are built from, on  *)
(* sequences.  Positions start at 1; None is std::string::npos.            *)
(***************************************************************************)
EXTENDS Naturals, Sequences, SequencesExt

CONSTANT None

ASSUME NoneAssumption == None \notin Nat \cup Seq(Nat)

At(s, i, pattern) ==
  i + Len(pattern) <= Len(s) + 1 /\ SubSeq(s, i, i + Len(pattern) - 1) = pattern

\* s.find(pattern, start)
Find(s, pattern, start) ==
  LET found == {i \in start..(Len(s) + 1 - Len(pattern)) : At(s, i, pattern)}
  IN IF found = {} THEN None ELSE CHOOSE i \in found : \A j \in found : i <= j

\* s.find_last_of(c)
FindLast(s, c) ==
  LET found == {i \in DOMAIN s : s[i] = c}
  IN IF found = {} THEN None ELSE CHOOSE i \in found : \A j \in found : j <= i

Before(s, i) == IF i = None THEN s ELSE SubSeq(s, 1, i - 1)
From(s, i) == SubSeq(s, i, Len(s))

\* hlp::split, and std::views::split of a text that is not empty: the parts
\* between the delimiters, the last of them empty after a trailing delimiter.
Split(s, delimiter) ==
  LET from[start \in 1..(Len(s) + 1)] ==
        LET end == Find(s, delimiter, start)
        IN IF end = None THEN <<From(s, start)>>
           ELSE <<SubSeq(s, start, end - 1)>> \o from[end + Len(delimiter)]
  IN from[1]
=============================================================================
