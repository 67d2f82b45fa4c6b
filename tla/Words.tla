-------------------------------- MODULE Words --------------------------------
(***************************************************************************)
(* Cutting a text into words (include/UnicodeDecoder.hpp): word_seperator  *)
(* runs a UTF-8 automaton over the bytes of a text, ends a word at white   *)
(* space and after every character of several bytes, and replaces what is  *)
(* not UTF-8.                                                              *)
(*                                                                         *)
(* A byte is its type in the automaton's table; Space is a white space     *)
(* byte, which the table does not tell from other ASCII.  A word is the    *)
(* sequence of the positions of its bytes.                                 *)
(***************************************************************************)
EXTENDS Naturals, Sequences, SequencesExt

CONSTANTS Bytes,     \* the byte types that occur, of 0..Space
          MaxLen     \* bound on the length of the text

Space == 12

ASSUME BytesAssumption == Bytes \subseteq 0..Space /\ MaxLen \in Nat

VARIABLES
  str, itr,        \* the text, the position in it
  current,         \* the automaton's state; prev is its value before a byte
  word, words

vars == <<str, itr, current, word, words>>

Accept == 0
Reject == 1

\* What words gets for an invalid byte; no word starts at position 0.
Replacement == <<0>>

Init ==
  /\ str \in BoundedSeq(Bytes, MaxLen)
  /\ itr = 1 /\ current = Accept
  /\ word = <<>> /\ words = <<>>

-----------------------------------------------------------------------------
(* The automaton: types 1, 9 and 7 are the continuation bytes 80..8f, 90..9f
   and a0..bf, the others lead. *)

BugSurrogates(s, type) ==
  IF s = Accept
  THEN <<0, 1, 2, 3, 5, 8, 7, 1, 1, 1, 4, 6>>[type + 1]
  ELSE CASE s = 2 /\ type \in {1, 7, 9} -> Accept
         [] s \in {3, 4} /\ type \in {1, 7, 9} -> 2
         [] s = 5 /\ type \in {1, 9} -> 2
         [] s = 6 /\ type \in {7, 9} -> 3
         [] s = 7 /\ type \in {1, 7, 9} -> 3
         [] s = 8 /\ type = 1 -> 3
         [] OTHER -> Reject

\* utf8d, from offset 256: the state after a byte of a type in a state.
Step(s, type) ==
  IF s = Accept
  THEN <<0, 1, 2, 3, 5, 8, 7, 1, 1, 1, 4, 6>>[type + 1]
  ELSE CASE s = 2 /\ type \in {1, 7, 9} -> Accept
         [] s = 3 /\ type \in {1, 7, 9} -> 2
         [] s = 4 /\ type = 7 -> 2
         [] s = 5 /\ type \in {1, 9} -> 2
         [] s = 6 /\ type \in {7, 9} -> 3
         [] s = 7 /\ type \in {1, 7, 9} -> 3
         [] s = 8 /\ type = 1 -> 3
         [] OTHER -> Reject

BugAfterSpaces == 1 + CHOOSE j \in itr + 1 .. Len(str) + 1 :
  /\ \A i \in itr .. j - 1 : str[i] = Space
  /\ j <= Len(str) => str[j] # Space

AfterSpaces == CHOOSE j \in itr + 1 .. Len(str) + 1 :
  /\ \A i \in itr .. j - 1 : str[i] = Space
  /\ j <= Len(str) => str[j] # Space

-----------------------------------------------------------------------------
(* word_seperator: one action per way through a turn of its loop *)

Ended(ws, w) == IF w = <<>> THEN ws ELSE Append(ws, w)

\* White space ends a word; the automaton stays where it is.
SkipSpaces ==
  /\ itr <= Len(str) /\ str[itr] = Space
  /\ words' = Ended(words, word) /\ word' = <<>>
  /\ itr' = AfterSpaces
  /\ UNCHANGED <<str, current>>

Decodes(s) == itr <= Len(str) /\ str[itr] # Space /\ Step(current, str[itr]) = s

\* A character is complete; one of several bytes ends its word.
CompleteCharacter ==
  /\ Decodes(Accept)
  /\ current' = Accept
  /\ IF current = Accept
     THEN word' = Append(word, itr) /\ UNCHANGED words
     ELSE word' = <<>> /\ words' = Append(words, Append(word, itr))
  /\ itr' = itr + 1
  /\ UNCHANGED str

BugRetryAlways ==
  /\ Decodes(Reject)
  /\ current' = Accept
  /\ word' = <<>> /\ words' = words
  /\ UNCHANGED <<str, itr>>

BugKeepAndRetry ==
  /\ Decodes(Reject)
  /\ current' = Accept
  /\ word' = Append(word, itr) /\ words' = Append(words, Replacement)
  /\ itr' = IF current = Accept THEN itr + 1 ELSE itr
  /\ UNCHANGED str

\* The word so far is dropped and replaced; a byte that came where a character
\* had begun is looked at again, as a beginning.
ReplaceByte ==
  /\ Decodes(Reject)
  /\ current' = Accept
  /\ word' = <<>> /\ words' = Append(words, Replacement)
  /\ itr' = IF current = Accept THEN itr + 1 ELSE itr
  /\ UNCHANGED str

ContinueCharacter ==
  /\ itr <= Len(str) /\ str[itr] # Space
  /\ LET s == Step(current, str[itr]) IN
       /\ s \notin {Accept, Reject}
       /\ current' = s
  /\ word' = Append(word, itr)
  /\ itr' = itr + 1
  /\ UNCHANGED <<str, words>>

\* After the loop the last word is added.
EndText ==
  /\ itr = Len(str) + 1
  /\ words' = Ended(words, word) /\ word' = <<>>
  /\ itr' = itr + 1
  /\ UNCHANGED <<str, current>>

Next == SkipSpaces \/ CompleteCharacter \/ ReplaceByte \/ ContinueCharacter \/ EndText

Spec == Init /\ [][Next]_vars

\* A call of a function that nothing interrupts.
FairSpec == Spec /\ WF_vars(Next)

-----------------------------------------------------------------------------
(* Properties *)

Done == itr = Len(str) + 2

\* The well-formed characters of the Unicode standard, byte by byte.
Tail3 == {1, 7, 9}
Characters ==
  LET Two == {<<a, b>> : a \in {2}, b \in Tail3}
      Three == {<<a, b, c>> : a \in {3, 4, 10}, b \in Tail3, c \in Tail3}
      Four == {<<a, b, c, d>> : a \in {5, 6, 11}, b \in Tail3, c \in Tail3, d \in Tail3}
  IN {<<0>>} \cup Two
     \cup {x \in Three : (x[1] = 4 => x[2] # 7) /\ (x[1] = 10 => x[2] = 7)}
     \cup {x \in Four : (x[1] = 5 => x[2] = 1) /\ (x[1] = 11 => x[2] # 1)}

\* A text is well formed if it can be cut into characters and spaces.
WellFormed(s) ==
  \E cuts \in SUBSET (0..Len(s)) :
    /\ {0, Len(s)} \subseteq cuts
    /\ \A i \in cuts, j \in cuts :
         i < j /\ (\A k \in cuts : ~(i < k /\ k < j))
           => SubSeq(s, i + 1, j) \in Characters \cup {<<Space>>}

BytesOf(w) == [i \in DOMAIN w |-> str[w[i]]]

\* The bytes used so far, and the zeros that stand for replacements.
Used == FlattenSeq(words) \o word

InOrder(s) == \A i, j \in DOMAIN s : i < j /\ 0 \notin {s[i], s[j]} => s[i] < s[j]

\* Of a well-formed text the words are its bytes in order, without the spaces
\* and with no replacement, each word well formed by itself.
WordsAreTheText ==
  Done /\ WellFormed(str) =>
    /\ InOrder(Used) /\ ToSet(Used) = {i \in DOMAIN str : str[i] # Space}
    /\ \A i \in DOMAIN words : WellFormed(BytesOf(words[i]))

\* Of a text in one piece, what is not well formed is noticed: if nothing was
\* replaced and no character is left unfinished, the text was well formed.
SilentMeansWellFormed ==
  Done /\ current = Accept /\ Replacement \notin ToSet(words) /\ Space \notin ToSet(str)
    => WellFormed(str)

\* Of any text, no byte is used twice or out of order, although the loop goes
\* back to a byte it has seen.
NoByteTwice == InOrder(Used)

\* The loop that steps back ends.
Ends == <>Done

=============================================================================
