----------------------------- MODULE WordsProofs ------------------------------
(***************************************************************************)
(* word_seperator on texts of any length: no byte is used twice, the words *)
(* of a well-formed text are that text, and what is malformed is noticed.  *)
(***************************************************************************)
EXTENDS Words, Induction

-----------------------------------------------------------------------------
(* Cutting a sequence of bytes into characters *)

GoodCuts(t, m, cuts) ==
  /\ cuts \subseteq 0..m /\ {0, m} \subseteq cuts
  /\ \A i \in cuts, j \in cuts :
       i < j /\ (\A k \in cuts : ~(i < k /\ k < j))
         => SubSeq(t, i + 1, j) \in Characters \cup {<<Space>>}

\* The first m bytes are characters and spaces.
CutTo(t, m) == \E cuts \in SUBSET (0..m) : GoodCuts(t, m, cuts)

\* The bytes behind n, up to m, are one character.
IsCharacter(t, n, m) ==
  \/ m = n + 1 /\ t[n + 1] = 0
  \/ m = n + 2 /\ t[n + 1] = 2 /\ t[n + 2] \in Tail3
  \/ /\ m = n + 3 /\ t[n + 1] \in {3, 4, 10} /\ t[n + 2] \in Tail3 /\ t[n + 3] \in Tail3
     /\ (t[n + 1] = 4 => t[n + 2] # 7) /\ (t[n + 1] = 10 => t[n + 2] = 7)
  \/ /\ m = n + 4 /\ t[n + 1] \in {5, 6, 11}
     /\ t[n + 2] \in Tail3 /\ t[n + 3] \in Tail3 /\ t[n + 4] \in Tail3
     /\ (t[n + 1] = 5 => t[n + 2] = 1) /\ (t[n + 1] = 11 => t[n + 2] # 1)

\* The states within a character.
Within == 2..8

\* The automaton is in state s, p bytes behind n, where a character began.
Reaches(t, n, p, s) ==
  /\ \A i \in 1..p : t[n + i] # Space
  /\ \/ p = 0 /\ s = Accept
     \/ p = 1 /\ s \in Within /\ s = Step(Accept, t[n + 1])
     \/ p = 2 /\ s \in Within /\ \E q \in Within : /\ q = Step(Accept, t[n + 1])
                                                   /\ s = Step(q, t[n + 2])
     \/ p = 3 /\ s \in Within /\ \E q, r \in Within : /\ q = Step(Accept, t[n + 1])
                                                      /\ r = Step(q, t[n + 2])
                                                      /\ s = Step(r, t[n + 3])

-----------------------------------------------------------------------------
(* The inductive invariant *)

\* How many bytes were used.
End == IF Done THEN Len(str) ELSE itr - 1

Typed ==
  /\ str \in Seq(0..Space) /\ itr \in 1..(Len(str) + 2)
  /\ current \in {Accept} \cup Within
  /\ word \in Seq(Nat) /\ words \in Seq(Seq(Nat))
  /\ Done => word = <<>>

Behind == \A i \in DOMAIN Used : Used[i] <= End

\* Where nothing was replaced, the text up to the character being read is cut.
Silent ==
  Replacement \notin ToSet(words) /\ Space \notin ToSet(str) =>
    \E n \in 0..End : CutTo(str, n) /\ Reaches(str, n, End - n, current)

\* The bytes at some positions of a text.
Spelled(t, w) == [i \in DOMAIN w |-> t[w[i]]]

\* In a text t with these cuts, of which e bytes are read, the automaton, in
\* state s, began its character at the last cut, n; the character's bytes end
\* the word.
AtCut(t, cuts, n, e, s, w) ==
  LET p == e - n IN
  /\ n <= e /\ \A k \in cuts : k <= n \/ k > e
  /\ Reaches(t, n, p, s)
  /\ p <= Len(w) /\ \A i \in 1..p : w[Len(w) - p + i] = n + i
  /\ CutTo(Spelled(t, w), Len(w) - p)

\* The text can be cut, and the automaton is at a cut of it.
Cuts(t, e, s, w) ==
  \E cuts \in SUBSET (0..Len(t)) :
    /\ GoodCuts(t, Len(t), cuts)
    /\ \E n \in cuts : AtCut(t, cuts, n, e, s, w)

\* Of a well-formed text the words are what was read of it, and in characters.
Tidy(t, e, w, ws, used) ==
  /\ w \in Seq(1..Len(t)) /\ ws \in Seq(Seq(1..Len(t)))
  /\ ToSet(used) = {i \in 1..e : t[i] # Space}
  /\ \A i \in DOMAIN ws : WellFormed(Spelled(t, ws[i]))

Text ==
  WellFormed(str) =>
    /\ Tidy(str, End, word, words, Used)
    /\ Cuts(str, End, current, word)

IInv == Typed /\ InOrder(Used) /\ Behind /\ Silent /\ Text

-----------------------------------------------------------------------------
(* The automaton and the characters *)

\* utf8d as far as the proofs need it.
LEMMA Table ==
  ASSUME NEW type \in 0..11
  PROVE  /\ Step(Accept, type) \in {Accept, Reject} \cup Within
         /\ Step(Accept, type) = Accept <=> type = 0
         /\ Step(Accept, type) = 2 <=> type = 2
         /\ Step(Accept, type) = 3 <=> type = 3
         /\ Step(Accept, type) = 4 <=> type = 10
         /\ Step(Accept, type) = 5 <=> type = 4
         /\ Step(Accept, type) = 6 <=> type = 11
         /\ Step(Accept, type) = 7 <=> type = 6
         /\ Step(Accept, type) = 8 <=> type = 5
         /\ \A s \in Within :
              /\ Step(s, type) \in {0, 1, 2, 3}
              /\ Step(s, type) = 0 <=> s = 2 /\ type \in Tail3
              /\ Step(s, type) = 2 <=> \/ s = 3 /\ type \in Tail3
                                       \/ s = 4 /\ type = 7
                                       \/ s = 5 /\ type \in {1, 9}
              /\ Step(s, type) = 3 <=> \/ s = 6 /\ type \in {7, 9}
                                       \/ s = 7 /\ type \in Tail3
                                       \/ s = 8 /\ type = 1
<1>1. \/ type = 0 \/ type = 1 \/ type = 2 \/ type = 3 \/ type = 4 \/ type = 5
      \/ type = 6 \/ type = 7 \/ type = 8 \/ type = 9 \/ type = 10 \/ type = 11
  OBVIOUS
<1> DEFINE begin == <<0, 1, 2, 3, 5, 8, 7, 1, 1, 1, 4, 6>>
<1>2. Step(Accept, type) = begin[type + 1]
  BY DEF Step
<1>3. /\ begin[1] = 0 /\ begin[2] = 1 /\ begin[3] = 2 /\ begin[4] = 3
      /\ begin[5] = 5 /\ begin[6] = 8 /\ begin[7] = 7 /\ begin[8] = 1
      /\ begin[9] = 1 /\ begin[10] = 1 /\ begin[11] = 4 /\ begin[12] = 6
  OBVIOUS
<1> HIDE DEF begin
<1>4. /\ Step(Accept, type) \in {Accept, Reject} \cup Within
      /\ Step(Accept, type) = Accept <=> type = 0
      /\ Step(Accept, type) = 2 <=> type = 2
      /\ Step(Accept, type) = 3 <=> type = 3
      /\ Step(Accept, type) = 4 <=> type = 10
      /\ Step(Accept, type) = 5 <=> type = 4
      /\ Step(Accept, type) = 6 <=> type = 11
      /\ Step(Accept, type) = 7 <=> type = 6
      /\ Step(Accept, type) = 8 <=> type = 5
  BY <1>1, <1>2, <1>3 DEF Accept, Reject, Within
<1>5. ASSUME NEW s \in Within
      PROVE  /\ Step(s, type) \in {0, 1, 2, 3}
             /\ Step(s, type) = 0 <=> s = 2 /\ type \in Tail3
             /\ Step(s, type) = 2 <=> \/ s = 3 /\ type \in Tail3
                                      \/ s = 4 /\ type = 7
                                      \/ s = 5 /\ type \in {1, 9}
             /\ Step(s, type) = 3 <=> \/ s = 6 /\ type \in {7, 9}
                                      \/ s = 7 /\ type \in Tail3
                                      \/ s = 8 /\ type = 1
  BY DEF Step, Accept, Reject, Within, Tail3
<1>6. QED
  BY <1>4, <1>5

\* A sequence of bytes as one of four lengths.
Shape(x) ==
  \/ Len(x) = 1 /\ x[1] = 0
  \/ Len(x) = 2 /\ x[1] = 2 /\ x[2] \in Tail3
  \/ /\ Len(x) = 3 /\ x[1] \in {3, 4, 10} /\ x[2] \in Tail3 /\ x[3] \in Tail3
     /\ (x[1] = 4 => x[2] # 7) /\ (x[1] = 10 => x[2] = 7)
  \/ /\ Len(x) = 4 /\ x[1] \in {5, 6, 11}
     /\ x[2] \in Tail3 /\ x[3] \in Tail3 /\ x[4] \in Tail3
     /\ (x[1] = 5 => x[2] = 1) /\ (x[1] = 11 => x[2] # 1)

LEMMA CharacterShape ==
  ASSUME NEW x \in Seq(0..Space)
  PROVE  x \in Characters <=> Shape(x)
<1> DEFINE Two == {<<a, b>> : a \in {2}, b \in Tail3}
           Three == {<<a, b, c>> : a \in {3, 4, 10}, b \in Tail3, c \in Tail3}
           Four == {<<a, b, c, d>> : a \in {5, 6, 11}, b \in Tail3, c \in Tail3, d \in Tail3}
<1>1. x \in Characters <=>
        \/ x = <<0>>
        \/ x \in Two
        \/ x \in Three /\ (x[1] = 4 => x[2] # 7) /\ (x[1] = 10 => x[2] = 7)
        \/ x \in Four /\ (x[1] = 5 => x[2] = 1) /\ (x[1] = 11 => x[2] # 1)
  BY DEF Characters
<1>2. x = <<0>> <=> Len(x) = 1 /\ x[1] = 0
  OBVIOUS
<1>3. x \in Two <=> Len(x) = 2 /\ x[1] = 2 /\ x[2] \in Tail3
  <2>1. Len(x) = 2 => x = <<x[1], x[2]>>
    OBVIOUS
  <2>2. QED
    BY <2>1
<1>4. x \in Three <=> Len(x) = 3 /\ x[1] \in {3, 4, 10} /\ x[2] \in Tail3 /\ x[3] \in Tail3
  <2>1. Len(x) = 3 => x = <<x[1], x[2], x[3]>>
    OBVIOUS
  <2>2. QED
    BY <2>1
<1>5. x \in Four <=> /\ Len(x) = 4 /\ x[1] \in {5, 6, 11}
                     /\ x[2] \in Tail3 /\ x[3] \in Tail3 /\ x[4] \in Tail3
  <2>1. Len(x) = 4 => x = <<x[1], x[2], x[3], x[4]>>
    OBVIOUS
  <2>2. QED
    BY <2>1
<1> HIDE DEF Two, Three, Four
<1>6. QED
  BY <1>1, <1>2, <1>3, <1>4, <1>5 DEF Shape

\* A piece of a text.
LEMMA Piece ==
  ASSUME NEW t \in Seq(0..Space), NEW n \in Nat, NEW m \in Nat, n < m, m <= Len(t)
  PROVE  /\ SubSeq(t, n + 1, m) \in Seq(0..Space) /\ Len(SubSeq(t, n + 1, m)) = m - n
         /\ \A i \in 1..(m - n) : SubSeq(t, n + 1, m)[i] = t[n + i]
<1>1. \A i \in (n + 1)..m : t[i] \in 0..Space
  <2>1. \A i \in (n + 1)..m : i \in 1..Len(t)
    OBVIOUS
  <2>2. QED
    BY <2>1, ElementOfSeq
<1> DEFINE S == 0..Space
           k == n + 1
           x == SubSeq(t, k, m)
<1>2. k \in Int /\ m \in Int /\ \A i \in k..m : t[i] \in S
  BY <1>1
<1>3. k <= m /\ m - k + 1 = m - n /\ \A i \in 1..(m - n) : k + i - 1 = n + i
  OBVIOUS
<1>4. /\ x \in Seq(S) /\ Len(x) = IF k <= m THEN m - k + 1 ELSE 0
      /\ \A i \in 1..(m - k + 1) : x[i] = t[k + i - 1]
  <2> HIDE DEF S, k
  <2>1. QED
    BY <1>2, SubSeqProperties
<1> HIDE DEF x
<1>5. Len(x) = m - n /\ \A i \in 1..(m - n) : x[i] = t[n + i]
  <2> HIDE DEF k
  <2>1. QED
    BY <1>3, <1>4
<1>6. QED
  BY <1>4, <1>5 DEF x

LEMMA CharacterAt ==
  ASSUME NEW t \in Seq(0..Space), NEW n \in Nat, NEW m \in Nat, n < m, m <= Len(t)
  PROVE  SubSeq(t, n + 1, m) \in Characters <=> IsCharacter(t, n, m)
<1> DEFINE x == SubSeq(t, n + 1, m)
<1>1. x \in Seq(0..Space) /\ Len(x) = m - n /\ \A i \in 1..(m - n) : x[i] = t[n + i]
  BY Piece
<1> HIDE DEF x
<1>2. x \in Characters <=> Shape(x)
  BY <1>1, CharacterShape
<1>3. /\ 1 \in 1..(m - n)
      /\ m - n >= 2 => 2 \in 1..(m - n)
      /\ m - n >= 3 => 3 \in 1..(m - n)
      /\ m - n >= 4 => 4 \in 1..(m - n)
  OBVIOUS
<1>4. /\ x[1] = t[n + 1]
      /\ m - n >= 2 => x[2] = t[n + 2]
      /\ m - n >= 3 => x[3] = t[n + 3]
      /\ m - n >= 4 => x[4] = t[n + 4]
  BY <1>1, <1>3
<1>5. Shape(x) <=> IsCharacter(t, n, m)
  <2>1. CASE m = n + 1
    BY <1>1, <1>4, <2>1 DEF Shape, IsCharacter
  <2>2. CASE m = n + 2
    BY <1>1, <1>4, <2>2 DEF Shape, IsCharacter
  <2>3. CASE m = n + 3
    BY <1>1, <1>4, <2>3 DEF Shape, IsCharacter
  <2>4. CASE m = n + 4
    BY <1>1, <1>4, <2>4 DEF Shape, IsCharacter
  <2>5. CASE m \notin (n + 1)..(n + 4)
    BY <1>1, <2>5 DEF Shape, IsCharacter
  <2>6. QED
    BY <2>1, <2>2, <2>3, <2>4, <2>5
<1>6. QED
  BY <1>2, <1>5 DEF x

\* The bytes of a character that is being read.
LEMMA BytesBehind ==
  ASSUME NEW t \in Seq(0..Space), NEW n \in Nat, NEW p \in Nat, n + p + 1 <= Len(t),
         NEW s, Reaches(t, n, p, s), t[n + p + 1] # Space
  PROVE  p \in 0..3 /\ \A i \in 1..(p + 1) : t[n + i] \in 0..11
<1>1. \A i \in 1..(p + 1) : t[n + i] \in 0..Space
  <2>1. \A i \in 1..(p + 1) : n + i \in 1..Len(t)
    OBVIOUS
  <2>2. QED
    BY <2>1, ElementOfSeq
<1>2. \A i \in 1..(p + 1) : t[n + i] # Space
  <2>1. \A i \in 1..(p + 1) : i \in 1..p \/ n + i = n + p + 1
    OBVIOUS
  <2>2. QED
    BY <2>1 DEF Reaches
<1>3. 0..Space = 0..11 \cup {Space}
  BY DEF Space
<1>4. \A i \in 1..(p + 1) : t[n + i] \in 0..11
  BY <1>1, <1>2, <1>3
<1>5. p \in 0..3
  BY DEF Reaches
<1>6. QED
  BY <1>4, <1>5

\* Where the automaton can be within a character, by the bytes so far.
Position(t, n, p, s) ==
  /\ s \in Within
  /\ p = 1 => /\ s = 2 <=> t[n + 1] = 2
              /\ s = 3 <=> t[n + 1] = 3
              /\ s = 4 <=> t[n + 1] = 10
              /\ s = 5 <=> t[n + 1] = 4
              /\ s = 6 <=> t[n + 1] = 11
              /\ s = 7 <=> t[n + 1] = 6
              /\ s = 8 <=> t[n + 1] = 5
  /\ p = 2 => \/ s = 2 /\ t[n + 1] = 3 /\ t[n + 2] \in Tail3
              \/ s = 2 /\ t[n + 1] = 10 /\ t[n + 2] = 7
              \/ s = 2 /\ t[n + 1] = 4 /\ t[n + 2] \in {1, 9}
              \/ s = 3 /\ t[n + 1] = 11 /\ t[n + 2] \in {7, 9}
              \/ s = 3 /\ t[n + 1] = 6 /\ t[n + 2] \in Tail3
              \/ s = 3 /\ t[n + 1] = 5 /\ t[n + 2] = 1
  /\ p = 3 => /\ s = 2 /\ t[n + 3] \in Tail3
              /\ \/ t[n + 1] = 11 /\ t[n + 2] \in {7, 9}
                 \/ t[n + 1] = 6 /\ t[n + 2] \in Tail3
                 \/ t[n + 1] = 5 /\ t[n + 2] = 1

LEMMA ReachesCases ==
  ASSUME NEW t, NEW n \in Nat, NEW p \in 1..3, NEW s, Reaches(t, n, p, s),
         \A i \in 1..p : t[n + i] \in 0..11
  PROVE  Position(t, n, p, s)
<1> DEFINE a == t[n + 1]
           b == t[n + 2]
           c == t[n + 3]
<1>1. a \in 0..11 /\ (p >= 2 => b \in 0..11) /\ (p >= 3 => c \in 0..11)
  <2>1. 1 \in 1..p /\ (p >= 2 => 2 \in 1..p) /\ (p >= 3 => 3 \in 1..p)
    OBVIOUS
  <2>2. QED
    BY <2>1
<1>2. /\ s \in Within
      /\ p = 1 => s = Step(Accept, a)
      /\ p = 2 => \E q \in Within : q = Step(Accept, a) /\ s = Step(q, b)
      /\ p = 3 => \E q, r \in Within : q = Step(Accept, a) /\ r = Step(q, b) /\ s = Step(r, c)
  BY DEF Reaches
<1> HIDE DEF a, b, c, Position
<1>3. CASE p = 1
  BY <1>1, <1>2, <1>3, Table DEF a, Position
<1>4. CASE p = 2
  <2>1. PICK q \in Within : q = Step(Accept, a) /\ s = Step(q, b)
    BY <1>2, <1>4
  <2>2. s \in {2, 3} /\ b \in 0..11
    BY <1>1, <1>2, <1>4, <2>1, Table DEF Within
  <2>3. /\ q = 3 <=> a = 3
        /\ q = 4 <=> a = 10
        /\ q = 5 <=> a = 4
        /\ q = 6 <=> a = 11
        /\ q = 7 <=> a = 6
        /\ q = 8 <=> a = 5
    BY <1>1, <2>1, Table
  <2>4. /\ s = 2 <=> (q = 3 /\ b \in Tail3) \/ (q = 4 /\ b = 7) \/ (q = 5 /\ b \in {1, 9})
        /\ s = 3 <=> (q = 6 /\ b \in {7, 9}) \/ (q = 7 /\ b \in Tail3) \/ (q = 8 /\ b = 1)
    BY <2>1, <2>2, Table
  <2>5. QED
    BY <1>2, <1>4, <2>2, <2>3, <2>4 DEF a, b, Position
<1>5. CASE p = 3
  <2>1. PICK q \in Within, r \in Within : q = Step(Accept, a) /\ r = Step(q, b) /\ s = Step(r, c)
    BY <1>2, <1>5
  <2>2. b \in 0..11 /\ c \in 0..11
    BY <1>1, <1>5
  <2>3. /\ q = 6 <=> a = 11
        /\ q = 7 <=> a = 6
        /\ q = 8 <=> a = 5
    BY <1>1, <2>1, Table
  <2>4. r \in {2, 3}
    BY <2>1, <2>2, Table DEF Within
  <2>5. r = 3 => (q = 6 /\ b \in {7, 9}) \/ (q = 7 /\ b \in Tail3) \/ (q = 8 /\ b = 1)
    <3>1. r = Step(q, b) /\ q \in Within /\ b \in 0..11
      BY <2>1, <2>2
    <3>2. Step(q, b) = 3 <=> \/ q = 6 /\ b \in {7, 9}
                             \/ q = 7 /\ b \in Tail3
                             \/ q = 8 /\ b = 1
      BY <3>1, Table
    <3>3. QED
      BY <3>1, <3>2
  <2>6. s = 2 /\ r = 3 /\ c \in Tail3
    <3>1. s = Step(r, c) /\ r \in Within /\ s \in Within
      BY <1>2, <2>1
    <3>2. /\ s \in {0, 1, 2, 3}
          /\ s = 2 => r \in {3, 4, 5} /\ (r = 3 => c \in Tail3)
          /\ s = 3 => r \in {6, 7, 8}
      BY <2>2, <3>1, Table
    <3>3. s \in {2, 3}
      BY <3>1, <3>2 DEF Within
    <3>4. QED
      BY <2>4, <3>2, <3>3
  <2>7. \/ a = 11 /\ b \in {7, 9}
        \/ a = 6 /\ b \in Tail3
        \/ a = 5 /\ b = 1
    BY <2>3, <2>5, <2>6
  <2>8. s \in Within /\ p # 1 /\ p # 2
    BY <1>2, <1>5
  <2>9. QED
    BY <2>6, <2>7, <2>8 DEF a, b, c, Position
<1>6. QED
  BY <1>3, <1>4, <1>5

\* A byte more: the character is complete or goes on.
LEMMA ReachesMore ==
  ASSUME NEW t \in Seq(0..Space), NEW n \in Nat, NEW p \in Nat, n + p + 1 <= Len(t),
         NEW s, Reaches(t, n, p, s), t[n + p + 1] # Space
  PROVE  /\ Step(s, t[n + p + 1]) \in {Accept, Reject} \cup Within
         /\ Step(s, t[n + p + 1]) = Accept => IsCharacter(t, n, n + p + 1)
         /\ Step(s, t[n + p + 1]) \in Within => Reaches(t, n, p + 1, Step(s, t[n + p + 1]))
<1> DEFINE last == t[n + p + 1]
           v == Step(s, last)
<1>1. p \in 0..3 /\ \A i \in 1..(p + 1) : t[n + i] \in 0..11
  BY BytesBehind
<1>2. last \in 0..11
  <2>1. p + 1 \in 1..(p + 1) /\ n + (p + 1) = n + p + 1
    OBVIOUS
  <2>2. QED
    BY <1>1, <2>1
<1>3. s \in {Accept} \cup Within
  BY DEF Reaches
<1>4. v \in {Accept, Reject} \cup Within
  BY <1>2, <1>3, Table DEF Accept, Reject, Within
<1>5. \A i \in 1..(p + 1) : t[n + i] # Space
  <2>1. Space \notin 0..11
    BY DEF Space
  <2>2. QED
    BY <1>1, <2>1
<1>6. v \in Within => Reaches(t, n, p + 1, v)
  <2> SUFFICES ASSUME v \in Within PROVE Reaches(t, n, p + 1, v)
    OBVIOUS
  <2>1. CASE p = 0
    BY <1>5, <2>1 DEF Reaches
  <2>2. CASE p = 1
    <3>1. s \in Within /\ s = Step(Accept, t[n + 1]) /\ v = Step(s, t[n + 2]) /\ p + 1 = 2
      BY <2>2 DEF Reaches
    <3>2. QED
      BY <1>5, <3>1 DEF Reaches
  <2>3. CASE p = 2
    <3>1. v = Step(s, t[n + 3]) /\ p + 1 = 3 /\ s \in Within
      BY <2>3 DEF Reaches
    <3>2. PICK q \in Within : q = Step(Accept, t[n + 1]) /\ s = Step(q, t[n + 2])
      BY <2>3 DEF Reaches
    <3>3. QED
      BY <1>5, <3>1, <3>2 DEF Reaches
  <2>4. CASE p = 3
    <3>1. s = 2
      <4>1. p \in 1..3 /\ \A i \in 1..p : t[n + i] \in 0..11
        <5>1. \A i \in 1..p : i \in 1..(p + 1)
          OBVIOUS
        <5>2. QED
          BY <1>1, <2>4, <5>1
      <4>2. QED
        BY <2>4, <4>1, ReachesCases DEF Position
    <3>2. v \in {0, 1}
      <4>1. 2 \in Within
        BY DEF Within
      <4>2. QED
        BY <1>2, <3>1, <4>1, Table
    <3>3. QED
      BY <3>2 DEF Within
  <2>5. QED
    BY <1>1, <2>1, <2>2, <2>3, <2>4
<1>7. v = Accept => IsCharacter(t, n, n + p + 1)
  <2> SUFFICES ASSUME v = Accept PROVE IsCharacter(t, n, n + p + 1)
    OBVIOUS
  <2>1. CASE p = 0
    <3>1. s = Accept /\ last = t[n + 1] /\ n + p + 1 = n + 1
      BY <2>1 DEF Reaches
    <3>2. last = 0
      BY <1>2, <3>1, Table DEF Accept
    <3>3. QED
      BY <3>1, <3>2 DEF IsCharacter
  <2>2. CASE p # 0
    <3>1. p \in 1..3 /\ \A i \in 1..p : t[n + i] \in 0..11
      <4>1. p \in 1..3 /\ \A i \in 1..p : i \in 1..(p + 1)
        BY <1>1, <2>2
      <4>2. \A i \in 1..p : t[n + i] \in 0..11
        BY <1>1, <4>1
      <4>3. QED
        BY <4>1, <4>2
    <3>2. Position(t, n, p, s) /\ s \in Within
      BY <3>1, ReachesCases DEF Position
    <3>3. s = 2 /\ last \in Tail3
      BY <1>2, <3>2, Table DEF Accept
    <3>4. CASE p = 1
      <4>1. t[n + 1] = 2 /\ last = t[n + 2] /\ n + p + 1 = n + 2
        BY <3>2, <3>3, <3>4 DEF Position
      <4>2. QED
        BY <3>3, <4>1 DEF IsCharacter
    <3>5. CASE p = 2
      <4>1. last = t[n + 3] /\ n + p + 1 = n + 3
        BY <3>5
      <4>2. \/ t[n + 1] = 3 /\ t[n + 2] \in Tail3
            \/ t[n + 1] = 10 /\ t[n + 2] = 7
            \/ t[n + 1] = 4 /\ t[n + 2] \in {1, 9}
        BY <3>2, <3>3, <3>5 DEF Position
      <4>3. QED
        BY <3>3, <4>1, <4>2 DEF IsCharacter, Tail3
    <3>6. CASE p = 3
      <4>1. last = t[n + 4] /\ n + p + 1 = n + 4
        BY <3>6
      <4>2. /\ t[n + 3] \in Tail3
            /\ \/ t[n + 1] = 11 /\ t[n + 2] \in {7, 9}
               \/ t[n + 1] = 6 /\ t[n + 2] \in Tail3
               \/ t[n + 1] = 5 /\ t[n + 2] = 1
        BY <3>2, <3>6 DEF Position
      <4>3. QED
        BY <3>3, <4>1, <4>2 DEF IsCharacter, Tail3
    <3>7. QED
      BY <3>1, <3>4, <3>5, <3>6
  <2>3. QED
    BY <2>1, <2>2
<1>8. QED
  BY <1>4, <1>6, <1>7

\* Within a character of the text the automaton goes on to its end.
LEMMA ReachesOn ==
  ASSUME NEW t \in Seq(0..Space), NEW n \in Nat, NEW p \in Nat, NEW m \in Nat,
         n + p < m, m <= Len(t), NEW s, Reaches(t, n, p, s), IsCharacter(t, n, m)
  PROVE  /\ t[n + p + 1] # Space
         /\ Step(s, t[n + p + 1]) # Reject
         /\ Step(s, t[n + p + 1]) = Accept <=> n + p + 1 = m
<1> DEFINE last == t[n + p + 1]
           v == Step(s, last)
<1>1. p \in 0..3
  BY DEF Reaches
<1>2. last \in 0..11
  <2>1. \/ p = 0 /\ last = t[n + 1]
        \/ p = 1 /\ last = t[n + 2] /\ m >= n + 2
        \/ p = 2 /\ last = t[n + 3] /\ m >= n + 3
        \/ p = 3 /\ last = t[n + 4] /\ m >= n + 4
    BY <1>1
  <2>2. CASE p = 0
    BY <2>1, <2>2 DEF IsCharacter
  <2>3. CASE p = 1
    BY <2>1, <2>3 DEF IsCharacter, Tail3
  <2>4. CASE p = 2
    BY <2>1, <2>4 DEF IsCharacter, Tail3
  <2>5. CASE p = 3
    BY <2>1, <2>5 DEF IsCharacter, Tail3
  <2>6. QED
    BY <1>1, <2>2, <2>3, <2>4, <2>5
<1>3. last # Space
  <2> HIDE DEF last
  <2>1. QED
    BY <1>2 DEF Space
<1>4. \A i \in 1..(p + 1) : t[n + i] \in 0..11
  <2>1. n + p + 1 <= Len(t)
    OBVIOUS
  <2>2. QED
    BY <1>3, <2>1, BytesBehind
<1>5. CASE p = 0
  <2>1. s = Accept /\ last = t[n + 1] /\ n + p + 1 = n + 1
    BY <1>5 DEF Reaches
  <2>2. last = 0 <=> m = n + 1
    BY <2>1 DEF IsCharacter
  <2>3. last \in {0, 2, 3, 4, 5, 6, 10, 11}
    BY <2>1 DEF IsCharacter
  <2>4. /\ v = 0 <=> last = 0
        /\ last = 2 => v = 2
        /\ last = 3 => v = 3
        /\ last = 10 => v = 4
        /\ last = 4 => v = 5
        /\ last = 11 => v = 6
        /\ last = 6 => v = 7
        /\ last = 5 => v = 8
    BY <1>2, <2>1, Table DEF Accept
  <2>5. v # 1
    BY <2>3, <2>4
  <2>6. QED
    BY <1>3, <2>1, <2>2, <2>4, <2>5 DEF Accept, Reject
<1>6. CASE p # 0
  <2>1. p \in 1..3 /\ \A i \in 1..p : t[n + i] \in 0..11
    <3>1. p \in 1..3 /\ \A i \in 1..p : i \in 1..(p + 1)
      BY <1>1, <1>6
    <3>2. \A i \in 1..p : t[n + i] \in 0..11
      BY <1>4, <3>1
    <3>3. QED
      BY <3>1, <3>2
  <2>2. Position(t, n, p, s) /\ s \in Within
    BY <2>1, ReachesCases DEF Position
  <2>3. /\ v = 0 <=> s = 2 /\ last \in Tail3
        /\ v = 2 <=> (s = 3 /\ last \in Tail3) \/ (s = 4 /\ last = 7) \/ (s = 5 /\ last \in {1, 9})
        /\ v = 3 <=> (s = 6 /\ last \in {7, 9}) \/ (s = 7 /\ last \in Tail3) \/ (s = 8 /\ last = 1)
    BY <1>2, <2>2, Table
  <2>4. CASE p = 1
    <3>1. /\ s = 2 <=> t[n + 1] = 2
          /\ s = 3 <=> t[n + 1] = 3
          /\ s = 4 <=> t[n + 1] = 10
          /\ s = 5 <=> t[n + 1] = 4
          /\ s = 6 <=> t[n + 1] = 11
          /\ s = 7 <=> t[n + 1] = 6
          /\ s = 8 <=> t[n + 1] = 5
      BY <2>2, <2>4 DEF Position
    <3>2. last = t[n + 2] /\ n + p + 1 = n + 2 /\ m >= n + 2
      BY <2>4
    <3>3. /\ m = n + 2 <=> t[n + 1] = 2
          /\ last \in Tail3
          /\ t[n + 1] \in {2, 3, 4, 5, 6, 10, 11}
          /\ t[n + 1] = 4 => last # 7
          /\ t[n + 1] = 10 => last = 7
          /\ t[n + 1] = 5 => last = 1
          /\ t[n + 1] = 11 => last # 1
      BY <3>2 DEF IsCharacter
    <3>4. QED
      BY <1>3, <2>3, <3>1, <3>2, <3>3 DEF Accept, Reject, Tail3
  <2>5. CASE p = 2
    <3>1. \/ s = 2 /\ t[n + 1] \in {3, 4, 10}
          \/ s = 3 /\ t[n + 1] \in {5, 6, 11}
      BY <2>2, <2>5 DEF Position
    <3>2. last = t[n + 3] /\ n + p + 1 = n + 3 /\ m >= n + 3
      BY <2>5
    <3>3. /\ m = n + 3 <=> t[n + 1] \in {3, 4, 10}
          /\ last \in Tail3
      BY <3>2 DEF IsCharacter
    <3>4. v \in {0, 1, 2, 3}
      BY <1>2, <2>2, Table
    <3>5. v # 1
      <4>1. CASE s = 3
        BY <2>3, <3>3, <4>1
      <4>2. QED
        BY <2>3, <3>1, <3>3, <4>1
    <3>6. QED
      BY <1>3, <2>3, <3>1, <3>2, <3>3, <3>5 DEF Accept, Reject
  <2>6. CASE p = 3
    <3>1. s = 2
      BY <2>2, <2>6 DEF Position
    <3>2. last = t[n + 4] /\ n + p + 1 = n + 4 /\ m >= n + 4
      BY <2>6
    <3>3. m = n + 4 /\ last \in Tail3
      BY <3>2 DEF IsCharacter
    <3>4. QED
      BY <1>3, <2>3, <3>1, <3>2, <3>3 DEF Accept, Reject
  <2>7. QED
    BY <2>1, <2>4, <2>5, <2>6
<1>7. QED
  BY <1>5, <1>6
-----------------------------------------------------------------------------
(* Cuts *)

LEMMA CutNone ==
  ASSUME NEW t
  PROVE  CutTo(t, 0)
<1>1. GoodCuts(t, 0, {0})
  BY DEF GoodCuts
<1>2. {0} \in SUBSET (0..0)
  OBVIOUS
<1>3. QED
  BY <1>1, <1>2 DEF CutTo

\* A character or a space more.
LEMMA CutMore ==
  ASSUME NEW t, NEW n \in Nat, NEW m \in Nat, n < m, CutTo(t, n),
         SubSeq(t, n + 1, m) \in Characters \cup {<<Space>>}
  PROVE  CutTo(t, m)
<1> DEFINE Good(x) == x \in Characters \cup {<<Space>>}
<1>1. PICK cuts \in SUBSET (0..n) : GoodCuts(t, n, cuts)
  BY DEF CutTo
<1>2. /\ cuts \subseteq 0..n /\ 0 \in cuts /\ n \in cuts
      /\ \A i \in cuts, j \in cuts :
           i < j /\ (\A k \in cuts : ~(i < k /\ k < j)) => Good(SubSeq(t, i + 1, j))
  BY <1>1 DEF GoodCuts
<1> DEFINE more == cuts \cup {m}
<1>3. more \subseteq 0..m /\ {0, m} \subseteq more /\ m \notin cuts
  BY <1>2
<1>4. Good(SubSeq(t, n + 1, m))
  OBVIOUS
<1>5. ASSUME NEW i \in more, NEW j \in more, i < j, \A k \in more : ~(i < k /\ k < j)
      PROVE  Good(SubSeq(t, i + 1, j))
  <2> HIDE DEF Good
  <2>1. CASE i \in cuts /\ j \in cuts
    BY <1>2, <1>5, <2>1
  <2>2. CASE i \in cuts /\ j = m
    <3>1. i <= n /\ i \in Nat
      BY <1>2, <2>2
    <3>2. ~(i < n /\ n < j)
      BY <1>2, <1>5
    <3>3. i = n
      BY <2>2, <3>1, <3>2
    <3>4. QED
      BY <1>4, <2>2, <3>3
  <2>3. CASE i = m
    BY <1>3, <1>5, <2>3
  <2>4. QED
    BY <2>1, <2>2, <2>3
<1>6. GoodCuts(t, m, more)
  <2> HIDE DEF more
  <2>1. QED
    BY <1>3, <1>5 DEF GoodCuts
<1>7. QED
  BY <1>3, <1>6 DEF CutTo

\* What is cut depends on the bytes up to there.
LEMMA CutSame ==
  ASSUME NEW t \in Seq(0..Space), NEW u \in Seq(0..Space), NEW m \in Nat,
         m <= Len(t), m <= Len(u), \A i \in 1..m : t[i] = u[i], CutTo(t, m)
  PROVE  CutTo(u, m)
<1>1. PICK cuts \in SUBSET (0..m) : GoodCuts(t, m, cuts)
  BY DEF CutTo
<1>2. /\ cuts \subseteq 0..m /\ {0, m} \subseteq cuts
      /\ \A i \in cuts, j \in cuts :
           i < j /\ (\A k \in cuts : ~(i < k /\ k < j))
             => SubSeq(t, i + 1, j) \in Characters \cup {<<Space>>}
  BY <1>1 DEF GoodCuts
<1>3. ASSUME NEW i \in cuts, NEW j \in cuts, i < j
      PROVE  SubSeq(t, i + 1, j) = SubSeq(u, i + 1, j)
  <2> DEFINE x == SubSeq(t, i + 1, j)
             y == SubSeq(u, i + 1, j)
  <2>1. i \in Nat /\ j \in Nat /\ j <= Len(t) /\ j <= Len(u)
    BY <1>2
  <2>2. /\ x \in Seq(0..Space) /\ Len(x) = j - i /\ \A k \in 1..(j - i) : x[k] = t[i + k]
        /\ y \in Seq(0..Space) /\ Len(y) = j - i /\ \A k \in 1..(j - i) : y[k] = u[i + k]
    BY <1>3, <2>1, Piece
  <2> HIDE DEF x, y
  <2>3. \A k \in 1..(j - i) : i + k \in 1..m
    BY <1>2, <2>1
  <2>4. \A k \in 1..(j - i) : x[k] = y[k]
    BY <2>2, <2>3
  <2>5. x = y
    BY <2>2, <2>4, SeqEqual
  <2>6. QED
    BY <2>5 DEF x, y
<1>4. GoodCuts(u, m, cuts)
  BY <1>2, <1>3 DEF GoodCuts
<1>5. QED
  BY <1>4 DEF CutTo

\* What follows a cut.
LEMMA NextPiece ==
  ASSUME NEW t \in Seq(0..Space), NEW cuts \in SUBSET (0..Len(t)), GoodCuts(t, Len(t), cuts),
         NEW n \in cuts, n < Len(t)
  PROVE  \E m \in cuts : /\ n < m /\ \A k \in cuts : k <= n \/ m <= k
                         /\ \/ IsCharacter(t, n, m)
                            \/ m = n + 1 /\ t[n + 1] = Space
<1> DEFINE later == {k \in cuts : n < k}
<1>1. Len(t) \in Nat /\ Len(t) \in cuts /\ cuts \subseteq Nat /\ n \in Nat
  BY DEF GoodCuts
<1>2. later \subseteq Nat /\ later # {}
  BY <1>1
<1> HIDE DEF later
<1>3. PICK m \in later : \A k \in later : m <= k
  BY <1>2, NatMin
<1>4. m \in cuts /\ n < m /\ m \in Nat /\ m <= Len(t)
  BY <1>1, <1>3 DEF later
<1>5. \A k \in cuts : k <= n \/ m <= k
  BY <1>1, <1>3 DEF later
<1>6. SubSeq(t, n + 1, m) \in Characters \cup {<<Space>>}
  <2>1. \A k \in cuts : ~(n < k /\ k < m)
    BY <1>1, <1>4, <1>5
  <2>2. QED
    BY <1>4, <2>1 DEF GoodCuts
<1>7. SubSeq(t, n + 1, m) = <<Space>> => m = n + 1 /\ t[n + 1] = Space
  <2> DEFINE x == SubSeq(t, n + 1, m)
  <2>1. Len(x) = m - n /\ \A i \in 1..(m - n) : x[i] = t[n + i]
    BY <1>1, <1>4, Piece
  <2> SUFFICES ASSUME x = <<Space>> PROVE m = n + 1 /\ t[n + 1] = Space
    OBVIOUS
  <2> HIDE DEF x
  <2>2. Len(x) = 1 /\ x[1] = Space
    OBVIOUS
  <2>3. m = n + 1 /\ 1 \in 1..(m - n)
    BY <1>1, <1>4, <2>1, <2>2
  <2>4. QED
    BY <2>1, <2>2, <2>3
<1>8. SubSeq(t, n + 1, m) \in Characters => IsCharacter(t, n, m)
  BY <1>1, <1>4, CharacterAt
<1>9. QED
  BY <1>4, <1>5, <1>6, <1>7, <1>8

\* Spaces of a well-formed text are cut one by one.
LEMMA SpacesCut ==
  ASSUME NEW t \in Seq(0..Space), NEW cuts \in SUBSET (0..Len(t)), GoodCuts(t, Len(t), cuts),
         NEW n \in cuts, NEW e \in Nat, n <= e, e <= Len(t),
         \A i \in (n + 1)..e : t[i] = Space
  PROVE  e \in cuts
<1> DEFINE T == {i \in Nat : n + i <= e => n + i \in cuts}
<1>1. n \in Nat /\ cuts \subseteq Nat
  OBVIOUS
<1>2. 0 \in T
  BY <1>1
<1>3. ASSUME NEW i \in Nat, i \in T PROVE i + 1 \in T
  <2>1. CASE n + i + 1 <= e
    <3> DEFINE c == n + i
    <3>1. c \in cuts /\ c \in Nat /\ c < Len(t) /\ c + 1 \in (n + 1)..e /\ c + 1 = n + (i + 1)
      BY <1>1, <1>3, <2>1
    <3> HIDE DEF c
    <3>2. PICK m \in cuts : /\ c < m
                            /\ IsCharacter(t, c, m) \/ (m = c + 1 /\ t[c + 1] = Space)
      BY <3>1, NextPiece
    <3>3. t[c + 1] = Space
      BY <3>1
    <3>4. ~IsCharacter(t, c, m)
      BY <3>3 DEF IsCharacter, Space
    <3>5. c + 1 \in cuts
      BY <3>2, <3>4
    <3>6. QED
      BY <3>1, <3>5
  <2>2. CASE ~(n + i + 1 <= e)
    BY <1>1, <2>2
  <2>3. QED
    BY <2>1, <2>2
<1> HIDE DEF T
<1>4. e - n \in T /\ e - n \in Nat
  BY <1>1, <1>2, <1>3, NatAll
<1>5. n + (e - n) = e
  BY <1>1
<1>6. QED
  BY <1>4, <1>5 DEF T
-----------------------------------------------------------------------------
(* What a turn of the loop does to the bytes used *)

Uses(S, ws, w, b) ==
  /\ FlattenSeq(ws) \in Seq(S) /\ FlattenSeq(ws) \o w \in Seq(S)
  /\ FlattenSeq(Ended(ws, w)) \o <<>> = FlattenSeq(ws) \o w
  /\ FlattenSeq(ws) \o Append(w, b) = Append(FlattenSeq(ws) \o w, b)
  /\ FlattenSeq(Append(ws, Append(w, b))) \o <<>> = Append(FlattenSeq(ws) \o w, b)
  /\ FlattenSeq(Append(ws, <<b>>)) \o <<>> = Append(FlattenSeq(ws), b)
  /\ Ended(ws, w) \in Seq(Seq(S)) /\ Append(ws, Append(w, b)) \in Seq(Seq(S))

LEMMA UsedTypes ==
  ASSUME NEW S, NEW ws \in Seq(Seq(S)), NEW w \in Seq(S), NEW b \in S
  PROVE  Uses(S, ws, w, b)
<1> DEFINE f == FlattenSeq(ws)
           wb == Append(w, b)
           bb == <<b>>
<1>1. wb \in Seq(S) /\ bb \in Seq(S) /\ <<>> \in Seq(S)
  BY AppendProperties
<1>2. /\ f \in Seq(S)
      /\ FlattenSeq(Append(ws, w)) = f \o w
      /\ FlattenSeq(Append(ws, wb)) = f \o wb
      /\ FlattenSeq(Append(ws, bb)) = f \o bb
  <2> HIDE DEF wb, bb
  <2>1. QED
    BY <1>1, FlattenAppend
<1>3. wb = w \o bb
  BY AppendIsConcat
<1> HIDE DEF f
<1>4. f \o w \in Seq(S) /\ f \o wb \in Seq(S) /\ f \o bb \in Seq(S)
  BY <1>1, <1>2, ConcatProperties
<1>5. (f \o w) \o bb = f \o (w \o bb)
  <2> HIDE DEF bb
  <2>1. QED
    BY <1>1, <1>2, ConcatAssociative
<1>6. Append(f \o w, b) = (f \o w) \o bb /\ Append(f, b) = f \o bb
  BY <1>2, <1>4, AppendIsConcat
<1>7. f \o wb = Append(f \o w, b)
  BY <1>3, <1>5, <1>6
<1> HIDE DEF wb, bb
<1>8. (f \o w) \o <<>> = f \o w /\ (f \o wb) \o <<>> = f \o wb /\ (f \o bb) \o <<>> = f \o bb
      /\ f \o <<>> = f
  BY <1>2, <1>4, ConcatEmptySeq
<1>9. FlattenSeq(Ended(ws, w)) \o <<>> = f \o w /\ Ended(ws, w) \in Seq(Seq(S))
  <2>1. CASE w = <<>>
    BY <1>8, <2>1 DEF Ended, f
  <2>2. CASE w # <<>>
    <3>1. Ended(ws, w) = Append(ws, w)
      BY <2>2 DEF Ended
    <3>2. Append(ws, w) \in Seq(Seq(S))
      BY AppendProperties
    <3>3. QED
      BY <1>2, <1>8, <3>1, <3>2
  <2>3. QED
    BY <2>1, <2>2
<1>10. Append(ws, wb) \in Seq(Seq(S))
  BY <1>1, AppendProperties
<1>11. /\ FlattenSeq(Append(ws, wb)) \o <<>> = Append(f \o w, b)
       /\ FlattenSeq(Append(ws, bb)) \o <<>> = Append(f, b)
  BY <1>2, <1>6, <1>7, <1>8
<1>12. QED
  BY <1>2, <1>4, <1>7, <1>9, <1>10, <1>11 DEF Uses, f, wb, bb

\* A later position behind positions in order.
LEMMA OrderMore ==
  ASSUME NEW u \in Seq(Nat), NEW e \in Nat, NEW c \in Nat, InOrder(u),
         \A i \in DOMAIN u : u[i] <= e, c = e + 1
  PROVE  InOrder(Append(u, c)) /\ \A i \in DOMAIN Append(u, c) : Append(u, c)[i] <= c
<1> DEFINE v == Append(u, c)
           N == Len(u)
<1>1. /\ N \in Nat /\ DOMAIN u = 1..N /\ DOMAIN v = 1..(N + 1)
      /\ \A i \in 1..N : v[i] = u[i] /\ u[i] \in Nat
      /\ v[N + 1] = c
  <2>1. v \in Seq(Nat) /\ Len(v) = N + 1 /\ N \in Nat
    BY AppendProperties
  <2>2. QED
    BY <2>1, AppendProperties, ElementOfSeq
<1> HIDE DEF v, N
<1>2. \A i \in 1..(N + 1) : i = N + 1 \/ i \in 1..N
  BY <1>1
<1>3. ASSUME NEW i \in 1..(N + 1) PROVE v[i] <= c
  <2>1. CASE i = N + 1
    BY <1>1, <2>1
  <2>2. CASE i \in 1..N
    BY <1>1, <2>2
  <2>3. QED
    BY <1>2, <2>1, <2>2
<1>4. ASSUME NEW i \in 1..(N + 1), NEW j \in 1..(N + 1), i < j, 0 \notin {v[i], v[j]}
      PROVE  v[i] < v[j]
  <2>1. i \in 1..N
    BY <1>1, <1>4
  <2>2. CASE j = N + 1
    <3>1. v[i] \in Nat /\ v[i] <= e /\ v[j] = c
      BY <1>1, <2>1, <2>2
    <3>2. QED
      BY <3>1
  <2>3. CASE j \in 1..N
    BY <1>1, <1>4, <2>1, <2>3 DEF InOrder
  <2>4. QED
    BY <1>2, <2>2, <2>3
<1>5. InOrder(v)
  BY <1>1, <1>4 DEF InOrder
<1>6. QED
  BY <1>1, <1>3, <1>5 DEF v

\* A replacement instead of the word.
LEMMA OrderZero ==
  ASSUME NEW f \in Seq(Nat), NEW w \in Seq(Nat), NEW e \in Nat, InOrder(f \o w),
         \A i \in DOMAIN (f \o w) : (f \o w)[i] <= e
  PROVE  InOrder(Append(f, 0)) /\ \A i \in DOMAIN Append(f, 0) : Append(f, 0)[i] <= e
<1> DEFINE u == f \o w
           v == Append(f, 0)
           N == Len(f)
           M == Len(w)
<1>1. /\ N \in Nat /\ DOMAIN v = 1..(N + 1)
      /\ \A i \in 1..N : v[i] = f[i]
      /\ v[N + 1] = 0
  <2>1. v \in Seq(Nat) /\ Len(v) = N + 1 /\ N \in Nat
    BY AppendProperties
  <2>2. QED
    BY <2>1, AppendProperties
<1>2. M \in Nat /\ DOMAIN u = 1..(N + M) /\ \A i \in 1..N : u[i] = f[i]
  <2>1. M \in Nat /\ N \in Nat /\ u \in Seq(Nat) /\ Len(u) = N + M
        /\ \A i \in 1..(N + M) : u[i] = IF i <= N THEN f[i] ELSE w[i - N]
    BY ConcatProperties, LenProperties
  <2>2. \A i \in 1..N : i \in 1..(N + M) /\ i <= N
    BY <2>1
  <2> HIDE DEF u, N, M
  <2>3. QED
    BY <2>1, <2>2
<1>3. InOrder(u) /\ \A i \in DOMAIN u : u[i] <= e
  OBVIOUS
<1> HIDE DEF u, v, N, M
<1>4. \A i \in 1..(N + 1) : i = N + 1 \/ i \in 1..N
  BY <1>1
<1>5. \A i \in 1..N : i \in 1..(N + M) /\ v[i] = u[i]
  BY <1>1, <1>2
<1>6. ASSUME NEW i \in 1..(N + 1) PROVE v[i] <= e
  <2>1. CASE i = N + 1
    BY <1>1, <2>1
  <2>2. CASE i \in 1..N
    BY <1>2, <1>3, <1>5, <2>2
  <2>3. QED
    BY <1>4, <2>1, <2>2
<1>7. ASSUME NEW i \in 1..(N + 1), NEW j \in 1..(N + 1), i < j, 0 \notin {v[i], v[j]}
      PROVE  v[i] < v[j]
  <2>1. i \in 1..N /\ j \in 1..N
    BY <1>1, <1>4, <1>7
  <2>2. u[i] < u[j]
    BY <1>2, <1>3, <1>5, <1>7, <2>1 DEF InOrder
  <2>3. QED
    BY <1>5, <2>1, <2>2
<1>8. InOrder(v)
  BY <1>1, <1>7 DEF InOrder
<1>9. QED
  BY <1>1, <1>6, <1>8 DEF v

\* Behind the spaces there is a byte that is none, or nothing.
LEMMA AfterSpacesType ==
  ASSUME Typed, itr <= Len(str), str[itr] = Space
  PROVE  /\ AfterSpaces \in (itr + 1)..(Len(str) + 1)
         /\ \A i \in itr..(AfterSpaces - 1) : str[i] = Space
<1> DEFINE L == Len(str)
           ends == {j \in (itr + 1)..(L + 1) : j <= L => str[j] # Space}
<1>1. L \in Nat /\ itr \in 1..L
  BY DEF Typed
<1> HIDE DEF L
<1>2. L + 1 \in ends /\ ends \subseteq Nat
  BY <1>1
<1> HIDE DEF ends
<1>3. PICK m \in ends : \A k \in ends : m <= k
  <2>1. ends # {} /\ ends \subseteq Nat
    BY <1>2
  <2>2. QED
    BY <2>1, NatMin
<1>4. m \in (itr + 1)..(L + 1) /\ (m <= L => str[m] # Space)
  BY <1>3 DEF ends
<1>5. \A i \in itr..(m - 1) : str[i] = Space
  <2>1. ASSUME NEW i \in itr..(m - 1), str[i] # Space PROVE FALSE
    <3>1. i \in (itr + 1)..(L + 1) /\ ~(m <= i)
      BY <1>1, <1>4, <2>1
    <3>2. i \in ends
      BY <2>1, <3>1 DEF ends
    <3>3. QED
      BY <1>3, <3>1, <3>2
  <2>2. QED
    BY <2>1
<1>6. \E j \in (itr + 1)..(L + 1) : /\ \A i \in itr..(j - 1) : str[i] = Space
                                    /\ j <= L => str[j] # Space
  BY <1>4, <1>5
<1>7. QED
  BY <1>6 DEF AfterSpaces, L
-----------------------------------------------------------------------------
(* Types and order *)

LEMMA InitTyped == Init => Typed /\ End = 0 /\ Used = <<>> /\ ~Done
<1> SUFFICES ASSUME Init PROVE Typed /\ End = 0 /\ Used = <<>> /\ ~Done
  OBVIOUS
<1>1. itr = 1 /\ current = Accept /\ word = <<>> /\ words = <<>>
  BY DEF Init
<1>2. str \in Seq(0..Space)
  <2>1. PICK m \in 0..MaxLen : str \in [1..m -> Bytes]
    BY DEF Init, BoundedSeq, SeqOf
  <2>2. m \in Nat /\ Bytes \subseteq 0..Space
    BY BytesAssumption
  <2>3. str \in [1..m -> 0..Space]
    BY <2>1, <2>2
  <2>4. QED
    BY <2>2, <2>3, SeqDef
<1>3. Len(str) \in Nat
  BY <1>2
<1>4. itr \in 1..(Len(str) + 2) /\ ~Done /\ End = 0
  BY <1>1, <1>3 DEF Done, End
<1>5. word \in Seq(Nat) /\ words \in Seq(Seq(Nat))
  BY <1>1
<1>6. Used = <<>>
  BY <1>1, FlattenEmpty, ConcatEmptySeq DEF Used
<1>7. QED
  BY <1>1, <1>2, <1>4, <1>5, <1>6 DEF Typed

LEMMA TypeFacts ==
  ASSUME Typed
  PROVE  /\ Len(str) \in Nat /\ itr \in Nat /\ itr > 0 /\ End \in 0..Len(str)
         /\ DOMAIN str = 1..Len(str)
         /\ \A i \in 1..Len(str) : str[i] \in 0..Space
         /\ FlattenSeq(words) \in Seq(Nat) /\ Used \in Seq(Nat)
<1>1. Len(str) \in Nat /\ itr \in 1..(Len(str) + 2) /\ DOMAIN str = 1..Len(str)
  BY DEF Typed
<1>2. End \in 0..Len(str)
  BY <1>1 DEF End, Done
<1>3. FlattenSeq(words) \in Seq(Nat) /\ Used \in Seq(Nat)
  <2>1. 0 \in Nat /\ word \in Seq(Nat) /\ words \in Seq(Seq(Nat))
    BY DEF Typed
  <2>2. QED
    BY <2>1, UsedTypes DEF Uses, Used
<1>4. \A i \in 1..Len(str) : str[i] \in 0..Space
  BY ElementOfSeq DEF Typed
<1>5. QED
  BY <1>1, <1>2, <1>3, <1>4

\* The byte the automaton reads.
LEMMA Read ==
  ASSUME Typed, itr <= Len(str), str[itr] # Space
  PROVE  /\ itr \in 1..Len(str) /\ End = itr - 1 /\ str[itr] \in 0..11
         /\ Step(current, str[itr]) \in {Accept, Reject} \cup Within
<1>1. itr \in 1..Len(str) /\ str[itr] \in 0..Space
  BY TypeFacts
<1>2. str[itr] \in 0..11
  BY <1>1 DEF Space
<1>3. Step(current, str[itr]) \in {Accept, Reject} \cup Within
  <2>1. CASE current = Accept
    BY <1>2, <2>1, Table
  <2>2. CASE current \in Within
    BY <1>2, <2>2, Table DEF Accept, Reject, Within
  <2>3. QED
    BY <2>1, <2>2 DEF Typed
<1>4. End = itr - 1
  BY TypeFacts DEF End, Done
<1>5. QED
  BY <1>1, <1>2, <1>3, <1>4

\* What the five ways through the loop do, to the bytes used, too.
Skips ==
  /\ itr \in 1..Len(str) /\ str[itr] = Space /\ itr' \in (itr + 1)..(Len(str) + 1)
  /\ \A i \in itr..(itr' - 1) : str[i] = Space
  /\ words' = Ended(words, word) /\ word' = <<>> /\ current' = current
  /\ Used' = Used

Reads ==
  /\ itr \in 1..Len(str) /\ str[itr] # Space /\ itr' = itr + 1
  /\ current' = Step(current, str[itr]) /\ current' # Reject
  /\ \/ current' = Accept /\ current # Accept
        /\ word' = <<>> /\ words' = Append(words, Append(word, itr))
     \/ ~(current' = Accept /\ current # Accept)
        /\ word' = Append(word, itr) /\ words' = words
  /\ Used' = Append(Used, itr)

Replaces ==
  /\ itr \in 1..Len(str) /\ str[itr] # Space /\ itr' \in itr..(itr + 1)
  /\ Step(current, str[itr]) = Reject /\ current' = Accept
  /\ word' = <<>> /\ words' = Append(words, Replacement)
  /\ Used' = Append(FlattenSeq(words), 0)

Finishes ==
  /\ itr = Len(str) + 1 /\ itr' = itr + 1
  /\ words' = Ended(words, word) /\ word' = <<>> /\ current' = current
  /\ Used' = Used

LEMMA Turn ==
  ASSUME Typed, Next
  PROVE  str' = str /\ (Skips \/ Reads \/ Replaces \/ Finishes)
<1>1. word \in Seq(Nat) /\ words \in Seq(Seq(Nat)) /\ itr \in Nat /\ 0 \in Nat
  BY DEF Typed
<1>2. /\ FlattenSeq(Ended(words, word)) \o <<>> = Used
      /\ FlattenSeq(words) \o Append(word, itr) = Append(Used, itr)
      /\ FlattenSeq(Append(words, Append(word, itr))) \o <<>> = Append(Used, itr)
      /\ FlattenSeq(Append(words, <<0>>)) \o <<>> = Append(FlattenSeq(words), 0)
  <2> DEFINE S == Nat
  <2>1. word \in Seq(S) /\ words \in Seq(Seq(S)) /\ itr \in S /\ 0 \in S
    BY <1>1
  <2> HIDE DEF S
  <2>2. Uses(S, words, word, itr) /\ Uses(S, words, word, 0)
    BY <2>1, UsedTypes
  <2>3. QED
    BY <2>2 DEF Used, Uses
<1>3. CASE SkipSpaces
  <2>1. /\ itr <= Len(str) /\ str[itr] = Space /\ itr' = AfterSpaces
        /\ words' = Ended(words, word) /\ word' = <<>> /\ current' = current /\ str' = str
    BY <1>3 DEF SkipSpaces
  <2>2. /\ itr \in 1..Len(str) /\ itr' \in (itr + 1)..(Len(str) + 1)
        /\ \A i \in itr..(itr' - 1) : str[i] = Space
    BY <2>1, AfterSpacesType, TypeFacts
  <2>3. Used' = Used
    BY <1>2, <2>1 DEF Used
  <2>4. QED
    BY <2>1, <2>2, <2>3 DEF Skips
<1>4. CASE CompleteCharacter
  <2>1. /\ itr <= Len(str) /\ str[itr] # Space /\ Step(current, str[itr]) = Accept
        /\ current' = Accept /\ itr' = itr + 1 /\ str' = str
    BY <1>4 DEF CompleteCharacter, Decodes
  <2>2. itr \in 1..Len(str) /\ current' # Reject
    BY <2>1, Read DEF Accept, Reject
  <2>3. CASE current = Accept
    <3>1. word' = Append(word, itr) /\ words' = words
      BY <1>4, <2>3 DEF CompleteCharacter
    <3>2. Used' = Append(Used, itr)
      BY <1>2, <3>1 DEF Used
    <3>3. QED
      BY <2>1, <2>2, <2>3, <3>1, <3>2 DEF Reads
  <2>4. CASE current # Accept
    <3>1. word' = <<>> /\ words' = Append(words, Append(word, itr))
      BY <1>4, <2>4 DEF CompleteCharacter
    <3>2. Used' = Append(Used, itr)
      BY <1>2, <3>1 DEF Used
    <3>3. QED
      BY <2>1, <2>2, <2>4, <3>1, <3>2 DEF Reads
  <2>5. QED
    BY <2>3, <2>4
<1>5. CASE ReplaceByte
  <2>1. /\ itr <= Len(str) /\ str[itr] # Space /\ Step(current, str[itr]) = Reject
        /\ current' = Accept /\ word' = <<>> /\ words' = Append(words, Replacement) /\ str' = str
        /\ itr' = IF current = Accept THEN itr + 1 ELSE itr
    BY <1>5 DEF ReplaceByte, Decodes
  <2>2. itr \in 1..Len(str) /\ itr' \in itr..(itr + 1)
    BY <2>1, Read
  <2>3. Used' = Append(FlattenSeq(words), 0)
    BY <1>2, <2>1 DEF Used, Replacement
  <2>4. QED
    BY <2>1, <2>2, <2>3 DEF Replaces
<1>6. CASE ContinueCharacter
  <2>1. /\ itr <= Len(str) /\ str[itr] # Space /\ str' = str /\ itr' = itr + 1
        /\ current' = Step(current, str[itr]) /\ current' \notin {Accept, Reject}
        /\ word' = Append(word, itr) /\ words' = words
    BY <1>6 DEF ContinueCharacter
  <2>2. itr \in 1..Len(str)
    BY <2>1, Read
  <2>3. Used' = Append(Used, itr)
    BY <1>2, <2>1 DEF Used
  <2>4. QED
    BY <2>1, <2>2, <2>3 DEF Reads
<1>7. CASE EndText
  <2>1. /\ itr = Len(str) + 1 /\ itr' = itr + 1 /\ str' = str
        /\ words' = Ended(words, word) /\ word' = <<>> /\ current' = current
    BY <1>7 DEF EndText
  <2>2. Used' = Used
    BY <1>2, <2>1 DEF Used
  <2>3. QED
    BY <2>1, <2>2 DEF Finishes
<1>8. QED
  BY <1>3, <1>4, <1>5, <1>6, <1>7 DEF Next

LEMMA StepTyped ==
  ASSUME Typed, Next
  PROVE  Typed'
<1>1. str' = str /\ (Skips \/ Reads \/ Replaces \/ Finishes)
  BY Turn
<1>2. Len(str) \in Nat /\ itr \in Nat /\ itr > 0
  BY TypeFacts
<1>3. str \in Seq(0..Space) /\ word \in Seq(Nat) /\ words \in Seq(Seq(Nat))
      /\ current \in {Accept} \cup Within /\ <<>> \in Seq(Nat) /\ 0 \in Nat
  BY DEF Typed
<1>4. itr' \in 1..(Len(str) + 2)
  BY <1>1, <1>2 DEF Skips, Reads, Replaces, Finishes
<1>5. Finishes \/ ~(itr' = Len(str) + 2)
  BY <1>1, <1>2 DEF Skips, Reads, Replaces
<1>6. Done' => word' = <<>>
  BY <1>1, <1>5 DEF Finishes, Done
<1>7. current' \in {Accept} \cup Within
  <2>1. CASE Reads
    <3>1. itr <= Len(str) /\ str[itr] # Space
      BY <1>2, <2>1 DEF Reads
    <3>2. Step(current, str[itr]) \in {Accept, Reject} \cup Within
      BY <3>1, Read
    <3>3. QED
      BY <2>1, <3>2 DEF Reads
  <2>2. CASE ~Reads
    BY <1>1, <1>3, <2>2 DEF Skips, Replaces, Finishes
  <2>3. QED
    BY <2>1, <2>2
<1>8. word' \in Seq(Nat)
  <2>1. Append(word, itr) \in Seq(Nat)
    BY <1>2, <1>3, AppendProperties
  <2>2. word' \in {<<>>, Append(word, itr)}
    BY <1>1 DEF Skips, Reads, Replaces, Finishes
  <2>3. QED
    BY <1>3, <2>1, <2>2
<1>9. words' \in Seq(Seq(Nat))
  <2>1. Append(words, Append(word, itr)) \in Seq(Seq(Nat)) /\ Ended(words, word) \in Seq(Seq(Nat))
    BY <1>2, <1>3, UsedTypes DEF Uses
  <2>2. Append(words, Replacement) \in Seq(Seq(Nat))
    <3>1. Replacement \in Seq(Nat)
      BY DEF Replacement
    <3>2. QED
      BY <1>3, <3>1, AppendProperties
  <2>3. words' \in {words, Append(words, Append(word, itr)), Ended(words, word), Append(words, Replacement)}
    BY <1>1 DEF Skips, Reads, Replaces, Finishes
  <2>4. QED
    BY <1>3, <2>1, <2>2, <2>3
<1>10. str' \in Seq(0..Space) /\ itr' \in 1..(Len(str') + 2)
  BY <1>1, <1>3, <1>4
<1>11. QED
  BY <1>6, <1>7, <1>8, <1>9, <1>10, Zenon DEF Typed

LEMMA StepEnd ==
  ASSUME Typed, Next
  PROVE  /\ End' \in Nat /\ End <= End'
         /\ Skips => End = itr - 1 /\ End' = itr' - 1
         /\ Reads => End = itr - 1 /\ End' = itr
         /\ Replaces => End = itr - 1 /\ End' = itr' - 1
         /\ Finishes => End = Len(str) /\ End' = Len(str)
<1> DEFINE L == Len(str)
           f == End
           g == End'
<1>1. str' = str /\ (Skips \/ Reads \/ Replaces \/ Finishes)
  BY Turn
<1>2. L \in Nat /\ itr \in Nat /\ itr > 0
  BY TypeFacts
<1>3. /\ Skips => itr \in 1..L /\ itr' \in (itr + 1)..(L + 1)
      /\ Reads => itr \in 1..L /\ itr' = itr + 1
      /\ Replaces => itr \in 1..L /\ itr' \in itr..(itr + 1)
      /\ Finishes => itr = L + 1 /\ itr' = itr + 1
  BY DEF Skips, Reads, Replaces, Finishes
<1>4. f = IF itr = L + 2 THEN L ELSE itr - 1
  BY DEF End, Done
<1>5. g = IF itr' = L + 2 THEN L ELSE itr' - 1
  BY <1>1 DEF End, Done
<1> HIDE DEF L, f, g
<1>6. Skips => f = itr - 1 /\ g = itr' - 1 /\ f <= g /\ g \in Nat
  BY <1>2, <1>3, <1>4, <1>5
<1>7. Reads => f = itr - 1 /\ g = itr /\ f <= g /\ g \in Nat
  BY <1>2, <1>3, <1>4, <1>5
<1>8. Replaces => f = itr - 1 /\ g = itr' - 1 /\ f <= g /\ g \in Nat
  BY <1>2, <1>3, <1>4, <1>5
<1>9. Finishes => f = L /\ g = L /\ f <= g /\ g \in Nat
  BY <1>2, <1>3, <1>4, <1>5
<1>10. g \in Nat /\ f <= g
  BY <1>1, <1>6, <1>7, <1>8, <1>9
<1>11. QED
  BY <1>6, <1>7, <1>8, <1>9, <1>10 DEF f, g, L

LEMMA StepOrder ==
  ASSUME Typed, InOrder(Used), Behind, Next
  PROVE  InOrder(Used)' /\ Behind'
<1>1. str' = str /\ (Skips \/ Reads \/ Replaces \/ Finishes)
  BY Turn
<1>2. /\ Len(str) \in Nat /\ itr \in Nat /\ itr > 0 /\ End \in 0..Len(str)
      /\ FlattenSeq(words) \in Seq(Nat) /\ Used \in Seq(Nat) /\ word \in Seq(Nat)
  BY TypeFacts DEF Typed
<1>3. End' \in Nat /\ End <= End'
  BY StepEnd
<1>4. Reads => End' = itr /\ itr = End + 1
  BY <1>2, StepEnd
<1> DEFINE e == End
           u == Used
           v == Used'
<1>5. /\ InOrder(u) /\ \A i \in DOMAIN u : u[i] <= e /\ u[i] \in Nat
      /\ e \in Nat /\ End' \in Nat /\ e <= End'
  <2>1. \A i \in DOMAIN u : u[i] \in Nat
    BY <1>2, ElementOfSeq
  <2>2. QED
    BY <1>2, <1>3, <2>1 DEF Behind
<1>6. InOrder(v) /\ \A i \in DOMAIN v : v[i] <= End'
  <2>1. CASE Skips \/ Finishes
    <3>1. v = u
      BY <2>1 DEF Skips, Finishes
    <3> HIDE DEF u, v, e
    <3>2. QED
      BY <1>5, <3>1
  <2>2. CASE Reads
    <3> DEFINE c == itr
    <3>1. v = Append(u, c) /\ c = e + 1 /\ c \in Nat /\ End' = c
      BY <1>2, <1>4, <2>2 DEF Reads
    <3>2. u \in Seq(Nat)
      BY <1>2
    <3> HIDE DEF u, v, e, c
    <3>3. QED
      BY <1>5, <3>1, <3>2, OrderMore
  <2>3. CASE Replaces
    <3> DEFINE f == FlattenSeq(words)
    <3>1. v = Append(f, 0) /\ f \in Seq(Nat) /\ u = f \o word
      BY <1>2, <2>3 DEF Replaces, Used
    <3> HIDE DEF u, v, e, f
    <3>2. \A i \in DOMAIN (f \o word) : (f \o word)[i] <= End'
      <4>1. \A i \in DOMAIN u : u[i] <= End'
        BY <1>5
      <4>2. QED
        BY <3>1, <4>1
    <3>3. QED
      BY <1>2, <1>5, <3>1, <3>2, OrderZero
  <2>4. QED
    BY <1>1, <2>1, <2>2, <2>3
<1>7. QED
  BY <1>6 DEF Behind, InOrder
-----------------------------------------------------------------------------
(* What goes unnoticed *)

LEMMA InAppended ==
  ASSUME NEW S, NEW q \in Seq(S), NEW x \in S
  PROVE  ToSet(Append(q, x)) = ToSet(q) \cup {x}
<1> DEFINE r == Append(q, x)
           N == Len(q)
<1>1. /\ N \in Nat /\ DOMAIN q = 1..N /\ DOMAIN r = 1..(N + 1)
      /\ \A i \in 1..N : r[i] = q[i]
      /\ r[N + 1] = x
  <2>1. r \in Seq(S) /\ Len(r) = N + 1 /\ N \in Nat
    BY AppendProperties
  <2>2. QED
    BY <2>1, AppendProperties
<1> HIDE DEF r, N
<1>2. \A i \in 1..(N + 1) : i \in 1..N \/ i = N + 1
  BY <1>1
<1>3. \A i \in 1..N : i \in 1..(N + 1)
  BY <1>1
<1>4. N + 1 \in 1..(N + 1)
  BY <1>1
<1>5. ToSet(r) = ToSet(q) \cup {x}
  BY <1>1, <1>2, <1>3, <1>4 DEF ToSet
<1>6. QED
  BY <1>5 DEF r

LEMMA StepSilent ==
  ASSUME Typed, Silent, Next
  PROVE  Silent'
<1>1. str' = str /\ (Skips \/ Reads \/ Replaces \/ Finishes)
  BY Turn
<1>2. /\ Len(str) \in Nat /\ itr \in Nat /\ itr > 0 /\ End \in 0..Len(str)
      /\ DOMAIN str = 1..Len(str)
  BY TypeFacts
<1>3. SUFFICES ASSUME Replacement \notin ToSet(words'), Space \notin ToSet(str)
               PROVE  \E n \in 0..End' : CutTo(str, n) /\ Reaches(str, n, End' - n, current')
  BY <1>1 DEF Silent
<1>4. word \in Seq(Nat) /\ words \in Seq(Seq(Nat)) /\ str \in Seq(0..Space)
  BY DEF Typed
<1>5. \A x \in Seq(Nat) : ToSet(Append(words, x)) = ToSet(words) \cup {x}
  BY <1>4, InAppended
<1>6. ~Replaces
  <2>1. Replacement \in Seq(Nat)
    BY DEF Replacement
  <2>2. QED
    BY <1>3, <1>5, <2>1 DEF Replaces
<1>7. Replacement \notin ToSet(words)
  <2>1. Append(word, itr) \in Seq(Nat)
    BY <1>2, <1>4, AppendProperties
  <2>2. words' \in {words, Append(words, word), Append(words, Append(word, itr))}
    BY <1>1, <1>6 DEF Skips, Reads, Finishes, Ended
  <2>3. QED
    BY <1>3, <1>4, <1>5, <2>1, <2>2
<1>8. PICK n \in 0..End : CutTo(str, n) /\ Reaches(str, n, End - n, current)
  BY <1>3, <1>7 DEF Silent
<1>9. CASE Skips
  BY <1>2, <1>3, <1>9 DEF Skips, ToSet
<1>10. CASE Finishes
  <2>1. End' = End /\ current' = current
    BY <1>10, StepEnd DEF Finishes
  <2>2. QED
    BY <1>8, <2>1
<1>11. CASE Reads
  <2> DEFINE p == End - n
             v == Step(current, str[itr])
  <2>1. /\ n \in Nat /\ p \in Nat /\ n + p + 1 = itr /\ itr <= Len(str) /\ End' = itr
        /\ str[itr] # Space /\ current' = v /\ v # Reject
    <3>1. /\ itr \in 1..Len(str) /\ str[itr] # Space /\ current' = v /\ v # Reject
      BY <1>11 DEF Reads
    <3>2. End = itr - 1 /\ End' = itr
      BY <1>11, StepEnd
    <3>3. n \in Nat /\ p \in Nat /\ n + p + 1 = itr
      <4> HIDE DEF v
      <4>1. n \in 0..End
        BY <1>8
      <4>2. QED
        BY <1>2, <3>2, <4>1
    <3>4. QED
      BY <1>2, <3>1, <3>2, <3>3
  <2>2. Reaches(str, n, p, current)
    BY <1>8
  <2> HIDE DEF p, v
  <2>3. /\ v \in {Accept, Reject} \cup Within
        /\ v = Accept => IsCharacter(str, n, itr)
        /\ v \in Within => Reaches(str, n, p + 1, v)
    BY <1>4, <2>1, <2>2, ReachesMore DEF v
  <2>4. CASE v = Accept
    <3>1. n < itr /\ itr \in Nat
      BY <1>2, <2>1
    <3>2. SubSeq(str, n + 1, itr) \in Characters
      BY <1>4, <2>1, <2>3, <2>4, <3>1, CharacterAt
    <3>3. CutTo(str, itr)
      BY <1>8, <2>1, <3>1, <3>2, CutMore
    <3>4. Reaches(str, itr, 0, Accept)
      BY DEF Reaches
    <3>5. itr \in 0..End' /\ End' - itr = 0 /\ current' = Accept
      BY <1>2, <2>1, <2>4
    <3>6. QED
      BY <3>3, <3>4, <3>5
  <2>5. CASE v \in Within
    <3>1. n \in 0..End' /\ End' - n = p + 1
      BY <1>2, <2>1
    <3>2. QED
      BY <1>8, <2>1, <2>3, <2>5, <3>1
  <2>6. QED
    BY <2>1, <2>3, <2>4, <2>5
<1>12. QED
  BY <1>1, <1>6, <1>9, <1>10, <1>11

-----------------------------------------------------------------------------
(* Well-formed text *)

LEMMA WellFormedCut ==
  ASSUME NEW t
  PROVE  WellFormed(t) <=> CutTo(t, Len(t))
BY DEF WellFormed, CutTo, GoodCuts

LEMMA SpelledType ==
  ASSUME NEW t \in Seq(0..Space), NEW w \in Seq(1..Len(t))
  PROVE  /\ Spelled(t, w) \in Seq(0..Space) /\ Len(Spelled(t, w)) = Len(w) /\ Len(w) \in Nat
         /\ \A i \in 1..Len(w) : Spelled(t, w)[i] = t[w[i]]
<1> DEFINE N == Len(w)
           b == Spelled(t, w)
           S == 0..Space
<1>1. N \in Nat /\ DOMAIN w = 1..N /\ \A i \in 1..N : w[i] \in 1..Len(t)
  BY ElementOfSeq
<1>2. \A i \in 1..N : t[w[i]] \in S
  BY <1>1, ElementOfSeq
<1>3. b = [i \in 1..N |-> t[w[i]]]
  BY <1>1 DEF Spelled
<1> HIDE DEF N, b, S
<1>4. b \in [1..N -> S] /\ \A i \in 1..N : b[i] = t[w[i]]
  BY <1>2, <1>3
<1>5. b \in Seq(S)
  BY <1>1, <1>4, SeqDef
<1>6. Len(b) = N
  BY <1>1, <1>4, <1>5, LenProperties
<1>7. QED
  BY <1>1, <1>4, <1>5, <1>6 DEF N, b, S

\* The same bytes elsewhere are the same character.
LEMMA CharacterMoved ==
  ASSUME NEW t, NEW u, NEW n \in Nat, NEW m \in Nat, NEW k \in Nat, NEW l \in Nat,
         NEW d \in Nat, m = n + d, l = k + d,
         IsCharacter(t, n, m), \A i \in 1..d : u[k + i] = t[n + i]
  PROVE  IsCharacter(u, k, l)
<1>1. d \in 1..4
  BY DEF IsCharacter
<1>2. /\ u[k + 1] = t[n + 1]
      /\ d >= 2 => u[k + 2] = t[n + 2]
      /\ d >= 3 => u[k + 3] = t[n + 3]
      /\ d >= 4 => u[k + 4] = t[n + 4]
  <2>1. /\ 1 \in 1..d
        /\ d >= 2 => 2 \in 1..d
        /\ d >= 3 => 3 \in 1..d
        /\ d >= 4 => 4 \in 1..d
    BY <1>1
  <2>2. QED
    BY <2>1
<1>3. CASE d = 1
  BY <1>2, <1>3 DEF IsCharacter
<1>4. CASE d = 2
  BY <1>2, <1>4 DEF IsCharacter
<1>5. CASE d = 3
  BY <1>2, <1>5 DEF IsCharacter
<1>6. CASE d = 4
  BY <1>2, <1>6 DEF IsCharacter
<1>7. QED
  BY <1>1, <1>3, <1>4, <1>5, <1>6

\* A word whose last p bytes are those behind n, and the next byte, k.
Longer(t, w, n, p, k) ==
  LET x == Append(w, k) IN
  /\ x \in Seq(1..Len(t)) /\ Len(x) = Len(w) + 1
  /\ p + 1 <= Len(x)
  /\ \A i \in 1..(p + 1) : x[Len(w) - p + i] = n + i
  /\ CutTo(Spelled(t, x), Len(w) - p)
  /\ IsCharacter(t, n, k) => CutTo(Spelled(t, x), Len(w) + 1)

LEMMA WordMore ==
  ASSUME NEW t \in Seq(0..Space), NEW w \in Seq(1..Len(t)),
         NEW n \in Nat, NEW p \in Nat, NEW k \in 1..Len(t),
         k = n + p + 1, p <= Len(w), \A i \in 1..p : w[Len(w) - p + i] = n + i,
         CutTo(Spelled(t, w), Len(w) - p)
  PROVE  Longer(t, w, n, p, k)
<1> DEFINE v == Append(w, k)
           N == Len(w)
           q == N - p
           b == Spelled(t, w)
           c == Spelled(t, v)
<1>1. /\ v \in Seq(1..Len(t)) /\ Len(v) = N + 1 /\ N \in Nat
      /\ \A i \in 1..N : v[i] = w[i]
      /\ v[N + 1] = k
  BY AppendProperties
<1>2. /\ b \in Seq(0..Space) /\ Len(b) = N /\ \A i \in 1..N : b[i] = t[w[i]]
      /\ c \in Seq(0..Space) /\ Len(c) = N + 1 /\ \A i \in 1..(N + 1) : c[i] = t[v[i]]
  <2> HIDE DEF v, N
  <2>1. QED
    BY <1>1, SpelledType DEF N
<1>3. q \in Nat /\ q <= N /\ q + p = N /\ N + 1 = q + (p + 1) /\ k - n = p + 1
  BY <1>1
<1>4. /\ \A i \in 1..p : w[q + i] = n + i
      /\ CutTo(b, q)
  OBVIOUS
<1> HIDE DEF v, N, q, b, c
<1>5. \A i \in 1..(p + 1) : v[q + i] = n + i
  <2>1. ASSUME NEW i \in 1..(p + 1) PROVE v[q + i] = n + i
    <3>1. CASE i = p + 1
      <4>1. q + i = N + 1 /\ n + i = k
        BY <1>3, <3>1
      <4>2. QED
        BY <1>1, <4>1
    <3>2. CASE i \in 1..p
      <4>1. q + i \in 1..N
        BY <1>1, <1>3, <3>2
      <4>2. QED
        BY <1>1, <1>4, <3>2, <4>1
    <3>3. QED
      BY <3>1, <3>2
  <2>2. QED
    BY <2>1
<1>6. CutTo(c, q)
  <2>1. \A i \in 1..q : i \in 1..N /\ i \in 1..(N + 1)
    BY <1>1, <1>3
  <2>2. ASSUME NEW i \in 1..q PROVE b[i] = c[i]
    <3>1. v[i] = w[i] /\ b[i] = t[w[i]] /\ c[i] = t[v[i]]
      BY <1>1, <1>2, <2>1
    <3>2. QED
      BY <3>1
  <2>3. q <= Len(b) /\ q <= Len(c)
    BY <1>1, <1>2, <1>3
  <2>4. QED
    BY <1>2, <1>3, <1>4, <2>2, <2>3, CutSame
<1>7. ASSUME IsCharacter(t, n, k) PROVE CutTo(c, N + 1)
  <2> DEFINE M == N + 1
             d == p + 1
  <2>1. M \in Nat /\ q < M /\ M <= Len(c) /\ d \in Nat /\ k \in Nat /\ k = n + d /\ M = q + d
    BY <1>1, <1>2, <1>3
  <2>2. \A i \in 1..d : c[q + i] = t[n + i]
    <3>1. \A i \in 1..(p + 1) : q + i \in 1..(N + 1)
      BY <1>1, <1>3
    <3>2. QED
      BY <1>2, <1>3, <1>5, <3>1
  <2> HIDE DEF M, d
  <2>3. IsCharacter(c, q, M)
    BY <1>3, <1>7, <2>1, <2>2, CharacterMoved
  <2>4. SubSeq(c, q + 1, M) \in Characters
    BY <1>2, <1>3, <2>1, <2>3, CharacterAt
  <2>5. CutTo(c, M)
    BY <1>3, <1>6, <2>1, <2>4, CutMore
  <2>6. QED
    BY <2>5 DEF M
<1>8. p + 1 <= Len(v)
  BY <1>1, <1>3
<1>9. QED
  BY <1>1, <1>5, <1>6, <1>7, <1>8 DEF Longer, v, N, q, c

\* No word, at a cut.
LEMMA AtCutNew ==
  ASSUME NEW t, NEW cuts, NEW n \in Nat, n \in cuts, cuts \subseteq Nat
  PROVE  AtCut(t, cuts, n, n, Accept, <<>>)
<1>1. Reaches(t, n, 0, Accept)
  BY DEF Reaches
<1>2. CutTo(Spelled(t, <<>>), 0)
  BY CutNone
<1>3. Len(<<>>) = 0 /\ n - n = 0 /\ \A k \in cuts : k <= n \/ k > n
  OBVIOUS
<1> HIDE DEF Reaches
<1>4. QED
  BY <1>1, <1>2, <1>3 DEF AtCut

\* What a byte that is no space does at a cut.
Advances(t, cuts, n, e, s, w) ==
  LET c == e + 1
      v == Step(s, t[c])
  IN /\ v # Reject
     /\ v = Accept => /\ c \in cuts
                      /\ AtCut(t, cuts, c, c, Accept, <<>>)
                      /\ AtCut(t, cuts, c, c, Accept, Append(w, c))
                      /\ WellFormed(Spelled(t, Append(w, c)))
     /\ v # Accept => AtCut(t, cuts, n, c, v, Append(w, c))

LEMMA CutReads ==
  ASSUME NEW t \in Seq(0..Space), NEW cuts \in SUBSET (0..Len(t)), GoodCuts(t, Len(t), cuts),
         NEW n \in cuts, NEW e \in Nat, e < Len(t), NEW s, NEW w \in Seq(1..Len(t)),
         AtCut(t, cuts, n, e, s, w), t[e + 1] # Space
  PROVE  Advances(t, cuts, n, e, s, w)
<1> DEFINE p == e - n
           c == e + 1
           v == Step(s, t[c])
           x == Append(w, c)
<1>1. /\ n <= e /\ \A k \in cuts : k <= n \/ k > e
      /\ Reaches(t, n, p, s)
      /\ p <= Len(w) /\ \A i \in 1..p : w[Len(w) - p + i] = n + i
      /\ CutTo(Spelled(t, w), Len(w) - p)
  BY DEF AtCut
<1>2. /\ n \in Nat /\ cuts \subseteq Nat /\ p \in Nat /\ c \in Nat /\ c \in 1..Len(t)
      /\ c = n + p + 1 /\ c - n = p + 1 /\ n < c
  BY <1>1
<1> HIDE DEF p, c, v, x
<1>3. t[c] # Space /\ c <= Len(t) /\ c = e + 1
  BY DEF c
<1>4. PICK m \in cuts : /\ n < m /\ \A k \in cuts : k <= n \/ m <= k
                        /\ IsCharacter(t, n, m) \/ (m = n + 1 /\ t[n + 1] = Space)
  <2>1. n < Len(t)
    BY <1>1, <1>2
  <2>2. QED
    BY <2>1, NextPiece
<1>5. m \in Nat /\ m <= Len(t) /\ c <= m
  BY <1>1, <1>2, <1>3, <1>4
<1>6. IsCharacter(t, n, m)
  <2>1. CASE m = n + 1
    <3>1. t[n + 1] # Space
      BY <1>2, <1>3, <1>5, <2>1
    <3>2. QED
      BY <1>4, <3>1
  <2>2. CASE m # n + 1
    BY <1>4, <2>2
  <2>3. QED
    BY <2>1, <2>2
<1>7. v # Reject /\ (v = Accept <=> c = m)
  <2>1. n + p < m
    BY <1>2, <1>5
  <2>2. QED
    BY <1>1, <1>2, <1>5, <1>6, <2>1, ReachesOn DEF v
<1>8. /\ x \in Seq(1..Len(t)) /\ Len(x) = Len(w) + 1 /\ p + 1 <= Len(x)
      /\ \A i \in 1..(p + 1) : x[Len(w) - p + i] = n + i
      /\ CutTo(Spelled(t, x), Len(w) - p)
      /\ IsCharacter(t, n, c) => CutTo(Spelled(t, x), Len(w) + 1)
  <2>1. Longer(t, w, n, p, c)
    BY <1>1, <1>2, WordMore
  <2>2. QED
    BY <2>1 DEF Longer, x
<1>9. Len(w) \in Nat
  OBVIOUS
<1>10. ASSUME v = Accept
       PROVE  /\ c \in cuts
              /\ AtCut(t, cuts, c, c, Accept, <<>>)
              /\ AtCut(t, cuts, c, c, Accept, x)
              /\ WellFormed(Spelled(t, x))
  <2>1. c \in cuts /\ CutTo(Spelled(t, x), Len(w) + 1)
    BY <1>6, <1>7, <1>8, <1>10
  <2>2. Len(Spelled(t, x)) = Len(w) + 1
    BY <1>8, SpelledType
  <2>3. WellFormed(Spelled(t, x))
    BY <2>1, <2>2, WellFormedCut
  <2>4. AtCut(t, cuts, c, c, Accept, <<>>)
    BY <1>2, <2>1, AtCutNew
  <2>5. AtCut(t, cuts, c, c, Accept, x)
    <3>1. Reaches(t, c, 0, Accept)
      BY DEF Reaches
    <3>2. c - c = 0 /\ Len(x) - 0 = Len(w) + 1 /\ 0 <= Len(x) /\ c <= c
      BY <1>2, <1>8, <1>9
    <3>3. \A k \in cuts : k <= c \/ k > c
      BY <1>2
    <3>4. \A i \in 1..0 : x[Len(x) - 0 + i] = c + i
      OBVIOUS
    <3>5. QED
      BY <2>1, <3>1, <3>2, <3>3, <3>4 DEF AtCut
  <2>6. QED
    BY <2>1, <2>3, <2>4, <2>5
<1>11. ASSUME v # Accept PROVE AtCut(t, cuts, n, c, v, x)
  <2>1. Reaches(t, n, p + 1, v)
    <3>1. t[n + p + 1] # Space /\ n + p + 1 <= Len(t) /\ v = Step(s, t[n + p + 1])
      BY <1>2, <1>3 DEF v
    <3>2. /\ v \in {Accept, Reject} \cup Within
          /\ v \in Within => Reaches(t, n, p + 1, v)
      BY <1>1, <1>2, <3>1, ReachesMore
    <3>3. QED
      BY <1>7, <1>11, <3>2
  <2>2. \A k \in cuts : k <= n \/ k > c
    BY <1>2, <1>4, <1>5, <1>7, <1>11
  <2>3. Len(x) - (p + 1) = Len(w) - p /\ n <= c
    BY <1>2, <1>8, <1>9
  <2>4. QED
    BY <1>2, <1>8, <2>1, <2>2, <2>3 DEF AtCut
<1>12. QED
  BY <1>7, <1>10, <1>11 DEF Advances, v, x, c

\* What is known where the automaton is at a cut: its word is well formed.
LEMMA AtCutRest ==
  ASSUME NEW t \in Seq(0..Space), NEW cuts, NEW n \in Nat, NEW s, NEW w \in Seq(1..Len(t)),
         AtCut(t, cuts, n, n, s, w)
  PROVE  s = Accept /\ WellFormed(Spelled(t, w))
<1>1. Reaches(t, n, 0, s) /\ CutTo(Spelled(t, w), Len(w))
  <2>1. n - n = 0 /\ Len(w) - 0 = Len(w)
    OBVIOUS
  <2>2. QED
    BY <2>1 DEF AtCut
<1>2. Len(Spelled(t, w)) = Len(w)
  BY SpelledType
<1>3. QED
  BY <1>1, <1>2, WellFormedCut DEF Reaches

\* A word ends at a cut, and from another on, f, nothing was read.
Passes(t, cuts, s, w, f) ==
  /\ s = Accept /\ WellFormed(Spelled(t, w))
  /\ f \in cuts /\ AtCut(t, cuts, f, f, Accept, <<>>)

\* A space is read at a cut, and so are those behind it.
LEMMA CutSkips ==
  ASSUME NEW t \in Seq(0..Space), NEW cuts \in SUBSET (0..Len(t)), GoodCuts(t, Len(t), cuts),
         NEW n \in cuts, NEW e \in Nat, e < Len(t), NEW s, NEW w \in Seq(1..Len(t)),
         AtCut(t, cuts, n, e, s, w), NEW f \in Nat, e <= f, f <= Len(t), t[e + 1] = Space,
         \A i \in (e + 1)..f : t[i] = Space
  PROVE  Passes(t, cuts, s, w, f)
<1> DEFINE p == e - n
<1>1. /\ n <= e /\ \A k \in cuts : k <= n \/ k > e
      /\ Reaches(t, n, p, s)
  BY DEF AtCut
<1>2. n \in Nat /\ cuts \subseteq Nat /\ p \in Nat /\ e = n + p
  BY <1>1
<1> HIDE DEF p
<1>3. PICK m \in cuts : /\ n < m /\ \A k \in cuts : k <= n \/ m <= k
                        /\ IsCharacter(t, n, m) \/ (m = n + 1 /\ t[n + 1] = Space)
  <2>1. n < Len(t)
    BY <1>1, <1>2
  <2>2. QED
    BY <2>1, NextPiece
<1>4. m \in Nat /\ m <= Len(t) /\ n + p < m
  BY <1>1, <1>2, <1>3
<1>5. ~IsCharacter(t, n, m)
  <2>1. t[n + p + 1] = Space
    BY <1>2
  <2>2. QED
    BY <1>1, <1>2, <1>4, <2>1, ReachesOn
<1>6. n = e
  BY <1>2, <1>3, <1>4, <1>5
<1>7. s = Accept /\ WellFormed(Spelled(t, w))
  BY <1>2, <1>6, AtCutRest
<1>8. f \in cuts
  BY <1>6, SpacesCut
<1>9. AtCut(t, cuts, f, f, Accept, <<>>)
  BY <1>2, <1>8, AtCutNew
<1>10. QED
  BY <1>7, <1>8, <1>9 DEF Passes

\* The end of the text is a cut.
LEMMA CutEnds ==
  ASSUME NEW t \in Seq(0..Space), NEW cuts \in SUBSET (0..Len(t)), GoodCuts(t, Len(t), cuts),
         NEW n \in cuts, NEW s, NEW w \in Seq(1..Len(t)), AtCut(t, cuts, n, Len(t), s, w)
  PROVE  /\ s = Accept /\ WellFormed(Spelled(t, w))
         /\ Len(t) \in cuts /\ AtCut(t, cuts, Len(t), Len(t), Accept, <<>>)
<1> DEFINE L == Len(t)
<1>1. L \in Nat /\ L \in cuts /\ cuts \subseteq Nat
  BY DEF GoodCuts
<1>2. n <= L /\ \A k \in cuts : k <= n \/ k > L
  BY DEF AtCut
<1> HIDE DEF L
<1>3. n = L
  BY <1>1, <1>2
<1>4. s = Accept /\ WellFormed(Spelled(t, w))
  BY <1>1, <1>3, AtCutRest DEF L
<1>5. AtCut(t, cuts, L, L, Accept, <<>>)
  BY <1>1, AtCutNew
<1>6. QED
  BY <1>1, <1>4, <1>5 DEF L

\* A word that was ended is well formed, as are those before.
LEMMA WordsAppended ==
  ASSUME NEW t, NEW ws \in Seq(Seq(1..Len(t))), NEW w \in Seq(1..Len(t)),
         \A i \in DOMAIN ws : WellFormed(Spelled(t, ws[i])), WellFormed(Spelled(t, w))
  PROVE  /\ Append(ws, w) \in Seq(Seq(1..Len(t)))
         /\ \A i \in DOMAIN Append(ws, w) : WellFormed(Spelled(t, Append(ws, w)[i]))
<1> DEFINE v == Append(ws, w)
           N == Len(ws)
<1>1. /\ v \in Seq(Seq(1..Len(t))) /\ DOMAIN v = 1..(N + 1) /\ DOMAIN ws = 1..N /\ N \in Nat
      /\ \A i \in 1..N : v[i] = ws[i]
      /\ v[N + 1] = w
  <2>1. v \in Seq(Seq(1..Len(t))) /\ Len(v) = N + 1 /\ N \in Nat
    BY AppendProperties
  <2>2. QED
    BY <2>1, AppendProperties
<1> HIDE DEF v, N
<1>2. ASSUME NEW i \in DOMAIN v PROVE WellFormed(Spelled(t, v[i]))
  <2>1. CASE i \in 1..N
    BY <1>1, <2>1
  <2>2. CASE i = N + 1
    BY <1>1, <2>2
  <2>3. QED
    BY <1>1, <2>1, <2>2
<1>3. QED
  BY <1>1, <1>2 DEF v

\* The words of a well-formed text stay well formed, and it stays cut.
LEMMA StepWellFormed ==
  ASSUME Typed, Text, Next, WellFormed(str)
  PROVE  /\ ~Replaces
         /\ Cuts(str, End', current', word')
         /\ word' \in Seq(1..Len(str)) /\ words' \in Seq(Seq(1..Len(str)))
         /\ \A i \in DOMAIN words' : WellFormed(Spelled(str, words'[i]))
<1> DEFINE L == Len(str)
           S == 1..L
<1>1. Skips \/ Reads \/ Replaces \/ Finishes
  BY Turn
<1>2. /\ L \in Nat /\ itr \in Nat /\ itr > 0 /\ End \in 0..L /\ str \in Seq(0..Space)
  BY TypeFacts DEF Typed
<1>3. /\ word \in Seq(S) /\ words \in Seq(Seq(S))
      /\ \A i \in DOMAIN words : WellFormed(Spelled(str, words[i]))
  BY DEF Text, Tidy
<1>4. PICK cuts \in SUBSET (0..L) : /\ GoodCuts(str, L, cuts)
                                    /\ \E n \in cuts : AtCut(str, cuts, n, End, current, word)
  BY DEF Text, Cuts
<1>5. PICK n \in cuts : AtCut(str, cuts, n, End, current, word)
  BY <1>4
<1>6. /\ <<>> \in Seq(S)
      /\ WellFormed(Spelled(str, word)) =>
           /\ Ended(words, word) \in Seq(Seq(S))
           /\ \A i \in DOMAIN Ended(words, word) : WellFormed(Spelled(str, Ended(words, word)[i]))
  <2>1. CASE word = <<>>
    BY <1>3, <2>1 DEF Ended
  <2>2. CASE word # <<>>
    <3>1. Ended(words, word) = Append(words, word)
      BY <2>2 DEF Ended
    <3>2. QED
      BY <1>3, <3>1, WordsAppended
  <2>3. QED
    BY <2>1, <2>2
<1> DEFINE Good == /\ Cuts(str, End', current', word')
                   /\ word' \in Seq(S) /\ words' \in Seq(Seq(S))
                   /\ \A i \in DOMAIN words' : WellFormed(Spelled(str, words'[i]))
<1>7. ASSUME Skips PROVE Good
  <2> DEFINE e == End
             f == End'
  <2>1. e = itr - 1 /\ f = itr' - 1 /\ itr \in 1..L /\ itr' \in (itr + 1)..(L + 1)
    BY <1>7, StepEnd DEF Skips
  <2>2. /\ e \in Nat /\ f \in Nat /\ e + 1 = itr /\ e < L /\ e <= f /\ f <= L /\ f = itr' - 1
    <3>1. L \in Nat /\ itr \in Nat
      BY <1>2
    <3> DEFINE k == itr'
    <3>2. e = itr - 1 /\ f = k - 1 /\ itr \in 1..L /\ k \in (itr + 1)..(L + 1)
      BY <2>1
    <3> HIDE DEF e, f, k, L, S, Good
    <3>3. k \in Nat /\ k > itr /\ k <= L + 1 /\ itr <= L /\ itr > 0
      BY <3>1, <3>2
    <3>4. e \in Nat /\ f \in Nat /\ e + 1 = itr /\ e < L /\ e <= f /\ f <= L
      BY <3>1, <3>2, <3>3
    <3>5. QED
      BY <3>2, <3>4 DEF k
  <2>3. str[e + 1] = Space /\ \A i \in (e + 1)..f : str[i] = Space
    <3> HIDE DEF e, f, L
    <3>1. str[itr] = Space /\ \A i \in itr..(itr' - 1) : str[i] = Space
      BY <1>7 DEF Skips
    <3>2. QED
      BY <2>2, <3>1
  <2>4. AtCut(str, cuts, n, e, current, word)
    BY <1>5
  <2> HIDE DEF e, f
  <2>5. /\ current = Accept /\ WellFormed(Spelled(str, word))
        /\ f \in cuts /\ AtCut(str, cuts, f, f, Accept, <<>>)
    <3>1. Passes(str, cuts, current, word, f)
      BY <1>2, <1>3, <1>4, <2>2, <2>3, <2>4, CutSkips
    <3>2. QED
      BY <3>1 DEF Passes
  <2>6. word' = <<>> /\ words' = Ended(words, word) /\ current' = Accept
    BY <1>7, <2>5 DEF Skips
  <2>7. Cuts(str, f, current', word')
    BY <1>4, <2>5, <2>6 DEF Cuts
  <2>8. QED
    BY <1>6, <2>5, <2>6, <2>7 DEF f
<1>8. ASSUME Finishes PROVE Good
  <2>1. End = L /\ End' = L
    BY <1>8, StepEnd
  <2>2. AtCut(str, cuts, n, L, current, word)
    BY <1>5, <2>1
  <2>3. /\ current = Accept /\ WellFormed(Spelled(str, word))
        /\ L \in cuts /\ AtCut(str, cuts, L, L, Accept, <<>>)
    BY <1>2, <1>3, <1>4, <2>2, CutEnds
  <2>4. word' = <<>> /\ words' = Ended(words, word) /\ current' = Accept
    BY <1>8, <2>3 DEF Finishes
  <2>5. Cuts(str, L, current', word')
    BY <1>4, <2>3, <2>4 DEF Cuts
  <2>6. QED
    BY <1>6, <2>1, <2>3, <2>4, <2>5
<1>9. ASSUME Reads \/ Replaces PROVE ~Replaces /\ (Reads => Good)
  <2> DEFINE e == End
             v == Step(current, str[itr])
             x == Append(word, itr)
  <2>1. e = itr - 1 /\ itr \in S /\ str[itr] # Space
    BY <1>9, StepEnd DEF Reads, Replaces
  <2>2. e \in Nat /\ e + 1 = itr /\ e < L
    <3> HIDE DEF e
    <3>1. QED
      BY <1>2, <2>1
  <2>3. AtCut(str, cuts, n, e, current, word)
    BY <1>5
  <2> HIDE DEF e
  <2>4. Advances(str, cuts, n, e, current, word)
    BY <1>2, <1>3, <1>4, <2>1, <2>2, <2>3, CutReads
  <2>5. /\ v # Reject
        /\ v = Accept => /\ itr \in cuts
                         /\ AtCut(str, cuts, itr, itr, Accept, <<>>)
                         /\ AtCut(str, cuts, itr, itr, Accept, x)
                         /\ WellFormed(Spelled(str, x))
        /\ v # Accept => AtCut(str, cuts, n, itr, v, x)
    BY <2>2, <2>4 DEF Advances
  <2>6. ~Replaces
    BY <2>5 DEF Replaces
  <2>7. x \in Seq(S)
    BY <1>3, <2>1, AppendProperties
  <2> HIDE DEF x, v
  <2>8. ASSUME Reads PROVE Good
    <3>1. current' = v /\ End' = itr
      BY <2>8, StepEnd DEF Reads, v
    <3>2. CASE current' = Accept /\ current # Accept
      <4>1. word' = <<>> /\ words' = Append(words, x)
        BY <2>8, <3>2 DEF Reads, x
      <4>2. words' \in Seq(Seq(S)) /\ \A i \in DOMAIN words' : WellFormed(Spelled(str, words'[i]))
        BY <1>3, <2>5, <2>7, <3>1, <3>2, <4>1, WordsAppended
      <4>3. Cuts(str, itr, current', word')
        BY <1>4, <2>5, <3>1, <3>2, <4>1 DEF Cuts
      <4>4. QED
        BY <1>6, <3>1, <4>1, <4>2, <4>3
    <3>3. CASE ~(current' = Accept /\ current # Accept)
      <4>1. word' = x /\ words' = words
        BY <2>8, <3>3 DEF Reads, x
      <4>2. Cuts(str, itr, current', word')
        BY <1>4, <2>5, <3>1, <4>1 DEF Cuts
      <4>3. QED
        BY <1>3, <2>7, <3>1, <4>1, <4>2
    <3>4. QED
      BY <3>2, <3>3
  <2>9. QED
    BY <2>6, <2>8
<1>10. QED
  <2>1. ~Replaces
    BY <1>1, <1>2, <1>9 DEF Skips, Finishes, Replaces
  <2>2. Good
    BY <1>1, <1>7, <1>8, <1>9, <2>1
  <2>3. QED
    BY <2>1, <2>2

\* The bytes of a well-formed text that were used are those that were read.
LEMMA StepUsed ==
  ASSUME Typed, Text, Next, WellFormed(str)
  PROVE  ToSet(Used') = {i \in 1..End' : str[i] # Space}
<1> DEFINE e == End
           f == End'
           u == Used
           At(k) == {i \in 1..k : str[i] # Space}
<1>1. Skips \/ Reads \/ Finishes
  BY Turn, StepWellFormed
<1>2. ToSet(u) = At(e)
  BY DEF Text, Tidy
<1>3. itr \in Nat /\ Len(str) \in Nat
  BY TypeFacts
<1>4. CASE Skips
  <2> DEFINE k == itr'
             L == Len(str)
  <2>1. /\ Used' = u /\ e = itr - 1 /\ f = k - 1 /\ itr \in 1..L /\ k \in (itr + 1)..(L + 1)
        /\ \A i \in itr..(k - 1) : str[i] = Space
    BY <1>4, StepEnd DEF Skips
  <2> HIDE DEF e, f, k, L
  <2>2. \A i \in 1..f : i \in 1..e \/ i \in itr..(k - 1)
    BY <1>3, <2>1
  <2>3. \A i \in 1..e : i \in 1..f
    BY <1>3, <2>1
  <2>4. At(f) = At(e)
    BY <2>1, <2>2, <2>3
  <2>5. QED
    BY <1>2, <2>1, <2>4 DEF f
<1>5. CASE Reads
  <2>1. Used' = Append(u, itr) /\ e = itr - 1 /\ f = itr /\ str[itr] # Space /\ itr > 0
    BY <1>5, StepEnd DEF Reads
  <2>2. u \in Seq(Nat)
    BY TypeFacts
  <2> HIDE DEF e, f, u
  <2>3. ToSet(Append(u, itr)) = ToSet(u) \cup {itr}
    BY <1>3, <2>2, InAppended
  <2>4. \A i \in 1..f : i \in 1..e \/ i = itr
    BY <1>3, <2>1
  <2>5. \A i \in 1..e : i \in 1..f
    BY <1>3, <2>1
  <2>6. itr \in 1..f
    BY <1>3, <2>1
  <2>7. At(f) = At(e) \cup {itr}
    BY <2>1, <2>4, <2>5, <2>6
  <2>8. QED
    BY <1>2, <2>1, <2>3, <2>7 DEF f
<1>6. CASE Finishes
  <2>1. Used' = u /\ e = f
    BY <1>6, StepEnd DEF Finishes
  <2>2. QED
    BY <1>2, <2>1
<1>7. QED
  BY <1>1, <1>4, <1>5, <1>6

LEMMA StepText ==
  ASSUME Typed, Text, Next
  PROVE  Text'
<1>1. str' = str
  BY Turn
<1>2. ASSUME WellFormed(str)
      PROVE  /\ Tidy(str, End', word', words', Used')
             /\ Cuts(str, End', current', word')
  <2>1. ToSet(Used') = {i \in 1..End' : str[i] # Space}
    BY <1>2, StepUsed
  <2>2. QED
    BY <1>2, <2>1, StepWellFormed DEF Tidy
<1>3. QED
  BY <1>1, <1>2 DEF Text

-----------------------------------------------------------------------------
(* The invariant, and what follows *)

LEMMA InitIInv == Init => IInv
<1> SUFFICES ASSUME Init PROVE IInv
  OBVIOUS
<1>1. Typed /\ End = 0 /\ Used = <<>> /\ ~Done
  BY InitTyped
<1>2. word = <<>> /\ words = <<>> /\ current = Accept
  BY DEF Init
<1>3. InOrder(Used) /\ Behind
  BY <1>1 DEF InOrder, Behind
<1>4. Silent
  <2>1. CutTo(str, 0)
    BY CutNone
  <2>2. Reaches(str, 0, 0, current)
    BY <1>2 DEF Reaches
  <2>3. 0 \in 0..0 /\ 0 - 0 = 0
    OBVIOUS
  <2>4. QED
    BY <1>1, <2>1, <2>2, <2>3 DEF Silent
<1>5. ASSUME WellFormed(str) PROVE Tidy(str, End, word, words, Used) /\ Cuts(str, End, current, word)
  <2>1. PICK cuts \in SUBSET (0..Len(str)) : GoodCuts(str, Len(str), cuts)
    BY <1>5, WellFormedCut DEF CutTo
  <2>2. 0 \in cuts /\ cuts \subseteq Nat /\ 0 \in Nat
    BY <2>1 DEF GoodCuts
  <2>3. AtCut(str, cuts, 0, 0, Accept, <<>>)
    BY <2>2, AtCutNew
  <2>4. Cuts(str, End, current, word)
    BY <1>1, <1>2, <2>1, <2>2, <2>3 DEF Cuts
  <2>5. ToSet(<<>>) = {} /\ {i \in 1..0 : str[i] # Space} = {}
    BY DEF ToSet
  <2>6. Tidy(str, 0, <<>>, <<>>, <<>>)
    BY <2>5 DEF Tidy
  <2>7. QED
    BY <1>1, <1>2, <2>4, <2>6
<1>6. Text
  BY <1>5 DEF Text
<1>7. QED
  BY <1>1, <1>3, <1>4, <1>6 DEF IInv

LEMMA StepIInv == IInv /\ [Next]_vars => IInv'
<1> SUFFICES ASSUME IInv, [Next]_vars PROVE IInv'
  OBVIOUS
<1>1. CASE Next
  <2>1. Typed /\ InOrder(Used) /\ Behind /\ Silent /\ Text
    BY DEF IInv
  <2>2. Typed'
    BY <1>1, <2>1, StepTyped
  <2>3. InOrder(Used)' /\ Behind'
    BY <1>1, <2>1, StepOrder
  <2>4. Silent'
    BY <1>1, <2>1, StepSilent
  <2>5. Text'
    BY <1>1, <2>1, StepText
  <2>6. QED
    BY <2>2, <2>3, <2>4, <2>5 DEF IInv
<1>2. CASE UNCHANGED vars
  <2>1. str' = str /\ itr' = itr /\ current' = current /\ word' = word /\ words' = words
    BY <1>2 DEF vars
  <2>2. End' = End /\ Used' = Used /\ Done' = Done
    BY <2>1 DEF End, Used, Done
  <2>3. Typed' /\ InOrder(Used)' /\ Behind' /\ Silent' /\ Text'
    <3>1. Typed /\ InOrder(Used) /\ Behind /\ Silent /\ Text
      BY DEF IInv
    <3>2. Typed'
      BY <2>1, <2>2, <3>1 DEF Typed
    <3>3. InOrder(Used)' /\ Behind'
      BY <2>2, <3>1 DEF InOrder, Behind
    <3>4. Silent'
      BY <2>1, <2>2, <3>1 DEF Silent
    <3>5. Text'
      BY <2>1, <2>2, <3>1 DEF Text
    <3>6. QED
      BY <3>2, <3>3, <3>4, <3>5
  <2>4. QED
    BY <2>3 DEF IInv
<1>3. QED
  BY <1>1, <1>2

LEMMA Invariance == Spec => []IInv
BY InitIInv, StepIInv, PTL DEF Spec

\* Of a text of any length and of any bytes, no byte is used twice and none out
\* of order, although word_seperator goes back to a byte it could not use.
THEOREM EachByteOnce == Spec => []NoByteTwice
<1>1. IInv => NoByteTwice
  BY DEF IInv, NoByteTwice
<1>2. QED
  BY <1>1, Invariance, PTL

\* Whatever text in one piece word_seperator takes without replacing a byte,
\* and without leaving a character unfinished, is well-formed UTF-8: the table
\* lets no overlong form, surrogate or code point above 10FFFF pass.
THEOREM MalformedIsNoticed == Spec => []SilentMeansWellFormed
<1>1. IInv => SilentMeansWellFormed
  <2> SUFFICES ASSUME IInv, Done, current = Accept, Replacement \notin ToSet(words),
                      Space \notin ToSet(str)
               PROVE  WellFormed(str)
    BY DEF SilentMeansWellFormed
  <2> DEFINE L == Len(str)
  <2>1. Typed /\ Silent /\ End = L
    BY DEF IInv, End
  <2>2. L \in Nat
    BY <2>1, TypeFacts
  <2>3. PICK n \in 0..End : CutTo(str, n) /\ Reaches(str, n, End - n, current)
    BY <2>1 DEF Silent
  <2>4. End - n = 0
    BY <2>3 DEF Reaches, Accept, Within
  <2>5. n = L
    <3>1. n \in 0..L /\ L - n = 0
      BY <2>1, <2>3, <2>4
    <3> HIDE DEF L
    <3>2. QED
      BY <2>2, <3>1
  <2>6. QED
    BY <2>3, <2>5, WellFormedCut
<1>2. QED
  BY <1>1, Invariance, PTL

\* Of any well-formed text the words are its bytes that are no white space,
\* each once and in order, with no replacement among them, and every word is
\* well formed by itself: word_seperator never ends a word within a character.
THEOREM WordsOfWellFormed == Spec => []WordsAreTheText
<1>1. IInv => WordsAreTheText
  <2> SUFFICES ASSUME IInv, Done, WellFormed(str)
               PROVE  /\ InOrder(Used) /\ ToSet(Used) = {i \in DOMAIN str : str[i] # Space}
                      /\ \A i \in DOMAIN words : WellFormed(BytesOf(words[i]))
    BY DEF WordsAreTheText
  <2>1. Typed /\ InOrder(Used) /\ Tidy(str, End, word, words, Used) /\ End = Len(str)
    BY DEF IInv, Text, End
  <2>2. DOMAIN str = 1..Len(str)
    BY <2>1, TypeFacts
  <2>3. QED
    BY <2>1, <2>2 DEF Tidy, Spelled, BytesOf
<1>2. QED
  BY <1>1, Invariance, PTL

=============================================================================
