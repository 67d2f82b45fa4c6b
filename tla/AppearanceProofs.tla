-------------------------- MODULE AppearanceProofs ---------------------------
(***************************************************************************)
(* How a page looks, in two components.                                    *)
(*                                                                         *)
(* Where the boxes of a block are, for any fonts, widths and numbers of    *)
(* boxes: what the first pass counts bounds where the second puts them,    *)
(* boxes do not meet, and drawing misses only what follows, in its line,   *)
(* an item below the screen.                                               *)
(*                                                                         *)
(* What style the items of a page have, for any tree and any sheets: after *)
(* every symbol the parser has the rules and declarations that the text so *)
(* far means, and after every render each item has what the cascade says.  *)
(***************************************************************************)
EXTENDS Lines, Cascade, Induction


Boxes == [kind : {"text", "input"}, width : Nat, font : Fonts]

Typed ==
  /\ lines \in Seq(Seq(Boxes)) /\ Len(lines) > 0
  /\ cursor \in Nat /\ placed \in BOOLEAN

\* By how much the space placed before a box is more than the one counted behind it.
Drifts(box) == IF box.kind = "input" THEN box.font.space - BlockFont.space ELSE 0

\* The cursor of the first pass, c, stands where the placement will end, less what the
\* two have drifted apart, and the space counted for the line's first box behind that.
CursorAt(c, line) ==
  IF line = <<>> THEN c = 0
  ELSE c + Drift(line)[Len(line)]
         = X(line)[Len(line)] + line[Len(line)].width + Counted(line[1])

CursorAgrees == CursorAt(cursor, lines[Len(lines)])

\* A line's boxes but the first fitted when they were added.
LineFits(line) ==
  \A i \in 2..Len(line) :
    X(line)[i] + line[i].width + Counted(line[1])
      <= BlockWidth + line[i].font.space + Drift(line)[i - 1]

Fitted == \A k \in 1..Len(lines) : LineFits(lines[k])

IInv == Typed /\ CursorAgrees /\ Fitted

-----------------------------------------------------------------------------
(* The places of a line's boxes *)

LEMMA BoxType ==
  ASSUME NEW line \in Seq(Boxes)
  PROVE  /\ Len(line) \in Nat /\ DOMAIN line = 1..Len(line)
         /\ \A i \in 1..Len(line) :
              /\ line[i].width \in Nat /\ line[i].font \in Fonts
              /\ line[i].font.space \in Nat
              /\ line[i].font.ascent \in Nat /\ line[i].font.descent \in Nat
<1>1. \A i \in 1..Len(line) : line[i] \in Boxes
  BY ElementOfSeq
<1>2. \A b \in Boxes : b.width \in Nat /\ b.font \in Fonts
  BY DEF Boxes
<1>3. \A f \in Fonts : f.space \in Nat /\ f.ascent \in Nat /\ f.descent \in Nat
  BY FontsAssumption
<1>4. QED
  BY <1>1, <1>2, <1>3

\* What the recursion in X says.
Placing(x, line) ==
  /\ x \in [1..Len(line) -> Nat]
  /\ line # <<>> => x[1] = 0
  /\ \A i \in 2..Len(line) : x[i] = x[i - 1] + line[i].font.space + line[i - 1].width

LEMMA PlacingX ==
  ASSUME NEW line \in Seq(Boxes)
  PROVE  Placing(X(line), line)
<1> DEFINE N == Len(line)
           gap(i) == line[i].font.space + line[i - 1].width
           Body(u) == [i \in DOMAIN line |->
                         IF i = 1 THEN 0 ELSE u[i - 1] + line[i].font.space + line[i - 1].width]
           x == CHOOSE u : u = Body(u)
           step == [q \in Nat \X Nat |-> IF q[1] \in 2..N THEN q[2] + gap(q[1]) ELSE q[2]]
<1>1. X(line) = x
  BY DEF X
<1>2. N \in Nat /\ DOMAIN line = 1..N
  BY BoxType
<1>3. \A i \in 2..N : gap(i) \in Nat /\ i \in Nat /\ i - 1 \in 1..N
  <2>1. \A i \in 2..N : i \in 1..N /\ i - 1 \in 1..N /\ i \in Nat
    BY <1>2
  <2>2. QED
    BY <2>1, BoxType
<1> HIDE DEF N
<1>4. step \in [Nat \X Nat -> Nat] /\ \A i \in 2..N, v \in Nat : step[<<i, v>>] = v + gap(i)
  <2> HIDE DEF gap
  <2>1. QED
    BY <1>2, <1>3
<1>5. \A i \in 2..N, v \in Nat : v + gap(i) = v + line[i].font.space + line[i - 1].width
  <2>1. \A i \in 2..N : line[i].font.space \in Nat /\ line[i - 1].width \in Nat
    <3>1. \A i \in 2..N : i \in 1..N /\ i - 1 \in 1..N
      BY <1>2
    <3>2. QED
      BY <3>1, BoxType DEF N
  <2>2. QED
    BY <2>1
<1> HIDE DEF step, gap
<1>6. PICK g \in [1..N -> Nat] : RecursTo(g, N, 0, step)
  BY <1>2, <1>4, RecursionTo
<1>7. \A i \in 2..N : g[i] = g[i - 1] + line[i].font.space + line[i - 1].width
  <2>1. ASSUME NEW i \in 2..N
        PROVE  g[i] = g[i - 1] + line[i].font.space + line[i - 1].width
    <3>1. g[i] = step[<<i, g[i - 1]>>] /\ g[i - 1] \in Nat
      BY <1>3, <1>6 DEF RecursTo
    <3>2. QED
      BY <1>4, <1>5, <3>1
  <2>2. QED
    BY <2>1
<1>8. 1 <= N => g[1] = 0
  BY <1>6 DEF RecursTo
<1>9. g = Body(g)
  <2>1. \A i \in 1..N : i = 1 \/ i \in 2..N
    BY <1>2
  <2>2. \A i \in 1..N : g[i] = Body(g)[i]
    BY <1>2, <1>7, <1>8, <2>1
  <2>3. QED
    BY <1>2, <2>2
<1>10. x = Body(x)
  <2> HIDE DEF Body
  <2>1. QED
    BY <1>9
<1> HIDE DEF x
<1>11. \A i \in 1..N : x[i] = g[i]
  <2> DEFINE T == {i \in Nat : i \in 1..N => x[i] = g[i]}
  <2>1. 0 \in T
    OBVIOUS
  <2>2. ASSUME NEW i \in Nat, i \in T PROVE i + 1 \in T
    <3>1. CASE i = 0 /\ 1 <= N
      BY <1>2, <1>8, <1>10, <3>1
    <3>2. CASE i # 0 /\ i + 1 <= N
      <4>1. i + 1 \in 2..N /\ i + 1 \in 1..N /\ i + 1 # 1 /\ i \in 1..N /\ (i + 1) - 1 = i
        BY <1>2, <3>2
      <4>2. x[i] = g[i]
        BY <2>2, <4>1
      <4>3. x[i + 1] = x[i] + line[i + 1].font.space + line[i].width
        BY <1>2, <1>10, <4>1
      <4>4. g[i + 1] = g[i] + line[i + 1].font.space + line[i].width
        BY <1>7, <4>1
      <4>5. QED
        BY <4>2, <4>3, <4>4
    <3>3. CASE ~(i + 1 <= N)
      BY <1>2, <3>3
    <3>4. QED
      BY <1>2, <3>1, <3>2, <3>3
  <2> HIDE DEF T
  <2>3. Nat \subseteq T
    BY <2>1, <2>2, NatAll
  <2>4. QED
    BY <1>2, <2>3 DEF T
<1>12. x = g
  <2>1. x = [i \in 1..N |-> x[i]]
    BY <1>2, <1>10
  <2>2. QED
    BY <1>11, <2>1
<1>13. line # <<>> => 1 <= N
  BY <1>2, EmptySeq DEF N
<1>14. QED
  BY <1>1, <1>7, <1>8, <1>12, <1>13 DEF Placing, N

\* What a box adds to the drift, and to the cursor.
LEMMA CountedType ==
  ASSUME NEW box \in Boxes
  PROVE  /\ Counted(box) \in Nat /\ box.font.space \in Nat /\ Drifts(box) \in Int
         /\ Counted(box) = box.font.space - Drifts(box)
<1>1. box.font.space \in Nat /\ BlockFont.space \in Nat
  BY FontsAssumption DEF Boxes
<1>2. QED
  BY <1>1 DEF Counted, Drifts

\* What the recursion in Drift says.
Drifting(d, line) ==
  /\ d \in [1..Len(line) -> Int]
  /\ line # <<>> => d[1] = 0
  /\ \A i \in 2..Len(line) : d[i] = d[i - 1] + Drifts(line[i])

LEMMA DriftingD ==
  ASSUME NEW line \in Seq(Boxes)
  PROVE  Drifting(Drift(line), line)
<1> DEFINE N == Len(line)
           gap(i) == Drifts(line[i])
           Body(u) == [i \in DOMAIN line |->
                         IF i = 1 THEN 0
                         ELSE u[i - 1] + (IF line[i].kind = "input"
                                          THEN line[i].font.space - BlockFont.space ELSE 0)]
           Short(u) == [i \in DOMAIN line |-> IF i = 1 THEN 0 ELSE u[i - 1] + gap(i)]
           x == CHOOSE u : u = Body(u)
           step == [q \in Nat \X Int |-> IF q[1] \in 2..N THEN q[2] + gap(q[1]) ELSE q[2]]
<1>1. Drift(line) = x
  BY DEF Drift
<1>2. N \in Nat /\ DOMAIN line = 1..N
  BY BoxType
<1>s. \A u : Body(u) = Short(u)
  BY DEF Drifts
<1>3. \A i \in 2..N : gap(i) \in Int /\ i \in Nat /\ i - 1 \in 1..N
  <2>1. \A i \in 2..N : i \in 1..N /\ i - 1 \in 1..N /\ i \in Nat
    BY <1>2
  <2>2. \A i \in 1..N : line[i] \in Boxes
    BY ElementOfSeq
  <2>3. QED
    BY <2>1, <2>2, CountedType
<1> HIDE DEF N
<1>4. step \in [Nat \X Int -> Int] /\ \A i \in 2..N, v \in Int : step[<<i, v>>] = v + gap(i)
  <2> HIDE DEF gap
  <2>1. QED
    BY <1>2, <1>3
<1> HIDE DEF step, gap
<1>5. N \in Nat /\ 0 \in Int /\ step \in [Nat \X Int -> Int]
  BY <1>2, <1>4
<1>6. PICK g \in [1..N -> Int] : RecursTo(g, N, 0, step)
  <2> HIDE DEF Body, Short, x
  <2>1. QED
    BY <1>5, RecursionTo
<1>7. \A i \in 2..N : g[i] = g[i - 1] + gap(i)
  <2>1. ASSUME NEW i \in 2..N
        PROVE  g[i] = g[i - 1] + gap(i)
    <3>1. g[i] = step[<<i, g[i - 1]>>] /\ g[i - 1] \in Int
      BY <1>3, <1>6 DEF RecursTo
    <3>2. QED
      BY <1>4, <3>1
  <2>2. QED
    BY <2>1
<1>8. 1 <= N => g[1] = 0
  BY <1>6 DEF RecursTo
<1>9. g = Body(g)
  <2>1. \A i \in 1..N : i = 1 \/ i \in 2..N
    BY <1>2
  <2>2. \A i \in 1..N : g[i] = Short(g)[i]
    BY <1>2, <1>7, <1>8, <2>1
  <2>3. g = Short(g)
    BY <1>2, <2>2
  <2> HIDE DEF Body, Short
  <2>4. QED
    BY <1>s, <2>3
<1>10. x = Short(x)
  <2> HIDE DEF Body, Short
  <2>1. x = Body(x)
    BY <1>9
  <2>2. QED
    BY <1>s, <2>1
<1> HIDE DEF x, Body
<1>11. \A i \in 1..N : x[i] = g[i]
  <2> DEFINE T == {i \in Nat : i \in 1..N => x[i] = g[i]}
  <2>1. 0 \in T
    OBVIOUS
  <2>2. ASSUME NEW i \in Nat, i \in T PROVE i + 1 \in T
    <3>1. CASE i = 0 /\ 1 <= N
      BY <1>2, <1>8, <1>10, <3>1
    <3>2. CASE i # 0 /\ i + 1 <= N
      <4>1. i + 1 \in 2..N /\ i + 1 \in 1..N /\ i + 1 # 1 /\ i \in 1..N /\ (i + 1) - 1 = i
        BY <1>2, <3>2
      <4>2. x[i] = g[i]
        BY <2>2, <4>1
      <4>3. x[i + 1] = x[i] + gap(i + 1)
        BY <1>2, <1>10, <4>1
      <4>4. g[i + 1] = g[i] + gap(i + 1)
        BY <1>7, <4>1
      <4>5. QED
        BY <4>2, <4>3, <4>4
    <3>3. CASE ~(i + 1 <= N)
      BY <1>2, <3>3
    <3>4. QED
      BY <1>2, <3>1, <3>2, <3>3
  <2> HIDE DEF T
  <2>3. Nat \subseteq T
    BY <2>1, <2>2, NatAll
  <2>4. QED
    BY <1>2, <2>3 DEF T
<1>12. x = g
  <2>1. x = [i \in 1..N |-> x[i]]
    BY <1>2, <1>10
  <2>2. QED
    BY <1>11, <2>1
<1>13. line # <<>> => 1 <= N
  BY <1>2, EmptySeq DEF N
<1>14. QED
  BY <1>1, <1>7, <1>8, <1>12, <1>13 DEF Drifting, N, gap

\* A box more leaves the drift up to the others as it is.
LEMMA DriftAppend ==
  ASSUME NEW line \in Seq(Boxes), NEW box \in Boxes
  PROVE  \A i \in 1..Len(line) : Drift(Append(line, box))[i] = Drift(line)[i]
<1> DEFINE more == Append(line, box)
           T == {i \in Nat : i \in 1..Len(line) => Drift(more)[i] = Drift(line)[i]}
<1>1. /\ more \in Seq(Boxes) /\ Len(more) = Len(line) + 1 /\ Len(line) \in Nat
      /\ \A i \in 1..Len(line) : more[i] = line[i]
  BY AppendProperties
<1> HIDE DEF more
<1>2. Drifting(Drift(more), more) /\ Drifting(Drift(line), line)
  BY <1>1, DriftingD
<1>3. 0 \in T
  OBVIOUS
<1>4. ASSUME NEW i \in Nat, i \in T PROVE i + 1 \in T
  <2>1. CASE i = 0 /\ 1 <= Len(line)
    <3>1. line # <<>> /\ more # <<>>
      BY <1>1, <2>1
    <3>2. QED
      BY <1>2, <2>1, <3>1 DEF Drifting
  <2>2. CASE i # 0 /\ i + 1 <= Len(line)
    <3>1. /\ i + 1 \in 2..Len(line) /\ i + 1 \in 2..Len(more) /\ (i + 1) - 1 = i
          /\ i + 1 \in 1..Len(line) /\ i \in 1..Len(line)
      BY <1>1, <2>2
    <3>2. more[i + 1] = line[i + 1] /\ Drift(more)[i] = Drift(line)[i]
      BY <1>1, <1>4, <3>1
    <3>3. Drift(line)[i + 1] = Drift(line)[i] + Drifts(line[i + 1])
      BY <1>2, <3>1 DEF Drifting
    <3>4. Drift(more)[i + 1] = Drift(more)[i] + Drifts(more[i + 1])
      BY <1>2, <3>1 DEF Drifting
    <3>5. QED
      BY <3>2, <3>3, <3>4
  <2>3. CASE ~(i + 1 <= Len(line))
    BY <1>1, <2>3
  <2>4. QED
    BY <1>1, <2>1, <2>2, <2>3
<1> HIDE DEF T
<1>5. Nat \subseteq T
  BY <1>3, <1>4, NatAll
<1>6. QED
  BY <1>1, <1>5 DEF T, more

\* A box more leaves the others where they are.
LEMMA PlacingAppend ==
  ASSUME NEW line \in Seq(Boxes), NEW box \in Boxes
  PROVE  \A i \in 1..Len(line) : X(Append(line, box))[i] = X(line)[i]
<1> DEFINE more == Append(line, box)
           T == {i \in Nat : i \in 1..Len(line) => X(more)[i] = X(line)[i]}
<1>1. /\ more \in Seq(Boxes) /\ Len(more) = Len(line) + 1 /\ Len(line) \in Nat
      /\ \A i \in 1..Len(line) : more[i] = line[i]
  BY AppendProperties
<1> HIDE DEF more
<1>2. Placing(X(more), more) /\ Placing(X(line), line)
  BY <1>1, PlacingX
<1>3. 0 \in T
  OBVIOUS
<1>4. ASSUME NEW i \in Nat, i \in T PROVE i + 1 \in T
  <2>1. CASE i = 0 /\ 1 <= Len(line)
    <3>1. line # <<>> /\ more # <<>>
      BY <1>1, <2>1
    <3>2. QED
      BY <1>2, <2>1, <3>1 DEF Placing
  <2>2. CASE i # 0 /\ i + 1 <= Len(line)
    <3>1. /\ i + 1 \in 2..Len(line) /\ i + 1 \in 2..Len(more) /\ (i + 1) - 1 = i
          /\ i + 1 \in 1..Len(line) /\ i \in 1..Len(line)
      BY <1>1, <2>2
    <3>2. more[i + 1] = line[i + 1] /\ more[i] = line[i] /\ X(more)[i] = X(line)[i]
      BY <1>1, <1>4, <3>1
    <3>3. X(line)[i + 1] = X(line)[i] + line[i + 1].font.space + line[i].width
      BY <1>2, <3>1 DEF Placing
    <3>4. X(more)[i + 1] = X(more)[i] + more[i + 1].font.space + more[i].width
      BY <1>2, <3>1 DEF Placing
    <3>5. QED
      BY <3>2, <3>3, <3>4
  <2>3. CASE ~(i + 1 <= Len(line))
    BY <1>1, <2>3
  <2>4. QED
    BY <1>1, <2>1, <2>2, <2>3
<1> HIDE DEF T
<1>5. Nat \subseteq T
  BY <1>3, <1>4, NatAll
<1>6. QED
  BY <1>1, <1>5 DEF T, more

\* Each box ends before the next begins.
LEMMA PlacingOrder ==
  ASSUME NEW line \in Seq(Boxes), NEW i \in 1..Len(line), NEW j \in 1..Len(line), i < j
  PROVE  X(line)[i] + line[i].width <= X(line)[j]
<1> DEFINE N == Len(line)
           T == {n \in Nat : i < n /\ n <= N => X(line)[i] + line[i].width <= X(line)[n]}
<1>1. Placing(X(line), line)
  BY PlacingX
<1>2. N \in Nat /\ i \in Nat /\ i > 0
  BY BoxType
<1>3. \A n \in 1..N : X(line)[n] \in Nat /\ line[n].width \in Nat /\ line[n].font.space \in Nat
  BY <1>1, BoxType DEF Placing
<1>4. 0 \in T
  BY <1>2
<1>5. ASSUME NEW n \in Nat, n \in T PROVE n + 1 \in T
  <2>1. CASE i <= n /\ n + 1 <= N
    <3>1. n \in 1..N /\ n + 1 \in 2..N /\ n + 1 \in 1..N /\ (n + 1) - 1 = n
      BY <1>2, <2>1
    <3>2. X(line)[n + 1] = X(line)[n] + line[n + 1].font.space + line[n].width
      BY <1>1, <3>1 DEF Placing
    <3>3. CASE i = n
      BY <1>3, <3>1, <3>2, <3>3
    <3>4. CASE i < n
      <4>1. X(line)[i] + line[i].width <= X(line)[n]
        BY <1>2, <1>5, <2>1, <3>4
      <4>2. /\ X(line)[i] \in Nat /\ line[i].width \in Nat
            /\ X(line)[n] \in Nat /\ X(line)[n + 1] \in Nat
            /\ line[n + 1].font.space \in Nat /\ line[n].width \in Nat
        BY <1>3, <3>1
      <4>3. X(line)[i] + line[i].width <= X(line)[n + 1]
        <5> DEFINE a == X(line)[i]
                   b == X(line)[n]
                   c == X(line)[n + 1]
                   u == line[i].width
                   v == line[n].width
                   w == line[n + 1].font.space
        <5>1. /\ a \in Nat /\ b \in Nat /\ c \in Nat /\ u \in Nat /\ v \in Nat /\ w \in Nat
              /\ a + u <= b /\ c = b + w + v
          BY <3>2, <4>1, <4>2
        <5> HIDE DEF a, b, c, u, v, w
        <5>2. a + u <= c
          BY <5>1
        <5>3. QED
          BY <5>2 DEF a, c, u
      <4>4. QED
        BY <4>3
    <3>5. QED
      BY <1>2, <2>1, <3>3, <3>4
  <2>2. CASE ~(i <= n /\ n + 1 <= N)
    BY <1>2, <2>2
  <2>3. QED
    BY <2>1, <2>2
<1> HIDE DEF T
<1>6. j \in T
  BY <1>2, <1>4, <1>5, NatAll
<1>7. QED
  BY <1>2, <1>6 DEF T

-----------------------------------------------------------------------------
(* The first pass *)

LEMMA InitIInv == Init => IInv
<1> SUFFICES ASSUME Init PROVE IInv
  OBVIOUS
<1>1. lines = << <<>> >> /\ cursor = 0 /\ placed = FALSE
  BY DEF Init
<1>2. <<>> \in Seq(Boxes)
  OBVIOUS
<1>3. lines \in Seq(Seq(Boxes)) /\ Len(lines) = 1 /\ lines[1] = <<>>
  BY <1>1, <1>2
<1>4. Fitted
  <2>1. \A k \in 1..Len(lines) : Len(lines[k]) = 0
    BY <1>3
  <2>2. QED
    BY <2>1 DEF Fitted, LineFits
<1>5. Typed
  <2>1. Len(lines) > 0 /\ cursor \in Nat
    BY <1>1, <1>3
  <2>2. QED
    BY <1>1, <1>3, <2>1, Zenon DEF Typed
<1>6. CursorAgrees
  <2>1. lines[Len(lines)] = <<>>
    BY <1>3
  <2>2. QED
    BY <1>1, <2>1 DEF CursorAgrees, CursorAt
<1>7. QED
  BY <1>4, <1>5, <1>6 DEF IInv

\* The last line, where the pass is.
LEMMA LastLine ==
  ASSUME IInv
  PROVE  /\ Len(lines) \in Nat /\ Len(lines) > 0 /\ Len(lines) \in 1..Len(lines)
         /\ lines[Len(lines)] \in Seq(Boxes)
         /\ \A k \in 1..Len(lines) : lines[k] \in Seq(Boxes)
<1>1. lines \in Seq(Seq(Boxes)) /\ Len(lines) > 0
  BY DEF IInv, Typed
<1>2. Len(lines) \in Nat /\ Len(lines) \in 1..Len(lines)
  BY <1>1
<1>3. \A k \in 1..Len(lines) : lines[k] \in Seq(Boxes)
  BY <1>1, ElementOfSeq
<1>4. QED
  BY <1>1, <1>2, <1>3

\* A line of one box, or of none.
LEMMA ShortLine ==
  ASSUME NEW box \in Boxes
  PROVE  /\ <<box>> \in Seq(Boxes) /\ Len(<<box>>) = 1 /\ <<box>>[1] = box
         /\ X(<<box>>)[1] = 0 /\ Drift(<<box>>)[1] = 0 /\ LineFits(<<box>>)
         /\ <<>> \in Seq(Boxes) /\ LineFits(<<>>)
<1>1. <<box>> \in Seq(Boxes) /\ Len(<<box>>) = 1 /\ <<box>>[1] = box /\ <<box>> # <<>>
  OBVIOUS
<1>2. <<>> \in Seq(Boxes) /\ Len(<<>>) = 0
  OBVIOUS
<1>3. X(<<box>>)[1] = 0
  BY <1>1, PlacingX DEF Placing
<1>4. Drift(<<box>>)[1] = 0
  BY <1>1, DriftingD DEF Drifting
<1>5. QED
  BY <1>1, <1>2, <1>3, <1>4 DEF LineFits

\* A new line behind the others.
LEMMA NewLine ==
  ASSUME IInv, UNCHANGED placed, NEW line \in Seq(Boxes), LineFits(line),
         lines' = Append(lines, line), cursor' \in Nat, CursorAt(cursor', line)
  PROVE  IInv'
<1>1. /\ lines' \in Seq(Seq(Boxes)) /\ Len(lines') = Len(lines) + 1
      /\ \A k \in 1..Len(lines) : lines'[k] = lines[k]
      /\ lines'[Len(lines')] = line
  BY AppendProperties DEF IInv, Typed
<1>2. Len(lines) \in Nat
  BY LastLine
<1>3. Typed'
  BY <1>1, <1>2 DEF IInv, Typed
<1>4. CursorAgrees'
  BY <1>1 DEF CursorAgrees, CursorAt, X, Drift, Counted
<1>5. Fitted'
  <2>1. ASSUME NEW k \in 1..Len(lines') PROVE LineFits(lines'[k])
    <3>1. CASE k \in 1..Len(lines)
      BY <1>1, <3>1 DEF IInv, Fitted
    <3>2. CASE k = Len(lines')
      BY <1>1, <3>2
    <3>3. QED
      BY <1>1, <1>2, <3>1, <3>2
  <2>2. QED
    BY <2>1 DEF Fitted, LineFits, X, Drift, Counted
<1>6. QED
  BY <1>3, <1>4, <1>5 DEF IInv

\* A line of boxes that fit, and a box more that fits: the cursor moves with the
\* placement.
LEMMA BoxMore ==
  ASSUME NEW line \in Seq(Boxes), NEW box \in Boxes, LineFits(line), NEW c \in Nat,
         CursorAt(c, line), c + box.width <= BlockWidth,
         NEW more, more = Append(line, box)
  PROVE  LineFits(more) /\ CursorAt(c + box.width + Counted(box), more)
<1> DEFINE n == Len(line)
<1>1. /\ more \in Seq(Boxes) /\ Len(more) = n + 1 /\ n \in Nat /\ more # <<>>
      /\ \A i \in 1..n : more[i] = line[i]
      /\ more[n + 1] = box
  BY AppendProperties
<1>2. /\ box.width \in Nat /\ BlockWidth \in Nat
      /\ Counted(box) \in Nat /\ box.font.space \in Nat /\ Drifts(box) \in Int
      /\ Counted(box) = box.font.space - Drifts(box)
  BY CountedType, LengthsAssumption DEF Boxes
<1>3. /\ Placing(X(more), more) /\ Placing(X(line), line)
      /\ \A i \in 1..n : X(more)[i] = X(line)[i]
  BY <1>1, PlacingX, PlacingAppend
<1>d. /\ Drifting(Drift(more), more) /\ Drifting(Drift(line), line)
      /\ \A i \in 1..n : Drift(more)[i] = Drift(line)[i]
  BY <1>1, DriftingD, DriftAppend
<1>4. ASSUME n = 0
      PROVE  LineFits(more) /\ CursorAt(c + box.width + Counted(box), more)
  <2>1. c = 0
    BY <1>4, EmptySeq DEF CursorAt
  <2>2. X(more)[1] = 0 /\ Drift(more)[1] = 0 /\ more[1] = box /\ Len(more) = 1
    BY <1>1, <1>3, <1>d, <1>4 DEF Placing, Drifting
  <2>3. LineFits(more)
    BY <2>2 DEF LineFits
  <2>4. c + box.width + Counted(box) + Drift(more)[1] = X(more)[1] + more[1].width + Counted(more[1])
    BY <1>2, <2>1, <2>2
  <2>5. QED
    BY <1>1, <2>2, <2>3, <2>4 DEF CursorAt
<1>5. ASSUME n # 0
      PROVE  LineFits(more) /\ CursorAt(c + box.width + Counted(box), more)
  <2>1. line # <<>> /\ n \in 1..n /\ 1 \in 1..n
    BY <1>1, <1>5
  <2>2. c + Drift(line)[n] = X(line)[n] + line[n].width + Counted(line[1])
    BY <2>1 DEF CursorAt
  <2>a. n + 1 \in 2..Len(more) /\ (n + 1) - 1 = n
    BY <1>1, <1>5
  <2>3. X(more)[n + 1] = X(line)[n] + box.font.space + line[n].width
    <3>2. X(more)[n + 1] = X(more)[n] + more[n + 1].font.space + more[n].width
      BY <1>3, <2>a DEF Placing
    <3>3. QED
      BY <1>1, <1>3, <2>1, <3>2
  <2>d. Drift(more)[n + 1] = Drift(line)[n] + Drifts(box) /\ Drift(more)[n] = Drift(line)[n]
    <3>2. Drift(more)[n + 1] = Drift(more)[n] + Drifts(more[n + 1])
      BY <1>d, <2>a DEF Drifting
    <3>3. QED
      BY <1>1, <1>d, <2>1, <3>2
  <2>4. /\ X(line)[n] \in Nat /\ line[n].width \in Nat /\ Drift(line)[n] \in Int
        /\ more[1] = line[1]
    BY <1>1, <1>3, <1>d, <2>1, BoxType DEF Placing, Drifting
  <2>f. Counted(line[1]) \in Nat
    <3>1. line[1] \in Boxes
      BY <2>1, ElementOfSeq
    <3>2. QED
      BY <3>1, CountedType
  <2> DEFINE x == X(line)[n]
             y == X(more)[n + 1]
             d == Drift(line)[n]
             e == Drift(more)[n + 1]
             u == line[n].width
             v == box.width
             first == Counted(line[1])
             space == box.font.space
             counted == Counted(box)
             drifts == Drifts(box)
             W == BlockWidth
  <2>5. /\ x \in Nat /\ u \in Nat /\ first \in Nat /\ v \in Nat /\ space \in Nat /\ W \in Nat
        /\ d \in Int /\ drifts \in Int /\ counted = space - drifts /\ e = d + drifts
        /\ c + d = x + u + first /\ y = x + space + u /\ c + v <= W
    BY <1>2, <2>2, <2>3, <2>d, <2>4, <2>f
  <2>6. c + v + counted + e = y + v + first /\ y + v + first <= W + space + d
    <3> HIDE DEF x, y, d, e, u, v, first, space, counted, drifts, W
    <3>1. QED
      BY <2>5
  <2>7. LineFits(more)
    <3>1. ASSUME NEW i \in 2..Len(more)
          PROVE  X(more)[i] + more[i].width + Counted(more[1])
                   <= BlockWidth + more[i].font.space + Drift(more)[i - 1]
      <4>1. CASE i = n + 1
        <5>1. i - 1 = n
          BY <1>1, <4>1
        <5>2. Drift(more)[i - 1] = d
          BY <2>d, <5>1
        <5>3. QED
          BY <1>1, <2>4, <2>6, <4>1, <5>2
      <4>2. CASE i \in 2..n
        <5>1. i \in 1..n /\ i - 1 \in 1..n
          BY <1>1, <4>2
        <5>2. X(line)[i] + line[i].width + Counted(line[1])
                <= BlockWidth + line[i].font.space + Drift(line)[i - 1]
          BY <4>2 DEF LineFits
        <5>3. /\ X(more)[i] = X(line)[i] /\ more[i] = line[i]
              /\ Drift(more)[i - 1] = Drift(line)[i - 1]
          BY <1>1, <1>3, <1>d, <5>1
        <5>4. QED
          BY <2>4, <5>2, <5>3
      <4>3. QED
        BY <1>1, <4>1, <4>2
    <3>2. QED
      BY <3>1 DEF LineFits
  <2>8. CursorAt(c + box.width + Counted(box), more)
    BY <1>1, <2>4, <2>6 DEF CursorAt
  <2>9. QED
    BY <2>7, <2>8
<1>6. QED
  BY <1>4, <1>5

\* make_word and input add a box that fits to the last line.
LEMMA LongerLine ==
  ASSUME IInv, UNCHANGED placed, NEW box \in Boxes, Fits(box.width),
         lines' = [lines EXCEPT ![Len(lines)] = Append(@, box)],
         cursor' = cursor + box.width + Counted(box)
  PROVE  IInv'
<1> DEFINE N == Len(lines)
           line == lines[N]
           more == Append(line, box)
<1>1. N \in Nat /\ N \in 1..N /\ line \in Seq(Boxes)
  BY LastLine
<1>2. more \in Seq(Boxes) /\ more # <<>>
  BY <1>1, AppendProperties
<1>3. /\ lines' \in Seq(Seq(Boxes)) /\ Len(lines') = N /\ lines'[N] = more
      /\ \A k \in 1..N : k # N => lines'[k] = lines[k]
  BY <1>1, <1>2, ExceptSeq DEF IInv, Typed
<1>4. box.width \in Nat /\ Counted(box) \in Nat /\ cursor \in Nat /\ cursor + box.width <= BlockWidth
  BY CountedType DEF IInv, Typed, Boxes, Fits
<1>5. cursor' \in Nat /\ placed' \in BOOLEAN
  BY <1>4 DEF IInv, Typed
<1>6. Typed'
  <2>1. N > 0
    BY LastLine
  <2>2. Len(lines') > 0
    BY <1>3, <2>1, Zenon
  <2>3. QED
    BY <1>3, <1>5, <2>2, Zenon DEF Typed
<1>7. LineFits(more) /\ CursorAt(cursor', more)
  <2>1. LineFits(line)
    BY <1>1 DEF IInv, Fitted
  <2>2. CursorAt(cursor, line)
    BY DEF IInv, CursorAgrees
  <2> DEFINE c == cursor
  <2>3. c \in Nat /\ c + box.width <= BlockWidth
    BY <1>4
  <2>4. CursorAt(c, line)
    BY <2>2
  <2>5. cursor' = c + box.width + Counted(box)
    OBVIOUS
  <2>6. more = Append(line, box)
    OBVIOUS
  <2> HIDE DEF c, line, more
  <2>7. LineFits(more) /\ CursorAt(c + box.width + Counted(box), more)
    BY <1>1, <2>1, <2>3, <2>4, <2>6, BoxMore
  <2>8. QED
    BY <2>5, <2>7
<1>8. lines'[Len(lines')] = more
  BY <1>3
<1> HIDE DEF more, line
<1>9. CursorAgrees'
  <2> DEFINE last == lines'[Len(lines')]
  <2>1. CursorAt(cursor', last)
    BY <1>7, <1>8
  <2>2. QED
    BY <2>1 DEF CursorAgrees, CursorAt, X, Drift, Counted
<1>10. Fitted'
  <2>1. ASSUME NEW k \in 1..Len(lines') PROVE LineFits(lines'[k])
    <3>1. CASE k = N
      BY <1>3, <1>7, <3>1
    <3>2. CASE k # N
      BY <1>3, <3>2 DEF IInv, Fitted
    <3>3. QED
      BY <3>1, <3>2
  <2>2. QED
    BY <2>1 DEF Fitted, LineFits, X, Drift, Counted
<1>11. QED
  BY <1>6, <1>9, <1>10 DEF IInv

LEMMA AddIInv ==
  ASSUME IInv, NEW box \in Boxes, Add(box)
  PROVE  IInv'
<1>1. UNCHANGED placed
  BY DEF Add
<1>2. CASE Fits(box.width)
  <2>1. /\ lines' = [lines EXCEPT ![Len(lines)] = Append(@, box)]
        /\ cursor' = cursor + box.width + Counted(box)
    BY <1>2 DEF Add
  <2>2. QED
    BY <1>1, <1>2, <2>1, LongerLine
<1>3. CASE ~Fits(box.width)
  <2>1. lines' = Append(lines, <<box>>) /\ cursor' = box.width + Counted(box)
    BY <1>3 DEF Add
  <2>2. box.width \in Nat /\ Counted(box) \in Nat
    BY CountedType DEF Boxes
  <2> DEFINE line == <<box>>
  <2>3. line \in Seq(Boxes) /\ LineFits(line) /\ CursorAt(cursor', line)
    BY <2>1, <2>2, ShortLine DEF CursorAt
  <2>4. cursor' \in Nat /\ lines' = Append(lines, line)
    BY <2>1, <2>2
  <2> HIDE DEF line
  <2>5. QED
    BY <1>1, <2>3, <2>4, NewLine
<1>4. QED
  BY <1>2, <1>3

LEMMA StepIInv == IInv /\ [Next]_vars => IInv'
<1> SUFFICES ASSUME IInv, [Next]_vars PROVE IInv'
  OBVIOUS
<1>1. CASE Word
  <2>1. PICK w \in Widths, f \in Fonts : Add([kind |-> "text", width |-> w, font |-> f])
    BY <1>1 DEF Word
  <2>2. [kind |-> "text", width |-> w, font |-> f] \in Boxes
    BY LengthsAssumption DEF Boxes
  <2>3. QED
    BY <2>1, <2>2, AddIInv
<1>2. CASE Input
  <2>1. PICK f \in Fonts : Add([kind |-> "input", width |-> InputWidth, font |-> f])
    BY <1>2 DEF Input
  <2>2. [kind |-> "input", width |-> InputWidth, font |-> f] \in Boxes
    BY LengthsAssumption DEF Boxes
  <2>3. QED
    BY <2>1, <2>2, AddIInv
<1>3. CASE LineBreak
  <2>1. UNCHANGED placed /\ lines' = Append(lines, <<>>) /\ cursor' = 0
    BY <1>3 DEF LineBreak
  <2> DEFINE line == <<>>
  <2>2. line \in Seq(Boxes) /\ LineFits(line)
    BY DEF LineFits
  <2>3. CursorAt(cursor', line) /\ lines' = Append(lines, line) /\ cursor' \in Nat
    BY <2>1 DEF CursorAt
  <2> HIDE DEF line
  <2>4. QED
    BY <2>1, <2>2, <2>3, NewLine
<1>4. CASE EndOfBlock \/ UNCHANGED vars
  <2>1. UNCHANGED <<lines, cursor>> /\ placed' \in BOOLEAN
    BY <1>4 DEF EndOfBlock, vars, IInv, Typed
  <2>2. Typed'
    BY <2>1 DEF IInv, Typed
  <2>3. CursorAgrees'
    BY <2>1 DEF IInv, CursorAgrees
  <2>4. Fitted'
    BY <2>1 DEF IInv, Fitted
  <2>5. QED
    BY <2>2, <2>3, <2>4 DEF IInv
<1>5. QED
  BY <1>1, <1>2, <1>3, <1>4 DEF Next

LEMMA Invariance == Spec => []IInv
  BY InitIInv, StepIInv, PTL DEF Spec

-----------------------------------------------------------------------------
(* What sticks out *)

LEMMA PlaceOf ==
  ASSUME NEW p \in Places
  PROVE  p[1] \in DOMAIN lines /\ p[2] \in DOMAIN lines[p[1]] /\ p = <<p[1], p[2]>>
BY DEF Places

LEMMA Sticks == IInv => SticksOutByASpace
<1> SUFFICES ASSUME IInv, NEW p \in Places, p[2] > 1
             PROVE  Place(p[1], p[2]).right + Counted(lines[p[1]][1])
                      <= BlockWidth + lines[p[1]][p[2]].font.space + Drift(lines[p[1]])[p[2] - 1]
  BY DEF SticksOutByASpace
<1> DEFINE line == lines[p[1]]
           i == p[2]
<1>1. p[1] \in 1..Len(lines)
  BY PlaceOf DEF IInv, Typed
<1>2. line \in Seq(Boxes)
  BY <1>1, LastLine
<1>3. i \in 2..Len(line) /\ i \in 1..Len(line) /\ 1 \in 1..Len(line)
  <2>1. i \in DOMAIN line
    BY PlaceOf
  <2>2. QED
    BY <1>2, <2>1, BoxType
<1>4. Place(p[1], p[2]).right = X(line)[i] + line[i].width
  BY DEF Place
<1>5. X(line)[i] + line[i].width + Counted(line[1])
        <= BlockWidth + line[i].font.space + Drift(line)[i - 1]
  BY <1>1, <1>3 DEF IInv, Fitted, LineFits
<1>6. QED
  BY <1>4, <1>5

\* TextLayout::layout and InputLayout::layout place a space of the box's own font
\* before it, make_word counts one behind it, input one of the block's font: a box
\* sticks out by no more than the spaces in question differ by.
THEOREM SpaceSticksOut == Spec => []SticksOutByASpace
  BY Invariance, Sticks, PTL
-----------------------------------------------------------------------------
(* The lines, from top to bottom *)

\* Max is the greatest of finitely many, and of 0.
LEMMA MaxOf ==
  ASSUME NEW N \in Nat, NEW f \in [1..N -> Nat]
  PROVE  LET A == {0} \cup {f[i] : i \in 1..N}
         IN Max(A) \in Nat /\ \A i \in 1..N : f[i] <= Max(A)
<1> DEFINE A == {0} \cup {f[i] : i \in 1..N}
           T == {n \in Nat : \E b \in Nat : \A i \in 1..N : i <= n => f[i] <= b}
<1>1. 0 \in T
  OBVIOUS
<1>2. ASSUME NEW n \in Nat, n \in T PROVE n + 1 \in T
  <2>1. PICK b \in Nat : \A i \in 1..N : i <= n => f[i] <= b
    BY <1>2
  <2>2. CASE n + 1 \in 1..N
    <3>1. f[n + 1] \in Nat
      BY <2>2
    <3> DEFINE c == b + f[n + 1]
    <3>2. c \in Nat /\ b <= c /\ f[n + 1] <= c
      BY <3>1
    <3> HIDE DEF c
    <3>3. \A i \in 1..N : i <= n + 1 => f[i] <= c
      <4>1. ASSUME NEW i \in 1..N, i <= n + 1 PROVE f[i] <= c
        <5>1. CASE i = n + 1
          BY <3>2, <5>1
        <5>2. CASE i <= n
          <6>1. f[i] <= b /\ f[i] \in Nat
            BY <2>1, <5>2
          <6>2. QED
            BY <3>2, <6>1
        <5>3. QED
          BY <4>1, <5>1, <5>2
      <4>2. QED
        BY <4>1
    <3>4. QED
      BY <3>2, <3>3
  <2>3. CASE n + 1 \notin 1..N
    <3>1. \A i \in 1..N : i <= n + 1 => i <= n
      BY <2>3
    <3>2. \A i \in 1..N : i <= n + 1 => f[i] <= b
      BY <2>1, <3>1
    <3>3. n + 1 \in Nat
      OBVIOUS
    <3>4. QED
      BY <3>2, <3>3
  <2>4. QED
    BY <2>2, <2>3
<1> HIDE DEF T
<1>3. N \in T
  BY <1>1, <1>2, NatAll
<1>4. PICK b \in Nat : \A i \in 1..N : f[i] <= b
  BY <1>3 DEF T
<1>5. A \subseteq Nat /\ A # {} /\ \A k \in A : k <= b
  BY <1>4
<1>6. \A i \in 1..N : f[i] \in A
  OBVIOUS
<1> HIDE DEF A
<1>7. \E m \in A : \A k \in A : k <= m
  BY <1>5, NatMax
<1>8. \E m \in A : \A k \in A : m >= k
  BY <1>5, <1>7
<1>9. Max(A) \in A /\ \A k \in A : Max(A) >= k
  BY <1>8 DEF Max
<1>10. QED
  BY <1>5, <1>6, <1>9 DEF A

LEMMA Extremes ==
  ASSUME NEW line \in Seq(Boxes)
  PROVE  /\ MaxAscent(line) \in Nat /\ MaxDescent(line) \in Nat
         /\ \A i \in 1..Len(line) : /\ line[i].font.ascent <= MaxAscent(line)
                                    /\ line[i].font.descent <= MaxDescent(line)
<1> DEFINE N == Len(line)
           a == [i \in 1..N |-> line[i].font.ascent]
           d == [i \in 1..N |-> line[i].font.descent]
           As == {0} \cup {a[i] : i \in 1..N}
           Ds == {0} \cup {d[i] : i \in 1..N}
<1>1. N \in Nat /\ a \in [1..N -> Nat] /\ d \in [1..N -> Nat] /\ DOMAIN line = 1..N
  BY BoxType
<1>2. /\ \A i \in 1..N : a[i] = line[i].font.ascent
      /\ \A i \in 1..N : d[i] = line[i].font.descent
  OBVIOUS
<1>3. MaxAscent(line) = Max(As)
  <2>1. {line[i].font.ascent : i \in DOMAIN line} = {a[i] : i \in 1..N}
    BY <1>1, <1>2
  <2>2. QED
    BY <2>1 DEF MaxAscent
<1>4. MaxDescent(line) = Max(Ds)
  <2>1. {line[i].font.descent : i \in DOMAIN line} = {d[i] : i \in 1..N}
    BY <1>1, <1>2
  <2>2. QED
    BY <2>1 DEF MaxDescent
<1> HIDE DEF N, a, d
<1>5. /\ Max(As) \in Nat /\ \A i \in 1..N : a[i] <= Max(As)
      /\ Max(Ds) \in Nat /\ \A i \in 1..N : d[i] <= Max(Ds)
  BY <1>1, MaxOf
<1> HIDE DEF As, Ds
<1>6. QED
  BY <1>2, <1>3, <1>4, <1>5 DEF N

\* A font within the extremes of its line is within the line.
LEMMA Within ==
  ASSUME NEW A \in Nat, NEW D \in Nat, NEW a \in Nat, NEW d \in Nat, NEW t \in Nat,
         a <= A, d <= D
  PROVE  /\ t <= t + (5 * A) \div 4 - a
         /\ t + (5 * A) \div 4 - a + a + d <= t + (5 * (A + D)) \div 4
         /\ t + (5 * A) \div 4 - a \in Nat
         /\ (5 * (A + D)) \div 4 \in Nat
OBVIOUS

LEMMA HeightType ==
  ASSUME NEW line \in Seq(Boxes)
  PROVE  Height(line) \in Nat
<1>1. MaxAscent(line) \in Nat /\ MaxDescent(line) \in Nat
  BY Extremes
<1> DEFINE A == MaxAscent(line)
           D == MaxDescent(line)
<1>2. A \in Nat /\ D \in Nat
  BY <1>1
<1>3. Height(line) = (5 * (A + D)) \div 4
  BY DEF Height
<1> HIDE DEF A, D
<1>4. QED
  BY <1>2, <1>3

\* What the recursion in Top says.
Stacked(top) ==
  /\ top \in [1..(Len(lines) + 1) -> Nat]
  /\ top[1] = 0
  /\ \A k \in 1..Len(lines) : top[k + 1] = top[k] + Height(lines[k])

LEMMA StackedTop == IInv => Stacked(Top)
<1> SUFFICES ASSUME IInv PROVE Stacked(Top)
  OBVIOUS
<1> DEFINE N == Len(lines)
           M == N + 1
           h(k) == Height(lines[k])
           Body(u) == [k \in 1..M |-> IF k = 1 THEN 0 ELSE u[k - 1] + h(k - 1)]
           step == [q \in Nat \X Nat |-> IF q[1] \in 2..M THEN q[2] + h(q[1] - 1) ELSE q[2]]
<1>1. Top = CHOOSE u : u = Body(u)
  BY DEF Top
<1>2. N \in Nat /\ M \in Nat /\ M > 0
  BY LastLine
<1>3. \A k \in 1..N : h(k) \in Nat
  BY LastLine, HeightType
<1> HIDE DEF N, h
<1>4. step \in [Nat \X Nat -> Nat] /\ \A k \in 2..M, v \in Nat : step[<<k, v>>] = v + h(k - 1)
  <2>1. \A k \in 2..M : k \in Nat /\ k - 1 \in 1..N
    BY <1>2
  <2>2. QED
    BY <1>2, <1>3, <2>1
<1> HIDE DEF step
<1>5. PICK g \in [1..M -> Nat] : RecursTo(g, M, 0, step)
  BY <1>2, <1>4, RecursionTo
<1>6. \A k \in 2..M : g[k] = g[k - 1] + h(k - 1)
  <2>1. ASSUME NEW k \in 2..M PROVE g[k] = g[k - 1] + h(k - 1)
    <3>1. g[k] = step[<<k, g[k - 1]>>] /\ g[k - 1] \in Nat
      BY <1>2, <1>5 DEF RecursTo
    <3>2. QED
      BY <1>4, <3>1
  <2>2. QED
    BY <2>1
<1>7. g[1] = 0
  BY <1>2, <1>5 DEF RecursTo
<1> HIDE DEF M
<1>8. g = Body(g)
  <2>1. \A k \in 1..M : k = 1 \/ k \in 2..M
    BY <1>2
  <2>2. \A k \in 1..M : g[k] = Body(g)[k]
    BY <1>6, <1>7, <2>1
  <2>3. QED
    BY <2>2
<1>9. Top = Body(Top)
  <2> HIDE DEF Body
  <2>1. QED
    BY <1>1, <1>8
<1>10. \A k \in 1..M : Top[k] = g[k]
  <2> DEFINE T == {k \in Nat : k \in 1..M => Top[k] = g[k]}
  <2>1. 0 \in T
    OBVIOUS
  <2>2. ASSUME NEW k \in Nat, k \in T PROVE k + 1 \in T
    <3>1. CASE k = 0
      BY <1>2, <1>7, <1>9, <3>1
    <3>2. CASE k # 0 /\ k + 1 <= M
      <4>1. k + 1 \in 2..M /\ k + 1 \in 1..M /\ k + 1 # 1 /\ k \in 1..M /\ (k + 1) - 1 = k
        BY <1>2, <3>2
      <4>2. Top[k] = g[k]
        BY <2>2, <4>1
      <4>3. Top[k + 1] = Top[k] + h(k)
        BY <1>9, <4>1
      <4>4. g[k + 1] = g[k] + h(k)
        BY <1>6, <4>1
      <4>5. QED
        BY <4>2, <4>3, <4>4
    <3>3. CASE ~(k + 1 <= M)
      BY <1>2, <3>3
    <3>4. QED
      BY <3>1, <3>2, <3>3
  <2> HIDE DEF T
  <2>3. Nat \subseteq T
    BY <2>1, <2>2, NatAll
  <2>4. QED
    BY <1>2, <2>3 DEF T
<1>11. Top = g
  <2>1. Top = [k \in 1..M |-> Top[k]]
    BY <1>9
  <2>2. QED
    BY <1>10, <2>1
<1>12. \A k \in 1..N : g[k + 1] = g[k] + h(k)
  <2>1. \A k \in 1..N : k + 1 \in 2..M /\ (k + 1) - 1 = k
    BY <1>2 DEF M
  <2>2. QED
    BY <1>6, <2>1
<1>13. QED
  BY <1>7, <1>11, <1>12 DEF Stacked, M, N, h

\* Each line ends where, or above where, a later one begins.
LEMMA TopOrder ==
  ASSUME IInv, NEW k \in 1..(Len(lines) + 1), NEW l \in 1..(Len(lines) + 1), k <= l
  PROVE  Top[k] <= Top[l]
<1> DEFINE N == Len(lines)
           T == {n \in Nat : k <= n /\ n <= N + 1 => Top[k] <= Top[n]}
<1>1. Stacked(Top) /\ N \in Nat /\ k \in Nat /\ l \in Nat
  BY StackedTop, LastLine
<1>2. \A n \in 1..N : Height(lines[n]) \in Nat
  BY LastLine, HeightType
<1>3. 0 \in T
  OBVIOUS
<1>4. ASSUME NEW n \in Nat, n \in T PROVE n + 1 \in T
  <2>1. CASE k <= n /\ n <= N
    <3>1. n \in 1..N /\ n \in 1..(N + 1) /\ n + 1 \in 1..(N + 1)
      BY <1>1, <2>1
    <3>2. /\ Top[k] \in Nat /\ Top[n] \in Nat /\ Height(lines[n]) \in Nat
          /\ Top[n + 1] = Top[n] + Height(lines[n])
      BY <1>1, <1>2, <3>1 DEF Stacked
    <3>3. Top[k] <= Top[n]
      BY <1>1, <1>4, <2>1
    <3>4. Top[k] <= Top[n + 1]
      BY <3>2, <3>3
    <3>5. QED
      BY <3>4
  <2>2. CASE k = n + 1
    <3>1. Top[k] \in Nat
      BY <1>1 DEF Stacked
    <3>2. QED
      BY <2>2, <3>1
  <2>3. CASE ~(k <= n /\ n <= N) /\ k # n + 1
    BY <1>1, <2>3
  <2>4. QED
    BY <2>1, <2>2, <2>3
<1> HIDE DEF T
<1>5. l \in T
  BY <1>1, <1>3, <1>4, NatAll
<1>6. QED
  BY <1>1, <1>5 DEF T

\* A box is within its line.
LEMMA BoxInLine ==
  ASSUME IInv, NEW k \in 1..Len(lines), NEW i \in 1..Len(lines[k])
  PROVE  /\ Place(k, i).left = X(lines[k])[i]
         /\ Place(k, i).right = X(lines[k])[i] + lines[k][i].width
         /\ Place(k, i).top \in Nat /\ Place(k, i).bottom \in Nat
         /\ Top[k] \in Nat /\ Top[k + 1] \in Nat
         /\ Top[k] <= Place(k, i).top
         /\ Place(k, i).top <= Place(k, i).bottom
         /\ Place(k, i).bottom <= Top[k + 1]
<1> DEFINE line == lines[k]
           t == Top[k]
           A == MaxAscent(line)
           D == MaxDescent(line)
           a == line[i].font.ascent
           d == line[i].font.descent
           y == t + (5 * A) \div 4 - a
<1>1. line \in Seq(Boxes) /\ k + 1 \in 1..(Len(lines) + 1) /\ k \in 1..(Len(lines) + 1)
  BY LastLine
<1>2. /\ A \in Nat /\ D \in Nat /\ a \in Nat /\ d \in Nat /\ a <= A /\ d <= D
  BY <1>1, BoxType, Extremes
<1>3. t \in Nat /\ Top[k + 1] \in Nat /\ Top[k + 1] = t + (5 * (A + D)) \div 4
  BY <1>1, StackedTop DEF Stacked, Height
<1>4. /\ Place(k, i).left = X(line)[i] /\ Place(k, i).right = X(line)[i] + line[i].width
      /\ Place(k, i).top = y /\ Place(k, i).bottom = y + a + d
  BY DEF Place
<1> HIDE DEF line, t, A, D, a, d
<1>5. y \in Nat /\ t <= y /\ y + a + d <= t + (5 * (A + D)) \div 4
  BY <1>2, <1>3, Within
<1>6. y <= y + a + d /\ y + a + d \in Nat
  <2> HIDE DEF y
  <2>1. QED
    BY <1>2, <1>5
<1>7. QED
  BY <1>3, <1>4, <1>5, <1>6 DEF line, t

LEMMA PlaceIn ==
  ASSUME IInv, NEW p \in Places
  PROVE  /\ p[1] \in 1..Len(lines) /\ p[2] \in 1..Len(lines[p[1]])
         /\ lines[p[1]] \in Seq(Boxes) /\ p = <<p[1], p[2]>>
<1>1. p[1] \in 1..Len(lines)
  BY PlaceOf DEF IInv, Typed
<1>2. lines[p[1]] \in Seq(Boxes)
  BY <1>1, LastLine
<1>3. QED
  BY <1>1, <1>2, PlaceOf, BoxType

\* Of two boxes the one before ends left of the other or above it.
LEMMA Before ==
  ASSUME IInv, NEW p \in Places, NEW q \in Places,
         p[1] < q[1] \/ (p[1] = q[1] /\ p[2] < q[2])
  PROVE  \/ Place(p[1], p[2]).right <= Place(q[1], q[2]).left
         \/ Place(p[1], p[2]).bottom <= Place(q[1], q[2]).top
<1>1. /\ p[1] \in 1..Len(lines) /\ p[2] \in 1..Len(lines[p[1]]) /\ lines[p[1]] \in Seq(Boxes)
      /\ q[1] \in 1..Len(lines) /\ q[2] \in 1..Len(lines[q[1]])
  BY PlaceIn
<1>2. CASE p[1] = q[1] /\ p[2] < q[2]
  <2>1. X(lines[p[1]])[p[2]] + lines[p[1]][p[2]].width <= X(lines[p[1]])[q[2]]
    BY <1>1, <1>2, PlacingOrder
  <2>2. QED
    BY <1>1, <1>2, <2>1, BoxInLine
<1>3. CASE p[1] < q[1]
  <2> DEFINE k == p[1] + 1
             l == q[1]
  <2>1. k \in 1..(Len(lines) + 1) /\ l \in 1..(Len(lines) + 1) /\ k <= l
    BY <1>1, <1>3, LastLine
  <2>2. Top[k] <= Top[l]
    <3> HIDE DEF k, l
    <3>1. QED
      BY <2>1, TopOrder
  <2>3. /\ Place(p[1], p[2]).bottom \in Nat /\ Top[k] \in Nat /\ Place(p[1], p[2]).bottom <= Top[k]
        /\ Place(q[1], q[2]).top \in Nat /\ Top[l] \in Nat /\ Top[l] <= Place(q[1], q[2]).top
    BY <1>1, BoxInLine
  <2> DEFINE b == Place(p[1], p[2]).bottom
             t == Place(q[1], q[2]).top
             u == Top[k]
             v == Top[l]
  <2>4. b \in Nat /\ t \in Nat /\ u \in Nat /\ v \in Nat /\ b <= u /\ u <= v /\ v <= t
    BY <2>2, <2>3
  <2>5. b <= t
    <3> HIDE DEF b, t, u, v
    <3>1. QED
      BY <2>4
  <2>6. QED
    BY <2>5
<1>4. QED
  BY <1>2, <1>3

LEMMA Apart == IInv => BoxesApart
<1> SUFFICES ASSUME IInv PROVE BoxesApart
  OBVIOUS
<1>1. ASSUME NEW p \in Places, NEW q \in Places, p # q
      PROVE  LET a == Place(p[1], p[2])
                 b == Place(q[1], q[2])
             IN a.right <= b.left \/ b.right <= a.left
                \/ a.bottom <= b.top \/ b.bottom <= a.top
  <2>1. /\ p[1] \in Nat /\ p[2] \in Nat /\ p = <<p[1], p[2]>>
        /\ q[1] \in Nat /\ q[2] \in Nat /\ q = <<q[1], q[2]>>
    BY PlaceIn, LastLine
  <2>2. p[1] # q[1] \/ p[2] # q[2]
    BY <1>1, <2>1
  <2>3. \/ p[1] < q[1] \/ (p[1] = q[1] /\ p[2] < q[2])
        \/ q[1] < p[1] \/ (q[1] = p[1] /\ q[2] < p[2])
    BY <2>1, <2>2
  <2>4. QED
    BY <2>3, Before
<1>2. ASSUME NEW p \in Places PROVE Place(p[1], p[2]).bottom <= BlockHeight
  <2> DEFINE k == p[1] + 1
             l == Len(lines) + 1
             b == Place(p[1], p[2]).bottom
  <2>1. p[1] \in 1..Len(lines) /\ p[2] \in 1..Len(lines[p[1]])
    BY PlaceIn
  <2>2. k \in 1..(Len(lines) + 1) /\ l \in 1..(Len(lines) + 1) /\ k <= l
    BY <2>1, LastLine
  <2>3. b \in Nat /\ Top[k] \in Nat /\ b <= Top[k]
    BY <2>1, BoxInLine
  <2>4. Top[l] \in Nat
    BY <2>2, StackedTop DEF Stacked
  <2>5. BlockHeight = Top[l]
    BY DEF BlockHeight
  <2> HIDE DEF k, l, b
  <2>6. Top[k] <= Top[l]
    BY <2>2, TopOrder
  <2>7. b <= Top[l]
    BY <2>3, <2>4, <2>6
  <2>8. QED
    BY <2>5, <2>7 DEF b
<1>3. QED
  BY <1>1, <1>2 DEF BoxesApart

\* LineLayout::layout makes each line as high as its fonts need, and
\* TextLayout::layout places each box behind the one before: no two boxes meet.
THEOREM NoBoxesMeet == Spec => []BoxesApart
  BY Invariance, Apart, PTL
-----------------------------------------------------------------------------
(* The display list *)

NotAfter(p, q) == p[1] < q[1] \/ (p[1] = q[1] /\ p[2] <= q[2])

\* The places of the first n lines, in order.
Listed(d, n) ==
  /\ \A k \in 1..n : \A i \in 1..Len(lines[k]) : \E j \in 1..Len(d) : d[j] = <<k, i>>
  /\ \A j \in 1..Len(d) : d[j] \in Nat \X Nat /\ d[j][1] \in 1..n /\ d[j][2] \in 1..Len(lines[d[j][1]])
  /\ \A j1, j2 \in 1..Len(d) : j1 <= j2 => NotAfter(d[j1], d[j2])

\* One line's items.
Items(k) == [i \in DOMAIN lines[k] |-> <<k, i>>]

LEMMA ItemsOfLine ==
  ASSUME IInv, NEW k \in 1..Len(lines)
  PROVE  /\ Items(k) \in Seq(Nat \X Nat) /\ Len(Items(k)) = Len(lines[k]) /\ Len(lines[k]) \in Nat
         /\ \A i \in 1..Len(lines[k]) : Items(k)[i] = <<k, i>>
<1>1. DOMAIN lines[k] = 1..Len(lines[k]) /\ Len(lines[k]) \in Nat
  BY LastLine, BoxType
<1>2. k \in Nat
  BY LastLine
<1> DEFINE n == Len(lines[k])
<1>3. Items(k) = [i \in 1..n |-> <<k, i>>]
  BY <1>1 DEF Items
<1> HIDE DEF n
<1>4. n \in Nat
  BY <1>1 DEF n
<1>5. Items(k) \in [1..n -> Nat \X Nat]
  BY <1>2, <1>3, <1>4
<1>6. Items(k) \in Seq(Nat \X Nat)
  BY <1>4, <1>5, SeqDef
<1>7. Len(Items(k)) = n
  BY <1>4, <1>5, <1>6, LenProperties
<1>8. QED
  BY <1>3, <1>4, <1>6, <1>7 DEF n

\* A line more.
LEMMA ListedMore ==
  ASSUME IInv, NEW n \in Nat, n + 1 \in 1..Len(lines), NEW d \in Seq(Nat \X Nat), Listed(d, n)
  PROVE  Listed(d \o Items(n + 1), n + 1)
<1> DEFINE e == Items(n + 1)
           m == n + 1
           both == d \o e
           D == Len(d)
           E == Len(e)
<1>1. /\ e \in Seq(Nat \X Nat) /\ E = Len(lines[m]) /\ E \in Nat
      /\ \A i \in 1..E : e[i] = <<m, i>>
  BY ItemsOfLine
<1>2. D \in Nat /\ Len(both) = D + E
  BY <1>1, ConcatProperties, LenProperties
<1>3. /\ \A j \in 1..D : both[j] = d[j]
      /\ \A i \in 1..E : both[D + i] = <<m, i>>
  <2>1. \A j \in 1..(D + E) : both[j] = IF j <= D THEN d[j] ELSE e[j - D]
    BY <1>1, ConcatProperties
  <2>2. \A j \in 1..D : j \in 1..(D + E) /\ j <= D
    BY <1>1, <1>2
  <2>3. \A i \in 1..E : D + i \in 1..(D + E) /\ ~(D + i <= D) /\ (D + i) - D = i
    BY <1>1, <1>2
  <2> HIDE DEF D, E, both, e
  <2>4. QED
    BY <1>1, <2>1, <2>2, <2>3
<1> HIDE DEF both, e, D, E
<1>4. m \in Nat /\ ~(m \in 1..n) /\ \A k \in 1..m : k = m \/ k \in 1..n
  OBVIOUS
<1>5. \A j \in 1..(D + E) : \/ j \in 1..D
                            \/ j - D \in 1..E /\ j = D + (j - D)
  BY <1>1, <1>2
<1>6. /\ \A j \in 1..D : d[j] \in Nat \X Nat /\ d[j][1] \in 1..n /\ d[j][2] \in 1..Len(lines[d[j][1]])
      /\ \A j1, j2 \in 1..D : j1 <= j2 => NotAfter(d[j1], d[j2])
      /\ \A k \in 1..n : \A i \in 1..Len(lines[k]) : \E j \in 1..D : d[j] = <<k, i>>
  BY DEF Listed, D
<1>7. \A k \in 1..m : \A i \in 1..Len(lines[k]) : \E j \in 1..Len(both) : both[j] = <<k, i>>
  <2>1. ASSUME NEW k \in 1..m, NEW i \in 1..Len(lines[k])
        PROVE  \E j \in 1..(D + E) : both[j] = <<k, i>>
    <3>1. CASE k = m
      <4>1. i \in 1..E /\ D + i \in 1..(D + E)
        BY <1>1, <1>2, <3>1
      <4>2. both[D + i] = <<k, i>>
        BY <1>3, <3>1, <4>1
      <4>3. QED
        BY <4>1, <4>2
    <3>2. CASE k \in 1..n
      <4>1. PICK j \in 1..D : d[j] = <<k, i>>
        BY <1>6, <3>2
      <4>2. j \in 1..(D + E)
        BY <1>1, <1>2
      <4>3. both[j] = <<k, i>>
        BY <1>3, <4>1
      <4>4. QED
        BY <4>2, <4>3
    <3>3. QED
      BY <1>4, <3>1, <3>2
  <2>2. QED
    BY <1>2, <2>1
<1>8. ASSUME NEW j \in 1..(D + E)
      PROVE  both[j] \in Nat \X Nat /\ both[j][1] \in 1..m /\ both[j][2] \in 1..Len(lines[both[j][1]])
  <2>1. CASE j \in 1..D
    <3>1. both[j] = d[j] /\ d[j][1] \in 1..m
      BY <1>3, <1>6, <2>1
    <3>2. QED
      BY <1>6, <2>1, <3>1
  <2>2. CASE j - D \in 1..E /\ j = D + (j - D)
    <3>1. PICK i \in 1..E : j = D + i
      BY <2>2
    <3>2. both[j] = <<m, i>> /\ i \in Nat /\ m \in 1..m /\ i \in 1..Len(lines[m])
      BY <1>1, <1>3, <1>4, <3>1
    <3>3. QED
      BY <1>4, <3>2
  <2>3. QED
    BY <1>5, <2>1, <2>2
<1>9. ASSUME NEW j1 \in 1..(D + E), NEW j2 \in 1..(D + E), j1 <= j2
      PROVE  NotAfter(both[j1], both[j2])
  <2>1. CASE j2 \in 1..D
    <3>1. j1 \in 1..D
      BY <1>2, <1>9, <2>1
    <3>2. QED
      BY <1>3, <1>6, <1>9, <2>1, <3>1
  <2>2. CASE j2 - D \in 1..E /\ j2 = D + (j2 - D) /\ j1 \in 1..D
    <3>1. PICK i \in 1..E : j2 = D + i
      BY <2>2
    <3>2. both[j2] = <<m, i>> /\ both[j1] = d[j1] /\ d[j1][1] \in 1..n
      BY <1>3, <1>6, <2>2, <3>1
    <3>3. both[j1][1] < both[j2][1]
      BY <3>2
    <3>4. QED
      BY <3>3 DEF NotAfter
  <2>3. CASE j2 - D \in 1..E /\ j2 = D + (j2 - D) /\ j1 - D \in 1..E /\ j1 = D + (j1 - D)
    <3>1. PICK i2 \in 1..E : j2 = D + i2
      BY <2>3
    <3>2. PICK i1 \in 1..E : j1 = D + i1
      BY <2>3
    <3>3. both[j2] = <<m, i2>> /\ both[j1] = <<m, i1>> /\ i1 <= i2
      BY <1>2, <1>3, <1>9, <3>1, <3>2
    <3>4. QED
      BY <3>3 DEF NotAfter
  <2>4. QED
    BY <1>5, <2>1, <2>2, <2>3
<1>10. QED
  BY <1>2, <1>7, <1>8, <1>9 DEF Listed, both, e

LEMMA DisplayListed ==
  ASSUME IInv
  PROVE  Listed(DisplayItems, Len(lines)) /\ DisplayItems \in Seq(Nat \X Nat)
<1> DEFINE N == Len(lines)
           ss == [k \in 1..N |-> Items(k)]
<1>1. N \in Nat /\ N > 0 /\ DOMAIN lines = 1..N
  BY LastLine DEF IInv, Typed
<1>2. \A k \in 1..N : Items(k) \in Seq(Nat \X Nat)
  BY ItemsOfLine
<1>3. DisplayItems = FlattenSeq(ss)
  BY <1>1 DEF DisplayItems, Items
<1> HIDE DEF N
<1>4. ss \in [1..N -> Seq(Nat \X Nat)] /\ \A k \in 1..N : ss[k] = Items(k)
  BY <1>2
<1>5. ss \in Seq(Seq(Nat \X Nat)) /\ Len(ss) = N
  BY <1>1, <1>4, SeqDef, LenProperties
<1> HIDE DEF ss
<1>6. PICK g \in [1..Len(ss) -> Seq(Nat \X Nat)] : Flattens(g, ss)
  <2> DEFINE S == Nat \X Nat
  <2>1. ss \in Seq(Seq(S)) /\ Len(ss) # 0
    BY <1>1, <1>5
  <2> HIDE DEF S
  <2>2. \E g \in [1..Len(ss) -> Seq(S)] : Flattens(g, ss)
    BY <2>1, Flattening
  <2>3. QED
    BY <2>2 DEF S
<1> DEFINE T == {n \in Nat : n \in 1..N => Listed(g[n], n)}
<1>7. 0 \in T
  OBVIOUS
<1>8. ASSUME NEW n \in Nat, n \in T PROVE n + 1 \in T
  <2>1. CASE n = 0
    <3>1. Listed(<<>>, 0)
      BY DEF Listed
    <3>2. <<>> \in Seq(Nat \X Nat) /\ 0 \in Nat /\ 0 + 1 = 1 /\ 1 \in 1..N
      BY <1>1
    <3>3. Listed(<<>> \o Items(0 + 1), 0 + 1)
      BY <3>1, <3>2, ListedMore DEF N
    <3>4. <<>> \o Items(1) = Items(1) /\ g[1] = Items(1)
      <4>1. Items(1) \in Seq(Nat \X Nat)
        BY <1>2, <3>2
      <4>2. g[1] = Items(1)
        BY <1>4, <1>6, <3>2 DEF Flattens
      <4>3. QED
        BY <4>1, <4>2, ConcatEmptySeq
    <3>5. Listed(g[1], 1)
      BY <3>2, <3>3, <3>4
    <3>6. QED
      BY <2>1, <3>5
  <2>2. CASE n # 0 /\ n + 1 <= N
    <3>1. n + 1 \in 2..N /\ n + 1 \in 1..N /\ n \in 1..N /\ (n + 1) - 1 = n
      BY <1>1, <2>2
    <3>2. g[n + 1] = g[n] \o Items(n + 1) /\ g[n] \in Seq(Nat \X Nat)
      BY <1>4, <1>5, <1>6, <3>1 DEF Flattens
    <3>3. Listed(g[n], n)
      BY <1>8, <3>1
    <3>4. Listed(g[n] \o Items(n + 1), n + 1)
      BY <3>1, <3>2, <3>3, ListedMore DEF N
    <3>5. Listed(g[n + 1], n + 1)
      BY <3>2, <3>4
    <3>6. QED
      BY <3>5
  <2>3. CASE ~(n + 1 <= N)
    BY <1>1, <2>3
  <2>4. QED
    BY <2>1, <2>2, <2>3
<1> HIDE DEF T
<1>9. Nat \subseteq T
  BY <1>7, <1>8, NatAll
<1>10. Listed(g[N], N) /\ g[N] \in Seq(Nat \X Nat) /\ FlattenSeq(ss) = g[N]
  BY <1>1, <1>5, <1>6, <1>9 DEF T, Flattens
<1>11. QED
  BY <1>3, <1>10 DEF N

LEMMA Shown == IInv => DrawnIfVisible
<1> SUFFICES ASSUME IInv, NEW scroll \in Scrolls, NEW p \in Places,
                    Place(p[1], p[2]).top <= scroll + TabHeight,
                    Place(p[1], p[2]).bottom >= scroll,
                    p \notin Drawn(scroll)
             PROVE  \E i \in 1..(p[2] - 1) : Place(p[1], i).top > scroll + TabHeight
  BY DEF DrawnIfVisible
<1> DEFINE d == DisplayItems
           box(j) == Place(d[j][1], d[j][2])
           edge == scroll + TabHeight
<1>1. /\ p[1] \in 1..Len(lines) /\ p[2] \in 1..Len(lines[p[1]]) /\ p = <<p[1], p[2]>>
      /\ p[1] \in Nat /\ p[2] \in Nat
  BY PlaceIn, LastLine
<1>2. d \in Seq(Nat \X Nat) /\ Listed(d, Len(lines)) /\ DOMAIN d = 1..Len(d)
  BY DisplayListed
<1>3. edge \in Nat
  BY LengthsAssumption
<1>4. PICK j \in 1..Len(d) : d[j] = p
  BY <1>1, <1>2 DEF Listed
<1>5. PICK i \in 1..j : Below(box(i), scroll)
  BY <1>2, <1>4 DEF Drawn
<1>6. i \in 1..Len(d) /\ i <= j
  BY <1>2, <1>4
<1> DEFINE q == d[i]
<1>7. q[1] \in 1..Len(lines) /\ q[2] \in 1..Len(lines[q[1]]) /\ q[1] \in Nat /\ q[2] \in Nat
  BY <1>2, <1>6 DEF Listed
<1>8. NotAfter(q, p)
  BY <1>2, <1>4, <1>6 DEF Listed
<1>9. Place(q[1], q[2]).top > edge
  BY <1>5 DEF Below
<1> HIDE DEF d, q, box
<1> DEFINE tp == Place(p[1], p[2]).top
           tq == Place(q[1], q[2]).top
           bq == Place(q[1], q[2]).bottom
<1>10. tp \in Nat /\ tq \in Nat /\ bq \in Nat /\ tq <= bq
  BY <1>1, <1>7, BoxInLine
<1>11. tp <= edge /\ tq > edge
  BY <1>9
<1>12. ~(q[1] < p[1])
  <2> SUFFICES ASSUME q[1] < p[1] PROVE FALSE
    OBVIOUS
  <2> DEFINE k == q[1] + 1
             l == p[1]
             u == Top[k]
             v == Top[l]
  <2>1. k \in 1..(Len(lines) + 1) /\ l \in 1..(Len(lines) + 1) /\ k <= l
    <3> DEFINE a == q[1]
               b == p[1]
               N == Len(lines)
    <3>1. a \in 1..N /\ b \in 1..N /\ a < b /\ N \in Nat
      BY <1>1, <1>7, LastLine
    <3> HIDE DEF a, b, N
    <3>2. a + 1 \in 1..(N + 1) /\ b \in 1..(N + 1) /\ a + 1 <= b
      BY <3>1
    <3>3. QED
      BY <3>2 DEF a, b, N
  <2>2. Top[k] <= Top[l]
    <3> HIDE DEF k, l
    <3>1. QED
      BY <2>1, TopOrder
  <2>3. u \in Nat /\ v \in Nat /\ bq <= u /\ v <= tp
    BY <1>1, <1>7, BoxInLine
  <2>4. u <= v
    BY <2>2
  <2> HIDE DEF u, v, tp, tq, bq, edge
  <2>5. QED
    BY <1>3, <1>10, <1>11, <2>3, <2>4
<1>13. q[1] = p[1] /\ q[2] <= p[2]
  BY <1>8, <1>12 DEF NotAfter
<1>14. q[2] # p[2]
  <2> SUFFICES ASSUME q[2] = p[2] PROVE FALSE
    OBVIOUS
  <2>1. tq = tp
    BY <1>13
  <2> HIDE DEF tp, tq, edge
  <2>2. QED
    BY <1>3, <1>10, <1>11, <2>1
<1>15. q[2] \in 1..(p[2] - 1)
  <2>1. q[2] >= 1
    BY <1>1, <1>7, LastLine, BoxType
  <2>2. QED
    BY <1>1, <1>7, <1>13, <1>14, <2>1
<1>16. QED
  BY <1>9, <1>13, <1>15

\* Tab::draw breaks its loop at the first item below the screen: no item above
\* that one's line, nor before it in the line, is left out.
THEOREM LeftOutExplained == Spec => []DrawnIfVisible
  BY Invariance, Shown, PTL

-----------------------------------------------------------------------------
(* Style: the texts of sheets and style attributes *)

Symbols == Words \cup Signs

-----------------------------------------------------------------------------
(* Texts of symbols *)

\* No sign is a word.
LEMMA SignsNoWords ==
  /\ "colon" \notin Words /\ "semicolon" \notin Words
  /\ "open" \notin Words /\ "close" \notin Words /\ "junk" \notin Words /\ "nul" \notin Words
BY SymbolsAssumption DEF Signs

\* A sequence with one more element.
LEMMA OneMore ==
  ASSUME NEW S, NEW s \in Seq(S), NEW x \in S, NEW N, N = Len(s), NEW t, t = Append(s, x)
  PROVE  /\ N \in Nat /\ DOMAIN s = 1..N /\ (\A i \in 1..N : s[i] \in S)
         /\ t \in Seq(S) /\ Len(t) = N + 1 /\ DOMAIN t = 1..(N + 1)
         /\ (\A i \in 1..N : t[i] = s[i]) /\ t[N + 1] = x
<1>1. N \in Nat /\ DOMAIN s = 1..N /\ \A i \in 1..N : s[i] \in S
  BY LenProperties, ElementOfSeq
<1>2. /\ t \in Seq(S) /\ Len(t) = N + 1
      /\ (\A i \in 1..N : t[i] = s[i]) /\ t[N + 1] = x
  BY AppendProperties
<1>3. DOMAIN t = 1..(N + 1)
  BY <1>2, LenProperties
<1>4. QED
  BY <1>1, <1>2, <1>3

\* The greatest of some naturals with a bound.
LEMMA Greatest ==
  ASSUME NEW T, T \subseteq Nat, NEW b \in Nat, \A k \in T : k <= b
  PROVE  /\ T # {} => Max(T) \in T /\ \A k \in T : k <= Max(T)
         /\ \A m \in T : (\A k \in T : k <= m) => Max(T) = m
<1>1. ASSUME T # {} PROVE \E m \in T : \A k \in T : m >= k
  BY <1>1, NatMax
<1>2. ASSUME T # {} PROVE Max(T) \in T /\ \A k \in T : Max(T) >= k
  BY <1>1, <1>2 DEF Max
<1>3. \A m \in T : (\A k \in T : k <= m) => Max(T) = m
  <2>1. ASSUME NEW m \in T, \A k \in T : k <= m PROVE Max(T) = m
    <3>1. Max(T) \in T /\ Max(T) >= m
      BY <1>2, <2>1
    <3>2. Max(T) <= m /\ Max(T) \in Nat /\ m \in Nat
      BY <2>1, <3>1
    <3>3. QED
      BY <3>1, <3>2
  <2>2. QED
    BY <2>1
<1>4. QED
  BY <1>2, <1>3

-----------------------------------------------------------------------------
(* The pairs of a body *)

Bodies == UNION {[D -> Words] : D \in SUBSET Words}

\* Where pairs can stand, and what of a body is their name and value.
LEMMA PairsBound ==
  ASSUME NEW b \in Seq(Symbols)
  PROVE  /\ PairsOf(b) \subseteq Nat /\ Len(b) \in Nat
         /\ \A n \in PairsOf(b) : /\ n \in 1..Len(b) /\ n + 1 \in 1..Len(b) /\ n + 2 \in 1..Len(b)
                                  /\ n <= Len(b) /\ b[n] \in Words /\ b[n + 2] \in Words
<1>1. Len(b) \in Nat
  BY LenProperties
<1>2. ASSUME NEW n \in PairsOf(b)
      PROVE  n \in 1..(Len(b) - 2) /\ b[n] \in Words /\ b[n + 2] \in Words
  BY DEF PairsOf
<1>3. QED
  BY <1>1, <1>2

\* The last pair that sets p, and what a body declares.
LEMMA Declared ==
  ASSUME NEW b \in Seq(Symbols)
  PROVE  /\ DOMAIN Declares(b) = {Fold[b[n]] : n \in PairsOf(b)}
         /\ \A m \in PairsOf(b) :
              (\A n \in PairsOf(b) : Fold[b[n]] = Fold[b[m]] => n <= m)
                => Declares(b)[Fold[b[m]]] = b[m + 2]
         /\ \A p \in DOMAIN Declares(b) : \E m \in PairsOf(b) :
              /\ Fold[b[m]] = p /\ \A n \in PairsOf(b) : Fold[b[n]] = p => n <= m
<1> DEFINE K == PairsOf(b)
           names == {Fold[b[n]] : n \in K}
           of(p) == {n \in K : Fold[b[n]] = p}
<1>1. /\ Declares(b) = [p \in names |-> b[Max(of(p)) + 2]]
  BY DEF Declares
<1>2. Len(b) \in Nat /\ K \subseteq Nat /\ \A n \in K : n <= Len(b)
  BY PairsBound
<1> HIDE DEF K
<1>3. \A p : of(p) \subseteq Nat /\ \A n \in of(p) : n <= Len(b)
  BY <1>2
<1>4. \A p : /\ of(p) # {} => Max(of(p)) \in of(p) /\ \A k \in of(p) : k <= Max(of(p))
             /\ \A m \in of(p) : (\A k \in of(p) : k <= m) => Max(of(p)) = m
  <2>1. ASSUME NEW p
        PROVE  /\ of(p) # {} => Max(of(p)) \in of(p) /\ \A k \in of(p) : k <= Max(of(p))
               /\ \A m \in of(p) : (\A k \in of(p) : k <= m) => Max(of(p)) = m
    <3> DEFINE O == of(p)
    <3>1. O \subseteq Nat /\ \A n \in O : n <= Len(b)
      BY <1>3
    <3> HIDE DEF O
    <3>2. /\ O # {} => Max(O) \in O /\ \A k \in O : k <= Max(O)
          /\ \A m \in O : (\A k \in O : k <= m) => Max(O) = m
      BY <1>2, <3>1, Greatest
    <3>3. QED
      BY <3>2 DEF O
  <2>2. QED
    BY <2>1
<1>5. DOMAIN Declares(b) = names
  BY <1>1
<1>6. ASSUME NEW m \in K, \A n \in K : Fold[b[n]] = Fold[b[m]] => n <= m
      PROVE  Declares(b)[Fold[b[m]]] = b[m + 2]
  <2> DEFINE p == Fold[b[m]]
  <2>1. m \in of(p) /\ \A k \in of(p) : k <= m
    BY <1>6
  <2>2. p \in names
    OBVIOUS
  <2> HIDE DEF p, of, names
  <2>3. Max(of(p)) = m
    BY <1>4, <2>1
  <2>4. Declares(b)[p] = b[m + 2]
    BY <1>1, <2>2, <2>3
  <2>5. QED
    BY <2>4 DEF p
<1>7. ASSUME NEW p \in names
      PROVE  \E m \in K : Fold[b[m]] = p /\ \A n \in K : Fold[b[n]] = p => n <= m
  <2>1. of(p) # {}
    OBVIOUS
  <2>2. Max(of(p)) \in of(p) /\ \A k \in of(p) : k <= Max(of(p))
    BY <1>4, <2>1
  <2>3. PICK m : m \in of(p) /\ \A k \in of(p) : k <= m
    BY <2>2
  <2>4. QED
    BY <2>3
<1>8. QED
  BY <1>5, <1>6, <1>7 DEF K

\* A body declares words for words.
LEMMA DeclaresType ==
  ASSUME NEW b \in Seq(Symbols)
  PROVE  Declares(b) \in Bodies
<1> DEFINE D == DOMAIN Declares(b)
<1>1. D \subseteq Words
  <2>1. \A n \in PairsOf(b) : Fold[b[n]] \in Words
    BY PairsBound, SymbolsAssumption
  <2>2. QED
    BY <2>1, Declared
<1>2. \A p \in D : Declares(b)[p] \in Words
  <2>1. ASSUME NEW p \in D PROVE Declares(b)[p] \in Words
    <3>1. PICK m \in PairsOf(b) : /\ Fold[b[m]] = p
                                  /\ \A n \in PairsOf(b) : Fold[b[n]] = p => n <= m
      BY Declared
    <3>2. Declares(b)[p] = b[m + 2]
      BY <3>1, Declared
    <3>3. QED
      BY <3>2, PairsBound
  <2>2. QED
    BY <2>1
<1>3. Declares(b) = [p \in D |-> Declares(b)[p]]
  BY Zenon DEF Declares
<1>4. Declares(b) \in [D -> Words]
  BY <1>2, <1>3
<1> HIDE DEF D
<1>5. QED
  BY <1>1, <1>4 DEF Bodies

\* A symbol ends a pair if a word and a colon stand before it, behind a semicolon
\* or with nothing else in front.
Completes(b, x) ==
  /\ Len(b) >= 2 /\ (Len(b) = 2 \/ b[Len(b) - 2] = "semicolon")
  /\ b[Len(b) - 1] \in Words /\ b[Len(b)] = "colon" /\ x \in Words

\* When a position is one of a pair.
LEMMA InPairs ==
  ASSUME NEW b, NEW n
  PROVE  n \in PairsOf(b) <=> /\ n \in 1..(Len(b) - 2)
                              /\ n = 1 \/ b[n - 1] = "semicolon"
                              /\ b[n] \in Words /\ b[n + 1] = "colon" /\ b[n + 2] \in Words
BY Zenon DEF PairsOf

\* One more symbol adds at most the pair it completes.
LEMMA PairsAppend ==
  ASSUME NEW b \in Seq(Symbols), NEW x \in Symbols
  PROVE  PairsOf(Append(b, x)) =
           PairsOf(b) \cup (IF Completes(b, x) THEN {Len(b) - 1} ELSE {})
<1> DEFINE N == Len(b)
           t == Append(b, x)
<1>1. /\ N \in Nat /\ t \in Seq(Symbols) /\ Len(t) = N + 1
      /\ (\A i \in 1..N : t[i] = b[i]) /\ t[N + 1] = x
  BY OneMore
<1>0. Len(b) = N
  OBVIOUS
<1> HIDE DEF t, N
<1>2. ASSUME NEW n \in 1..(N - 2)
      PROVE  n \in PairsOf(t) <=> n \in PairsOf(b)
  <2>1. /\ n \in 1..(N + 1 - 2) /\ n \in 1..N /\ n + 1 \in 1..N /\ n + 2 \in 1..N
        /\ n # 1 => n - 1 \in 1..N
    BY <1>1
  <2>2. t[n] = b[n] /\ t[n + 1] = b[n + 1] /\ t[n + 2] = b[n + 2] /\ (n # 1 => t[n - 1] = b[n - 1])
    BY <1>1, <2>1
  <2>3. n \in PairsOf(t) <=> /\ n \in 1..(Len(t) - 2)
                             /\ n = 1 \/ t[n - 1] = "semicolon"
                             /\ t[n] \in Words /\ t[n + 1] = "colon" /\ t[n + 2] \in Words
    BY InPairs, Zenon
  <2>4. n \in PairsOf(b) <=> /\ n \in 1..(Len(b) - 2)
                             /\ n = 1 \/ b[n - 1] = "semicolon"
                             /\ b[n] \in Words /\ b[n + 1] = "colon" /\ b[n + 2] \in Words
    BY InPairs, Zenon
  <2>5. n \in 1..(Len(b) - 2) /\ n \in 1..(Len(t) - 2)
    BY <1>0, <1>1, <2>1
  <2>6. QED
    BY <2>2, <2>3, <2>4, <2>5
<1>3. N >= 2 => (N - 1 \in PairsOf(t) <=> Completes(b, x))
  <2> SUFFICES ASSUME N >= 2 PROVE N - 1 \in PairsOf(t) <=> Completes(b, x)
    OBVIOUS
  <2>1. /\ N - 1 \in 1..(N + 1 - 2) /\ N - 1 \in 1..N /\ (N - 1) + 1 = N /\ N \in 1..N
        /\ (N - 1) + 2 = N + 1 /\ (N - 1) - 1 = N - 2
        /\ (N - 1 = 1 <=> N = 2) /\ (N # 2 => N - 2 \in 1..N)
    BY <1>1
  <2>2. t[N - 1] = b[N - 1] /\ t[N] = b[N] /\ (N # 2 => t[N - 2] = b[N - 2])
    BY <1>1, <2>1
  <2>3. N - 1 \in PairsOf(t) <=> /\ N - 1 = 1 \/ t[N - 2] = "semicolon"
                                /\ t[N - 1] \in Words /\ t[N] = "colon" /\ t[N + 1] \in Words
    <3> DEFINE m == N - 1
    <3>1. m \in 1..(Len(t) - 2) /\ (m = 1 <=> N - 1 = 1) /\ t[m - 1] = t[N - 2]
          /\ t[m] = t[N - 1] /\ t[m + 1] = t[N] /\ t[m + 2] = t[N + 1]
      BY <1>1, <2>1
    <3> HIDE DEF m
    <3>2. m \in PairsOf(t) <=>
             /\ m \in 1..(Len(t) - 2)
             /\ m = 1 \/ t[m - 1] = "semicolon"
             /\ t[m] \in Words /\ t[m + 1] = "colon" /\ t[m + 2] \in Words
      BY InPairs, Zenon
    <3>3. m \in PairsOf(t) <=> /\ N - 1 = 1 \/ t[N - 2] = "semicolon"
                               /\ t[N - 1] \in Words /\ t[N] = "colon" /\ t[N + 1] \in Words
      BY <3>1, <3>2
    <3>4. QED
      BY <3>3 DEF m
  <2>4. Completes(b, x) <=> /\ N = 2 \/ b[N - 2] = "semicolon"
                            /\ b[N - 1] \in Words /\ b[N] = "colon" /\ x \in Words
    BY <1>0 DEF Completes
  <2>5. QED
    BY <1>1, <2>1, <2>2, <2>3, <2>4
<1>4. /\ \A n \in PairsOf(b) : n \in 1..(N - 2)
      /\ \A n \in PairsOf(t) : n \in 1..(N + 1 - 2)
  <2>1. ASSUME NEW n \in PairsOf(b) PROVE n \in 1..(Len(b) - 2)
    BY <2>1, InPairs, Zenon
  <2>2. ASSUME NEW n \in PairsOf(t) PROVE n \in 1..(Len(t) - 2)
    BY <2>2, InPairs, Zenon
  <2>3. QED
    BY <1>0, <1>1, <2>1, <2>2
<1>5. Completes(b, x) => N >= 2
  BY <1>0 DEF Completes
<1>6. \A n : n \in PairsOf(t) <=> n \in PairsOf(b) \/ (Completes(b, x) /\ n = N - 1)
  <2>1. ASSUME NEW n, n \in PairsOf(t)
        PROVE  n \in PairsOf(b) \/ (Completes(b, x) /\ n = N - 1)
    <3>1. N >= 2 /\ (n = N - 1 \/ n \in 1..(N - 2))
      BY <1>1, <1>4, <2>1
    <3>2. QED
      BY <1>2, <1>3, <2>1, <3>1
  <2>2. ASSUME NEW n, n \in PairsOf(b) \/ (Completes(b, x) /\ n = N - 1)
        PROVE  n \in PairsOf(t)
    BY <1>2, <1>3, <1>4, <1>5, <2>2
  <2>3. QED
    BY <2>1, <2>2
<1>7. QED
  BY <1>6 DEF N, t

\* A symbol that completes no pair changes nothing.
LEMMA DeclaresSame ==
  ASSUME NEW b \in Seq(Symbols), NEW x \in Symbols, ~Completes(b, x)
  PROVE  Declares(Append(b, x)) = Declares(b)
<1> DEFINE t == Append(b, x)
           K == PairsOf(b)
<1>1. PairsOf(t) = K
  BY PairsAppend
<1>2. \A n \in K : t[n] = b[n] /\ t[n + 2] = b[n + 2]
  <2>1. \A i \in 1..Len(b) : t[i] = b[i]
    BY OneMore
  <2>2. QED
    BY <2>1, PairsBound
<1>3. t \in Seq(Symbols)
  BY OneMore
<1> HIDE DEF t
<1>4. DOMAIN Declares(t) = DOMAIN Declares(b)
  <2>1. {Fold[t[n]] : n \in K} = {Fold[b[n]] : n \in K}
    BY <1>2
  <2>2. QED
    BY <1>1, <1>3, <2>1, Declared
<1>5. ASSUME NEW p \in DOMAIN Declares(b) PROVE Declares(t)[p] = Declares(b)[p]
  <2>1. PICK m \in K : Fold[b[m]] = p /\ \A n \in K : Fold[b[n]] = p => n <= m
    BY Declared
  <2>2. Declares(b)[p] = b[m + 2]
    BY <2>1, Declared
  <2>3. Fold[t[m]] = p /\ \A n \in K : Fold[t[n]] = p => n <= m
    BY <1>2, <2>1
  <2>4. Declares(t)[p] = t[m + 2]
    BY <1>1, <1>3, <2>3, Declared
  <2>5. QED
    BY <1>2, <2>2, <2>4
<1>6. \A c \in Seq(Symbols) : Declares(c) = [p \in DOMAIN Declares(c) |-> Declares(c)[p]]
  BY Zenon DEF Declares
<1>7. QED
  <2>1. Declares(t) = Declares(b)
    BY <1>3, <1>4, <1>5, <1>6
  <2>2. QED
    BY <2>1 DEF t

\* One that does stores the pair.
LEMMA DeclaresMore ==
  ASSUME NEW b \in Seq(Symbols), NEW x \in Symbols, Completes(b, x)
  PROVE  Declares(Append(b, x)) = Store(Declares(b), Fold[b[Len(b) - 1]], x)
<1> DEFINE t == Append(b, x)
           K == PairsOf(b)
           N == Len(b)
           p == Fold[b[N - 1]]
<1>1. PairsOf(t) = K \cup {N - 1}
  BY PairsAppend
<1>2. /\ N \in Nat /\ t \in Seq(Symbols) /\ \A i \in 1..N : t[i] = b[i]
      /\ t[N + 1] = x
  BY OneMore
<1>3. \A n \in K : t[n] = b[n] /\ t[n + 2] = b[n + 2] /\ n \in Nat /\ n < N - 1
  <2>1. \A n \in K : n \in 1..(N - 2)
    BY InPairs
  <2>2. QED
    BY <1>2, <2>1, PairsBound
<1>4. N - 1 \in Nat /\ N - 1 \in 1..N /\ (N - 1) + 2 = N + 1
  <2>1. N >= 2
    BY DEF Completes
  <2> HIDE DEF N
  <2>2. QED
    BY <1>2, <2>1
<1>5. t[N - 1] = b[N - 1] /\ t[(N - 1) + 2] = x
  BY <1>2, <1>4
<1> HIDE DEF t, K, N
<1> DEFINE L == N - 1
<1>6. /\ L \in PairsOf(t) /\ PairsOf(t) = K \cup {L} /\ L \in Nat
      /\ t[L] = b[L] /\ t[L + 2] = x /\ Fold[t[L]] = p
      /\ \A n \in K : t[n] = b[n] /\ t[n + 2] = b[n + 2] /\ n \in Nat /\ n < L
  BY <1>1, <1>3, <1>4, <1>5
<1> HIDE DEF L, p
<1>7. DOMAIN Declares(t) = DOMAIN Declares(b) \cup {p}
  <2>1. {Fold[t[n]] : n \in PairsOf(t)} = {Fold[b[n]] : n \in K} \cup {p}
    BY <1>6
  <2>2. QED
    BY <1>2, <2>1, Declared DEF K
<1>8. Declares(t)[p] = x
  <2>1. \A n \in PairsOf(t) : Fold[t[n]] = Fold[t[L]] => n <= L
    BY <1>6
  <2>2. QED
    BY <1>2, <1>6, <2>1, Declared
<1>9. ASSUME NEW q \in DOMAIN Declares(b), q # p PROVE Declares(t)[q] = Declares(b)[q]
  <2>1. PICK m \in K : Fold[b[m]] = q /\ \A n \in K : Fold[b[n]] = q => n <= m
    BY Declared DEF K
  <2>2. Declares(b)[q] = b[m + 2]
    BY <2>1, Declared DEF K
  <2>3. m \in PairsOf(t) /\ Fold[t[m]] = q /\ \A n \in PairsOf(t) : Fold[t[n]] = q => n <= m
    BY <1>6, <1>9, <2>1
  <2>4. Declares(t)[q] = t[m + 2]
    BY <1>2, <2>3, Declared
  <2>5. QED
    BY <1>6, <2>2, <2>4
<1>10. \A c \in Seq(Symbols) : Declares(c) = [r \in DOMAIN Declares(c) |-> Declares(c)[r]]
  BY Zenon DEF Declares
<1>11. Declares(t) = Store(Declares(b), p, x)
  BY <1>2, <1>7, <1>8, <1>9, <1>10 DEF Store
<1>12. QED
  BY <1>11 DEF t, p, L, N

-----------------------------------------------------------------------------
(* The pieces between closing braces *)

\* c is the place of the last closing brace, or 0.
Closed(s, c) ==
  /\ c \in 0..Len(s) /\ (c # 0 => s[c] = "close")
  /\ \A i \in (c + 1)..Len(s) : s[i] # "close"

\* The last piece begins behind the last closing brace.
LEMMA LastPieceIs ==
  ASSUME NEW s \in Seq(Symbols)
  PROVE  /\ \E c \in 0..Len(s) : Closed(s, c)
         /\ LastPiece(s) \in Seq(Symbols)
         /\ \A c : Closed(s, c) => /\ Len(LastPiece(s)) = Len(s) - c
                                   /\ \A i \in 1..(Len(s) - c) : LastPiece(s)[i] = s[c + i]
<1> DEFINE N == Len(s)
           K == {0} \cup {k \in DOMAIN s : s[k] = "close"}
           M == Max(K)
<1>1. N \in Nat /\ DOMAIN s = 1..N /\ \A i \in 1..N : s[i] \in Symbols
  BY LenProperties, ElementOfSeq
<1>2. LastPiece(s) = [i \in 1..(N - M) |-> s[M + i]]
  BY Zenon DEF LastPiece
<1> HIDE DEF N
<1>3. /\ 0 \in K /\ K \subseteq Nat /\ (\A k \in K : k <= N)
      /\ \A k \in K : k \in 0..N /\ (k # 0 => s[k] = "close")
  BY <1>1
<1>4. \A k \in 1..N : s[k] = "close" => k \in K
  BY <1>1
<1> HIDE DEF K
<1>5. M \in K /\ \A k \in K : k <= M
  BY <1>1, <1>3, Greatest
<1> HIDE DEF M
<1>6. M \in 0..N /\ M \in Nat /\ (M # 0 => s[M] = "close")
  BY <1>3, <1>5
<1>7. \A i \in (M + 1)..N : s[i] # "close"
  <2>1. \A i \in (M + 1)..N : i \in 1..N /\ ~(i <= M)
    BY <1>1, <1>6
  <2>2. QED
    BY <1>4, <1>5, <2>1
<1>8. Closed(s, M)
  BY <1>6, <1>7 DEF Closed, N
<1>9. ASSUME NEW c, Closed(s, c) PROVE c = M
  <2>1. /\ c \in 0..N /\ c \in Nat /\ (c # 0 => s[c] = "close")
        /\ \A i \in (c + 1)..N : s[i] # "close"
    BY <1>9 DEF Closed, N
  <2>2. c \in K
    <3>1. CASE c = 0
      BY <1>3, <3>1
    <3>2. CASE c # 0
      <4>1. c \in 1..N
        BY <1>1, <2>1, <3>2
      <4>2. QED
        BY <1>4, <2>1, <3>2, <4>1
    <3>3. QED
      BY <3>1, <3>2
  <2>3. c <= M
    BY <1>5, <2>2
  <2>4. ASSUME c < M PROVE FALSE
    <3>1. M \in (c + 1)..N /\ M # 0
      BY <1>1, <1>6, <2>1, <2>4
    <3>2. QED
      BY <1>6, <2>1, <3>1
  <2>5. QED
    BY <1>6, <2>1, <2>3, <2>4
<1> DEFINE L == N - M
<1>10. L \in Nat /\ \A i \in 1..L : M + i \in 1..N
  BY <1>1, <1>6
<1> HIDE DEF L
<1>11. LastPiece(s) = [i \in 1..L |-> s[M + i]]
  BY <1>2 DEF L
<1>12. LastPiece(s) \in [1..L -> Symbols]
  BY <1>1, <1>10, <1>11
<1>13. LastPiece(s) \in Seq(Symbols)
  BY <1>10, <1>12, SeqDef
<1>14. Len(LastPiece(s)) = L /\ \A i \in 1..L : LastPiece(s)[i] = s[M + i]
  BY <1>10, <1>11
<1>15. QED
  BY <1>6, <1>8, <1>9, <1>13, <1>14 DEF L, N

\* A text of no symbols ends in no piece.
LEMMA LastPieceEmpty == LastPiece(<<>>) = <<>>
<1>1. <<>> \in Seq(Symbols) /\ Len(<<>>) = 0
  OBVIOUS
<1>2. Closed(<<>>, 0)
  BY <1>1 DEF Closed
<1>3. LastPiece(<<>>) \in Seq(Symbols) /\ Len(LastPiece(<<>>)) = 0 - 0
  BY <1>1, <1>2, LastPieceIs
<1>4. QED
  BY <1>3, EmptySeq

\* One more symbol: a closing brace begins a new piece, any other joins it.
LEMMA LastPieceAppend ==
  ASSUME NEW s \in Seq(Symbols), NEW x \in Symbols
  PROVE  LastPiece(Append(s, x)) = IF x = "close" THEN <<>> ELSE Append(LastPiece(s), x)
<1> DEFINE N == Len(s)
           t == Append(s, x)
           q == LastPiece(s)
           r == LastPiece(t)
<1>1. /\ N \in Nat /\ t \in Seq(Symbols) /\ Len(t) = N + 1
      /\ (\A i \in 1..N : t[i] = s[i]) /\ t[N + 1] = x
  BY OneMore
<1>2. PICK c \in 0..N : Closed(s, c)
  BY LastPieceIs
<1>3. q \in Seq(Symbols) /\ Len(q) = N - c /\ \A i \in 1..(N - c) : q[i] = s[c + i]
  BY <1>2, LastPieceIs
<1>4. /\ c # 0 => s[c] = "close"
      /\ \A i \in (c + 1)..N : s[i] # "close"
  BY <1>2 DEF Closed
<1>5. /\ r \in Seq(Symbols)
      /\ \A d : Closed(t, d) => /\ Len(r) = Len(t) - d
                                /\ \A i \in 1..(Len(t) - d) : r[i] = t[d + i]
  BY <1>1, LastPieceIs
<1> HIDE DEF t, q, r, N
<1>6. CASE x = "close"
  <2>1. N + 1 \in 0..Len(t) /\ \A i \in ((N + 1) + 1)..Len(t) : FALSE
    BY <1>1
  <2>2. Closed(t, N + 1)
    BY <1>1, <1>6, <2>1 DEF Closed
  <2>3. Len(r) = 0
    BY <1>1, <1>5, <2>2
  <2>4. r = <<>>
    BY <1>5, <2>3, EmptySeq
  <2>5. QED
    BY <1>6, <2>4 DEF r, t
<1>7. CASE x # "close"
  <2>1. c \in 0..Len(t)
    BY <1>1
  <2>2. c # 0 => c \in 1..N /\ t[c] = "close"
    BY <1>1, <1>4
  <2>3. \A i \in (c + 1)..Len(t) : i = N + 1 \/ (i \in (c + 1)..N /\ i \in 1..N)
    BY <1>1
  <2>4. \A i \in (c + 1)..Len(t) : t[i] # "close"
    BY <1>1, <1>4, <1>7, <2>3
  <2>5. Closed(t, c)
    BY <2>1, <2>2, <2>4 DEF Closed
  <2> DEFINE M == N - c
  <2>6. M \in Nat /\ (N + 1) - c = M + 1 /\ c + (M + 1) = N + 1 /\ \A i \in 1..M : c + i \in 1..N
    BY <1>1
  <2>7. Len(r) = M + 1 /\ Len(q) = M
        /\ (\A i \in 1..(M + 1) : r[i] = t[c + i]) /\ (\A i \in 1..M : q[i] = s[c + i])
    <3>1. Len(q) = M /\ \A i \in 1..M : q[i] = s[c + i]
      BY <1>3
    <3>2. Len(r) = (N + 1) - c /\ \A i \in 1..((N + 1) - c) : r[i] = t[c + i]
      BY <1>1, <1>5, <2>5
    <3>3. QED
      BY <2>6, <3>1, <3>2
  <2> HIDE DEF M
  <2>8. /\ Append(q, x) \in Seq(Symbols) /\ Len(Append(q, x)) = M + 1
        /\ (\A i \in 1..M : Append(q, x)[i] = q[i]) /\ Append(q, x)[M + 1] = x
    BY <1>3, <2>7, OneMore
  <2>9. \A i \in 1..(M + 1) : r[i] = Append(q, x)[i]
    <3>1. M + 1 \in 1..(M + 1) /\ \A i \in 1..(M + 1) : i = M + 1 \/ i \in 1..M
      BY <2>6
    <3>2. r[M + 1] = x
      BY <1>1, <2>6, <2>7, <3>1
    <3>3. \A i \in 1..M : i \in 1..(M + 1) /\ r[i] = q[i]
      BY <1>1, <2>6, <2>7
    <3>4. QED
      BY <2>8, <3>1, <3>2, <3>3
  <2>10. r = Append(q, x)
    BY <1>5, <2>7, <2>8, <2>9, SeqEqual
  <2>11. QED
    BY <1>7, <2>10 DEF r, q, t
<1>8. QED
  BY <1>6, <1>7

\* The only brace that opens a rule is the first one.
LEMMA OneBrace ==
  ASSUME NEW q \in Seq(Symbols), NEW b \in DOMAIN q, NEW c \in DOMAIN q, Opens(q, b), Opens(q, c)
  PROVE  b = c
<1>1. b \in Nat /\ c \in Nat /\ b > 1 /\ c > 1
  <2>1. DOMAIN q = 1..Len(q) /\ Len(q) \in Nat
    BY LenProperties
  <2>2. b > 1 /\ c > 1
    BY DEF Opens
  <2>3. QED
    BY <2>1, <2>2
<1>2. /\ q[b] \notin Words /\ q[c] \notin Words
      /\ (\A i \in 1..(b - 1) : q[i] \in Words) /\ \A i \in 1..(c - 1) : q[i] \in Words
  BY SignsNoWords DEF Opens
<1>3. b < c => b \in 1..(c - 1)
  BY <1>1
<1>4. c < b => c \in 1..(b - 1)
  BY <1>1
<1>5. QED
  BY <1>1, <1>2, <1>3, <1>4

\* No declaration of q, whose body opens at b, begins with a byte 0.
NoNul(q, b) ==
  \A i \in (b + 1)..Len(q) : q[i] = "nul" => i > b + 1 /\ q[i - 1] # "semicolon"

\* A rule has an opening brace and no byte 0 where a declaration begins.
LEMMA IsRuleAt ==
  ASSUME NEW q \in Seq(Symbols)
  PROVE  IsRule(q) <=> \E b \in DOMAIN q : Opens(q, b) /\ NoNul(q, b)
BY Zenon DEF IsRule, NoNul

\* The rule is read off any brace that opens it.
LEMMA RuleAt ==
  ASSUME NEW q \in Seq(Symbols), NEW b \in DOMAIN q, Opens(q, b)
  PROVE  RuleOf(q) = [sel |-> TagsOf(q, b), decls |-> Declares(BodyOf(q, b))]
<1> DEFINE c == CHOOSE k \in DOMAIN q : Opens(q, k)
<1>1. c \in DOMAIN q /\ Opens(q, c)
  OBVIOUS
<1>2. RuleOf(q) = [sel |-> TagsOf(q, c), decls |-> Declares(BodyOf(q, c))]
  BY Zenon DEF RuleOf
<1> HIDE DEF c
<1>3. c = b
  BY <1>1, OneBrace
<1>4. QED
  BY <1>2, <1>3

RuleSet == [sel : Seq(Words) \ {<<>>}, decls : Bodies]

\* The tags of a selector.
LEMMA TagsAre ==
  ASSUME NEW q \in Seq(Symbols), NEW b \in Nat, b > 1, b - 1 <= Len(q),
         \A i \in 1..(b - 1) : q[i] \in Words
  PROVE  TagsOf(q, b) \in Seq(Words) \ {<<>>}
<1> DEFINE n == b - 1
           f == [i \in 1..n |-> IF i = 1 THEN Fold[q[1]] ELSE q[i]]
<1>1. n \in Nat /\ n > 0 /\ \A i \in 1..n : q[i] \in Words
  OBVIOUS
<1>2. Fold[q[1]] \in Words
  <2>1. 1 \in 1..n
    BY <1>1
  <2>2. QED
    BY <1>1, <2>1, SymbolsAssumption
<1>3. TagsOf(q, b) = f
  BY DEF TagsOf
<1> HIDE DEF n
<1>4. f \in [1..n -> Words]
  BY <1>1, <1>2
<1>5. f \in Seq(Words) /\ Len(f) = n
  <2>1. f \in Seq(Words)
    BY <1>1, <1>4, SeqDef
  <2>2. QED
    BY <1>1, <2>1
<1>6. f # <<>>
  BY <1>1, <1>5, EmptySeq
<1>7. QED
  BY <1>3, <1>5, <1>6

\* The body behind a brace.
LEMMA BodyIs ==
  ASSUME NEW q \in Seq(Symbols), NEW b \in 0..Len(q)
  PROVE  /\ BodyOf(q, b) \in Seq(Symbols) /\ Len(BodyOf(q, b)) = Len(q) - b
         /\ \A i \in 1..(Len(q) - b) : BodyOf(q, b)[i] = q[b + i]
<1> DEFINE n == Len(q) - b
<1>1. n \in Nat /\ \A i \in 1..n : q[b + i] \in Symbols
  <2>1. Len(q) \in Nat
    BY LenProperties
  <2>2. n \in Nat /\ \A i \in 1..n : b + i \in 1..Len(q)
    BY <2>1
  <2>3. QED
    BY <2>2, ElementOfSeq
<1>2. BodyOf(q, b) = [i \in 1..n |-> q[b + i]]
  BY DEF BodyOf
<1> HIDE DEF n
<1>3. BodyOf(q, b) \in [1..n -> Symbols]
  BY <1>1, <1>2
<1>4. BodyOf(q, b) \in Seq(Symbols)
  BY <1>1, <1>3, SeqDef
<1>5. Len(BodyOf(q, b)) = n /\ \A i \in 1..n : BodyOf(q, b)[i] = q[b + i]
  BY <1>1, <1>2
<1>6. QED
  BY <1>4, <1>5 DEF n

\* What stands between two closing braces is a rule of its type.
LEMMA RuleType ==
  ASSUME NEW q \in Seq(Symbols), IsRule(q)
  PROVE  RuleOf(q) \in RuleSet
<1>1. PICK b \in DOMAIN q : Opens(q, b)
  BY IsRuleAt
<1>2. DOMAIN q = 1..Len(q) /\ Len(q) \in Nat
  BY LenProperties
<1>3. b \in Nat /\ b > 1 /\ b - 1 <= Len(q) /\ b \in 0..Len(q)
      /\ \A i \in 1..(b - 1) : q[i] \in Words
  BY <1>1, <1>2 DEF Opens
<1>4. TagsOf(q, b) \in Seq(Words) \ {<<>>}
  BY <1>3, TagsAre
<1>5. Declares(BodyOf(q, b)) \in Bodies
  BY <1>3, BodyIs, DeclaresType
<1>6. RuleOf(q) = [sel |-> TagsOf(q, b), decls |-> Declares(BodyOf(q, b))]
  BY <1>1, RuleAt
<1>7. QED
  BY <1>4, <1>5, <1>6 DEF RuleSet

-----------------------------------------------------------------------------
(* The rules of a text *)

\* What the recursion in RulesOf says.
Finds(f, s) ==
  /\ f[0] = <<>>
  /\ \A n \in 1..Len(s) :
       LET piece == LastPiece(SubSeq(s, 1, n - 1))
       IN f[n] = IF s[n] = "close" /\ IsRule(piece) THEN Append(f[n - 1], RuleOf(piece))
                 ELSE f[n - 1]

\* The part of a text in front of a symbol.
LEMMA Prefix ==
  ASSUME NEW s \in Seq(Symbols), NEW n \in 1..Len(s)
  PROVE  /\ SubSeq(s, 1, n - 1) \in Seq(Symbols) /\ Len(SubSeq(s, 1, n - 1)) = n - 1
         /\ \A i \in 1..(n - 1) : SubSeq(s, 1, n - 1)[i] = s[i]
<1>1. Len(s) \in Nat /\ \A i \in 1..Len(s) : s[i] \in Symbols
  BY LenProperties, ElementOfSeq
<1> DEFINE m == n - 1
<1>2. m \in Nat /\ m \in Int /\ 1 \in Int /\ (\A i \in 1..m : s[i] \in Symbols) /\ m - 1 + 1 = m
  BY <1>1
<1> HIDE DEF m
<1>3. /\ SubSeq(s, 1, m) \in Seq(Symbols)
      /\ Len(SubSeq(s, 1, m)) = IF 1 <= m THEN m - 1 + 1 ELSE 0
      /\ \A i \in 1..(m - 1 + 1) : SubSeq(s, 1, m)[i] = s[1 + i - 1]
  BY <1>2, SubSeqProperties
<1>4. \A i \in 1..m : 1 + i - 1 = i
  BY <1>2
<1>5. Len(SubSeq(s, 1, m)) = m /\ \A i \in 1..m : SubSeq(s, 1, m)[i] = s[i]
  BY <1>2, <1>3, <1>4
<1>6. QED
  BY <1>3, <1>5 DEF m

\* RulesOf is what its recursion says, and of rules.
LEMMA Finding ==
  ASSUME NEW s \in Seq(Symbols)
  PROVE  \E f \in [0..Len(s) -> Seq(RuleSet)] : Finds(f, s) /\ RulesOf(s) = f[Len(s)]
<1> DEFINE N == Len(s)
           S == Seq(RuleSet)
           piece(n) == LastPiece(SubSeq(s, 1, n - 1))
           hit(n) == s[n] = "close" /\ IsRule(piece(n))
           Step(u) == [n \in 0..N |->
              IF n = 0 THEN <<>>
              ELSE IF hit(n) THEN Append(u[n - 1], RuleOf(piece(n))) ELSE u[n - 1]]
           f == CHOOSE u : u = Step(u)
           step == [v \in Nat \X S |->
              IF v[1] \in 1..N /\ hit(v[1]) THEN Append(v[2], RuleOf(piece(v[1]))) ELSE v[2]]
<1>1. RulesOf(s) = f[N]
  BY Zenon DEF RulesOf
<1>2. N \in Nat /\ <<>> \in S
  BY LenProperties
<1>3. \A n \in 1..N : hit(n) => RuleOf(piece(n)) \in RuleSet
  BY Prefix, LastPieceIs, RuleType
<1>4. \A n \in 1..N : hit(n) => \A v \in S : Append(v, RuleOf(piece(n))) \in S
  <2> HIDE DEF hit, piece
  <2>1. QED
    BY <1>3, AppendProperties
<1>5. step \in [Nat \X S -> S]
  <2> HIDE DEF hit, piece, S
  <2>1. QED
    BY <1>4
<1>6. \A n \in 1..N, v \in S :
        step[<<n, v>>] = IF hit(n) THEN Append(v, RuleOf(piece(n))) ELSE v
  <2>1. \A n \in 1..N : n \in Nat
    BY <1>2
  <2> HIDE DEF hit, piece, S
  <2>2. QED
    BY <2>1
<1> HIDE DEF step, S
<1>7. PICK g \in [0..N -> S] : RecursUpTo(g, N, <<>>, step)
  BY <1>2, <1>5, RecursionUpTo
<1>8. \A n \in 1..N : g[n] = IF hit(n) THEN Append(g[n - 1], RuleOf(piece(n))) ELSE g[n - 1]
  <2>1. \A n \in 1..N : n - 1 \in 0..N
    BY <1>2
  <2> HIDE DEF hit, piece, N
  <2>2. QED
    BY <1>6, <1>7, <2>1 DEF RecursUpTo
<1>9. g[0] = <<>>
  BY <1>7 DEF RecursUpTo
<1>10. g = Step(g)
  <2>1. \A n \in 0..N : n = 0 \/ (n # 0 /\ n \in 1..N)
    BY <1>2
  <2> HIDE DEF hit, piece, N
  <2>2. \A n \in 0..N : g[n] = Step(g)[n]
    BY <1>8, <1>9, <2>1
  <2>3. QED
    BY <2>2
<1>11. f = Step(f)
  <2> HIDE DEF Step
  <2>1. QED
    BY <1>10
<1> HIDE DEF f
<1>12. f[0] = <<>> /\ \A n \in 1..N : f[n] = IF hit(n) THEN Append(f[n - 1], RuleOf(piece(n))) ELSE f[n - 1]
  <2>1. 0 \in 0..N /\ \A n \in 1..N : n \in 0..N /\ n # 0
    BY <1>2
  <2> HIDE DEF hit, piece, N
  <2>2. QED
    BY <1>11, <2>1
<1> DEFINE T == {n \in Nat : n <= N => f[n] \in S}
<1>13. 0 \in T
  BY <1>2, <1>12
<1>14. ASSUME NEW n \in Nat, n \in T PROVE n + 1 \in T
  <2>1. ASSUME n + 1 <= N PROVE f[n + 1] \in S
    <3>1. n + 1 \in 1..N /\ (n + 1) - 1 = n /\ n <= N
      BY <1>2, <2>1
    <3>2. f[n] \in S
      BY <1>14, <3>1
    <3> HIDE DEF hit, piece, N, T
    <3>3. f[n + 1] = IF hit(n + 1) THEN Append(f[n], RuleOf(piece(n + 1))) ELSE f[n]
      BY <1>12, <3>1
    <3>4. QED
      BY <1>4, <3>1, <3>2, <3>3
  <2>2. QED
    BY <2>1
<1> HIDE DEF T
<1>15. Nat \subseteq T
  BY <1>13, <1>14, NatAll
<1>16. \A n \in 0..N : f[n] \in S
  BY <1>2, <1>15 DEF T
<1>17. f \in [0..N -> S]
  <2> HIDE DEF hit, piece, N
  <2>1. f = [n \in 0..N |-> f[n]]
    BY <1>11
  <2>2. QED
    BY <1>16, <2>1
<1>18. Finds(f, s)
  BY <1>12, Zenon DEF Finds
<1>19. QED
  BY <1>1, <1>17, <1>18 DEF S

\* An empty text has no rules.
LEMMA RulesEmpty == RulesOf(<<>>) = <<>>
<1>1. <<>> \in Seq(Symbols) /\ Len(<<>>) = 0
  OBVIOUS
<1>2. PICK f \in [0..0 -> Seq(RuleSet)] : Finds(f, <<>>) /\ RulesOf(<<>>) = f[0]
  BY <1>1, Finding
<1>3. QED
  BY <1>2 DEF Finds

\* One more symbol: a rule ends with a closing brace.
LEMMA RulesAppend ==
  ASSUME NEW s \in Seq(Symbols), NEW x \in Symbols
  PROVE  RulesOf(Append(s, x)) =
           IF x = "close" /\ IsRule(LastPiece(s)) THEN Append(RulesOf(s), RuleOf(LastPiece(s)))
           ELSE RulesOf(s)
<1> DEFINE N == Len(s)
           t == Append(s, x)
<1>1. /\ N \in Nat /\ t \in Seq(Symbols) /\ Len(t) = N + 1
      /\ (\A i \in 1..N : t[i] = s[i]) /\ t[N + 1] = x
  BY OneMore
<1>2. PICK f : Finds(f, s) /\ RulesOf(s) = f[N]
  BY Finding
<1>3. PICK g : Finds(g, t) /\ RulesOf(t) = g[N + 1]
  BY <1>1, Finding
<1>4. \A n \in 1..(N + 1) : SubSeq(t, 1, n - 1) = SubSeq(s, 1, n - 1)
  <2>1. ASSUME NEW n \in 1..N PROVE SubSeq(t, 1, n - 1) = SubSeq(s, 1, n - 1)
    <3>1. n \in 1..Len(t) /\ \A i \in 1..(n - 1) : i \in 1..N
      BY <1>1
    <3>2. /\ SubSeq(s, 1, n - 1) \in Seq(Symbols) /\ Len(SubSeq(s, 1, n - 1)) = n - 1
          /\ \A i \in 1..(n - 1) : SubSeq(s, 1, n - 1)[i] = s[i]
      BY Prefix
    <3>3. /\ SubSeq(t, 1, n - 1) \in Seq(Symbols) /\ Len(SubSeq(t, 1, n - 1)) = n - 1
          /\ \A i \in 1..(n - 1) : SubSeq(t, 1, n - 1)[i] = t[i]
      BY <1>1, <3>1, Prefix
    <3> HIDE DEF t
    <3>4. \A i \in 1..(n - 1) : SubSeq(t, 1, n - 1)[i] = SubSeq(s, 1, n - 1)[i]
      BY <1>1, <3>1, <3>2, <3>3
    <3>5. QED
      BY <3>2, <3>3, <3>4, SeqEqual
  <2>2. SubSeq(t, 1, N) = s
    <3>1. N + 1 \in 1..Len(t) /\ (N + 1) - 1 = N
      BY <1>1
    <3>2. /\ SubSeq(t, 1, (N + 1) - 1) \in Seq(Symbols) /\ Len(SubSeq(t, 1, (N + 1) - 1)) = (N + 1) - 1
          /\ \A i \in 1..((N + 1) - 1) : SubSeq(t, 1, (N + 1) - 1)[i] = t[i]
      BY <1>1, <3>1, Prefix
    <3> HIDE DEF t
    <3>3. /\ SubSeq(t, 1, N) \in Seq(Symbols) /\ Len(SubSeq(t, 1, N)) = N
          /\ \A i \in 1..N : SubSeq(t, 1, N)[i] = s[i]
      BY <1>1, <3>1, <3>2
    <3>4. QED
      BY <3>3, SeqEqual
  <2>3. SubSeq(s, 1, N) = s
    BY SubSeqFull
  <2>4. \A n \in 1..(N + 1) : n = N + 1 \/ n \in 1..N
    BY <1>1
  <2>5. (N + 1) - 1 = N
    BY <1>1
  <2> HIDE DEF t, N
  <2>6. QED
    BY <2>1, <2>2, <2>3, <2>4, <2>5
<1>5. SubSeq(s, 1, N) = s
  BY SubSeqFull
<1> DEFINE piece(n) == LastPiece(SubSeq(s, 1, n - 1))
           hit(n) == s[n] = "close" /\ IsRule(piece(n))
           hitMore(n) == t[n] = "close" /\ IsRule(piece(n))
<1>6. /\ f[0] = <<>>
      /\ \A n \in 1..N : f[n] = IF hit(n) THEN Append(f[n - 1], RuleOf(piece(n))) ELSE f[n - 1]
  BY <1>2, Zenon DEF Finds
<1>7. /\ g[0] = <<>>
      /\ \A n \in 1..(N + 1) :
           g[n] = IF hitMore(n) THEN Append(g[n - 1], RuleOf(piece(n))) ELSE g[n - 1]
  <2>1. g[0] = <<>>
    BY <1>3 DEF Finds
  <2>2. ASSUME NEW n \in 1..(N + 1)
        PROVE  g[n] = IF hitMore(n) THEN Append(g[n - 1], RuleOf(piece(n))) ELSE g[n - 1]
    <3>1. n \in 1..Len(t)
      BY <1>1
    <3>2. LET r == LastPiece(SubSeq(t, 1, n - 1))
          IN g[n] = IF t[n] = "close" /\ IsRule(r) THEN Append(g[n - 1], RuleOf(r)) ELSE g[n - 1]
      BY <1>3, <3>1, Zenon DEF Finds
    <3>3. SubSeq(t, 1, n - 1) = SubSeq(s, 1, n - 1)
      BY <1>4
    <3>4. QED
      BY <3>2, <3>3, Zenon
  <2>3. QED
    BY <2>1, <2>2
<1>8. \A n \in 1..N : hitMore(n) <=> hit(n)
  <2> HIDE DEF piece, t, N
  <2>1. QED
    BY <1>1
<1>9. (N + 1) - 1 = N /\ N + 1 \in 1..(N + 1) /\ \A n \in 1..N : n \in 1..(N + 1)
  BY <1>1
<1>10. /\ piece(N + 1) = LastPiece(s)
       /\ hitMore(N + 1) <=> (x = "close" /\ IsRule(LastPiece(s)))
  <2> HIDE DEF t, N
  <2>1. SubSeq(s, 1, (N + 1) - 1) = s
    BY <1>5, <1>9
  <2>2. piece(N + 1) = LastPiece(s)
    BY <2>1
  <2> HIDE DEF piece
  <2>3. QED
    BY <1>1, <2>2
<1>11. \A n \in 0..N : g[n] = f[n]
  <2> DEFINE T == {n \in Nat : n <= N => g[n] = f[n]}
  <2>1. 0 \in T
    BY <1>6, <1>7
  <2>2. ASSUME NEW n \in Nat, n \in T PROVE n + 1 \in T
    <3>1. ASSUME n + 1 <= N PROVE g[n + 1] = f[n + 1]
      <4>1. n + 1 \in 1..N /\ n + 1 \in 1..(N + 1) /\ (n + 1) - 1 = n /\ n <= N
        BY <1>1, <3>1
      <4>2. g[n] = f[n]
        BY <2>2, <4>1
      <4> HIDE DEF piece, hit, hitMore, N, t, T
      <4>3. QED
        BY <1>6, <1>7, <1>8, <4>1, <4>2
    <3>2. QED
      BY <3>1
  <2> HIDE DEF T
  <2>3. Nat \subseteq T
    BY <2>1, <2>2, NatAll
  <2>4. QED
    BY <1>1, <2>3 DEF T
<1>12. g[N] = f[N]
  BY <1>1, <1>11
<1> HIDE DEF piece, hitMore, N
<1>13. g[N + 1] = IF hitMore(N + 1) THEN Append(g[N], RuleOf(piece(N + 1))) ELSE g[N]
  BY <1>7, <1>9
<1>14. QED
  BY <1>2, <1>3, <1>10, <1>12, <1>13

-----------------------------------------------------------------------------
(* What the parser knows of a body *)

\* Where the parser stands behind the last semicolon of b, at k.
Stands(where, p, b, k) ==
  /\ k # 0 => b[k] = "semicolon"
  /\ \A i \in (k + 1)..Len(b) : b[i] # "semicolon"
  /\ where = "declaration" => Len(b) = k
  /\ where = "colon" => Len(b) = k + 1 /\ b[k + 1] \in Words /\ p = Fold[b[k + 1]]
  /\ where = "value" => /\ Len(b) = k + 2 /\ b[k + 1] \in Words /\ b[k + 2] = "colon"
                        /\ p = Fold[b[k + 1]]
  /\ where \in {"semicolon", "skipDeclaration"} =>
       /\ k < Len(b)
       /\ Len(b) = k + 1 => b[k + 1] \notin Words
       /\ Len(b) = k + 2 => ~(b[k + 1] \in Words /\ b[k + 2] = "colon")

Standing(where, p, b) == \E k \in 0..Len(b) : Stands(where, p, b, k)

\* Only a word behind a word and a colon completes a pair.
LEMMA CompletesAt ==
  ASSUME NEW b \in Seq(Symbols), NEW k \in 0..Len(b), NEW where, NEW p, NEW x,
         Stands(where, p, b, k), Completes(b, x)
  PROVE  Len(b) = k + 2 /\ b[k + 1] \in Words /\ b[k + 2] = "colon" /\ x \in Words
<1> DEFINE N == Len(b)
<1>1. N \in Nat
  BY LenProperties
<1>2. /\ N >= 2 /\ (N = 2 \/ b[N - 2] = "semicolon")
      /\ b[N - 1] \in Words /\ b[N] = "colon" /\ x \in Words
  BY DEF Completes
<1>3. /\ k # 0 => b[k] = "semicolon"
      /\ \A i \in (k + 1)..N : b[i] # "semicolon"
  BY DEF Stands
<1>4. k \in 0..N
  OBVIOUS
<1> HIDE DEF N
<1>5. k # N /\ k # N - 1
  BY <1>1, <1>2, <1>3, <1>4, SignsNoWords
<1>6. k <= N - 2
  BY <1>1, <1>2, <1>4, <1>5
<1>7. N # 2 => ~(N - 2 \in (k + 1)..N)
  BY <1>2, <1>3
<1>8. k = N - 2
  BY <1>1, <1>2, <1>4, <1>6, <1>7
<1>9. N = k + 2 /\ k + 1 = N - 1
  BY <1>1, <1>2, <1>4, <1>8
<1>10. QED
  BY <1>2, <1>9 DEF N

\* Where a declaration stands after one more symbol.
LEMMA StandingStep ==
  ASSUME NEW b \in Seq(Symbols), NEW x \in Symbols, NEW where \in InBody, NEW p,
         Standing(where, p, b)
  PROVE  LET t == Append(b, x)
         IN /\ where = "declaration" /\ x \in Words =>
                 ~Completes(b, x) /\ Standing("colon", Fold[x], t)
            /\ where = "colon" /\ x = "colon" => ~Completes(b, x) /\ Standing("value", p, t)
            /\ where = "value" /\ x \in Words =>
                 /\ Completes(b, x) /\ p = Fold[b[Len(b) - 1]]
                 /\ \A r : Standing("semicolon", r, t)
            /\ x = "semicolon" => ~Completes(b, x) /\ \A r : Standing("declaration", r, t)
            /\ (/\ x # "semicolon"
                /\ ~(x \in Words /\ where \in {"declaration", "value"})
                /\ ~(x = "colon" /\ where = "colon"))
               => ~Completes(b, x) /\ \A r : Standing("skipDeclaration", r, t)
<1> DEFINE N == Len(b)
           t == Append(b, x)
<1>1. /\ N \in Nat /\ t \in Seq(Symbols) /\ Len(t) = N + 1
      /\ (\A i \in 1..N : t[i] = b[i]) /\ t[N + 1] = x
  BY OneMore
<1>2. PICK k \in 0..N : Stands(where, p, b, k)
  BY DEF Standing
<1>3. /\ k # 0 => b[k] = "semicolon"
      /\ \A i \in (k + 1)..N : b[i] # "semicolon"
  BY <1>2 DEF Stands
<1>4. /\ where = "declaration" => N = k
      /\ where = "colon" => N = k + 1 /\ b[k + 1] \in Words /\ p = Fold[b[k + 1]]
      /\ where = "value" => N = k + 2 /\ b[k + 1] \in Words /\ b[k + 2] = "colon" /\ p = Fold[b[k + 1]]
      /\ where \in {"semicolon", "skipDeclaration"} =>
           /\ k < N /\ (N = k + 1 => b[k + 1] \notin Words)
           /\ N = k + 2 => ~(b[k + 1] \in Words /\ b[k + 2] = "colon")
  BY <1>2 DEF Stands
<1>5. Completes(b, x) => N = k + 2 /\ b[k + 1] \in Words /\ b[k + 2] = "colon" /\ x \in Words
  BY <1>2, CompletesAt
<1>6. Len(b) = N /\ k \in 0..N
  OBVIOUS
<1> HIDE DEF t, N
<1>7. k \in 0..Len(t) /\ N + 1 \in 0..Len(t)
  BY <1>1, <1>6
<1>8. k # 0 => t[k] = "semicolon"
  <2>1. k # 0 => k \in 1..N
    BY <1>1, <1>6
  <2>2. QED
    BY <1>1, <1>3, <2>1
<1>9. x # "semicolon" => \A i \in (k + 1)..Len(t) : t[i] # "semicolon"
  <2>1. \A i \in (k + 1)..Len(t) : i = N + 1 \/ (i \in (k + 1)..N /\ i \in 1..N)
    BY <1>1, <1>6
  <2>2. QED
    BY <1>1, <1>3, <2>1
<1>10. ASSUME x = "semicolon" PROVE ~Completes(b, x) /\ \A r : Standing("declaration", r, t)
  <2>1. ~Completes(b, x)
    BY <1>5, <1>10, SignsNoWords
  <2>2. \A i \in ((N + 1) + 1)..Len(t) : FALSE
    BY <1>1
  <2>3. \A r : Stands("declaration", r, t, N + 1)
    BY <1>1, <1>10, <2>2 DEF Stands
  <2>4. QED
    BY <1>7, <2>1, <2>3 DEF Standing
<1>11. ASSUME where = "declaration", x \in Words
       PROVE  ~Completes(b, x) /\ Standing("colon", Fold[x], t)
  <2>1. N = k /\ N # k + 2
    BY <1>1, <1>4, <1>6, <1>11
  <2>2. x # "semicolon"
    BY <1>11, SignsNoWords
  <2>3. Stands("colon", Fold[x], t, k)
    BY <1>1, <1>8, <1>9, <1>11, <2>1, <2>2 DEF Stands
  <2>4. QED
    BY <1>5, <1>7, <2>1, <2>3 DEF Standing
<1>12. ASSUME where = "colon", x = "colon"
       PROVE  ~Completes(b, x) /\ Standing("value", p, t)
  <2>1. /\ N = k + 1 /\ N # k + 2 /\ Len(t) = k + 2 /\ k + 1 \in 1..N
    BY <1>1, <1>4, <1>6, <1>12
  <2>2. t[k + 1] = b[k + 1] /\ t[k + 2] = "colon"
    BY <1>1, <1>6, <1>12, <2>1
  <2>3. x # "semicolon"
    BY <1>12
  <2>4. Stands("value", p, t, k)
    BY <1>4, <1>8, <1>9, <1>12, <2>1, <2>2, <2>3 DEF Stands
  <2>5. QED
    BY <1>5, <1>7, <2>1, <2>4 DEF Standing
<1>13. ASSUME where = "value", x \in Words
       PROVE  /\ Completes(b, x) /\ p = Fold[b[N - 1]]
              /\ \A r : Standing("semicolon", r, t)
  <2>1. /\ N = k + 2 /\ N >= 2 /\ N - 1 = k + 1 /\ N - 2 = k /\ (N = 2 <=> k = 0)
        /\ Len(t) = k + 3 /\ k < Len(t) /\ Len(t) # k + 1 /\ Len(t) # k + 2
    BY <1>1, <1>4, <1>6, <1>13
  <2>2. b[k + 1] \in Words /\ b[k + 2] = "colon" /\ p = Fold[b[k + 1]]
    BY <1>4, <1>13
  <2>3. Completes(b, x)
    BY <1>3, <1>6, <1>13, <2>1, <2>2 DEF Completes
  <2>4. x # "semicolon"
    BY <1>13, SignsNoWords
  <2>5. \A r : Stands("semicolon", r, t, k)
    BY <1>8, <1>9, <2>1, <2>4 DEF Stands
  <2>6. QED
    BY <1>7, <2>1, <2>2, <2>3, <2>5 DEF Standing
<1>14. ASSUME x # "semicolon",
              ~(x \in Words /\ where \in {"declaration", "value"}),
              ~(x = "colon" /\ where = "colon")
       PROVE  ~Completes(b, x) /\ \A r : Standing("skipDeclaration", r, t)
  <2>1. where \in {"declaration", "colon", "value", "semicolon", "skipDeclaration"}
    BY DEF InBody
  <2>2. ~Completes(b, x)
    <3>1. SUFFICES ASSUME Completes(b, x) PROVE FALSE
      OBVIOUS
    <3>2. N = k + 2 /\ b[k + 1] \in Words /\ b[k + 2] = "colon" /\ x \in Words
      BY <1>5, <3>1
    <3>3. where # "declaration" /\ where # "value"
      BY <1>14, <3>2
    <3>4. where # "colon"
      BY <1>4, <1>6, <3>2
    <3>5. QED
      BY <1>4, <2>1, <3>2, <3>3, <3>4
  <2>3. k < Len(t)
    BY <1>1, <1>6
  <2>4. Len(t) = k + 1 => t[k + 1] \notin Words
    <3>1. SUFFICES ASSUME Len(t) = k + 1 PROVE t[k + 1] \notin Words
      OBVIOUS
    <3>2. N = k /\ t[k + 1] = x
      BY <1>1, <1>6, <3>1
    <3>3. where = "declaration"
      BY <1>4, <1>6, <2>1, <3>2
    <3>4. QED
      BY <1>14, <3>2, <3>3
  <2>5. Len(t) = k + 2 => ~(t[k + 1] \in Words /\ t[k + 2] = "colon")
    <3>1. SUFFICES ASSUME Len(t) = k + 2, t[k + 1] \in Words, t[k + 2] = "colon" PROVE FALSE
      OBVIOUS
    <3>2. N = k + 1 /\ k + 1 \in 1..N /\ t[k + 2] = x /\ t[k + 1] = b[k + 1]
      BY <1>1, <1>6, <3>1
    <3>3. where = "colon"
      BY <1>4, <1>6, <2>1, <3>1, <3>2
    <3>4. QED
      BY <1>14, <3>1, <3>2, <3>3
  <2>6. \A r : Stands("skipDeclaration", r, t, k)
    BY <1>8, <1>9, <1>14, <2>3, <2>4, <2>5 DEF Stands
  <2>7. QED
    BY <1>7, <2>2, <2>6 DEF Standing
<1>15. QED
  BY <1>6, <1>10, <1>11, <1>12, <1>13, <1>14 DEF t

ReadsBody(b, pairs, where, p) == pairs = Declares(b) /\ Standing(where, p, b)

\* One symbol of a declaration.
LEMMA BodyStep ==
  ASSUME rest \in Seq(Symbols), Declaration, NEW b \in Seq(Symbols),
         ReadsBody(b, decls, at, prop)
  PROVE  /\ at \in InBody
         /\ \E x \in Symbols : /\ Read(x) /\ x # "close" /\ ~(at = "declaration" /\ x = "nul")
                               /\ at' \in InBody /\ UNCHANGED <<sel, rules>>
                               /\ ReadsBody(Append(b, x), decls', at', prop')
<1> USE DEF ReadsBody
<1>1. Words \subseteq Symbols /\ Signs \subseteq Symbols
  BY DEF Symbols
<1>2. CASE Property
  <2>1. PICK w \in Words : Read(w) /\ prop' = Fold[w]
    BY <1>2 DEF Property
  <2>2. at = "declaration" /\ at' = "colon" /\ UNCHANGED <<sel, decls, rules>>
    BY <1>2 DEF Property
  <2>3. at \in InBody /\ at' \in InBody /\ w \in Symbols /\ w # "close" /\ w # "nul"
    BY <1>1, <2>2, SignsNoWords DEF InBody
  <2>4. ~Completes(b, w) /\ Standing("colon", Fold[w], Append(b, w))
    BY <2>2, <2>3, StandingStep
  <2>5. Declares(Append(b, w)) = Declares(b)
    BY <2>3, <2>4, DeclaresSame
  <2>6. QED
    BY <2>1, <2>2, <2>3, <2>4, <2>5
<1>3. CASE Colon
  <2>1. Read("colon") /\ at = "colon" /\ at' = "value" /\ UNCHANGED <<sel, prop, decls, rules>>
    BY <1>3 DEF Colon
  <2>2. at \in InBody /\ at' \in InBody /\ "colon" \in Symbols
    BY <1>1, <2>1 DEF InBody, Signs
  <2>3. ~Completes(b, "colon") /\ Standing("value", prop, Append(b, "colon"))
    BY <2>1, <2>2, StandingStep
  <2>4. Declares(Append(b, "colon")) = Declares(b)
    BY <2>2, <2>3, DeclaresSame
  <2>5. QED
    BY <2>1, <2>2, <2>3, <2>4
<1>4. CASE Value
  <2>1. PICK w \in Words : Read(w) /\ decls' = Store(decls, prop, w)
    BY <1>4 DEF Value
  <2>2. at = "value" /\ at' = "semicolon" /\ UNCHANGED <<sel, prop, rules>>
    BY <1>4 DEF Value
  <2>3. at \in InBody /\ at' \in InBody /\ w \in Symbols /\ w # "close" /\ w # "nul"
    BY <1>1, <2>2, SignsNoWords DEF InBody
  <2>4. Completes(b, w) /\ prop = Fold[b[Len(b) - 1]] /\ Standing("semicolon", prop, Append(b, w))
    BY <2>2, <2>3, StandingStep
  <2>5. Declares(Append(b, w)) = Store(Declares(b), prop, w)
    BY <2>3, <2>4, DeclaresMore
  <2>6. QED
    BY <2>1, <2>2, <2>3, <2>4, <2>5
<1>5. CASE Semicolon
  <2>1. Read("semicolon") /\ at \in InBody /\ at' = "declaration" /\ UNCHANGED <<sel, prop, decls, rules>>
    BY <1>5 DEF Semicolon
  <2>2. at' \in InBody /\ "semicolon" \in Symbols
    BY <1>1, <2>1 DEF InBody, Signs
  <2>3. ~Completes(b, "semicolon") /\ Standing("declaration", prop, Append(b, "semicolon"))
    BY <2>1, <2>2, StandingStep
  <2>4. Declares(Append(b, "semicolon")) = Declares(b)
    BY <2>2, <2>3, DeclaresSame
  <2>5. QED
    BY <2>1, <2>2, <2>3, <2>4
<1>6. CASE BadDeclaration
  <2>1. PICK x \in (Words \cup Signs) \ {"semicolon", "close"} :
          /\ Read(x)
          /\ ~(x \in Words /\ at \in {"declaration", "value"})
          /\ ~(x = "colon" /\ at = "colon") /\ ~(x = "nul" /\ at = "declaration")
    BY <1>6 DEF BadDeclaration
  <2>2. at \in InBody /\ at' = "skipDeclaration" /\ UNCHANGED <<sel, prop, decls, rules>>
    BY <1>6 DEF BadDeclaration
  <2>3. x \in Symbols /\ at' \in InBody
    BY <2>1, <2>2 DEF Symbols, InBody
  <2>4. ~Completes(b, x) /\ Standing("skipDeclaration", prop, Append(b, x))
    BY <2>1, <2>2, <2>3, StandingStep
  <2>5. Declares(Append(b, x)) = Declares(b)
    BY <2>3, <2>4, DeclaresSame
  <2>6. QED
    BY <2>1, <2>2, <2>3, <2>4, <2>5
<1>7. QED
  BY <1>2, <1>3, <1>4, <1>5, <1>6 DEF Declaration

-----------------------------------------------------------------------------
(* What the parser knows of a piece of a sheet *)

\* No end makes a rule of it.
Spoiled(q) ==
  \/ \E i \in DOMAIN q : /\ q[i] \notin Words /\ (\A j \in 1..(i - 1) : q[j] \in Words)
                         /\ q[i] # "open" \/ i = 1
  \/ \E b \in DOMAIN q : Opens(q, b) /\ ~NoNul(q, b)

\* A spoiled piece is no rule, whatever its body.
LEMMA SpoiledIsNoRule ==
  ASSUME NEW q \in Seq(Symbols), Spoiled(q)
  PROVE  ~IsRule(q)
<1> SUFFICES ASSUME NEW c \in DOMAIN q, Opens(q, c), NoNul(q, c) PROVE FALSE
  BY IsRuleAt
<1>1. DOMAIN q = 1..Len(q) /\ Len(q) \in Nat
  BY LenProperties
<1>2. CASE \E i \in DOMAIN q : /\ q[i] \notin Words /\ (\A j \in 1..(i - 1) : q[j] \in Words)
                               /\ q[i] # "open" \/ i = 1
  <2>1. PICK i \in DOMAIN q : /\ q[i] \notin Words /\ (\A j \in 1..(i - 1) : q[j] \in Words)
                              /\ q[i] # "open" \/ i = 1
    BY <1>2
  <2>2. c > 1 /\ q[c] = "open" /\ q[c] \notin Words /\ \A j \in 1..(c - 1) : q[j] \in Words
    BY SignsNoWords DEF Opens
  <2>3. (i < c => i \in 1..(c - 1)) /\ (c < i => c \in 1..(i - 1)) /\ i \in Nat /\ c \in Nat
    BY <1>1
  <2>4. i = c
    BY <2>1, <2>2, <2>3
  <2>5. QED
    BY <2>1, <2>2, <2>4
<1>3. CASE \E b \in DOMAIN q : Opens(q, b) /\ ~NoNul(q, b)
  BY <1>3, OneBrace
<1>4. QED
  BY <1>2, <1>3 DEF Spoiled

\* What is behind the brace that opens a body joins the body.
LEMMA RuleGrows ==
  ASSUME NEW q \in Seq(Symbols), NEW x \in Symbols, NEW b \in DOMAIN q, Opens(q, b)
  PROVE  LET r == Append(q, x)
         IN /\ b \in DOMAIN r /\ Opens(r, b) /\ TagsOf(r, b) = TagsOf(q, b)
            /\ BodyOf(q, b) \in Seq(Symbols)
            /\ BodyOf(r, b) = Append(BodyOf(q, b), x)
            /\ NoNul(r, b) <=> /\ NoNul(q, b)
                               /\ x = "nul" => Len(q) > b /\ q[Len(q)] # "semicolon"
<1> DEFINE N == Len(q)
           r == Append(q, x)
<1>1. /\ N \in Nat /\ DOMAIN q = 1..N /\ r \in Seq(Symbols) /\ Len(r) = N + 1 /\ DOMAIN r = 1..(N + 1)
      /\ (\A i \in 1..N : r[i] = q[i]) /\ r[N + 1] = x
  BY OneMore
<1>2. b > 1 /\ q[b] = "open" /\ \A i \in 1..(b - 1) : q[i] \in Words
  BY DEF Opens
<1>3. Len(q) = N /\ b \in DOMAIN q
  OBVIOUS
<1>4. /\ BodyOf(q, b) \in Seq(Symbols) /\ Len(BodyOf(q, b)) = N - b
      /\ \A i \in 1..(N - b) : BodyOf(q, b)[i] = q[b + i]
  <2>1. b \in 0..Len(q)
    BY <1>1
  <2>2. QED
    BY <2>1, BodyIs
<1>5. /\ BodyOf(r, b) \in Seq(Symbols) /\ Len(BodyOf(r, b)) = Len(r) - b
      /\ \A i \in 1..(Len(r) - b) : BodyOf(r, b)[i] = r[b + i]
  <2>1. b \in 0..Len(r)
    BY <1>1
  <2>2. QED
    BY <1>1, <2>1, BodyIs
<1> HIDE DEF r, N
<1>6. b \in 1..N /\ b \in Nat
  BY <1>1, <1>3
<1>7. b \in DOMAIN r /\ Opens(r, b)
  <2>1. \A i \in 1..(b - 1) : i \in 1..N
    BY <1>1, <1>6
  <2>2. QED
    BY <1>1, <1>2, <1>6, <2>1 DEF Opens
<1>8. TagsOf(r, b) = TagsOf(q, b)
  <2>1. 1 \in 1..N /\ \A i \in 1..(b - 1) : i \in 1..N
    BY <1>1, <1>6
  <2>2. r[1] = q[1] /\ \A i \in 1..(b - 1) : r[i] = q[i]
    BY <1>1, <2>1
  <2>3. QED
    BY <2>2 DEF TagsOf
<1>9. BodyOf(r, b) = Append(BodyOf(q, b), x)
  <2> DEFINE M == N - b
             c == BodyOf(q, b)
             d == BodyOf(r, b)
  <2>1. M \in Nat /\ Len(r) - b = M + 1 /\ b + (M + 1) = N + 1 /\ \A i \in 1..M : b + i \in 1..N
    BY <1>1, <1>6
  <2>2. /\ c \in Seq(Symbols) /\ Len(c) = M /\ (\A i \in 1..M : c[i] = q[b + i])
        /\ d \in Seq(Symbols) /\ Len(d) = M + 1 /\ \A i \in 1..(M + 1) : d[i] = r[b + i]
    BY <1>4, <1>5, <2>1
  <2> HIDE DEF M, c, d
  <2>3. /\ Append(c, x) \in Seq(Symbols) /\ Len(Append(c, x)) = M + 1
        /\ (\A i \in 1..M : Append(c, x)[i] = c[i]) /\ Append(c, x)[M + 1] = x
    BY <2>2, OneMore
  <2>4. \A i \in 1..(M + 1) : d[i] = Append(c, x)[i]
    <3>1. M + 1 \in 1..(M + 1) /\ \A i \in 1..(M + 1) : i = M + 1 \/ i \in 1..M
      BY <2>1
    <3>2. d[M + 1] = x
      BY <1>1, <2>1, <2>2, <3>1
    <3>3. \A i \in 1..M : i \in 1..(M + 1) /\ d[i] = c[i]
      BY <1>1, <2>1, <2>2
    <3>4. QED
      BY <2>3, <3>1, <3>2, <3>3
  <2>5. d = Append(c, x)
    BY <2>2, <2>3, <2>4, SeqEqual
  <2>6. QED
    BY <2>5 DEF c, d
<1>10. NoNul(r, b) <=> NoNul(q, b) /\ (x = "nul" => N > b /\ q[N] # "semicolon")
  <2> DEFINE good(s, i) == s[i] = "nul" => i > b + 1 /\ s[i - 1] # "semicolon"
  <2>1. NoNul(r, b) <=> \A i \in (b + 1)..(N + 1) : good(r, i)
    BY <1>1, Zenon DEF NoNul
  <2>2. NoNul(q, b) <=> \A i \in (b + 1)..N : good(q, i)
    BY <1>3, Zenon DEF NoNul
  <2>3. N + 1 \in (b + 1)..(N + 1)
        /\ \A i \in (b + 1)..(N + 1) : i = N + 1 \/ i \in (b + 1)..N
    BY <1>1, <1>6
  <2>4. \A i \in (b + 1)..N : i \in (b + 1)..(N + 1) /\ i \in 1..N /\ (i > b + 1 => i - 1 \in 1..N)
    BY <1>1, <1>6
  <2>5. \A i \in (b + 1)..N : good(r, i) <=> good(q, i)
    BY <1>1, <2>4
  <2>6. good(r, N + 1) <=> (x = "nul" => N > b /\ q[N] # "semicolon")
    <3>1. (N + 1) - 1 = N /\ (N + 1 > b + 1 <=> N > b) /\ N \in 1..N
      BY <1>1, <1>6
    <3>2. r[N] = q[N] /\ r[N + 1] = x
      BY <1>1, <3>1
    <3>3. QED
      BY <3>1, <3>2
  <2> HIDE DEF good
  <2>7. QED
    BY <2>1, <2>2, <2>3, <2>4, <2>5, <2>6
<1>11. QED
  BY <1>3, <1>4, <1>7, <1>8, <1>9, <1>10 DEF r

\* And none after one more symbol.
LEMMA SpoiledAppend ==
  ASSUME NEW q \in Seq(Symbols), NEW x \in Symbols, Spoiled(q)
  PROVE  Spoiled(Append(q, x))
<1> DEFINE N == Len(q)
           r == Append(q, x)
<1>1. /\ N \in Nat /\ DOMAIN q = 1..N /\ DOMAIN r = 1..(N + 1)
      /\ \A i \in 1..N : r[i] = q[i]
  BY OneMore
<1>2. CASE \E i \in DOMAIN q : /\ q[i] \notin Words /\ (\A j \in 1..(i - 1) : q[j] \in Words)
                               /\ q[i] # "open" \/ i = 1
  <2>1. PICK i \in DOMAIN q : /\ q[i] \notin Words /\ (\A j \in 1..(i - 1) : q[j] \in Words)
                              /\ q[i] # "open" \/ i = 1
    BY <1>2
  <2> HIDE DEF r, N
  <2>2. i \in DOMAIN r /\ i \in 1..N /\ \A j \in 1..(i - 1) : j \in 1..N
    BY <1>1, <2>1
  <2>3. r[i] \notin Words /\ (\A j \in 1..(i - 1) : r[j] \in Words) /\ (r[i] # "open" \/ i = 1)
    BY <1>1, <2>1, <2>2
  <2>4. Spoiled(r)
    BY <2>2, <2>3 DEF Spoiled
  <2>5. QED
    BY <2>4 DEF r
<1>3. CASE \E b \in DOMAIN q : Opens(q, b) /\ ~NoNul(q, b)
  <2>1. PICK b \in DOMAIN q : Opens(q, b) /\ ~NoNul(q, b)
    BY <1>3
  <2>2. b \in DOMAIN r /\ Opens(r, b) /\ ~NoNul(r, b)
    BY <2>1, RuleGrows
  <2>3. QED
    BY <2>2 DEF Spoiled
<1>4. QED
  BY <1>2, <1>3 DEF Spoiled

ReadsRule(q, b, tags, pairs, where, p) ==
  /\ Opens(q, b) /\ NoNul(q, b) /\ tags = TagsOf(q, b)
  /\ ReadsBody(BodyOf(q, b), pairs, where, p)

\* The parser of a sheet: the rules it has, and where it is in the last piece.
SheetInv ==
  LET q == LastPiece(text)
  IN /\ rules = RulesOf(text)
     /\ at \in {"rule", "selector", "skipRule"} \cup InBody
     /\ at = "rule" => q = <<>>
     /\ at = "selector" => /\ q # <<>> /\ \A i \in DOMAIN q : q[i] \in Words
                           /\ sel = TagsOf(q, Len(q) + 1)
     /\ at = "skipRule" => Spoiled(q)
     /\ at \in InBody => \E b \in DOMAIN q : ReadsRule(q, b, sel, decls, at, prop)

\* What a symbol does to the rules and the last piece.
LEMMA SheetRead ==
  ASSUME text \in Seq(Symbols), NEW x \in Symbols, Read(x)
  PROVE  /\ LastPiece(text) \in Seq(Symbols)
         /\ LastPiece(text') = IF x = "close" THEN <<>> ELSE Append(LastPiece(text), x)
         /\ RulesOf(text') = IF x = "close" /\ IsRule(LastPiece(text))
                             THEN Append(RulesOf(text), RuleOf(LastPiece(text)))
                             ELSE RulesOf(text)
<1>1. text' = Append(text, x)
  BY DEF Read
<1>2. QED
  BY <1>1, LastPieceIs, LastPieceAppend, RulesAppend

\* Words alone are no rule, and what spoils a piece is the first other symbol.
LEMMA WordsAreNoRule ==
  ASSUME NEW q \in Seq(Symbols), \A i \in DOMAIN q : q[i] \in Words
  PROVE  ~IsRule(q)
<1>1. SUFFICES ASSUME NEW b \in DOMAIN q, Opens(q, b) PROVE FALSE
  BY IsRuleAt
<1>2. QED
  BY <1>1, SignsNoWords DEF Opens

\* Words and a sign that opens no body are spoiled.
LEMMA WordsSpoiled ==
  ASSUME NEW q \in Seq(Symbols), \A i \in DOMAIN q : q[i] \in Words,
         NEW x \in Symbols \ Words, x # "open" \/ q = <<>>
  PROVE  Spoiled(Append(q, x))
<1> DEFINE N == Len(q)
           r == Append(q, x)
<1>1. /\ N \in Nat /\ DOMAIN q = 1..N /\ DOMAIN r = 1..(N + 1)
      /\ (\A i \in 1..N : r[i] = q[i]) /\ r[N + 1] = x
  BY OneMore
<1>2. q = <<>> => N = 0
  BY EmptySeq
<1> HIDE DEF r, N
<1>3. N + 1 \in DOMAIN r /\ (N + 1) - 1 = N /\ (N = 0 => N + 1 = 1)
  BY <1>1
<1>4. /\ r[N + 1] \notin Words /\ (\A j \in 1..((N + 1) - 1) : r[j] \in Words)
      /\ r[N + 1] # "open" \/ N + 1 = 1
  BY <1>1, <1>2, <1>3
<1>5. Spoiled(r)
  BY <1>3, <1>4 DEF Spoiled
<1>6. QED
  BY <1>5 DEF r

\* A word of a selector.
LEMMA SelectorStep ==
  ASSUME text \in Seq(Symbols), rest \in Seq(Symbols), SheetInv, SelectorWord
  PROVE  SheetInv'
<1> DEFINE q == LastPiece(text)
           r == LastPiece(text')
<1>1. PICK w \in Words : /\ Read(w) /\ \/ at = "rule" /\ sel' = <<Fold[w]>>
                                       \/ at = "selector" /\ sel' = Append(sel, w)
  BY DEF SelectorWord
<1>2. at' = "selector" /\ rules' = rules
  BY DEF SelectorWord
<1>3. w \in Symbols /\ w # "close"
  BY SignsNoWords DEF Symbols
<1>4. q \in Seq(Symbols) /\ r = Append(q, w) /\ RulesOf(text') = RulesOf(text)
  BY <1>1, <1>3, SheetRead
<1>5. rules = RulesOf(text) /\ (at = "rule" => q = <<>>)
      /\ (at = "selector" => /\ q # <<>> /\ \A i \in DOMAIN q : q[i] \in Words
                             /\ sel = TagsOf(q, Len(q) + 1))
  BY DEF SheetInv
<1> DEFINE N == Len(q)
<1>6. /\ N \in Nat /\ DOMAIN q = 1..N /\ r \in Seq(Symbols) /\ Len(r) = N + 1 /\ DOMAIN r = 1..(N + 1)
      /\ (\A i \in 1..N : r[i] = q[i]) /\ r[N + 1] = w
  BY <1>3, <1>4, OneMore
<1>7. (q = <<>> => N = 0) /\ (q # <<>> => N > 0) /\ r # <<>>
  BY <1>4, <1>6, EmptySeq
<1>8. Len(q) = N
  OBVIOUS
<1> HIDE DEF q, r, N
<1>9. \A i \in DOMAIN r : r[i] \in Words
  <2>1. \A i \in 1..N : q[i] \in Words
    BY <1>1, <1>5, <1>6, <1>7
  <2>2. \A i \in 1..(N + 1) : i = N + 1 \/ i \in 1..N
    BY <1>6
  <2>3. QED
    BY <1>6, <2>1, <2>2
<1>10. sel' = TagsOf(r, Len(r) + 1)
  <2>1. TagsOf(r, Len(r) + 1) = [i \in 1..(N + 1) |-> IF i = 1 THEN Fold[r[1]] ELSE r[i]]
    <3>1. (Len(r) + 1) - 1 = N + 1
      BY <1>6
    <3>2. QED
      BY <3>1 DEF TagsOf
  <2>2. CASE at = "rule"
    <3>1. N = 0 /\ r[1] = w /\ N + 1 = 1
      BY <1>5, <1>6, <1>7, <2>2
    <3>2. sel' = <<Fold[w]>>
      BY <1>1, <2>2
    <3>3. [i \in 1..1 |-> IF i = 1 THEN Fold[w] ELSE r[i]] = <<Fold[w]>>
      OBVIOUS
    <3>4. QED
      BY <2>1, <3>1, <3>2, <3>3
  <2>3. CASE at = "selector"
    <3>1. N > 0 /\ 1 \in 1..N /\ N + 1 # 1
      BY <1>5, <1>6, <1>7, <2>3
    <3>2. sel = [i \in 1..N |-> IF i = 1 THEN Fold[q[1]] ELSE q[i]]
      <4>1. (N + 1) - 1 = N /\ sel = TagsOf(q, N + 1)
        BY <1>5, <1>6, <1>8, <2>3
      <4>2. QED
        BY <4>1 DEF TagsOf
    <3>3. sel \in Seq(Words)
      <4>1. /\ N + 1 \in Nat /\ N + 1 > 1 /\ (N + 1) - 1 <= Len(q)
            /\ \A i \in 1..((N + 1) - 1) : q[i] \in Words
        BY <1>5, <1>6, <1>8, <2>3, <3>1
      <4>2. TagsOf(q, N + 1) \in Seq(Words) \ {<<>>}
        BY <1>4, <4>1, TagsAre
      <4>3. QED
        BY <1>5, <1>8, <2>3, <4>2
    <3>4. Len(sel) = N
      BY <1>6, <3>2, <3>3
    <3>5. /\ sel' \in Seq(Words) /\ Len(sel') = N + 1 /\ DOMAIN sel' = 1..(N + 1)
          /\ (\A i \in 1..N : sel'[i] = sel[i]) /\ sel'[N + 1] = w
      <4>1. sel' = Append(sel, w)
        BY <1>1, <2>3
      <4>2. QED
        BY <3>3, <3>4, <4>1, OneMore
    <3> DEFINE f == [i \in 1..(N + 1) |-> IF i = 1 THEN Fold[r[1]] ELSE r[i]]
    <3>6. \A i \in 1..(N + 1) : sel'[i] = f[i]
      <4>1. sel'[N + 1] = f[N + 1]
        BY <1>6, <3>1, <3>5
      <4>2. \A i \in 1..N : i \in 1..(N + 1) /\ sel'[i] = f[i]
        BY <1>6, <3>1, <3>2, <3>5
      <4>3. \A i \in 1..(N + 1) : i = N + 1 \/ i \in 1..N
        BY <1>6
      <4>4. QED
        BY <4>1, <4>2, <4>3
    <3>7. sel' = [i \in 1..(N + 1) |-> sel'[i]]
      <4>1. sel' \in [1..(N + 1) -> Words]
        BY <3>5, LenProperties
      <4>2. QED
        BY <4>1
    <3>8. sel' = f
      BY <3>6, <3>7
    <3>9. QED
      BY <2>1, <3>8
  <2>4. QED
    BY <1>1, <2>2, <2>3
<1>11. at' \notin InBody
  BY <1>2 DEF InBody
<1>12. QED
  BY <1>2, <1>4, <1>5, <1>7, <1>9, <1>10, <1>11 DEF SheetInv, r

\* A body of no symbols declares nothing.
LEMMA EmptyBody ==
  ASSUME NEW e \in Seq(Symbols), Len(e) = 0
  PROVE  Declares(e) = NoDecls /\ \A p : Standing("declaration", p, e)
<1>1. e \in Seq(Symbols) /\ Len(e) = 0
  OBVIOUS
<1>2. ASSUME NEW n \in PairsOf(e) PROVE FALSE
  <2>1. n \in 1..Len(e)
    BY <1>1, PairsBound
  <2>2. QED
    BY <1>1, <2>1
<1>3. DOMAIN Declares(e) = {}
  <2>1. {Fold[e[n]] : n \in PairsOf(e)} = {}
    BY <1>2
  <2>2. QED
    BY <1>1, <2>1, Declared
<1>4. Declares(e) = [p \in DOMAIN Declares(e) |-> Declares(e)[p]]
  BY Zenon DEF Declares
<1>5. Declares(e) = NoDecls
  BY <1>3, <1>4 DEF NoDecls
<1>6. \A p : Stands("declaration", p, e, 0)
  <2>1. \A i \in (0 + 1)..Len(e) : FALSE
    BY <1>1
  <2>2. QED
    BY <1>1, <2>1 DEF Stands
<1>7. 0 \in 0..Len(e)
  BY <1>1
<1>8. QED
  BY <1>5, <1>6, <1>7 DEF Standing

\* So a body begins.
LEMMA BodyBegins ==
  ASSUME NEW e, e = <<>>
  PROVE  /\ e \in Seq(Symbols) /\ Declares(e) = NoDecls
         /\ \A p : Standing("declaration", p, e)
<1>1. e \in Seq(Symbols) /\ Len(e) = 0
  OBVIOUS
<1>2. QED
  BY <1>1, EmptyBody

\* A brace behind a selector opens its body.
LEMMA OpenStep ==
  ASSUME text \in Seq(Symbols), rest \in Seq(Symbols), SheetInv, OpenBody
  PROVE  SheetInv'
<1> DEFINE q == LastPiece(text)
           r == LastPiece(text')
<1>1. Read("open") /\ at = "selector" /\ at' = "declaration" /\ decls' = NoDecls
      /\ UNCHANGED <<sel, prop, rules>>
  BY DEF OpenBody
<1>2. "open" \in Symbols
  BY DEF Symbols, Signs
<1>3. q \in Seq(Symbols) /\ r = Append(q, "open") /\ RulesOf(text') = RulesOf(text)
  BY <1>1, <1>2, SheetRead
<1>4. rules = RulesOf(text) /\ q # <<>> /\ (\A i \in DOMAIN q : q[i] \in Words)
      /\ sel = TagsOf(q, Len(q) + 1)
  BY <1>1 DEF SheetInv
<1> DEFINE N == Len(q)
<1>5. /\ N \in Nat /\ DOMAIN q = 1..N /\ r \in Seq(Symbols) /\ Len(r) = N + 1 /\ DOMAIN r = 1..(N + 1)
      /\ (\A i \in 1..N : r[i] = q[i]) /\ r[N + 1] = "open"
  BY <1>2, <1>3, OneMore
<1>6. N > 0
  BY <1>3, <1>4, EmptySeq
<1>7. sel = TagsOf(q, N + 1)
  BY <1>4
<1> HIDE DEF q, r, N
<1> DEFINE b == N + 1
<1>8. b \in DOMAIN r /\ b \in 0..Len(r) /\ Len(r) - b = 0 /\ b - 1 = N /\ b > 1 /\ Len(r) = b
  BY <1>5, <1>6
<1>9. Opens(r, b)
  BY <1>4, <1>5, <1>8 DEF Opens
<1>10. NoNul(r, b)
  <2>1. \A i \in (b + 1)..Len(r) : FALSE
    BY <1>5
  <2>2. QED
    BY <2>1 DEF NoNul
<1>11. sel' = TagsOf(r, b)
  <2>1. 1 \in 1..N /\ \A i \in 1..N : r[i] = q[i]
    BY <1>5, <1>6
  <2>2. TagsOf(r, b) = TagsOf(q, b)
    BY <1>8, <2>1 DEF TagsOf
  <2>3. QED
    BY <1>1, <1>7, <2>2
<1>12. BodyOf(r, b) = <<>>
  <2>1. BodyOf(r, b) \in Seq(Symbols) /\ Len(BodyOf(r, b)) = 0
    BY <1>5, <1>8, BodyIs
  <2>2. QED
    BY <2>1, EmptySeq
<1>13. ReadsRule(r, b, sel', decls', at', prop')
  BY <1>1, <1>9, <1>10, <1>11, <1>12, BodyBegins DEF ReadsRule, ReadsBody
<1>14. at' \in InBody /\ at' \notin {"rule", "selector", "skipRule"}
  BY <1>1 DEF InBody
<1>15. rules' = RulesOf(text')
  BY <1>1, <1>3, <1>4
<1>16. QED
  BY <1>8, <1>13, <1>14, <1>15 DEF SheetInv, r

\* What is no selector spoils the piece; a closing brace begins a new one.
LEMMA BadSelectorStep ==
  ASSUME text \in Seq(Symbols), rest \in Seq(Symbols), SheetInv, BadSelector
  PROVE  SheetInv'
<1> DEFINE q == LastPiece(text)
           r == LastPiece(text')
<1>1. PICK x \in Symbols : /\ Read(x) /\ (x \in Words => at = "skipRule")
                           /\ (x = "open" => at # "selector")
                           /\ at' = IF x = "close" THEN "rule" ELSE "skipRule"
  BY DEF BadSelector, Symbols
<1>2. at \in {"rule", "selector", "skipRule"} /\ UNCHANGED <<sel, prop, decls, rules>>
  BY DEF BadSelector
<1>3. /\ q \in Seq(Symbols)
      /\ r = IF x = "close" THEN <<>> ELSE Append(q, x)
      /\ RulesOf(text') = IF x = "close" /\ IsRule(q) THEN Append(RulesOf(text), RuleOf(q))
                          ELSE RulesOf(text)
  BY <1>1, SheetRead
<1>4. /\ rules = RulesOf(text)
      /\ at = "rule" => q = <<>>
      /\ at = "selector" => q # <<>> /\ \A i \in DOMAIN q : q[i] \in Words
      /\ at = "skipRule" => Spoiled(q)
  BY DEF SheetInv
<1> HIDE DEF q, r
<1>5. at # "skipRule" => \A i \in DOMAIN q : q[i] \in Words
  <2>1. CASE at = "rule"
    <3>1. q = <<>>
      BY <1>4, <2>1
    <3>2. DOMAIN q = {}
      BY <3>1
    <3>3. QED
      BY <3>2
  <2>2. CASE at = "selector"
    BY <1>4, <2>2
  <2>3. QED
    BY <1>2, <2>1, <2>2
<1>6. ~IsRule(q)
  BY <1>2, <1>3, <1>4, <1>5, WordsAreNoRule, SpoiledIsNoRule
<1>7. rules' = RulesOf(text')
  BY <1>2, <1>3, <1>4, <1>6
<1>8. CASE x = "close"
  <2>1. at' = "rule" /\ r = <<>>
    BY <1>1, <1>3, <1>8
  <2>2. at' \notin InBody
    BY <2>1 DEF InBody
  <2>3. QED
    BY <1>7, <2>1, <2>2 DEF SheetInv, r
<1>9. CASE x # "close"
  <2>1. at' = "skipRule" /\ r = Append(q, x)
    BY <1>1, <1>3, <1>9
  <2>2. Spoiled(r)
    <3>1. CASE at = "skipRule"
      BY <1>3, <1>4, <2>1, <3>1, SpoiledAppend
    <3>2. CASE at # "skipRule"
      <4>1. x \in Symbols \ Words /\ (x # "open" \/ q = <<>>)
        BY <1>1, <1>2, <1>4, <3>2
      <4>2. QED
        BY <1>3, <1>5, <2>1, <3>2, <4>1, WordsSpoiled
    <3>3. QED
      BY <3>1, <3>2
  <2>3. at' \notin InBody
    BY <2>1 DEF InBody
  <2>4. QED
    BY <1>7, <2>1, <2>2, <2>3 DEF SheetInv, r
<1>10. QED
  BY <1>8, <1>9

\* A body of a sheet: where its rule opens, and whether a declaration begins.
LEMMA InBodyOf ==
  ASSUME text \in Seq(Symbols), SheetInv, at \in InBody
  PROVE  LET q == LastPiece(text)
         IN /\ q \in Seq(Symbols) /\ rules = RulesOf(text)
            /\ \E b \in DOMAIN q :
                 /\ ReadsRule(q, b, sel, decls, at, prop)
                 /\ BodyOf(q, b) \in Seq(Symbols)
                 /\ at # "declaration" => Len(q) > b /\ q[Len(q)] # "semicolon"
                 /\ at = "declaration" => ~(Len(q) > b /\ q[Len(q)] # "semicolon")
<1> DEFINE q == LastPiece(text)
<1>1. q \in Seq(Symbols) /\ rules = RulesOf(text) /\ \E b \in DOMAIN q : ReadsRule(q, b, sel, decls, at, prop)
  BY LastPieceIs DEF SheetInv
<1> HIDE DEF q
<1>2. PICK b \in DOMAIN q : ReadsRule(q, b, sel, decls, at, prop)
  BY <1>1
<1>3. DOMAIN q = 1..Len(q) /\ Len(q) \in Nat
  BY <1>1, LenProperties
<1>4. b \in 0..Len(q) /\ b \in Nat /\ b <= Len(q)
  BY <1>3
<1> DEFINE c == BodyOf(q, b)
           N == Len(q)
           M == N - b
<1>5. /\ c \in Seq(Symbols) /\ Len(c) = M /\ (\A i \in 1..M : c[i] = q[b + i])
  BY <1>1, <1>4, BodyIs
<1>6. PICK k \in 0..Len(c) : Stands(at, prop, c, k)
  BY <1>2, Zenon DEF ReadsRule, ReadsBody, Standing
<1>7. /\ M \in Nat /\ N \in Nat /\ (N > b <=> M > 0) /\ b + M = N /\ (M > 0 => M \in 1..M)
  BY <1>3, <1>4
<1>8. k \in 0..M
  BY <1>5, <1>6
<1>9. Len(q) = N
  OBVIOUS
<1> HIDE DEF c, M, N
<1>10. M > 0 => c[M] = q[N]
  BY <1>5, <1>7
<1>11. ASSUME at # "declaration" PROVE N > b /\ q[N] # "semicolon"
  <2>1. at \in {"colon", "value", "semicolon", "skipDeclaration"}
    BY <1>11 DEF InBody
  <2>2. /\ at = "colon" => M = k + 1
        /\ at = "value" => M = k + 2
        /\ at \in {"semicolon", "skipDeclaration"} => k < M
        /\ \A i \in (k + 1)..M : c[i] # "semicolon"
    BY <1>5, <1>6 DEF Stands
  <2>3. k < M
    BY <1>7, <1>8, <2>1, <2>2
  <2>4. M > 0 /\ M \in (k + 1)..M
    BY <1>7, <1>8, <2>3
  <2>5. QED
    BY <1>7, <1>10, <2>2, <2>4
<1>12. ASSUME at = "declaration" PROVE ~(N > b /\ q[N] # "semicolon")
  <2>1. M = k /\ (k # 0 => c[k] = "semicolon")
    BY <1>5, <1>6, <1>12 DEF Stands
  <2>2. QED
    BY <1>7, <1>10, <2>1
<1>13. QED
  BY <1>1, <1>2, <1>5, <1>9, <1>11, <1>12 DEF q, c

\* A symbol inside a body of a sheet.
LEMMA SheetDeclarationStep ==
  ASSUME text \in Seq(Symbols), rest \in Seq(Symbols), SheetInv, Declaration
  PROVE  SheetInv'
<1> DEFINE q == LastPiece(text)
           r == LastPiece(text')
<1>1. at \in InBody
  BY DEF Declaration, Property, Colon, Value, Semicolon, BadDeclaration, InBody
<1>2. PICK b \in DOMAIN q :
        /\ ReadsRule(q, b, sel, decls, at, prop) /\ BodyOf(q, b) \in Seq(Symbols)
        /\ at # "declaration" => Len(q) > b /\ q[Len(q)] # "semicolon"
  BY <1>1, InBodyOf
<1>3. q \in Seq(Symbols) /\ rules = RulesOf(text)
  BY <1>1, InBodyOf
<1>4. /\ Opens(q, b) /\ NoNul(q, b) /\ sel = TagsOf(q, b)
      /\ ReadsBody(BodyOf(q, b), decls, at, prop)
  BY <1>2 DEF ReadsRule
<1>5. PICK x \in Symbols :
        /\ Read(x) /\ x # "close" /\ ~(at = "declaration" /\ x = "nul")
        /\ at' \in InBody /\ UNCHANGED <<sel, rules>>
        /\ ReadsBody(Append(BodyOf(q, b), x), decls', at', prop')
  BY <1>2, <1>4, BodyStep
<1>6. r = Append(q, x) /\ RulesOf(text') = RulesOf(text)
  BY <1>5, SheetRead
<1>7. /\ b \in DOMAIN r /\ Opens(r, b) /\ TagsOf(r, b) = TagsOf(q, b)
      /\ BodyOf(r, b) = Append(BodyOf(q, b), x) /\ NoNul(r, b)
  BY <1>2, <1>3, <1>4, <1>5, <1>6, RuleGrows
<1> HIDE DEF q, r
<1>8. ReadsRule(r, b, sel', decls', at', prop')
  BY <1>4, <1>5, <1>7 DEF ReadsRule
<1>9. rules' = RulesOf(text')
  BY <1>3, <1>5, <1>6
<1>10. at' \notin {"rule", "selector", "skipRule"}
  BY <1>5 DEF InBody
<1>11. QED
  BY <1>5, <1>7, <1>8, <1>9, <1>10 DEF SheetInv, r

\* A closing brace ends the body and adds its rule.
LEMMA CloseStep ==
  ASSUME text \in Seq(Symbols), rest \in Seq(Symbols), SheetInv, CloseBody
  PROVE  SheetInv'
<1> DEFINE q == LastPiece(text)
<1>1. /\ at \in InBody /\ Read("close") /\ at' = "rule"
      /\ rules' = Append(rules, [sel |-> sel, decls |-> decls])
  BY DEF CloseBody
<1>2. PICK b \in DOMAIN q : ReadsRule(q, b, sel, decls, at, prop)
  BY <1>1, InBodyOf
<1>3. q \in Seq(Symbols) /\ rules = RulesOf(text) /\ "close" \in Symbols
  BY <1>1, InBodyOf DEF Symbols, Signs
<1>4. /\ LastPiece(text') = <<>>
      /\ RulesOf(text') = IF IsRule(q) THEN Append(RulesOf(text), RuleOf(q)) ELSE RulesOf(text)
  BY <1>1, <1>3, SheetRead
<1> HIDE DEF q
<1>5. Opens(q, b) /\ NoNul(q, b) /\ sel = TagsOf(q, b) /\ decls = Declares(BodyOf(q, b))
  BY <1>2 DEF ReadsRule, ReadsBody
<1>6. IsRule(q) /\ RuleOf(q) = [sel |-> sel, decls |-> decls]
  BY <1>3, <1>5, IsRuleAt, RuleAt
<1>7. rules' = RulesOf(text')
  BY <1>1, <1>3, <1>4, <1>6
<1>8. at' \notin InBody
  BY <1>1 DEF InBody
<1>9. QED
  BY <1>1, <1>4, <1>7, <1>8 DEF SheetInv

\* A byte 0 before a declaration spoils the piece.
LEMMA NulStep ==
  ASSUME text \in Seq(Symbols), rest \in Seq(Symbols), SheetInv, Nul
  PROVE  SheetInv'
<1> DEFINE q == LastPiece(text)
           r == LastPiece(text')
<1>1. at = "declaration" /\ Read("nul") /\ at' = "skipRule" /\ UNCHANGED <<sel, prop, decls, rules>>
  BY DEF Nul
<1>2. at \in InBody
  BY <1>1 DEF InBody
<1>3. PICK b \in DOMAIN q : /\ ReadsRule(q, b, sel, decls, at, prop)
                            /\ ~(Len(q) > b /\ q[Len(q)] # "semicolon")
  BY <1>1, <1>2, InBodyOf
<1>4. q \in Seq(Symbols) /\ rules = RulesOf(text) /\ "nul" \in Symbols
  BY <1>2, InBodyOf DEF Symbols, Signs
<1>5. r = Append(q, "nul") /\ RulesOf(text') = RulesOf(text)
  BY <1>1, <1>4, SheetRead
<1>6. Opens(q, b)
  BY <1>3 DEF ReadsRule
<1>7. b \in DOMAIN r /\ Opens(r, b) /\ ~NoNul(r, b)
  BY <1>3, <1>4, <1>5, <1>6, RuleGrows
<1>8. Spoiled(r)
  BY <1>7, Zenon DEF Spoiled
<1>9. at' \notin InBody
  BY <1>1 DEF InBody
<1>10. QED
  BY <1>1, <1>4, <1>5, <1>8, <1>9 DEF SheetInv

\* Whatever the next symbol of a sheet is, its rules are those of its text.
LEMMA SheetStep ==
  ASSUME text \in Seq(Symbols), rest \in Seq(Symbols), SheetInv, ParseSheet
  PROVE  SheetInv'
BY SelectorStep, OpenStep, BadSelectorStep, SheetDeclarationStep, CloseStep, NulStep DEF ParseSheet

-----------------------------------------------------------------------------
(* Sheets and the style attribute *)

AttributeInv ==
  /\ at \in InBody \cup {"end"}
  /\ at \in InBody => ReadsBody(text, decls, at, prop)
  /\ at = "end" => Front(text) \in Seq(Symbols) /\ decls = Declares(Front(text))

ParserInv ==
  /\ text \in Seq(Symbols) /\ rest \in Seq(Symbols)
  /\ phase \in {"attribute", "scripts", "sheets", "edited", "shown", "dead"}
  /\ phase = "attribute" => AttributeInv
  /\ phase # "attribute" => SheetInv

\* A parser that begins.
LEMMA SheetBegins ==
  ASSUME Begin(<<>>, "rule")
  PROVE  SheetInv'
<1>1. text' = <<>> /\ at' = "rule" /\ rules' = <<>> /\ at' \notin InBody
  BY DEF Begin, InBody
<1>2. LastPiece(text') = <<>> /\ RulesOf(text') = <<>>
  BY <1>1, LastPieceEmpty, RulesEmpty
<1>3. QED
  BY <1>1, <1>2 DEF SheetInv

\* What is in front of the last symbol.
LEMMA FrontOfAppend ==
  ASSUME NEW s \in Seq(Symbols), NEW x \in Symbols
  PROVE  Front(Append(s, x)) = s
<1> DEFINE N == Len(s)
           t == Append(s, x)
<1>1. /\ N \in Nat /\ t \in Seq(Symbols) /\ Len(t) = N + 1 /\ \A i \in 1..N : t[i] = s[i]
  BY OneMore
<1> HIDE DEF t
<1>2. N + 1 \in 1..Len(t) /\ (N + 1) - 1 = N
  BY <1>1
<1>3. /\ SubSeq(t, 1, (N + 1) - 1) \in Seq(Symbols) /\ Len(SubSeq(t, 1, (N + 1) - 1)) = (N + 1) - 1
      /\ \A i \in 1..((N + 1) - 1) : SubSeq(t, 1, (N + 1) - 1)[i] = t[i]
  BY <1>1, <1>2, Prefix
<1>4. /\ SubSeq(t, 1, N) \in Seq(Symbols) /\ Len(SubSeq(t, 1, N)) = N
      /\ \A i \in 1..N : SubSeq(t, 1, N)[i] = s[i]
  BY <1>1, <1>2, <1>3
<1>5. SubSeq(t, 1, N) = s
  BY <1>4, SeqEqual
<1>6. Front(t) = SubSeq(t, 1, N)
  BY <1>1, <1>2 DEF Front
<1>7. QED
  BY <1>5, <1>6 DEF t

\* A symbol moves from rest to text.
LEMMA ReadTypes ==
  ASSUME text \in Seq(Symbols), rest \in Seq(Symbols), NEW x, Read(x)
  PROVE  x \in Symbols /\ text' = Append(text, x) /\ text' \in Seq(Symbols) /\ rest' \in Seq(Symbols)
<1>1. rest # <<>> /\ x = Head(rest) /\ rest' = Tail(rest) /\ text' = Append(text, x)
  BY DEF Read
<1>2. x \in Symbols /\ rest' \in Seq(Symbols)
  BY <1>1, HeadTailProperties
<1>3. QED
  BY <1>1, <1>2, AppendProperties

\* The same for a style attribute.
LEMMA AttributeStep ==
  ASSUME text \in Seq(Symbols), rest \in Seq(Symbols), AttributeInv, ParseAttribute
  PROVE  AttributeInv'
<1>1. CASE Declaration
  <2>1. at \in InBody
    BY <1>1 DEF Declaration, Property, Colon, Value, Semicolon, BadDeclaration, InBody
  <2>2. ReadsBody(text, decls, at, prop)
    BY <2>1 DEF AttributeInv
  <2>3. PICK x \in Symbols : /\ Read(x) /\ at' \in InBody
                             /\ ReadsBody(Append(text, x), decls', at', prop')
    BY <1>1, <2>2, BodyStep
  <2>4. text' = Append(text, x)
    BY <2>3 DEF Read
  <2>5. at' # "end"
    BY <2>3 DEF InBody
  <2>6. QED
    BY <2>3, <2>4, <2>5 DEF AttributeInv
<1>2. CASE EndAttribute
  <2>1. at \in InBody /\ \E x : Read(x)
    BY <1>2 DEF EndAttribute, InBody
  <2>2. at' = "end" /\ decls' = decls
    BY <1>2 DEF EndAttribute
  <2>3. PICK x : Read(x)
    BY <2>1
  <2>4. Front(text') = text
    BY <2>3, ReadTypes, FrontOfAppend
  <2>5. decls = Declares(text)
    BY <2>1 DEF AttributeInv, ReadsBody
  <2>6. at' \notin InBody
    BY <2>2 DEF InBody
  <2>7. QED
    BY <2>2, <2>4, <2>5, <2>6 DEF AttributeInv
<1>3. QED
  BY <1>1, <1>2 DEF ParseAttribute

\* Every step of the parser reads one symbol.
LEMMA ParserReads ==
  ASSUME text \in Seq(Symbols), rest \in Seq(Symbols), ParseSheet \/ ParseAttribute
  PROVE  text' \in Seq(Symbols) /\ rest' \in Seq(Symbols)
<1>1. \E x : Read(x)
  <2>1. SelectorWord => \E x : Read(x)
    BY Zenon DEF SelectorWord
  <2>2. OpenBody \/ BadSelector \/ CloseBody \/ Nul \/ EndAttribute => \E x : Read(x)
    BY Zenon DEF OpenBody, BadSelector, CloseBody, Nul, EndAttribute
  <2>3. Declaration => \E x : Read(x)
    BY Zenon DEF Declaration, Property, Colon, Value, Semicolon, BadDeclaration
  <2>4. QED
    BY <2>1, <2>2, <2>3 DEF ParseSheet, ParseAttribute
<1>2. QED
  BY <1>1, ReadTypes

\* At first nothing is read.
LEMMA InitParserInv == CascadeInit => ParserInv
<1> SUFFICES ASSUME CascadeInit PROVE ParserInv
  OBVIOUS
<1>1. text = <<>> /\ rest = <<>> /\ at = "declaration" /\ decls = NoDecls /\ phase = "attribute"
  BY DEF CascadeInit
<1>2. ReadsBody(text, decls, at, prop)
  BY <1>1, BodyBegins DEF ReadsBody
<1>3. AttributeInv
  BY <1>1, <1>2 DEF AttributeInv, InBody
<1>4. QED
  BY <1>1, <1>3 DEF ParserInv

\* No step loses track, the parser's, a script's or a render.
LEMMA StepParserInv == ParserInv /\ [CascadeNext]_cascadeVars => ParserInv'
<1> SUFFICES ASSUME ParserInv, [CascadeNext]_cascadeVars PROVE ParserInv'
  OBVIOUS
<1>1. text \in Seq(Symbols) /\ rest \in Seq(Symbols)
  BY DEF ParserInv
<1>2. CASE Parse
  <2>1. phase' = phase
    BY <1>2 DEF Parse
  <2>2. CASE Supply
    <3>1. UNCHANGED <<text, at, sel, prop, decls, rules>> /\ rest' \in Pieces
      BY <2>2 DEF Supply
    <3>2. rest' \in Seq(Symbols)
      BY <3>1, SymbolsAssumption DEF Symbols
    <3>3. QED
      BY <2>1, <3>1, <3>2 DEF ParserInv, AttributeInv, SheetInv
  <2>3. CASE phase = "sheets" /\ ParseSheet
    BY <1>1, <2>1, <2>3, SheetStep, ParserReads DEF ParserInv
  <2>4. CASE phase = "attribute" /\ ParseAttribute
    BY <1>1, <2>1, <2>4, AttributeStep, ParserReads DEF ParserInv
  <2>5. QED
    BY <1>2, <2>2, <2>3, <2>4 DEF Parse
<1>3. CASE SpaceInAttribute
  <2>1. /\ phase = "attribute" /\ phase' = phase /\ rest' = rest
        /\ text' = <<"junk">> /\ at' = "skipDeclaration" /\ decls' = NoDecls
    BY <1>3 DEF SpaceInAttribute, BeginAttribute, Begin
  <2>2. "junk" \in Symbols /\ "junk" \notin Words /\ "declaration" \in InBody
        /\ at' \in InBody /\ at' # "end"
    BY <2>1, SignsNoWords DEF Symbols, Signs, InBody
  <2> DEFINE e == <<>>
  <2>3. e = <<>>
    OBVIOUS
  <2> HIDE DEF e
  <2>4. e \in Seq(Symbols) /\ Declares(e) = NoDecls /\ Standing("declaration", prop', e)
    BY <2>3, BodyBegins
  <2>5. ~Completes(e, "junk") /\ Standing("skipDeclaration", prop', Append(e, "junk"))
    BY <2>2, <2>4, StandingStep
  <2>6. Declares(Append(e, "junk")) = NoDecls
    BY <2>2, <2>4, <2>5, DeclaresSame
  <2>7. Append(e, "junk") = text' /\ text' \in Seq(Symbols)
    BY <2>1, <2>2, <2>3
  <2>8. ReadsBody(text', decls', at', prop')
    BY <2>1, <2>5, <2>6, <2>7 DEF ReadsBody
  <2>9. QED
    BY <1>1, <2>1, <2>2, <2>7, <2>8 DEF ParserInv, AttributeInv
<1>4. CASE EndAttributeText \/ EndSheet
  <2>1. Begin(<<>>, "rule") /\ rest' = rest /\ phase' \in {"scripts", "sheets", "edited"}
    BY <1>4 DEF EndAttributeText, EndSheet
  <2>2. SheetInv'
    BY <2>1, SheetBegins
  <2>3. text' \in Seq(Symbols)
    BY <2>1 DEF Begin
  <2>4. QED
    BY <1>1, <2>1, <2>2, <2>3 DEF ParserInv
<1>5. CASE ScriptRenders \/ BeginSheets \/ Show \/ Edit
  <2>1. UNCHANGED parserVars /\ phase # "attribute"
    BY <1>5 DEF ScriptRenders, BeginSheets, Show, Edit
  <2>2. phase' \in {"dead", "scripts", "sheets", "shown", "edited"}
    BY <1>5 DEF ScriptRenders, BeginSheets, Show, Edit
  <2>3. QED
    BY <2>1, <2>2 DEF ParserInv, SheetInv, parserVars
<1>6. CASE UNCHANGED cascadeVars
  BY <1>6 DEF cascadeVars, parserVars, ParserInv, AttributeInv, SheetInv
<1>7. QED
  BY <1>2, <1>3, <1>4, <1>5, <1>6 DEF CascadeNext

\* So the invariant holds always.
LEMMA ParserInvariance == CascadeSpec => []ParserInv
BY InitParserInv, StepParserInv, PTL DEF CascadeSpec

\* After every symbol the rules are those of the pieces that are rules, and the
\* declarations those of the pairs: an error costs the piece it is in.
THEOREM ErrorsStay == CascadeSpec => []ErrorsStayInTheirPiece
<1>1. ParserInv => ErrorsStayInTheirPiece
  <2> SUFFICES ASSUME ParserInv PROVE ErrorsStayInTheirPiece
    OBVIOUS
  <2>1. phase = "sheets" => rules = RulesOf(text)
    BY DEF ParserInv, SheetInv
  <2>2. phase = "attribute" => decls = Declares(IF at = "end" THEN Front(text) ELSE text)
    <3>1. SUFFICES ASSUME phase = "attribute"
                   PROVE  decls = Declares(IF at = "end" THEN Front(text) ELSE text)
      OBVIOUS
    <3>2. CASE at = "end"
      BY <3>1, <3>2 DEF ParserInv, AttributeInv
    <3>3. CASE at # "end"
      BY <3>1, <3>3 DEF ParserInv, AttributeInv, ReadsBody
    <3>4. QED
      BY <3>2, <3>3
  <2>3. QED
    BY <2>1, <2>2 DEF ErrorsStayInTheirPiece
<1>2. QED
  BY <1>1, ParserInvariance, PTL

-----------------------------------------------------------------------------
(* The tree *)

\* Items are numbered from the root down.
LEMMA TreeFacts ==
  /\ Len(Parent) \in Nat /\ Nodes = 1..Len(Parent)
  /\ \A n \in Nodes : n \in Nat /\ Parent[n] \in Nat /\ Parent[n] < n
  /\ \A n \in Nodes : Parent[n] = 0 \/ Parent[n] \in Nodes
<1>1. Len(Parent) \in Nat /\ Nodes = 1..Len(Parent)
  BY TreeAssumption, LenProperties DEF Nodes
<1>2. \A n \in Nodes : n \in Nat /\ Parent[n] \in Nat /\ Parent[n] < n
  BY <1>1, TreeAssumption, ElementOfSeq
<1>3. \A n \in Nodes : Parent[n] = 0 \/ Parent[n] \in Nodes
  BY <1>1, <1>2
<1>4. QED
  BY <1>1, <1>2, <1>3

\* What is above an item is its parent and what is above that.
LEMMA AncestorsAre ==
  \A n \in Nodes : Ancestors(n) = IF Parent[n] = 0 THEN {}
                                  ELSE {Parent[n]} \cup Ancestors(Parent[n])
<1> DEFINE Body(u, i) == IF Parent[i] = 0 THEN {} ELSE {Parent[i]} \cup u[Parent[i]]
           Step(u) == [i \in Nodes |-> Body(u, i)]
           above == CHOOSE u : u = Step(u)
           T == {k \in Nat : \E u : \A i \in Nodes : i <= k => u[i] = Body(u, i)}
<1>1. \A n \in Nodes : Ancestors(n) = above[n]
  BY Zenon DEF Ancestors
<1>2. 0 \in T
  <2>1. \A i \in Nodes : ~(i <= 0)
    BY TreeFacts
  <2>2. QED
    BY <2>1
<1>3. ASSUME NEW k \in Nat, k \in T PROVE k + 1 \in T
  <2>1. PICK u : \A i \in Nodes : i <= k => u[i] = Body(u, i)
    BY <1>3
  <2> DEFINE v == Step(u)
  <2>2. \A i \in Nodes : v[i] = Body(u, i)
    OBVIOUS
  <2> HIDE DEF v
  <2>3. ASSUME NEW i \in Nodes, i <= k + 1 PROVE v[i] = Body(v, i)
    <3>1. CASE Parent[i] = 0
      BY <2>2, <3>1
    <3>2. CASE Parent[i] # 0
      <4>1. Parent[i] \in Nodes /\ Parent[i] <= k
        BY <1>3, <2>3, <3>2, TreeFacts
      <4>2. v[Parent[i]] = u[Parent[i]]
        <5> HIDE DEF Body
        <5>1. QED
          BY <2>1, <2>2, <4>1
      <4>3. QED
        BY <2>2, <4>2
    <3>3. QED
      BY <3>1, <3>2
  <2>4. QED
    BY <2>3
<1> HIDE DEF T
<1>4. Len(Parent) \in T
  BY <1>2, <1>3, NatAll, TreeFacts
<1>5. PICK u : \A i \in Nodes : i <= Len(Parent) => u[i] = Body(u, i)
  BY <1>4 DEF T
<1>6. \A i \in Nodes : u[i] = Body(u, i)
  <2> HIDE DEF Body
  <2>1. QED
    BY <1>5, TreeFacts
<1>7. Step(u) = Step(Step(u))
  <2> DEFINE v == Step(u)
  <2>1. \A i \in Nodes : v[i] = u[i]
    BY <1>6
  <2>2. \A i \in Nodes : Body(v, i) = Body(u, i)
    <3> HIDE DEF v
    <3>1. QED
      BY <2>1, TreeFacts
  <2> HIDE DEF Body
  <2>3. QED
    BY <2>2
<1>8. above = Step(above)
  <2> HIDE DEF Step
  <2>1. QED
    BY <1>7
<1> HIDE DEF above
<1>9. \A n \in Nodes : above[n] = Body(above, n)
  <2> HIDE DEF Body
  <2>1. QED
    BY <1>8
<1>10. QED
  BY <1>1, <1>9, TreeFacts

\* What is above an item is in the tree.
LEMMA AncestorsInTree == \A n \in Nodes : Ancestors(n) \subseteq Nodes
<1> DEFINE T == {k \in Nat : k \in Nodes => Ancestors(k) \subseteq Nodes}
           U == {k \in Nat : \A i \in 0..k : i \in T}
<1>1. 0 \in U
  BY TreeFacts
<1>2. ASSUME NEW k \in Nat, k \in U PROVE k + 1 \in U
  <2>1. ASSUME k + 1 \in Nodes PROVE Ancestors(k + 1) \subseteq Nodes
    <3>1. CASE Parent[k + 1] = 0
      BY <2>1, <3>1, AncestorsAre
    <3>2. CASE Parent[k + 1] # 0
      <4>1. Parent[k + 1] \in Nodes /\ Parent[k + 1] \in 0..k
        BY <2>1, <3>2, TreeFacts
      <4>2. Ancestors(Parent[k + 1]) \subseteq Nodes
        BY <1>2, <4>1
      <4>3. QED
        BY <2>1, <3>2, <4>1, <4>2, AncestorsAre
    <3>3. QED
      BY <3>1, <3>2
  <2>2. k + 1 \in T
    BY <2>1
  <2> HIDE DEF T
  <2>3. \A i \in 0..(k + 1) : i = k + 1 \/ i \in 0..k
    OBVIOUS
  <2>4. QED
    BY <1>2, <2>2, <2>3
<1>3. Nat \subseteq U
  <2> HIDE DEF U
  <2>1. QED
    BY <1>1, <1>2, NatAll
<1>4. QED
  BY <1>3, TreeFacts

-----------------------------------------------------------------------------
(* Selectors *)

\* The items that match the first k tags of s.
FitTags(s, u, k) ==
  {i \in Nodes : Name[i] = s[k] /\ (k = 1 \/ \E a \in Ancestors(i) : a \in u[k - 1])}

\* Matches is what its recursion says.
LEMMA Matching ==
  ASSUME NEW s, NEW N \in Nat, DOMAIN s = 1..N, Len(s) = N
  PROVE  \E m : /\ \A k \in 1..N : m[k] = FitTags(s, m, k)
                /\ \A n \in Nodes : Matches(s, n) <=> n \in m[N]
<1> DEFINE Step(u) == [k \in DOMAIN s |-> FitTags(s, u, k)]
           match == CHOOSE u : u = Step(u)
           T == {b \in Nat : \E u : \A k \in 1..N : k <= b => u[k] = FitTags(s, u, k)}
<1>1. \A n \in Nodes : Matches(s, n) <=> n \in match[Len(s)]
  BY Zenon DEF Matches, FitTags
<1>2. 0 \in T
  <2>1. \A k \in 1..N : ~(k <= 0)
    OBVIOUS
  <2>2. QED
    BY <2>1
<1>3. ASSUME NEW b \in Nat, b \in T PROVE b + 1 \in T
  <2>1. PICK u : \A k \in 1..N : k <= b => u[k] = FitTags(s, u, k)
    BY <1>3
  <2> DEFINE v == Step(u)
  <2>2. \A k \in 1..N : v[k] = FitTags(s, u, k)
    OBVIOUS
  <2> HIDE DEF v
  <2>3. ASSUME NEW k \in 1..N, k <= b + 1 PROVE v[k] = FitTags(s, v, k)
    <3>1. CASE k = 1
      BY <2>2, <3>1 DEF FitTags
    <3>2. CASE k # 1
      <4>1. k - 1 \in 1..N /\ k - 1 <= b
        BY <1>3, <2>3, <3>2
      <4>2. v[k - 1] = u[k - 1]
        BY <2>1, <2>2, <4>1
      <4>3. FitTags(s, v, k) = FitTags(s, u, k)
        BY <4>2 DEF FitTags
      <4>4. QED
        BY <2>2, <4>3
    <3>3. QED
      BY <3>1, <3>2
  <2>4. QED
    BY <2>3
<1> HIDE DEF T
<1>4. N \in T
  BY <1>2, <1>3, NatAll
<1>5. PICK u : \A k \in 1..N : k <= N => u[k] = FitTags(s, u, k)
  BY <1>4 DEF T
<1>6. \A k \in 1..N : u[k] = FitTags(s, u, k)
  BY <1>5
<1>7. Step(u) = Step(Step(u))
  <2> DEFINE v == Step(u)
  <2>1. \A k \in 1..N : v[k] = u[k]
    BY <1>6
  <2> HIDE DEF v
  <2>2. ASSUME NEW k \in 1..N PROVE FitTags(s, v, k) = FitTags(s, u, k)
    <3>1. CASE k = 1
      BY <3>1 DEF FitTags
    <3>2. CASE k # 1
      <4>1. k - 1 \in 1..N
        BY <3>2
      <4>2. v[k - 1] = u[k - 1]
        BY <2>1, <4>1
      <4>3. QED
        BY <4>2 DEF FitTags
    <3>3. QED
      BY <3>1, <3>2
  <2>3. QED
    BY <2>2 DEF v
<1>8. match = Step(match)
  <2> HIDE DEF Step
  <2>1. QED
    BY <1>7
<1> HIDE DEF match
<1>9. \A k \in 1..N : match[k] = FitTags(s, match, k)
  BY <1>8
<1>10. QED
  BY <1>1, <1>9

\* A way down to item i that shows the first k tags of s.
Way(way, s, k, i) ==
  /\ way \in [1..k -> Nodes] /\ way[k] = i
  /\ \A j \in 1..k : Name[way[j]] = s[j] /\ (j > 1 => way[j - 1] \in Ancestors(way[j]))

\* One more tag is one more item on the way down.
LEMMA LongerWay ==
  ASSUME NEW s, NEW k \in Nat \ {0}, NEW i \in Nodes, Name[i] = s[k + 1]
  PROVE  (\E a \in Ancestors(i) : \E w : Way(w, s, k, a)) <=> \E w : Way(w, s, k + 1, i)
<1>1. ASSUME NEW a \in Ancestors(i), NEW w, Way(w, s, k, a)
      PROVE  \E v : Way(v, s, k + 1, i)
  <2> DEFINE v == [j \in 1..(k + 1) |-> IF j = k + 1 THEN i ELSE w[j]]
  <2>1. \A j \in 1..(k + 1) : j = k + 1 \/ (j \in 1..k /\ j # k + 1 /\ j - 1 # k + 1)
    OBVIOUS
  <2>2. \A j \in 1..k : w[j] \in Nodes
    BY <1>1 DEF Way
  <2>3. v \in [1..(k + 1) -> Nodes]
    BY <2>1, <2>2
  <2>4. v[k + 1] = i /\ \A j \in 1..k : v[j] = w[j]
    OBVIOUS
  <2> HIDE DEF v
  <2>5. ASSUME NEW j \in 1..(k + 1)
        PROVE  Name[v[j]] = s[j] /\ (j > 1 => v[j - 1] \in Ancestors(v[j]))
    <3>1. CASE j = k + 1
      <4>1. j - 1 = k /\ k \in 1..k
        BY <3>1
      <4>2. QED
        BY <1>1, <2>4, <3>1, <4>1 DEF Way
    <3>2. CASE j \in 1..k
      <4>1. j > 1 => j - 1 \in 1..k
        BY <3>2
      <4>2. QED
        BY <1>1, <2>4, <3>2, <4>1 DEF Way
    <3>3. QED
      BY <2>1, <3>1, <3>2
  <2>6. Way(v, s, k + 1, i)
    BY <2>3, <2>4, <2>5 DEF Way
  <2>7. QED
    BY <2>6
<1>2. ASSUME NEW w, Way(w, s, k + 1, i)
      PROVE  \E a \in Ancestors(i) : \E v : Way(v, s, k, a)
  <2> DEFINE v == [j \in 1..k |-> w[j]]
  <2>1. /\ \A j \in 1..k : j \in 1..(k + 1) /\ (j > 1 => j - 1 \in 1..k)
        /\ k + 1 \in 1..(k + 1) /\ (k + 1) - 1 = k /\ k + 1 > 1 /\ k \in 1..k
    OBVIOUS
  <2>2. v \in [1..k -> Nodes] /\ \A j \in 1..k : v[j] = w[j]
    BY <1>2, <2>1 DEF Way
  <2> HIDE DEF v
  <2>3. w[k + 1] = i /\ w[(k + 1) - 1] \in Ancestors(w[k + 1])
    BY <1>2, <2>1 DEF Way
  <2>4. v[k] \in Ancestors(i)
    BY <2>1, <2>2, <2>3
  <2>5. \A j \in 1..k : Name[v[j]] = s[j] /\ (j > 1 => v[j - 1] \in Ancestors(v[j]))
    BY <1>2, <2>1, <2>2 DEF Way
  <2>6. Way(v, s, k, v[k])
    BY <2>2, <2>5 DEF Way
  <2>7. QED
    BY <2>4, <2>6
<1>3. QED
  BY <1>1, <1>2

\* An item matches a selector if some way down to it shows the tags.
LEMMA MatchesIsChain ==
  ASSUME NEW S, NEW s \in Seq(S) \ {<<>>}, NEW n \in Nodes
  PROVE  Matches(s, n) <=> Chain(s, n)
<1> DEFINE N == Len(s)
<1>1. N \in Nat /\ N # 0 /\ DOMAIN s = 1..N /\ Len(s) = N
  BY LenProperties, EmptySeq
<1> HIDE DEF N
<1>2. PICK m : /\ \A k \in 1..N : m[k] = FitTags(s, m, k)
               /\ \A i \in Nodes : Matches(s, i) <=> i \in m[N]
  BY <1>1, Matching
<1> DEFINE T == {k \in Nat : k + 1 <= N =>
                   \A i \in Nodes : i \in m[k + 1] <=> \E w : Way(w, s, k + 1, i)}
<1>3. 0 \in T
  <2>1. 1 \in 1..N /\ \A i \in Nodes : i \in m[1] <=> Name[i] = s[1]
    BY <1>1, <1>2 DEF FitTags
  <2>2. ASSUME NEW i \in Nodes, Name[i] = s[1] PROVE \E w : Way(w, s, 1, i)
    <3> DEFINE w == [j \in 1..1 |-> i]
    <3>1. w \in [1..1 -> Nodes] /\ w[1] = i /\ \A j \in 1..1 : j = 1 /\ ~(j > 1)
      OBVIOUS
    <3> HIDE DEF w
    <3>2. Way(w, s, 1, i)
      BY <2>2, <3>1 DEF Way
    <3>3. QED
      BY <3>2
  <2>3. ASSUME NEW i \in Nodes, NEW w, Way(w, s, 1, i) PROVE Name[i] = s[1]
    BY <2>3 DEF Way
  <2>4. \A i \in Nodes : i \in m[0 + 1] <=> \E w : Way(w, s, 0 + 1, i)
    BY <2>1, <2>2, <2>3
  <2>5. QED
    BY <2>4
<1>4. ASSUME NEW k \in Nat, k \in T PROVE k + 1 \in T
  <2>1. SUFFICES ASSUME (k + 1) + 1 <= N, NEW i \in Nodes
                 PROVE  i \in m[(k + 1) + 1] <=> \E w : Way(w, s, (k + 1) + 1, i)
    OBVIOUS
  <2>2. /\ k + 1 \in Nat \ {0} /\ (k + 1) + 1 \in 1..N /\ k + 1 <= N
        /\ (k + 1) + 1 # 1 /\ ((k + 1) + 1) - 1 = k + 1
    BY <1>1, <2>1
  <2>3. \A a \in Nodes : a \in m[k + 1] <=> \E w : Way(w, s, k + 1, a)
    BY <1>4, <2>2
  <2> DEFINE q == k + 1
  <2> HIDE DEF q, T
  <2>4. i \in m[q + 1] <=> Name[i] = s[q + 1] /\ \E a \in Ancestors(i) : a \in m[q]
    BY <1>2, <2>2 DEF FitTags, q
  <2>5. \A a \in Ancestors(i) : a \in m[q] <=> \E w : Way(w, s, q, a)
    BY <2>3, AncestorsInTree DEF q
  <2>6. (\E w : Way(w, s, q + 1, i)) => Name[i] = s[q + 1]
    <3>1. q + 1 \in 1..(q + 1)
      BY <2>2 DEF q
    <3>2. QED
      BY <3>1 DEF Way
  <2>7. QED
    BY <2>2, <2>4, <2>5, <2>6, LongerWay DEF q
<1> HIDE DEF T
<1>5. N - 1 \in T /\ (N - 1) + 1 = N
  BY <1>1, <1>3, <1>4, NatAll
<1>6. n \in m[N] <=> \E w : Way(w, s, N, n)
  BY <1>1, <1>5 DEF T
<1>7. Chain(s, n) <=> \E w : Way(w, s, N, n)
  BY <1>1 DEF Chain, Way
<1>8. QED
  BY <1>2, <1>6, <1>7

-----------------------------------------------------------------------------
(* The style of one item *)

\* Newer declarations hide older ones.
LEMMA OverIs ==
  ASSUME NEW a, NEW b
  PROVE  /\ DOMAIN Over(a, b) = DOMAIN a \cup DOMAIN b
         /\ \A p \in DOMAIN a : Over(a, b)[p] = a[p]
         /\ \A p \in DOMAIN b \ DOMAIN a : Over(a, b)[p] = b[p]
BY DEF Over

\* What declarations are worth.
LEMMA WorthIs ==
  ASSUME NEW d
  PROVE  /\ DOMAIN Worth(d) = DOMAIN d
         /\ \A p \in DOMAIN d : Worth(d)[p] = IF p = "size" THEN SizeOf[d[p]] ELSE d[p]
BY DEF Worth

\* The rules among the first k that set property p of item n, and what the item
\* has after them.
Hits(order, n, p, k) ==
  {j \in 1..k : Matches(order[j].sel, n) /\ p \in DOMAIN order[j].decls}

Cascaded(f, order, n, base, k) ==
  /\ \A p : p \in DOMAIN f <=> p \in DOMAIN base \/ Hits(order, n, p, k) # {}
  /\ \A p \in DOMAIN base : Hits(order, n, p, k) = {} => f[p] = base[p]
  /\ \A p : \A j \in Hits(order, n, p, k) :
       (\A i \in Hits(order, n, p, k) : i <= j) => f[p] = Worth(order[j].decls)[p]

\* One more rule.
LEMMA CascadeStep ==
  ASSUME NEW order, NEW n, NEW base, NEW f, NEW k \in Nat, Cascaded(f, order, n, base, k)
  PROVE  Cascaded(IF Matches(order[k + 1].sel, n) THEN Over(Worth(order[k + 1].decls), f)
                  ELSE f, order, n, base, k + 1)
<1> DEFINE m == k + 1
           d == order[m].decls
           g == IF Matches(order[m].sel, n) THEN Over(Worth(d), f) ELSE f
           P == IF Matches(order[m].sel, n) THEN DOMAIN d ELSE {}
<1>1. \A j : j \in 1..m <=> j \in 1..k \/ j = m
  OBVIOUS
<1>2. \A p \in P : Hits(order, n, p, m) = Hits(order, n, p, k) \cup {m}
  BY <1>1 DEF Hits
<1>3. \A p : p \notin P => Hits(order, n, p, m) = Hits(order, n, p, k)
  BY <1>1 DEF Hits
<1> DEFINE W == Worth(d)
           O == Over(W, f)
<1>a. DOMAIN W = DOMAIN d /\ DOMAIN O = DOMAIN W \cup DOMAIN f
      /\ (\A p \in DOMAIN W : O[p] = W[p]) /\ \A p \in DOMAIN f \ DOMAIN W : O[p] = f[p]
  <2>1. DOMAIN W = DOMAIN d
    BY WorthIs
  <2> HIDE DEF W
  <2>2. QED
    BY <2>1, OverIs
<1>b. Matches(order[m].sel, n) => g = O /\ P = DOMAIN d
  BY Zenon
<1>c. ~Matches(order[m].sel, n) => g = f /\ P = {}
  BY Zenon
<1> HIDE DEF O, P, g
<1>4. DOMAIN g = DOMAIN f \cup P
  BY <1>a, <1>b, <1>c
<1>5. /\ \A p \in P : g[p] = W[p]
      /\ \A p \in DOMAIN f \ P : g[p] = f[p]
  BY <1>a, <1>b, <1>c
<1>6. \A p : p \in DOMAIN g <=> p \in DOMAIN base \/ Hits(order, n, p, m) # {}
  BY <1>2, <1>3, <1>4 DEF Cascaded
<1>7. \A p \in DOMAIN base : Hits(order, n, p, m) = {} => g[p] = base[p]
  BY <1>2, <1>3, <1>5 DEF Cascaded
<1>8. ASSUME NEW p, NEW j \in Hits(order, n, p, m), \A i \in Hits(order, n, p, m) : i <= j
      PROVE  g[p] = Worth(order[j].decls)[p]
  <2>1. CASE p \in P
    <3>1. m <= j /\ j \in 1..m
      BY <1>2, <1>8, <2>1 DEF Hits
    <3>2. j = m
      BY <3>1
    <3>3. QED
      BY <1>5, <2>1, <3>2
  <2>2. CASE p \notin P
    <3>1. Hits(order, n, p, m) = Hits(order, n, p, k)
      BY <1>3, <2>2
    <3>2. f[p] = Worth(order[j].decls)[p] /\ p \in DOMAIN f
      BY <1>8, <3>1 DEF Cascaded
    <3>3. QED
      BY <1>5, <2>2, <3>2
  <2>3. QED
    BY <2>1, <2>2
<1>9. Cascaded(g, order, n, base, m)
  BY <1>6, <1>7, <1>8 DEF Cascaded
<1>10. QED
  BY <1>9 DEF g

\* The style an item begins with, and its own attribute's place.
BaseStyle(above, old) == Over([p \in Inherited |-> above[p]], old)
WithOwn(n, f) == IF n = Owner THEN Over(Worth(inline), f) ELSE f
Sized(own, above) == [own EXCEPT !["size"] = Of(@, above["size"])]

\* An item's style after all rules, its attribute and its size.
LEMMA StyledIs ==
  ASSUME NEW n, NEW order, Len(order) \in Nat, NEW above, NEW old
  PROVE  \E f : /\ Cascaded(f, order, n, BaseStyle(above, old), Len(order))
                /\ Styled(n, order, above, old) = Sized(WithOwn(n, f), above)
<1> DEFINE N == Len(order)
           base == BaseStyle(above, old)
           Taken(k, f) == IF Matches(order[k].sel, n) THEN Over(Worth(order[k].decls), f) ELSE f
           Body(u, k) == IF k = 0 THEN base ELSE Taken(k, u[k - 1])
           Step(u) == [k \in 0..N |-> Body(u, k)]
           set == CHOOSE u : u = Step(u)
           T == {b \in Nat : \E u : \A k \in 0..N : k <= b => u[k] = Body(u, k)}
<1>1. Styled(n, order, above, old) = Sized(WithOwn(n, set[N]), above)
  BY Zenon DEF Styled, Sized, WithOwn, BaseStyle
<1>0. N \in Nat
  OBVIOUS
<1> HIDE DEF Taken, base, N
<1>2. 0 \in T
  <2> DEFINE u == [k \in 0..N |-> base]
  <2>1. \A k \in 0..N : k <= 0 => k = 0 /\ u[k] = base
    BY <1>0
  <2> HIDE DEF u
  <2>2. \A k \in 0..N : k <= 0 => u[k] = Body(u, k)
    BY <2>1
  <2>3. QED
    BY <2>2
<1>3. ASSUME NEW b \in Nat, b \in T PROVE b + 1 \in T
  <2>1. PICK u : \A k \in 0..N : k <= b => u[k] = Body(u, k)
    BY <1>3
  <2> DEFINE v == Step(u)
  <2>2. \A k \in 0..N : v[k] = Body(u, k)
    OBVIOUS
  <2> HIDE DEF v
  <2>3. ASSUME NEW k \in 0..N, k <= b + 1 PROVE v[k] = Body(v, k)
    <3>1. CASE k = 0
      BY <2>2, <3>1
    <3>2. CASE k # 0
      <4>1. k - 1 \in 0..N /\ k - 1 <= b
        BY <1>0, <1>3, <2>3, <3>2
      <4>2. v[k - 1] = u[k - 1]
        <5> HIDE DEF Body
        <5>1. QED
          BY <2>1, <2>2, <4>1
      <4>3. QED
        BY <2>2, <4>2
    <3>3. QED
      BY <3>1, <3>2
  <2>4. QED
    BY <2>3
<1> HIDE DEF T
<1>4. N \in T
  BY <1>0, <1>2, <1>3, NatAll
<1>5. PICK u : \A k \in 0..N : k <= N => u[k] = Body(u, k)
  BY <1>4 DEF T
<1>6. \A k \in 0..N : u[k] = Body(u, k)
  <2> HIDE DEF Body
  <2>1. QED
    BY <1>0, <1>5
<1>7. Step(u) = Step(Step(u))
  <2> DEFINE v == Step(u)
  <2>1. \A k \in 0..N : v[k] = u[k]
    BY <1>6
  <2> HIDE DEF v
  <2>2. ASSUME NEW k \in 0..N PROVE Body(v, k) = Body(u, k)
    <3>1. CASE k = 0
      BY <3>1
    <3>2. CASE k # 0
      <4>1. k - 1 \in 0..N
        BY <1>0, <3>2
      <4>2. v[k - 1] = u[k - 1]
        BY <2>1, <4>1
      <4>3. QED
        BY <4>2
    <3>3. QED
      BY <3>1, <3>2
  <2> HIDE DEF Body
  <2>3. QED
    BY <2>2 DEF v
<1>8. set = Step(set)
  <2> HIDE DEF Step
  <2>1. QED
    BY <1>7
<1> HIDE DEF set
<1>9. \A k \in 0..N : set[k] = Body(set, k)
  <2> HIDE DEF Body
  <2>1. QED
    BY <1>8
<1> DEFINE U == {k \in Nat : k <= N => Cascaded(set[k], order, n, base, k)}
<1>10. 0 \in U
  <2>1. set[0] = base
    BY <1>0, <1>9
  <2>2. \A p : Hits(order, n, p, 0) = {}
    BY DEF Hits
  <2>3. QED
    BY <2>1, <2>2 DEF Cascaded
<1>11. ASSUME NEW k \in Nat, k \in U PROVE k + 1 \in U
  <2>1. SUFFICES ASSUME k + 1 <= N PROVE Cascaded(set[k + 1], order, n, base, k + 1)
    OBVIOUS
  <2>2. k <= N /\ k + 1 \in 0..N /\ k + 1 # 0 /\ (k + 1) - 1 = k
    BY <1>0, <2>1
  <2>3. set[k + 1] = Taken(k + 1, set[k])
    BY <1>9, <2>2
  <2>4. Cascaded(set[k], order, n, base, k)
    BY <1>11, <2>2
  <2>5. QED
    BY <2>3, <2>4, CascadeStep DEF Taken
<1> HIDE DEF U
<1>12. N \in U
  BY <1>0, <1>10, <1>11, NatAll
<1>13. Cascaded(set[N], order, n, base, N)
  BY <1>0, <1>12 DEF U
<1>14. QED
  BY <1>1, <1>13 DEF base, N

\* What a word says for property p of an item below one styled as above.
Meaning(p, w, above) == IF p = "size" THEN Of(SizeOf[w], above["size"]) ELSE w

\* The last rule that sets a property decides it, the style attribute before it.
StyledAs(st, n, order, above, old) ==
  /\ \A p : p \in DOMAIN st <=> \/ p \in Inherited \cup DOMAIN old \/ Owns(n, p)
                                \/ Hits(order, n, p, Len(order)) # {}
  /\ \A p : Owns(n, p) => st[p] = Meaning(p, inline[p], above)
  /\ \A p : \A j \in Hits(order, n, p, Len(order)) :
       ~Owns(n, p) /\ (\A i \in Hits(order, n, p, Len(order)) : i <= j)
         => st[p] = Meaning(p, order[j].decls[p], above)
  /\ \A p : ~Owns(n, p) /\ Hits(order, n, p, Len(order)) = {} =>
       /\ p \in Inherited => st[p] = IF p = "size" THEN Of(above["size"], above["size"])
                                     ELSE above[p]
       /\ p \in DOMAIN old \ Inherited => st[p] = old[p]

\* It is so for any item, list and style above.
LEMMA StyledSays ==
  ASSUME NEW n, NEW order, Len(order) \in Nat, NEW above, NEW old
  PROVE  StyledAs(Styled(n, order, above, old), n, order, above, old)
<1> DEFINE N == Len(order)
           st == Styled(n, order, above, old)
           base == BaseStyle(above, old)
           H(p) == Hits(order, n, p, N)
<1>1. PICK f : Cascaded(f, order, n, base, N) /\ st = Sized(WithOwn(n, f), above)
  BY StyledIs
<1> HIDE DEF st
<1> DEFINE own == WithOwn(n, f)
<1>2. /\ DOMAIN base = Inherited \cup DOMAIN old
      /\ \A p \in Inherited : base[p] = above[p]
      /\ \A p \in DOMAIN old \ Inherited : base[p] = old[p]
  <2> DEFINE e == [p \in Inherited |-> above[p]]
  <2>1. DOMAIN e = Inherited /\ \A p \in Inherited : e[p] = above[p]
    OBVIOUS
  <2>2. base = Over(e, old)
    BY Zenon DEF BaseStyle
  <2> HIDE DEF e, base
  <2>3. /\ DOMAIN Over(e, old) = DOMAIN e \cup DOMAIN old
        /\ \A p \in DOMAIN e : Over(e, old)[p] = e[p]
        /\ \A p \in DOMAIN old \ DOMAIN e : Over(e, old)[p] = old[p]
    BY OverIs
  <2>4. QED
    BY <2>1, <2>2, <2>3
<1> HIDE DEF base, N
<1>3. \A p : Owns(n, p) <=> n = Owner /\ p \in DOMAIN inline
  BY DEF Owns
<1> DEFINE W == Worth(inline)
           O == Over(W, f)
<1>4. DOMAIN W = DOMAIN inline /\ DOMAIN O = DOMAIN W \cup DOMAIN f
      /\ (\A p \in DOMAIN W : O[p] = W[p]) /\ \A p \in DOMAIN f \ DOMAIN W : O[p] = f[p]
  <2>1. DOMAIN W = DOMAIN inline
    BY WorthIs
  <2> HIDE DEF W
  <2>2. QED
    BY <2>1, OverIs
<1>5. own = IF n = Owner THEN O ELSE f
  BY Zenon DEF WithOwn
<1> HIDE DEF O, own, W
<1>6. \A p : p \in DOMAIN own <=> p \in DOMAIN f \/ Owns(n, p)
  BY <1>3, <1>4, <1>5
<1>7. \A p : Owns(n, p) => own[p] = W[p]
  BY <1>3, <1>4, <1>5
<1>8. \A p \in DOMAIN f : ~Owns(n, p) => own[p] = f[p]
  BY <1>3, <1>4, <1>5
<1> HIDE DEF H
<1>9. \A p : p \in DOMAIN f <=> p \in Inherited \cup DOMAIN old \/ H(p) # {}
  BY <1>1, <1>2 DEF Cascaded, H
<1>10. "size" \in DOMAIN own
  BY <1>6, <1>9, ValuesAssumption
<1>11. /\ DOMAIN st = DOMAIN own /\ \A p \in DOMAIN own : p # "size" => st[p] = own[p]
       /\ st["size"] = Of(own["size"], above["size"])
  <2> DEFINE z == Of(own["size"], above["size"])
  <2>0. st = Sized(own, above)
    BY <1>1 DEF own
  <2>1. st = [own EXCEPT !["size"] = z]
    BY <2>0 DEF Sized
  <2> HIDE DEF z
  <2>2. DOMAIN st = DOMAIN own /\ (\A p \in DOMAIN own : p # "size" => st[p] = own[p])
        /\ st["size"] = z
    BY <1>10, <2>1
  <2>3. QED
    BY <2>2 DEF z
<1>12. \A p : p \in DOMAIN st <=> \/ p \in Inherited \cup DOMAIN old \/ Owns(n, p)
                                  \/ H(p) # {}
  BY <1>6, <1>9, <1>11
<1>13. \A d, p : p \in DOMAIN d => Worth(d)[p] = IF p = "size" THEN SizeOf[d[p]] ELSE d[p]
  BY WorthIs
<1>14. ASSUME NEW p, Owns(n, p) PROVE st[p] = Meaning(p, inline[p], above)
  <2>1. own[p] = IF p = "size" THEN SizeOf[inline[p]] ELSE inline[p]
    BY <1>3, <1>7, <1>13, <1>14 DEF W
  <2>2. p \in DOMAIN own
    BY <1>6, <1>14
  <2>3. CASE p = "size"
    BY <1>11, <2>1, <2>3 DEF Meaning
  <2>4. CASE p # "size"
    BY <1>11, <2>1, <2>2, <2>4 DEF Meaning
  <2>5. QED
    BY <2>3, <2>4
<1>15. ASSUME NEW p, NEW j \in H(p), ~Owns(n, p), \A i \in H(p) : i <= j
       PROVE  st[p] = Meaning(p, order[j].decls[p], above)
  <2> DEFINE d == order[j].decls
  <2>1. p \in DOMAIN d
    BY <1>15 DEF H, Hits
  <2>2. p \in DOMAIN f /\ p \in DOMAIN own
    BY <1>6, <1>9, <1>15
  <2>3. f[p] = Worth(d)[p]
    BY <1>1, <1>15 DEF Cascaded, H
  <2> HIDE DEF d
  <2>4. own[p] = IF p = "size" THEN SizeOf[d[p]] ELSE d[p]
    BY <1>8, <1>13, <1>15, <2>1, <2>2, <2>3
  <2>5. CASE p = "size"
    BY <1>11, <2>4, <2>5 DEF Meaning, d
  <2>6. CASE p # "size"
    BY <1>11, <2>2, <2>4, <2>6 DEF Meaning, d
  <2>7. QED
    BY <2>5, <2>6
<1>16. ASSUME NEW p, ~Owns(n, p), H(p) = {}
       PROVE  /\ p \in Inherited => st[p] = IF p = "size" THEN Of(above["size"], above["size"])
                                            ELSE above[p]
              /\ p \in DOMAIN old \ Inherited => st[p] = old[p]
  <2>1. p \in DOMAIN base => p \in DOMAIN own /\ own[p] = base[p]
    BY <1>1, <1>2, <1>6, <1>8, <1>9, <1>16 DEF Cascaded, H
  <2>2. CASE p = "size"
    BY <1>2, <1>11, <2>1, <2>2, ValuesAssumption
  <2>3. CASE p # "size"
    BY <1>2, <1>11, <2>1, <2>3
  <2>4. QED
    BY <2>2, <2>3
<1>17. QED
  BY <1>12, <1>14, <1>15, <1>16 DEF StyledAs, H, N, st

-----------------------------------------------------------------------------
(* The style of the tree *)

\* What is above item n in a tree styled as all.
AboveIn(all, n) == IF Parent[n] = 0 THEN Default ELSE all[Parent[n]]

\* Every item is styled below its parent's new style.
LEMMA StyleAllIs ==
  ASSUME NEW order
  PROVE  /\ StyleAll(order) = [n \in Nodes |-> StyleAll(order)[n]]
         /\ \A n \in Nodes : StyleAll(order)[n] =
              Styled(n, order, AboveIn(StyleAll(order), n), style[n])
<1> DEFINE Body(u, n) == Styled(n, order, AboveIn(u, n), style[n])
           Step(u) == [n \in Nodes |-> Body(u, n)]
           done == CHOOSE u : u = Step(u)
           T == {k \in Nat : \E u : \A n \in Nodes : n <= k => u[n] = Body(u, n)}
<1>1. StyleAll(order) = done
  BY Zenon DEF StyleAll, AboveIn
<1>a. ASSUME NEW u, NEW v, NEW n \in Nodes,
             Parent[n] \in Nodes => u[Parent[n]] = v[Parent[n]]
      PROVE  Body(u, n) = Body(v, n)
  <2>1. AboveIn(u, n) = AboveIn(v, n)
    BY <1>a, TreeFacts DEF AboveIn
  <2>2. QED
    BY <2>1
<1> HIDE DEF Body
<1>2. 0 \in T
  <2>1. \A i \in Nodes : ~(i <= 0)
    BY TreeFacts
  <2>2. QED
    BY <2>1
<1>3. ASSUME NEW k \in Nat, k \in T PROVE k + 1 \in T
  <2>1. PICK u : \A i \in Nodes : i <= k => u[i] = Body(u, i)
    BY <1>3
  <2> DEFINE v == Step(u)
  <2>2. \A i \in Nodes : v[i] = Body(u, i)
    OBVIOUS
  <2> HIDE DEF v
  <2>3. ASSUME NEW i \in Nodes, i <= k + 1 PROVE v[i] = Body(v, i)
    <3>1. Parent[i] \in Nodes => Parent[i] <= k
      BY <1>3, <2>3, TreeFacts
    <3>2. Parent[i] \in Nodes => v[Parent[i]] = u[Parent[i]]
      BY <2>1, <2>2, <3>1
    <3>3. Body(v, i) = Body(u, i)
      BY <1>a, <3>2
    <3>4. QED
      BY <2>2, <3>3
  <2>4. QED
    BY <2>3
<1> HIDE DEF T
<1>4. Len(Parent) \in T
  BY <1>2, <1>3, NatAll, TreeFacts
<1>5. PICK u : \A i \in Nodes : i <= Len(Parent) => u[i] = Body(u, i)
  BY <1>4 DEF T
<1>6. \A i \in Nodes : u[i] = Body(u, i)
  BY <1>5, TreeFacts
<1>7. Step(u) = Step(Step(u))
  <2> DEFINE v == Step(u)
  <2>1. \A i \in Nodes : v[i] = u[i]
    BY <1>6
  <2> HIDE DEF v
  <2>2. \A i \in Nodes : Body(v, i) = Body(u, i)
    BY <1>a, <2>1
  <2>3. QED
    BY <2>2 DEF v
<1>8. done = Step(done)
  <2> HIDE DEF Step
  <2>1. QED
    BY <1>7
<1> HIDE DEF done
<1>9. \A n \in Nodes : done[n] = Body(done, n)
  BY <1>8
<1>10. done = [n \in Nodes |-> done[n]]
  <2>1. QED
    BY <1>8
<1>11. QED
  BY <1>1, <1>9, <1>10 DEF Body

\* A size a style has been given is in no per cent.
LEMMA OfInPixels == \A x, y : Of(x, y).unit # "percent"
<1> SUFFICES ASSUME NEW x, NEW y PROVE Of(x, y).unit # "percent"
  OBVIOUS
<1>1. CASE x.unit # "percent"
  BY <1>1 DEF Of
<1>2. CASE x.unit = "percent" /\ y.unit = "px"
  BY <1>2 DEF Of
<1>3. CASE x.unit = "percent" /\ y.unit # "px"
  BY <1>3 DEF Of, Throws
<1>4. QED
  BY <1>1, <1>2, <1>3

-----------------------------------------------------------------------------
(* Lists of rules *)

OkList(rs) ==
  /\ Len(rs) \in Nat /\ DOMAIN rs = 1..Len(rs)
  /\ \A k \in 1..Len(rs) : rs[k].sel \in Seq(Words) \ {<<>>}

\* Order of is one of the rules of src that keeps equal ones in their places if
\* the list is short.
From(pi, of, src) ==
  /\ pi \in [1..Len(src) -> 1..Len(src)]
  /\ \A i \in 1..Len(src) : \E k \in 1..Len(src) : pi[k] = i
  /\ \A k \in 1..Len(src) : of[k] = src[pi[k]]
  /\ Len(src) <= SmallSort =>
       \A j, k \in 1..Len(src) : j < k /\ Priority(of[j]) = Priority(of[k]) => pi[j] < pi[k]

Ascending(of) ==
  \A j, k \in 1..Len(of) : j <= k => Priority(of[j]) <= Priority(of[k])

\* The rules with a say in property p of item n.
Says(rs, n, p) == {k \in 1..Len(rs) : p \in DOMAIN rs[k].decls /\ Chain(rs[k].sel, n)}

\* All rules of rs are in of.
Sub(rs, of) == \A k \in 1..Len(rs) : \E j \in 1..Len(of) : rs[k] = of[j]

\* Priorities are numbers.
LEMMA PriorityType == ASSUME NEW rs, OkList(rs) PROVE \A k \in 1..Len(rs) : Priority(rs[k]) \in Nat
BY LenProperties DEF OkList, Priority

\* The rules that hit an item are those whose selector some way down shows.
LEMMA HitsAreSays ==
  ASSUME NEW rs, OkList(rs), NEW n \in Nodes
  PROVE  \A p : Hits(rs, n, p, Len(rs)) = Says(rs, n, p)
<1>1. \A k \in 1..Len(rs) : Matches(rs[k].sel, n) <=> Chain(rs[k].sel, n)
  BY MatchesIsChain DEF OkList
<1>2. QED
  BY <1>1 DEF Hits, Says

\* A sorted list has the rules of the list, by priority.
LEMMA SortedIs ==
  ASSUME NEW rs, OkList(rs), NEW of \in Sorted(rs)
  PROVE  /\ OkList(of) /\ Len(of) = Len(rs) /\ Ascending(of)
         /\ \E p \in Orders(rs) : \A k \in 1..Len(rs) : of[k] = rs[p[k]]
<1> DEFINE N == Len(rs)
           S == {rs[k] : k \in 1..N}
<1>1. N \in Nat /\ DOMAIN rs = 1..N
  BY DEF OkList
<1>2. PICK p \in Orders(rs) : of = [k \in DOMAIN rs |-> rs[p[k]]]
  BY DEF Sorted
<1>3. /\ p \in [1..N -> 1..N]
      /\ \A j, k \in 1..N : j < k =>
           \/ Priority(rs[p[j]]) < Priority(rs[p[k]])
           \/ Priority(rs[p[j]]) = Priority(rs[p[k]])
  BY <1>1, <1>2 DEF Orders
<1> HIDE DEF N, S
<1>4. \A k \in 1..N : p[k] \in 1..N /\ of[k] = rs[p[k]]
  BY <1>1, <1>2, <1>3
<1>5. of \in [1..N -> S]
  <2>1. of = [k \in 1..N |-> rs[p[k]]]
    BY <1>1, <1>2
  <2>2. \A k \in 1..N : rs[p[k]] \in S
    BY <1>4 DEF S
  <2> HIDE DEF S
  <2>3. QED
    BY <2>1, <2>2
<1>6. of \in Seq(S)
  BY <1>1, <1>5, SeqDef
<1>7. Len(of) = N /\ DOMAIN of = 1..N
  BY <1>1, <1>5, <1>6, LenProperties
<1>8. OkList(of)
  <2>1. \A k \in 1..N : rs[k].sel \in Seq(Words) \ {<<>>}
    BY DEF OkList, N
  <2>2. \A k \in 1..N : of[k].sel \in Seq(Words) \ {<<>>}
    BY <1>4, <2>1
  <2>3. QED
    BY <1>1, <1>7, <2>2 DEF OkList
<1>9. Ascending(of)
  <2>1. \A k \in 1..N : Priority(of[k]) \in Nat
    BY <1>7, <1>8, PriorityType
  <2>2. SUFFICES ASSUME NEW j \in 1..N, NEW k \in 1..N, j <= k
                 PROVE  Priority(of[j]) <= Priority(of[k])
    BY <1>7 DEF Ascending
  <2>3. j = k \/ j < k
    BY <1>1, <2>2
  <2> DEFINE a == Priority(of[j])
             b == Priority(of[k])
  <2>4. a \in Nat /\ b \in Nat
    BY <2>1
  <2>5. of[j] = rs[p[j]] /\ of[k] = rs[p[k]]
    BY <1>4
  <2>6. j < k => Priority(rs[p[j]]) < Priority(rs[p[k]]) \/ Priority(rs[p[j]]) = Priority(rs[p[k]])
    BY <1>3
  <2>7. j < k => a < b \/ a = b
    BY <2>5, <2>6
  <2>8. j = k => a = b
    OBVIOUS
  <2> HIDE DEF a, b
  <2>9. a <= b
    BY <2>3, <2>4, <2>7, <2>8
  <2>10. QED
    BY <2>9 DEF a, b
<1>10. QED
  BY <1>2, <1>4, <1>7, <1>8, <1>9 DEF N

\* Sorted once more, a list is still an order of the rules of src.
LEMMA SortedFrom ==
  ASSUME NEW src, NEW rs, OkList(rs), Len(rs) = Len(src), NEW pi, From(pi, rs, src),
         NEW of \in Sorted(rs)
  PROVE  \E rho : From(rho, of, src)
<1> DEFINE N == Len(src)
<1>1. N \in Nat /\ DOMAIN rs = 1..N
  BY DEF OkList
<1>2. OkList(of)
  BY SortedIs
<1>3. PICK p \in Orders(rs) : \A k \in 1..N : of[k] = rs[p[k]]
  BY SortedIs
<1>4. /\ p \in [1..N -> 1..N]
      /\ \A i \in 1..N : \E k \in 1..N : p[k] = i
      /\ \A j, k \in 1..N : j < k =>
           \/ Priority(rs[p[j]]) < Priority(rs[p[k]])
           \/ Priority(rs[p[j]]) = Priority(rs[p[k]]) /\ (N <= SmallSort => p[j] < p[k])
  BY <1>1, <1>3 DEF Orders
<1>5. \A k \in 1..N : Priority(rs[k]) \in Nat
  BY PriorityType
<1>6. /\ pi \in [1..N -> 1..N]
      /\ \A i \in 1..N : \E k \in 1..N : pi[k] = i
      /\ \A k \in 1..N : rs[k] = src[pi[k]]
      /\ N <= SmallSort =>
           \A j, k \in 1..N : j < k /\ Priority(rs[j]) = Priority(rs[k]) => pi[j] < pi[k]
  BY DEF From
<1> DEFINE rho == [k \in 1..N |-> pi[p[k]]]
<1> HIDE DEF N
<1>7. \A k \in 1..N : p[k] \in 1..N /\ rho[k] = pi[p[k]] /\ rho[k] \in 1..N
  BY <1>4, <1>6
<1>8. rho \in [1..N -> 1..N]
  BY <1>7
<1> HIDE DEF rho
<1>9. \A i \in 1..N : \E k \in 1..N : rho[k] = i
  <2>1. SUFFICES ASSUME NEW i \in 1..N PROVE \E k \in 1..N : rho[k] = i
    OBVIOUS
  <2>2. PICK j \in 1..N : pi[j] = i
    BY <1>6
  <2>3. PICK k \in 1..N : p[k] = j
    BY <1>4
  <2>4. QED
    BY <1>7, <2>2, <2>3
<1>10. \A k \in 1..N : of[k] = src[rho[k]]
  BY <1>3, <1>6, <1>7
<1>11. ASSUME N <= SmallSort, NEW j \in 1..N, NEW k \in 1..N, j < k,
              Priority(of[j]) = Priority(of[k])
       PROVE  rho[j] < rho[k]
  <2>1. Priority(rs[p[j]]) = Priority(rs[p[k]])
    BY <1>3, <1>11
  <2>2. p[j] < p[k]
    <3> DEFINE a == Priority(rs[p[j]])
               b == Priority(rs[p[k]])
    <3>1. p[j] \in 1..N
      BY <1>7
    <3>2. a \in Nat /\ a = b
      BY <1>5, <2>1, <3>1
    <3>3. a < b \/ p[j] < p[k]
      BY <1>4, <1>11
    <3> HIDE DEF a, b
    <3>4. QED
      BY <3>2, <3>3
  <2>3. pi[p[j]] < pi[p[k]]
    BY <1>6, <1>7, <1>11, <2>1, <2>2
  <2>4. QED
    BY <1>7, <2>3
<1>12. QED
  BY <1>8, <1>9, <1>10, <1>11 DEF From, N

-----------------------------------------------------------------------------
(* What a render shows *)

\* Nobody's declarations: what an item has is inherited, the attribute's, or that
\* of a rule of this page or of one left by the page before.
Keeps(all, src, lft) ==
  \A n \in Nodes : \A p \in DOMAIN all[n] :
    \/ p \in Inherited \/ Owns(n, p) \/ Says(src, n, p) # {}
    \/ \E k \in Says(lft, n, p) : all[n][p] = lft[k].decls[p]

\* Rule k decides property p of item n.
Decides(k, src, n, p) ==
  /\ k \in Says(src, n, p)
  /\ \A j \in Says(src, n, p) :
       /\ Priority(src[j]) <= Priority(src[k])
       /\ Len(src) <= SmallSort /\ Priority(src[j]) = Priority(src[k]) => j <= k

\* StyleFollowsCascade, for one item and one property.
ShowsAt(all, src, lft, n, p) ==
  /\ p \in Inherited \/ Owns(n, p) \/ Says(src, n, p) # {} => p \in DOMAIN all[n]
  /\ Owns(n, p) => all[n][p] = Meaning(p, inline[p], AboveIn(all, n))
  /\ ~Owns(n, p) /\ Says(src, n, p) # {} =>
       \E k : Decides(k, src, n, p) /\ all[n][p] = Meaning(p, src[k].decls[p], AboveIn(all, n))
  /\ ~Owns(n, p) /\ Says(src, n, p) = {} /\ p \in Inherited =>
       all[n][p] = AboveIn(all, n)[p]
  /\ ~Owns(n, p) /\ Says(src, n, p) = {} /\ p \in DOMAIN all[n] \ Inherited =>
       \E k \in Says(lft, n, p) : all[n][p] = lft[k].decls[p]

Shows(all, src, lft) == \A n \in Nodes : \A p : ShowsAt(all, src, lft, n, p)

\* What the cascade says is nobody else's.
LEMMA ShownKeeps ==
  ASSUME NEW all, NEW src, NEW lft, Shows(all, src, lft) PROVE Keeps(all, src, lft)
BY DEF Shows, ShowsAt, Keeps

\* The last of the rules that set a property.
LEMMA LastHit ==
  ASSUME NEW of, Len(of) \in Nat, NEW n, NEW p, Hits(of, n, p, Len(of)) # {}
  PROVE  \E m \in Hits(of, n, p, Len(of)) : \A i \in Hits(of, n, p, Len(of)) : i <= m
<1> DEFINE H == Hits(of, n, p, Len(of))
<1>1. H \subseteq Nat /\ \A i \in H : i <= Len(of)
  BY DEF Hits
<1> HIDE DEF H
<1>2. \E m \in H : \A i \in H : i <= m
  BY <1>1, NatMax DEF H
<1>3. QED
  BY <1>2 DEF H

\* Whatever decides the size of an item, it is in no per cent.
LEMMA SizeInPixels ==
  ASSUME NEW of, Len(of) \in Nat, NEW n \in Nodes
  PROVE  LET a == AboveIn(StyleAll(of), n)["size"] IN Of(a, a) = a
<1> DEFINE all == StyleAll(of)
           a == AboveIn(all, n)["size"]
<1>1. a.unit # "percent"
  <2>1. CASE Parent[n] = 0
    BY <2>1, ValuesAssumption DEF AboveIn
  <2>2. CASE Parent[n] # 0
    <3> DEFINE m == Parent[n]
               x == AboveIn(all, m)
               st == all[m]
    <3>1. m \in Nodes /\ a = st["size"]
      BY <2>2, TreeFacts DEF AboveIn
    <3>2. st = Styled(m, of, x, style[m])
      BY <3>1, StyleAllIs
    <3> HIDE DEF all, a, m, x, st
    <3>3. StyledAs(st, m, of, x, style[m])
      BY <3>2, StyledSays
    <3>4. "size" \in Inherited
      BY ValuesAssumption
    <3>5. \E u, v : st["size"] = Of(u, v)
      <4>1. CASE Owns(m, "size")
        BY <3>3, <4>1 DEF Meaning, StyledAs
      <4>2. CASE ~Owns(m, "size") /\ Hits(of, m, "size", Len(of)) = {}
        BY <3>3, <3>4, <4>2 DEF StyledAs
      <4>3. CASE ~Owns(m, "size") /\ Hits(of, m, "size", Len(of)) # {}
        <5>1. PICK j \in Hits(of, m, "size", Len(of)) : \A i \in Hits(of, m, "size", Len(of)) : i <= j
          BY <4>3, LastHit
        <5>2. st["size"] = Meaning("size", of[j].decls["size"], x)
          BY <3>3, <4>3, <5>1 DEF StyledAs
        <5>3. QED
          BY <5>2 DEF Meaning
      <4>4. QED
        BY <4>1, <4>2, <4>3
    <3>6. PICK u, v : st["size"] = Of(u, v)
      BY <3>5
    <3>7. Of(u, v).unit # "percent"
      BY OfInPixels
    <3>8. QED
      BY <3>1, <3>6, <3>7
  <2>3. QED
    BY <2>1, <2>2
<1> HIDE DEF a, all
<1>2. Of(a, a) = a
  BY <1>1 DEF Of
<1>3. QED
  BY <1>2 DEF a, all

\* In a list in its order, the last rule with a say decides.
LEMMA LastDecides ==
  ASSUME NEW src, NEW of, OkList(src), OkList(of), Len(of) = Len(src), Ascending(of),
         NEW rho, From(rho, of, src), NEW n, NEW p,
         NEW m \in Says(of, n, p), \A i \in Says(of, n, p) : i <= m
  PROVE  Decides(rho[m], src, n, p) /\ of[m] = src[rho[m]]
<1> DEFINE N == Len(src)
<1>1. /\ rho \in [1..N -> 1..N]
      /\ \A i \in 1..N : \E k \in 1..N : rho[k] = i
      /\ \A k \in 1..N : of[k] = src[rho[k]]
      /\ N <= SmallSort =>
           \A j, k \in 1..N : j < k /\ Priority(of[j]) = Priority(of[k]) => rho[j] < rho[k]
  BY DEF From
<1>2. m \in 1..N /\ rho[m] \in 1..N /\ of[m] = src[rho[m]]
  BY <1>1 DEF Says
<1>3. rho[m] \in Says(src, n, p)
  BY <1>2 DEF Says
<1>4. ASSUME NEW j \in Says(src, n, p)
      PROVE  /\ Priority(src[j]) <= Priority(src[rho[m]])
             /\ N <= SmallSort /\ Priority(src[j]) = Priority(src[rho[m]]) => j <= rho[m]
  <2>1. j \in 1..N
    BY DEF Says
  <2>2. PICK i \in 1..N : rho[i] = j
    BY <1>1, <2>1
  <2>3. of[i] = src[j]
    BY <1>1, <2>2
  <2>4. i \in Says(of, n, p)
    BY <2>2, <2>3 DEF Says
  <2>5. i <= m
    BY <2>4
  <2>6. Priority(of[i]) <= Priority(of[m])
    BY <1>2, <2>2, <2>5 DEF Ascending
  <2>7. i = m \/ i < m
    BY <1>2, <2>2, <2>5
  <2>8. N <= SmallSort /\ Priority(src[j]) = Priority(src[rho[m]]) => j <= rho[m]
    <3>1. CASE i = m
      BY <1>2, <2>2, <3>1
    <3>2. CASE i < m
      <4>1. N <= SmallSort /\ Priority(of[i]) = Priority(of[m]) => rho[i] < rho[m]
        BY <1>1, <1>2, <3>2
      <4>2. rho[i] \in Int /\ rho[m] \in Int
        BY <1>2, <2>1, <2>2
      <4>3. QED
        BY <1>2, <2>2, <2>3, <4>1, <4>2
    <3>3. QED
      BY <2>7, <3>1, <3>2
  <2>9. QED
    BY <1>2, <2>3, <2>6, <2>8
<1>5. QED
  BY <1>2, <1>3, <1>4 DEF Decides

\* After a render, every item has what the cascade says.
LEMMA RenderShows ==
  ASSUME NEW src, NEW lft, NEW of, OkList(src), OkList(of), Len(of) = Len(src), Ascending(of),
         NEW rho, From(rho, of, src), Keeps(style, src, lft)
  PROVE  Shows(StyleAll(of), src, lft)
<1> DEFINE all == StyleAll(of)
<1> SUFFICES ASSUME NEW n \in Nodes, NEW p PROVE ShowsAt(all, src, lft, n, p)
  BY DEF Shows
<1> DEFINE above == AboveIn(all, n)
           st == all[n]
           H == Says(of, n, p)
<1>1. Len(of) \in Nat
  BY DEF OkList
<1>2. StyledAs(st, n, of, above, style[n])
  <2>1. st = Styled(n, of, above, style[n])
    BY StyleAllIs
  <2>2. QED
    BY <1>1, <2>1, StyledSays
<1>3. Hits(of, n, p, Len(of)) = H
  BY HitsAreSays
<1>4. p = "size" => Of(above["size"], above["size"]) = above[p]
  BY <1>1, SizeInPixels
<1> HIDE DEF above, st, H
<1>5. H # {} => \E m \in H : \A i \in H : i <= m
  BY <1>1, <1>3, LastHit
<1>6. Says(src, n, p) # {} => H # {}
  <2>1. ASSUME NEW j \in Says(src, n, p) PROVE H # {}
    <3>1. j \in 1..Len(src)
      BY DEF Says
    <3>2. PICK k \in 1..Len(src) : rho[k] = j
      BY <3>1 DEF From
    <3>3. of[k] = src[j]
      BY <3>2 DEF From
    <3>4. k \in H
      BY <3>2, <3>3 DEF Says, H
    <3>5. QED
      BY <3>4
  <2>2. QED
    BY <2>1
<1>7. ASSUME NEW m \in H, \A i \in H : i <= m
      PROVE  Decides(rho[m], src, n, p) /\ of[m] = src[rho[m]] /\ Says(src, n, p) # {}
  <2>1. Decides(rho[m], src, n, p) /\ of[m] = src[rho[m]]
    BY <1>7, LastDecides DEF H
  <2>2. QED
    BY <2>1 DEF Decides
<1>8. Says(src, n, p) # {} <=> H # {}
  BY <1>5, <1>6, <1>7
<1>9. p \in DOMAIN st <=> \/ p \in Inherited \/ p \in DOMAIN style[n] \/ Owns(n, p)
                          \/ Says(src, n, p) # {}
  BY <1>2, <1>3, <1>8 DEF StyledAs
<1>10. Owns(n, p) => st[p] = Meaning(p, inline[p], above)
  BY <1>2 DEF StyledAs
<1>11. ASSUME ~Owns(n, p), Says(src, n, p) # {}
       PROVE  \E k : Decides(k, src, n, p) /\ st[p] = Meaning(p, src[k].decls[p], above)
  <2>1. PICK m \in H : \A i \in H : i <= m
    BY <1>5, <1>8, <1>11
  <2>2. Decides(rho[m], src, n, p) /\ of[m] = src[rho[m]]
    BY <1>7, <2>1
  <2>3. st[p] = Meaning(p, of[m].decls[p], above)
    BY <1>2, <1>3, <1>11, <2>1 DEF StyledAs
  <2>4. QED
    BY <2>2, <2>3
<1>12. ASSUME ~Owns(n, p), Says(src, n, p) = {}
       PROVE  /\ p \in Inherited => st[p] = above[p]
              /\ p \in DOMAIN style[n] \ Inherited => st[p] = style[n][p]
  <2>1. Hits(of, n, p, Len(of)) = {}
    BY <1>3, <1>8, <1>12
  <2>2. /\ p \in Inherited => st[p] = IF p = "size" THEN Of(above["size"], above["size"])
                                      ELSE above[p]
        /\ p \in DOMAIN style[n] \ Inherited => st[p] = style[n][p]
    BY <1>2, <1>12, <2>1 DEF StyledAs
  <2>3. QED
    BY <1>4, <2>2
<1>13. ASSUME ~Owns(n, p), Says(src, n, p) = {}, p \in DOMAIN st \ Inherited
       PROVE  \E k \in Says(lft, n, p) : st[p] = lft[k].decls[p]
  <2>1. p \in DOMAIN style[n] /\ st[p] = style[n][p]
    BY <1>9, <1>12, <1>13
  <2>2. QED
    BY <1>13, <2>1 DEF Keeps
<1>14. QED
  BY <1>9, <1>10, <1>11, <1>12, <1>13 DEF ShowsAt, above, st

\* A script's render, with the rules rs of the page before.
LEMMA RenderKeeps ==
  ASSUME NEW src, NEW lft, NEW rs, Len(src) = 0, OkList(rs), NEW of \in Sorted(rs),
         Sub(lft, rs), Keeps(style, src, lft)
  PROVE  Keeps(StyleAll(of), src, rs) /\ Sub(rs, of) /\ OkList(of)
<1> DEFINE all == StyleAll(of)
           N == Len(rs)
<1>1. OkList(of) /\ Len(of) = N /\ N \in Nat
  BY SortedIs DEF OkList
<1>2. PICK q \in Orders(rs) : \A k \in 1..N : of[k] = rs[q[k]]
  BY SortedIs
<1>3. q \in [1..N -> 1..N] /\ \A i \in 1..N : \E k \in 1..N : q[k] = i
  <2>1. DOMAIN rs = 1..N
    BY DEF OkList
  <2> HIDE DEF N
  <2>2. QED
    BY <2>1 DEF Orders
<1>4. \A k \in 1..N : \E j \in 1..N : rs[k] = of[j]
  <2> HIDE DEF N
  <2>1. QED
    BY <1>2, <1>3
<1>5. ASSUME NEW n \in Nodes, NEW p \in DOMAIN all[n], p \notin Inherited, ~Owns(n, p)
      PROVE  \E k \in Says(rs, n, p) : all[n][p] = rs[k].decls[p]
  <2> DEFINE above == AboveIn(all, n)
             st == all[n]
             H == Hits(of, n, p, Len(of))
  <2>1. StyledAs(st, n, of, above, style[n])
    <3>1. st = Styled(n, of, above, style[n])
      BY StyleAllIs
    <3>2. QED
      BY <1>1, <3>1, StyledSays
  <2>2. H = Says(of, n, p)
    BY <1>1, HitsAreSays
  <2> HIDE DEF all, above, st, H, N
  <2>3. CASE H # {}
    <3>1. PICK m \in H : \A i \in H : i <= m
      BY <1>1, <2>3, LastHit DEF H
    <3>2. m \in 1..N /\ p \in DOMAIN of[m].decls /\ Chain(of[m].sel, n)
      BY <1>1, <2>2 DEF Says
    <3>3. st[p] = Meaning(p, of[m].decls[p], above)
      BY <1>5, <2>1, <3>1 DEF StyledAs, H
    <3>4. p # "size"
      BY <1>5, ValuesAssumption
    <3>5. st[p] = of[m].decls[p]
      BY <3>3, <3>4 DEF Meaning
    <3>6. q[m] \in 1..N /\ of[m] = rs[q[m]]
      BY <1>2, <1>3, <3>2
    <3>7. q[m] \in Says(rs, n, p)
      BY <3>2, <3>6 DEF Says, N
    <3>8. QED
      BY <3>5, <3>6, <3>7 DEF st
  <2>4. CASE H = {}
    <3>1. p \in DOMAIN style[n] /\ st[p] = style[n][p]
      BY <1>5, <2>1, <2>4 DEF StyledAs, H, st
    <3>2. Says(src, n, p) = {}
      BY DEF Says
    <3>3. PICK k \in Says(lft, n, p) : style[n][p] = lft[k].decls[p]
      BY <1>5, <3>1, <3>2 DEF Keeps
    <3>4. PICK j \in 1..N : lft[k] = rs[j]
      BY DEF Sub, Says, N
    <3>5. j \in Says(rs, n, p)
      BY <3>4 DEF Says, N
    <3>6. QED
      BY <3>1, <3>3, <3>4, <3>5 DEF st
  <2>5. QED
    BY <2>3, <2>4
<1>6. Keeps(all, src, rs)
  BY <1>5 DEF Keeps
<1>7. QED
  BY <1>1, <1>4, <1>6 DEF Sub

\* Rules that were parsed are a list.
LEMMA RulesOk ==
  ASSUME NEW rs \in Seq(RuleSet)
  PROVE  /\ OkList(rs)
         /\ \A k \in 1..Len(rs) : DOMAIN rs[k].decls \subseteq Words
<1>1. Len(rs) \in Nat /\ DOMAIN rs = 1..Len(rs) /\ \A k \in 1..Len(rs) : rs[k] \in RuleSet
  BY LenProperties, ElementOfSeq
<1>2. \A r \in RuleSet : r.sel \in Seq(Words) \ {<<>>} /\ r.decls \in Bodies
  BY DEF RuleSet
<1>3. \A d \in Bodies : DOMAIN d \subseteq Words
  BY DEF Bodies
<1>4. \A k \in 1..Len(rs) : rs[k].sel \in Seq(Words) \ {<<>>}
  BY <1>1, <1>2
<1>5. QED
  BY <1>1, <1>2, <1>3, <1>4 DEF OkList

\* The rule that decides is one the property names.
LEMMA DecidesIs ==
  ASSUME source \in Seq(RuleSet), NEW n, NEW p, NEW k, Decides(k, source, n, p)
  PROVE  k \in Decide(n, p)
<1>1. Speak(n, p) = Says(source, n, p)
  BY RulesOk DEF Speak, Says, OkList
<1> DEFINE S == Strongest(n, p)
<1>2. k \in S
  BY <1>1 DEF Strongest, Decides
<1>3. CASE Len(source) <= SmallSort
  <2>1. S \subseteq Nat
    BY <1>1 DEF Strongest, Says
  <2>2. \A j \in 1..Len(source) : Priority(source[j]) \in Nat
    BY RulesOk, PriorityType
  <2>3. ASSUME NEW j \in S PROVE j <= k
    <3>1. j \in Says(source, n, p) /\ k \in Says(source, n, p)
      BY <1>1, <1>2 DEF Strongest
    <3>2. Priority(source[k]) <= Priority(source[j]) /\ Priority(source[j]) <= Priority(source[k])
      BY <1>1, <3>1 DEF Strongest, Decides
    <3>3. Priority(source[j]) \in Nat /\ Priority(source[k]) \in Nat
      BY <2>2, <3>1 DEF Says
    <3> DEFINE a == Priority(source[j])
               b == Priority(source[k])
    <3>4. a \in Nat /\ b \in Nat /\ a <= b /\ b <= a
      BY <3>2, <3>3
    <3> HIDE DEF a, b
    <3>5. a = b
      BY <3>4
    <3>6. QED
      BY <1>3, <3>1, <3>5 DEF Decides, a, b
  <2> HIDE DEF S
  <2>4. Max(S) = k
    BY <1>2, <2>1, <2>3, Greatest
  <2>5. QED
    BY <1>3, <2>4 DEF Decide, S
<1>4. CASE ~(Len(source) <= SmallSort)
  BY <1>2, <1>4 DEF Decide
<1>5. QED
  BY <1>3, <1>4

\* It is StyleFollowsCascade, item by item and property by property.
LEMMA ShowsFollows ==
  ASSUME source \in Seq(RuleSet), inline \in Bodies, DOMAIN left = 1..Len(left),
         Shows(style, source, left)
  PROVE  StyleFollowsCascade
<1>1. \A n : \A p : Speak(n, p) = Says(source, n, p)
  BY RulesOk DEF Speak, Says, OkList
<1>2. \A n, p : Owns(n, p) \/ Speak(n, p) # {} => p \in Words
  <2>1. DOMAIN inline \subseteq Words
    BY DEF Bodies
  <2>2. \A k \in 1..Len(source) : DOMAIN source[k].decls \subseteq Words
    BY RulesOk
  <2>3. QED
    BY <1>1, <2>1, <2>2 DEF Owns, Says
<1>3. ASSUME NEW n \in Nodes
      PROVE  LET declared(p) == IF Owns(n, p) THEN {inline[p]}
                                ELSE {source[k].decls[p] : k \in Decide(n, p)}
                 value(p, w) == IF p = "size" THEN Of(SizeOf[w], Above(n)["size"]) ELSE w
                 spoken == {p \in Words : Owns(n, p) \/ Speak(n, p) # {}}
             IN /\ Inherited \cup spoken \subseteq DOMAIN style[n]
                /\ \A p \in spoken : \E w \in declared(p) : style[n][p] = value(p, w)
                /\ \A p \in Inherited \ spoken : style[n][p] = Above(n)[p]
                /\ \A p \in DOMAIN style[n] \ (Inherited \cup spoken) :
                     \E k \in DOMAIN left :
                       /\ Chain(left[k].sel, n)
                       /\ p \in DOMAIN left[k].decls /\ style[n][p] = left[k].decls[p]
  <2> DEFINE declared(p) == IF Owns(n, p) THEN {inline[p]}
                            ELSE {source[k].decls[p] : k \in Decide(n, p)}
             value(p, w) == IF p = "size" THEN Of(SizeOf[w], Above(n)["size"]) ELSE w
             spoken == {p \in Words : Owns(n, p) \/ Speak(n, p) # {}}
  <2>1. \A p : p \in spoken <=> Owns(n, p) \/ Says(source, n, p) # {}
    BY <1>1, <1>2
  <2>2. Above(n) = AboveIn(style, n)
    BY DEF Above, AboveIn
  <2>3. \A p, w : value(p, w) = Meaning(p, w, AboveIn(style, n))
    BY <2>2 DEF Meaning
  <2>4. \A p : ShowsAt(style, source, left, n, p)
    BY DEF Shows
  <2>5. \A p : Owns(n, p) => declared(p) = {inline[p]}
    OBVIOUS
  <2>6. \A p : ~Owns(n, p) => declared(p) = {source[k].decls[p] : k \in Decide(n, p)}
    OBVIOUS
  <2> HIDE DEF spoken, value, declared
  <2>7. Inherited \cup spoken \subseteq DOMAIN style[n]
    BY <2>1, <2>4 DEF ShowsAt
  <2>8. ASSUME NEW p \in spoken PROVE \E w \in declared(p) : style[n][p] = value(p, w)
    <3>1. CASE Owns(n, p)
      BY <2>3, <2>4, <2>5, <3>1 DEF ShowsAt
    <3>2. CASE ~Owns(n, p)
      <4>1. PICK k : Decides(k, source, n, p)
                     /\ style[n][p] = Meaning(p, source[k].decls[p], AboveIn(style, n))
        BY <2>1, <2>4, <3>2 DEF ShowsAt
      <4>2. source[k].decls[p] \in declared(p)
        BY <2>6, <3>2, <4>1, DecidesIs
      <4>3. QED
        BY <2>3, <4>1, <4>2
    <3>3. QED
      BY <3>1, <3>2
  <2>9. \A p \in Inherited \ spoken : style[n][p] = Above(n)[p]
    BY <2>1, <2>2, <2>4 DEF ShowsAt
  <2>10. \A p \in DOMAIN style[n] \ (Inherited \cup spoken) :
           \E k \in DOMAIN left :
             /\ Chain(left[k].sel, n)
             /\ p \in DOMAIN left[k].decls /\ style[n][p] = left[k].decls[p]
    BY <2>1, <2>4 DEF ShowsAt, Says
  <2>11. QED
    BY <2>7, <2>8, <2>9, <2>10 DEF spoken, value, declared
<1>4. QED
  BY <1>3, Zenon DEF StyleFollowsCascade

-----------------------------------------------------------------------------
(* The invariant *)

StyleInv ==
  /\ ParserInv
  /\ inline \in Bodies /\ source \in Seq(RuleSet)
  /\ DOMAIN style = Nodes /\ DOMAIN left = 1..Len(left)
  /\ Keeps(style, source, left)
  /\ phase = "attribute" => \A n \in Nodes : DOMAIN style[n] = {}
  /\ phase \in {"attribute", "scripts"} => source = <<>> /\ OkList(listed) /\ Sub(left, listed)
  /\ phase = "sheets" => listed = source
  /\ phase \in {"edited", "shown"} =>
       /\ OkList(listed) /\ Len(listed) = Len(source)
       /\ \E pi : From(pi, listed, source)
  /\ phase = "shown" => Shows(style, source, left)

\* Both depend on the attribute's declarations only.
LEMMA SameOwner ==
  ASSUME inline' = inline, NEW all, NEW src, NEW lft
  PROVE  /\ Keeps(all, src, lft) => Keeps(all, src, lft)'
         /\ Shows(all, src, lft) => Shows(all, src, lft)'
<1>1. \A n, p : Owns(n, p)' <=> Owns(n, p)
  BY DEF Owns
<1>2. Keeps(all, src, lft) => Keeps(all, src, lft)'
  BY <1>1 DEF Keeps
<1>3. \A n, p : ShowsAt(all, src, lft, n, p) => ShowsAt(all, src, lft, n, p)'
  BY <1>1 DEF ShowsAt
<1>4. QED
  BY <1>2, <1>3 DEF Shows

\* A new tree has no style.
LEMMA InitStyleInv == CascadeInit => StyleInv
<1> SUFFICES ASSUME CascadeInit PROVE StyleInv
  OBVIOUS
<1>1. /\ phase = "attribute" /\ style = [i \in Nodes |-> NoStyle] /\ inline = NoDecls
      /\ listed \in OldRules /\ source = <<>> /\ left = <<>>
  BY DEF CascadeInit
<1>2. DOMAIN NoDecls = {} /\ NoDecls \in Bodies
  BY DEF NoDecls, Bodies
<1>3. DOMAIN style = Nodes /\ \A n \in Nodes : DOMAIN style[n] = {}
  BY <1>1, <1>2 DEF NoStyle
<1>4. OkList(listed)
  <2>1. /\ listed \in Seq({listed[k] : k \in DOMAIN listed})
        /\ \A k \in DOMAIN listed : listed[k].sel \in Seq(Words) \ {<<>>}
    BY <1>1, ValuesAssumption
  <2>2. Len(listed) \in Nat /\ DOMAIN listed = 1..Len(listed)
    BY <2>1, LenProperties
  <2>3. QED
    BY <2>1, <2>2 DEF OkList
<1>5. source \in Seq(RuleSet) /\ DOMAIN left = 1..Len(left) /\ Len(left) = 0
  BY <1>1
<1>6. Sub(left, listed)
  BY <1>5 DEF Sub
<1>7. Keeps(style, source, left)
  BY <1>3 DEF Keeps
<1>8. QED
  BY <1>1, <1>2, <1>3, <1>4, <1>5, <1>6, <1>7, InitParserInv DEF StyleInv

\* The declarations of a style attribute.
LEMMA InlineType ==
  ASSUME ParserInv, phase = "attribute" PROVE decls \in Bodies
<1>1. text \in Seq(Symbols) /\ AttributeInv
  BY DEF ParserInv
<1>2. CASE at \in InBody
  BY <1>1, <1>2, DeclaresType DEF AttributeInv, ReadsBody
<1>3. CASE at \notin InBody
  BY <1>1, <1>3, DeclaresType DEF AttributeInv
<1>4. QED
  BY <1>2, <1>3

\* The rules of a sheet.
LEMMA SheetRules ==
  ASSUME ParserInv, phase = "sheets" PROVE rules \in Seq(RuleSet)
<1>1. text \in Seq(Symbols) /\ rules = RulesOf(text)
  BY DEF ParserInv, SheetInv
<1>2. PICK f \in [0..Len(text) -> Seq(RuleSet)] : RulesOf(text) = f[Len(text)]
  BY <1>1, Finding
<1>3. Len(text) \in 0..Len(text)
  BY <1>1, LenProperties
<1>4. QED
  BY <1>1, <1>2, <1>3

\* What parsing leaves alone.
LEMMA SameStyle ==
  ASSUME StyleInv, ParserInv', UNCHANGED <<phase, listed, style, inline, source, left>>
  PROVE  StyleInv'
<1>1. Keeps(style, source, left)'
  BY SameOwner DEF StyleInv
<1>2. phase' = "shown" => Shows(style, source, left)'
  BY SameOwner DEF StyleInv
<1>3. QED
  BY <1>1, <1>2 DEF StyleInv

\* The style attribute's declarations are there before any style.
LEMMA EndAttributeStyle ==
  ASSUME StyleInv, ParserInv', EndAttributeText PROVE StyleInv'
<1>1. /\ phase = "attribute" /\ phase' = "scripts" /\ inline' = decls
      /\ UNCHANGED <<listed, style, source, left>>
  BY DEF EndAttributeText
<1>2. inline' \in Bodies
  BY <1>1, InlineType DEF StyleInv
<1>3. \A n \in Nodes : DOMAIN style'[n] = {}
  BY <1>1 DEF StyleInv
<1>4. Keeps(style, source, left)'
  BY <1>3 DEF Keeps
<1>5. QED
  BY <1>1, <1>2, <1>4 DEF StyleInv

\* A script renders with the rules of the page before.
LEMMA ScriptStyle ==
  ASSUME StyleInv, ParserInv', ScriptRenders PROVE StyleInv'
<1>1. /\ phase = "scripts" /\ phase' \in {"dead", "scripts"} /\ inline' = inline
      /\ left' = listed /\ source' = source
  BY DEF ScriptRenders
<1>2. PICK of \in Sorted(listed) : listed' = of /\ style' = StyleAll(of)
  BY DEF ScriptRenders, Render
<1>3. source = <<>> /\ OkList(listed) /\ Sub(left, listed) /\ Keeps(style, source, left)
  BY <1>1 DEF StyleInv
<1>4. Keeps(StyleAll(of), source, listed) /\ Sub(listed, of) /\ OkList(of)
  <2>1. Len(source) = 0
    BY <1>3
  <2>2. QED
    BY <1>3, <2>1, RenderKeeps
<1>5. DOMAIN style' = Nodes
  <2>1. StyleAll(of) = [n \in Nodes |-> StyleAll(of)[n]]
    BY StyleAllIs
  <2>2. QED
    BY <1>2, <2>1
<1>6. DOMAIN left' = 1..Len(left')
  BY <1>1, <1>3 DEF OkList
<1>7. Keeps(style, source, left)'
  BY <1>1, <1>2, <1>4, SameOwner
<1>8. OkList(listed') /\ Sub(left', listed')
  BY <1>1, <1>2, <1>4
<1>9. inline' \in Bodies /\ source' \in Seq(RuleSet)
  BY <1>1 DEF StyleInv
<1>10. QED
  BY <1>1, <1>3, <1>5, <1>6, <1>7, <1>8, <1>9 DEF StyleInv

\* Its rules are cleared, the styles stay.
LEMMA BeginSheetsStyle ==
  ASSUME StyleInv, ParserInv', BeginSheets PROVE StyleInv'
<1>1. /\ phase = "scripts" /\ phase' = "sheets" /\ listed' = <<>>
      /\ UNCHANGED <<style, inline, source, left>>
  BY DEF BeginSheets
<1>2. Keeps(style, source, left)'
  BY <1>1, SameOwner DEF StyleInv
<1>3. QED
  BY <1>1, <1>2 DEF StyleInv

\* The rules of one more sheet.
LEMMA EndSheetStyle ==
  ASSUME StyleInv, ParserInv', EndSheet PROVE StyleInv'
<1>1. /\ phase = "sheets" /\ phase' \in {"sheets", "edited"}
      /\ listed' = listed \o rules /\ source' = source \o rules
      /\ UNCHANGED <<style, inline, left>>
  BY DEF EndSheet
<1>2. source \in Seq(RuleSet) /\ rules \in Seq(RuleSet) /\ listed = source
  BY <1>1, SheetRules DEF StyleInv
<1>3. source' \in Seq(RuleSet) /\ listed' = source'
  BY <1>1, <1>2
<1>4. /\ Len(source) \in Nat /\ Len(source') \in Nat /\ Len(source) <= Len(source')
      /\ \A k \in 1..Len(source) : source'[k] = source[k]
  BY <1>1, <1>2, ConcatProperties, LenProperties
<1>5. \A n, p : Says(source, n, p) \subseteq Says(source', n, p)
  BY <1>4 DEF Says
<1>6. Keeps(style, source', left)
  BY <1>5 DEF StyleInv, Keeps
<1>7. Keeps(style, source, left)'
  BY <1>1, <1>6, SameOwner
<1>8. OkList(listed')
  BY <1>3, RulesOk
<1>9. \E pi : From(pi, listed', source')
  <2> DEFINE N == Len(source')
             pi == [k \in 1..N |-> k]
  <2>1. pi \in [1..N -> 1..N] /\ \A k \in 1..N : pi[k] = k
    OBVIOUS
  <2> HIDE DEF pi
  <2>2. From(pi, listed', source')
    BY <1>3, <1>4, <2>1 DEF From
  <2>3. QED
    BY <2>2
<1>10. inline' \in Bodies /\ DOMAIN style' = Nodes /\ DOMAIN left' = 1..Len(left')
  BY <1>1 DEF StyleInv
<1>11. QED
  BY <1>1, <1>3, <1>7, <1>8, <1>9, <1>10 DEF StyleInv

\* A render after load sorts the list and shows what the cascade says.
LEMMA ShowStyle ==
  ASSUME StyleInv, ParserInv', Show PROVE StyleInv'
<1>1. /\ phase = "edited" /\ phase' \in {"dead", "shown"}
      /\ UNCHANGED <<inline, source, left>>
  BY DEF Show
<1>2. PICK of \in Sorted(listed) : listed' = of /\ style' = StyleAll(of)
  BY DEF Show, Render
<1>3. OkList(listed) /\ Len(listed) = Len(source) /\ Keeps(style, source, left)
      /\ source \in Seq(RuleSet)
  BY <1>1 DEF StyleInv
<1>4. PICK pi : From(pi, listed, source)
  BY <1>1 DEF StyleInv
<1>5. OkList(of) /\ Len(of) = Len(source) /\ Ascending(of)
  BY <1>3, SortedIs
<1>6. PICK rho : From(rho, of, source)
  BY <1>3, <1>4, SortedFrom
<1>7. OkList(source)
  BY <1>3, RulesOk
<1>8. Shows(StyleAll(of), source, left)
  BY <1>3, <1>5, <1>6, <1>7, RenderShows
<1>9. Keeps(StyleAll(of), source, left)
  BY <1>8, ShownKeeps
<1>10. Shows(style, source, left)' /\ Keeps(style, source, left)'
  BY <1>1, <1>2, <1>8, <1>9, SameOwner
<1>11. DOMAIN style' = Nodes
  <2>1. StyleAll(of) = [n \in Nodes |-> StyleAll(of)[n]]
    BY StyleAllIs
  <2>2. QED
    BY <1>2, <2>1
<1>12. OkList(listed') /\ Len(listed') = Len(source') /\ \E q : From(q, listed', source')
  BY <1>1, <1>2, <1>5, <1>6
<1>13. inline' \in Bodies /\ source' \in Seq(RuleSet) /\ DOMAIN left' = 1..Len(left')
  BY <1>1 DEF StyleInv
<1>14. QED
  BY <1>1, <1>10, <1>11, <1>12, <1>13 DEF StyleInv

\* A replaced item has no style until the next render.
LEMMA EditStyle ==
  ASSUME StyleInv, ParserInv', Edit PROVE StyleInv'
<1>1. /\ phase = "shown" /\ phase' = "edited" /\ style' = [style EXCEPT ![Replaced] = NoStyle]
      /\ UNCHANGED <<listed, inline, source, left>>
  BY DEF Edit
<1>2. /\ DOMAIN style' = Nodes /\ style'[Replaced] = NoStyle
      /\ \A n \in Nodes \ {Replaced} : style'[n] = style[n]
  BY <1>1, TreeAssumption DEF StyleInv
<1>3. DOMAIN NoStyle = {}
  BY DEF NoStyle, NoDecls
<1>4. Keeps(style', source, left)
  <2>1. \A n \in Nodes : \A p \in DOMAIN style'[n] : n # Replaced /\ style'[n] = style[n]
    BY <1>2, <1>3
  <2>2. QED
    BY <2>1 DEF StyleInv, Keeps
<1>5. Keeps(style, source, left)'
  BY <1>1, <1>4, SameOwner
<1>6. QED
  BY <1>1, <1>2, <1>5 DEF StyleInv

\* Every step keeps the invariant.
LEMMA StepStyleInv == StyleInv /\ [CascadeNext]_cascadeVars => StyleInv'
<1> SUFFICES ASSUME StyleInv, [CascadeNext]_cascadeVars PROVE StyleInv'
  OBVIOUS
<1>1. ParserInv'
  BY StepParserInv DEF StyleInv
<1>2. CASE Parse \/ SpaceInAttribute
  BY <1>1, <1>2, SameStyle DEF Parse, SpaceInAttribute
<1>3. CASE EndAttributeText
  BY <1>1, <1>3, EndAttributeStyle
<1>4. CASE ScriptRenders
  BY <1>1, <1>4, ScriptStyle
<1>5. CASE BeginSheets
  BY <1>1, <1>5, BeginSheetsStyle
<1>6. CASE EndSheet
  BY <1>1, <1>6, EndSheetStyle
<1>7. CASE Show
  BY <1>1, <1>7, ShowStyle
<1>8. CASE Edit
  BY <1>1, <1>8, EditStyle
<1>9. CASE UNCHANGED cascadeVars
  BY <1>1, <1>9, SameStyle DEF cascadeVars
<1>10. QED
  BY <1>2, <1>3, <1>4, <1>5, <1>6, <1>7, <1>8, <1>9 DEF CascadeNext

\* So it holds always.
LEMMA StyleInvariance == CascadeSpec => []StyleInv
BY InitStyleInv, StepStyleInv, PTL DEF CascadeSpec

\* What a page shows is what the cascade says: the style attribute before the rule
\* with most tags, the later of two equal rules in a list the sort is stable for,
\* the parent's value where no rule speaks, sizes in pixels, whatever order the
\* sort leaves and however often a script or a key renders again.
THEOREM StyleFollows == CascadeSpec => []StyleFollowsCascade
<1>1. StyleInv => StyleFollowsCascade
  <2> SUFFICES ASSUME StyleInv PROVE StyleFollowsCascade
    OBVIOUS
  <2>1. CASE phase = "shown"
    BY <2>1, ShowsFollows DEF StyleInv
  <2>2. CASE phase # "shown"
    BY <2>2 DEF StyleFollowsCascade
  <2>3. QED
    BY <2>1, <2>2
<1>2. QED
  BY <1>1, StyleInvariance, PTL
=============================================================================
