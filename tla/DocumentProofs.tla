---------------------------- MODULE DocumentProofs ----------------------------
(***************************************************************************)
(* Proofs about the tree of a document (HTMLParser.tla) and the tree of    *)
(* its blocks (Blocks.tla), for every set of tags and texts and documents  *)
(* of every length.  The parser's helpers work on a tree t, so the         *)
(* invariant is a predicate of one, and each helper has a lemma.  The      *)
(* layout is functions of the finished tree, whose items are numbered in   *)
(* its order: what they give is shown from the last item down.             *)
(***************************************************************************)
EXTENDS Blocks, Induction

Names == Tags \cup Texts

TreeType ==
  [items : Seq(Names), parent : Seq(Nat), kids : Seq(Seq(Nat)), open : Seq(Nat)]

Size(t) == Len(t.items)

\* Items have a parent made before them; the list of kids is as long as theirs.
WellTyped(t) ==
  /\ t \in TreeType
  /\ Len(t.parent) = Size(t) /\ Len(t.kids) = Size(t)
  /\ \A n \in 1..Size(t) : t.parent[n] < n
  /\ t.open = <<>> => Size(t) = 0

\* The stack is a path from the root, of items in the order they were made.
Path(t) ==
  /\ \A i \in 1..Len(t.open) :
       /\ t.open[i] \in 1..Size(t)
       /\ t.parent[t.open[i]] = IF i = 1 THEN 0 ELSE t.open[i - 1]
  /\ t.open # <<>> => t.open[1] = Root
  /\ \A i, j \in 1..Len(t.open) : i < j => t.open[i] < t.open[j]

IsOpen(t, n) == \E i \in 1..Len(t.open) : t.open[i] = n

\* Kids are closed, know their parent and are listed once; who is closed is
\* listed.
KidsClosed(t) ==
  \A p \in 1..Size(t) : \A i \in 1..Len(t.kids[p]) :
    /\ t.kids[p][i] \in 2..Size(t)
    /\ t.parent[t.kids[p][i]] = p
    /\ ~IsOpen(t, t.kids[p][i])

KidsApart(t) ==
  \A p \in 1..Size(t) : \A i, j \in 1..Len(t.kids[p]) :
    t.kids[p][i] = t.kids[p][j] => i = j

ClosedListed(t) ==
  \A n \in 2..Size(t) : ~IsOpen(t, n) =>
    /\ t.parent[n] \in 1..Size(t)
    /\ \E i \in 1..Len(t.kids[t.parent[n]]) : t.kids[t.parent[n]][i] = n

\* The kids of an open item were made after it and before the next open one:
\* there is room for their number.
NextOpen(t, i) == IF i = Len(t.open) THEN Size(t) + 1 ELSE t.open[i + 1]

KidsFit(t) ==
  /\ \A p \in 1..Size(t) : Len(t.kids[p]) <= Size(t)
  /\ \A i \in 1..Len(t.open) : Len(t.kids[t.open[i]]) < NextOpen(t, i) - t.open[i]

HeadClean(t) ==
  \A n \in 1..Size(t) :
    t.parent[n] # 0 /\ t.items[t.parent[n]] = "head" /\ t.parent[t.parent[n]] = Root
      => t.items[n] \in HeadTags

\* The second item is the head or the body, and is or becomes the first child.
Shape(t) ==
  /\ Size(t) >= 1 => t.items[1] = "html"
  /\ Size(t) >= 2 =>
       /\ t.items[2] \in {"head", "body"}
       /\ IF Len(t.open) >= 2 /\ t.open[2] = 2
          THEN t.kids[1] = <<>>
          ELSE Len(t.kids[1]) >= 1 /\ t.kids[1][1] = 2

Placed(t) == KidsClosed(t) /\ KidsApart(t) /\ ClosedListed(t) /\ KidsFit(t)

\* The last item below p so far, p itself if there is none: E[n] is the last one
\* below n, for n that is closed.
Until(t, E, p) ==
  IF Len(t.kids[p]) = 0 THEN p ELSE E[t.kids[p][Len(t.kids[p])]]

\* Each child of p begins where the one before it ends.
Follow(t, E, p) ==
  \A i \in 1..Len(t.kids[p]) :
    t.kids[p][i] = IF i = 1 THEN p + 1 ELSE E[t.kids[p][i - 1]] + 1

\* What is below an item has the numbers that follow its own, child by child; the
\* next open item begins where the last child ends.
Spans(t, E) ==
  /\ E \in [1..Size(t) -> Nat] /\ \A n \in 1..Size(t) : n <= E[n]
  /\ \A p \in 1..Size(t) : Follow(t, E, p)
  /\ \A n \in 1..Size(t) : ~IsOpen(t, n) => E[n] = Until(t, E, n)
  /\ \A i \in 1..Len(t.open) : Until(t, E, t.open[i]) + 1 = NextOpen(t, i)

Spanned(t) == \E E \in [1..Size(t) -> Nat] : Spans(t, E)

Good(t) == WellTyped(t) /\ Path(t) /\ Placed(t) /\ HeadClean(t) /\ Shape(t) /\ Spanned(t)

-----------------------------------------------------------------------------
(* What the helpers make of a tree, field by field *)

\* u is t with one more item, below the innermost open one.
Grown(t, u, name) ==
  /\ Size(u) = Size(t) + 1 /\ Len(u.parent) = Size(u) /\ Len(u.kids) = Size(u)
  /\ \A n \in 1..Size(t) : u.items[n] = t.items[n] /\ u.parent[n] = t.parent[n]
  /\ u.items[Size(u)] = name /\ u.parent[Size(u)] = Top(t)
  /\ u.kids[Size(u)] = <<>>

LEMMA TypeFacts ==
  ASSUME NEW t, WellTyped(t)
  PROVE  /\ t.items \in Seq(Names) /\ t.parent \in Seq(Nat)
         /\ t.kids \in Seq(Seq(Nat)) /\ t.open \in Seq(Nat)
         /\ Size(t) \in Nat /\ Len(t.open) \in Nat
         /\ \A n \in 1..Size(t) : /\ t.parent[n] \in Nat /\ t.kids[n] \in Seq(Nat)
                                  /\ Len(t.kids[n]) \in Nat
         /\ \A i \in 1..Len(t.open) : t.open[i] \in Nat
         /\ t.open # <<>> => Len(t.open) >= 1
<1>1. /\ t.items \in Seq(Names) /\ t.parent \in Seq(Nat)
      /\ t.kids \in Seq(Seq(Nat)) /\ t.open \in Seq(Nat)
  BY DEF WellTyped, TreeType
<1>2. Size(t) \in Nat /\ Len(t.open) \in Nat
  BY <1>1, LenProperties DEF Size
<1>3. \A n \in 1..Size(t) : t.parent[n] \in Nat /\ t.kids[n] \in Seq(Nat)
  BY <1>1, ElementOfSeq DEF WellTyped
<1>4. \A n \in 1..Size(t) : Len(t.kids[n]) \in Nat
  BY <1>3, LenProperties
<1>5. \A i \in 1..Len(t.open) : t.open[i] \in Nat
  BY <1>1, ElementOfSeq
<1>6. t.open # <<>> => Len(t.open) >= 1
  BY <1>1, <1>2, EmptySeq
<1>7. QED
  BY <1>1, <1>2, <1>3, <1>4, <1>5, <1>6

LEMMA TopIsOpen ==
  ASSUME NEW t, WellTyped(t), Path(t)
  PROVE  /\ Top(t) \in 0..Size(t)
         /\ t.open # <<>> => Top(t) = t.open[Len(t.open)] /\ Top(t) \in 1..Size(t)
<1>1. CASE t.open = <<>>
  BY <1>1, TypeFacts DEF Top
<1>2. CASE t.open # <<>>
  <2>1. Top(t) = t.open[Len(t.open)] /\ Len(t.open) \in 1..Len(t.open)
    BY <1>2, TypeFacts DEF Top, Last
  <2>2. QED
    BY <1>2, <2>1, TypeFacts DEF Path
<1>3. QED
  BY <1>1, <1>2

LEMMA NewItemFields ==
  ASSUME NEW t, WellTyped(t), NEW name
  PROVE  NewItem(t, name) =
           [items |-> Append(t.items, name), parent |-> Append(t.parent, Top(t)),
            kids |-> Append(t.kids, <<>>), open |-> t.open]
<1> DEFINE top == Top(t)
<1>1. t = [items |-> t.items, parent |-> t.parent, kids |-> t.kids, open |-> t.open]
  BY DEF WellTyped, TreeType
<1>2. NewItem(t, name) =
        [t EXCEPT !.items = Append(@, name), !.parent = Append(@, top),
                  !.kids = Append(@, <<>>)]
  BY DEF NewItem
<1> HIDE DEF top
<1>3. NewItem(t, name) =
        [items |-> Append(t.items, name), parent |-> Append(t.parent, top),
         kids |-> Append(t.kids, <<>>), open |-> t.open]
  BY <1>1, <1>2
<1>4. QED
  BY <1>3 DEF top

LEMMA PushFields ==
  ASSUME NEW t, WellTyped(t), Path(t), NEW name \in Names
  PROVE  LET u == Push(t, name) IN
         /\ u \in TreeType /\ Grown(t, u, name)
         /\ \A n \in 1..Size(t) : u.kids[n] = t.kids[n]
         /\ Len(u.open) = Len(t.open) + 1 /\ u.open[Len(u.open)] = Size(u)
         /\ \A i \in 1..Len(t.open) : u.open[i] = t.open[i]
<1> DEFINE u == Push(t, name)
           m == Size(t) + 1
<1>1. /\ u.items = Append(t.items, name) /\ u.parent = Append(t.parent, Top(t))
      /\ u.kids = Append(t.kids, <<>>) /\ u.open = Append(t.open, m)
      /\ u = [items |-> u.items, parent |-> u.parent, kids |-> u.kids, open |-> u.open]
  <2> DEFINE v == NewItem(t, name)
             top == Top(t)
  <2>1. u = [v EXCEPT !.open = Append(@, m)]
    BY DEF Push, Size
  <2>2. v = [items |-> Append(t.items, name), parent |-> Append(t.parent, top),
             kids |-> Append(t.kids, <<>>), open |-> t.open]
    BY NewItemFields
  <2> HIDE DEF u, m, v, top
  <2>3. u = [items |-> Append(t.items, name), parent |-> Append(t.parent, top),
             kids |-> Append(t.kids, <<>>), open |-> Append(t.open, m)]
    BY <2>1, <2>2
  <2>4. QED
    BY <2>3 DEF top
<1>2. m \in Nat /\ Top(t) \in Nat /\ <<>> \in Seq(Nat)
  BY TypeFacts, TopIsOpen, EmptySeq
<1> HIDE DEF u, m
<1>3. /\ u.items \in Seq(Names) /\ Len(u.items) = Len(t.items) + 1
      /\ u.items[Len(t.items) + 1] = name
      /\ \A n \in 1..Len(t.items) : u.items[n] = t.items[n]
  BY <1>1, TypeFacts, AppendProperties
<1>4. /\ u.parent \in Seq(Nat) /\ Len(u.parent) = Len(t.parent) + 1
      /\ u.parent[Len(t.parent) + 1] = Top(t)
      /\ \A n \in 1..Len(t.parent) : u.parent[n] = t.parent[n]
  BY <1>1, <1>2, TypeFacts, AppendProperties
<1>5. /\ u.kids \in Seq(Seq(Nat)) /\ Len(u.kids) = Len(t.kids) + 1
      /\ u.kids[Len(t.kids) + 1] = <<>>
      /\ \A n \in 1..Len(t.kids) : u.kids[n] = t.kids[n]
  BY <1>1, <1>2, TypeFacts, AppendProperties
<1>6. /\ u.open \in Seq(Nat) /\ Len(u.open) = Len(t.open) + 1
      /\ u.open[Len(t.open) + 1] = m
      /\ \A n \in 1..Len(t.open) : u.open[n] = t.open[n]
  BY <1>1, <1>2, TypeFacts, AppendProperties
<1>7. u \in TreeType
  BY <1>1, <1>3, <1>4, <1>5, <1>6 DEF TreeType
<1>8. Len(t.parent) = Len(t.items) /\ Len(t.kids) = Len(t.items)
  BY DEF WellTyped, Size
<1>9. QED
  BY <1>3, <1>4, <1>5, <1>6, <1>7, <1>8 DEF u, m, Grown, Size

\* Who adopts has one child more, its last one.
LEMMA Adopted ==
  ASSUME NEW s \in Seq(Seq(Nat)), NEW p \in 1..Len(s), NEW n \in Nat
  PROVE  /\ Adopt(s, p, n) \in Seq(Seq(Nat)) /\ Len(Adopt(s, p, n)) = Len(s)
         /\ \A q \in 1..Len(s) : q # p => Adopt(s, p, n)[q] = s[q]
         /\ Len(Adopt(s, p, n)[p]) = Len(s[p]) + 1
         /\ Adopt(s, p, n)[p][Len(s[p]) + 1] = n
         /\ \A i \in 1..Len(s[p]) : Adopt(s, p, n)[p][i] = s[p][i]
<1> DEFINE e == Append(s[p], n)
           r == Adopt(s, p, n)
<1>1. s[p] \in Seq(Nat)
  BY ElementOfSeq
<1>2. /\ e \in Seq(Nat) /\ Len(e) = Len(s[p]) + 1 /\ e[Len(s[p]) + 1] = n
      /\ \A i \in 1..Len(s[p]) : e[i] = s[p][i]
  BY <1>1, AppendProperties
<1>3. r = [s EXCEPT ![p] = e]
  BY DEF Adopt
<1> HIDE DEF e, r
<1>4. /\ r \in Seq(Seq(Nat)) /\ Len(r) = Len(s)
      /\ \A q \in 1..Len(s) : r[q] = IF q = p THEN e ELSE s[q]
  BY <1>2, <1>3, ExceptSeq
<1>5. r[p] = e /\ \A q \in 1..Len(s) : q # p => r[q] = s[q]
  BY <1>4
<1>6. QED
  BY <1>2, <1>4, <1>5 DEF r

LEMMA Lengthened ==
  ASSUME NEW S, NEW s \in Seq(S), NEW e \in S, NEW j \in Nat, Len(s) = j
  PROVE  LET r == Append(s, e)
         IN /\ r \in Seq(S) /\ Len(r) = j + 1 /\ r[j + 1] = e
            /\ \A n \in 1..j : r[n] = s[n]
  BY AppendProperties

LEMMA LeafFields ==
  ASSUME NEW t, WellTyped(t), Path(t), t.open # <<>>, NEW name \in Names
  PROVE  LET u == Leaf(t, name)
             p == Top(t)
         IN
         /\ u \in TreeType /\ Grown(t, u, name) /\ u.open = t.open
         /\ \A n \in 1..Size(t) : n # p => u.kids[n] = t.kids[n]
         /\ Len(u.kids[p]) = Len(t.kids[p]) + 1
         /\ u.kids[p][Len(t.kids[p]) + 1] = Size(u)
         /\ \A i \in 1..Len(t.kids[p]) : u.kids[p][i] = t.kids[p][i]
<1> DEFINE u == Leaf(t, name)
           p == Top(t)
           m == Size(t) + 1
           k == Append(t.kids, <<>>)
<1>1. /\ u.items = Append(t.items, name) /\ u.parent = Append(t.parent, p)
      /\ u.kids = Adopt(k, p, m) /\ u.open = t.open
      /\ u = [items |-> u.items, parent |-> u.parent, kids |-> u.kids, open |-> u.open]
  <2> DEFINE v == NewItem(t, name)
  <2>1. u = [v EXCEPT !.kids = Adopt(@, p, m)]
    BY DEF Leaf, Size
  <2>2. v = [items |-> Append(t.items, name), parent |-> Append(t.parent, p),
             kids |-> k, open |-> t.open]
    BY NewItemFields
  <2> HIDE DEF u, p, m, k, v
  <2>3. u = [items |-> Append(t.items, name), parent |-> Append(t.parent, p),
             kids |-> Adopt(k, p, m), open |-> t.open]
    BY <2>1, <2>2
  <2>4. QED
    BY <2>3
<1>2. /\ m \in Nat /\ p \in 1..Size(t) /\ p \in Nat /\ <<>> \in Seq(Nat) /\ Size(t) \in Nat
      /\ Len(t.parent) = Size(t) /\ Len(t.kids) = Size(t) /\ Len(t.items) = Size(t)
  BY TypeFacts, TopIsOpen, EmptySeq DEF WellTyped, Size
<1>m. m = Size(t) + 1
  OBVIOUS
<1>k. k = Append(t.kids, <<>>)
  OBVIOUS
<1>s. t.items \in Seq(Names) /\ t.parent \in Seq(Nat) /\ t.kids \in Seq(Seq(Nat))
  BY TypeFacts
<1> HIDE DEF u, p, m, k
<1>3. /\ k \in Seq(Seq(Nat)) /\ Len(k) = m /\ k[m] = <<>>
      /\ \A n \in 1..Size(t) : k[n] = t.kids[n]
  <2>1. LET q == Append(t.kids, <<>>)
        IN /\ q \in Seq(Seq(Nat)) /\ Len(q) = Size(t) + 1 /\ q[Size(t) + 1] = <<>>
           /\ \A n \in 1..Size(t) : q[n] = t.kids[n]
    BY <1>2, <1>s, Lengthened
  <2>2. QED
    BY <1>m, <1>k, <2>1
<1>4. /\ u.items \in Seq(Names) /\ Len(u.items) = m /\ u.items[m] = name
      /\ \A n \in 1..Size(t) : u.items[n] = t.items[n]
  <2>1. LET q == Append(t.items, name)
        IN /\ q \in Seq(Names) /\ Len(q) = Size(t) + 1 /\ q[Size(t) + 1] = name
           /\ \A n \in 1..Size(t) : q[n] = t.items[n]
    <3>1. t.items \in Seq(Names) /\ name \in Names /\ Size(t) \in Nat /\ Len(t.items) = Size(t)
      BY <1>2, <1>s
    <3>2. QED
      BY <3>1, Lengthened
  <2>2. QED
    BY <1>1, <1>m, <2>1
<1>5. /\ u.parent \in Seq(Nat) /\ Len(u.parent) = m /\ u.parent[m] = p
      /\ \A n \in 1..Size(t) : u.parent[n] = t.parent[n]
  <2>1. LET q == Append(t.parent, p)
        IN /\ q \in Seq(Nat) /\ Len(q) = Size(t) + 1 /\ q[Size(t) + 1] = p
           /\ \A n \in 1..Size(t) : q[n] = t.parent[n]
    BY <1>2, <1>s, Lengthened
  <2>2. QED
    BY <1>1, <1>m, <2>1
<1>6. Size(u) = m
  BY <1>4 DEF Size
<1>7. m # p /\ m \in 1..m /\ p \in 1..m /\ \A n \in 1..Size(t) : n \in 1..m
  BY <1>2, <1>m
<1>8. /\ u.kids \in Seq(Seq(Nat)) /\ Len(u.kids) = m
      /\ \A q \in 1..m : q # p => u.kids[q] = k[q]
      /\ Len(u.kids[p]) = Len(k[p]) + 1 /\ u.kids[p][Len(k[p]) + 1] = m
      /\ \A i \in 1..Len(k[p]) : u.kids[p][i] = k[p][i]
  <2>1. k \in Seq(Seq(Nat)) /\ p \in 1..Len(k) /\ m \in Nat
    BY <1>2, <1>3, <1>7
  <2>2. u.kids = Adopt(k, p, m)
    BY <1>1
  <2>3. /\ Adopt(k, p, m) \in Seq(Seq(Nat)) /\ Len(Adopt(k, p, m)) = Len(k)
        /\ \A q \in 1..Len(k) : q # p => Adopt(k, p, m)[q] = k[q]
        /\ Len(Adopt(k, p, m)[p]) = Len(k[p]) + 1
        /\ Adopt(k, p, m)[p][Len(k[p]) + 1] = m
        /\ \A i \in 1..Len(k[p]) : Adopt(k, p, m)[p][i] = k[p][i]
    BY <2>1, Adopted
  <2>4. QED
    BY <1>3, <2>2, <2>3
<1>9. u \in TreeType
  <2>1. u.open \in Seq(Nat)
    BY <1>1, TypeFacts
  <2>2. QED
    BY <1>1, <1>4, <1>5, <1>8, <2>1 DEF TreeType
<1>10. k[p] = t.kids[p] /\ u.kids[m] = <<>>
  BY <1>2, <1>3, <1>7, <1>8
<1>11. \A n \in 1..Size(t) : n # p => u.kids[n] = t.kids[n]
  BY <1>3, <1>7, <1>8
<1>12. Grown(t, u, name)
  BY <1>4, <1>5, <1>6, <1>8, <1>10 DEF Grown, p, m
<1>13. QED
  BY <1>1, <1>6, <1>8, <1>9, <1>10, <1>11, <1>12 DEF u, p

LEMMA PopFields ==
  ASSUME NEW t, WellTyped(t), Path(t), Len(t.open) > 1
  PROVE  LET u == Pop(t)
             c == Top(t)
             p == t.open[Len(t.open) - 1]
         IN
         /\ u \in TreeType /\ u.items = t.items /\ u.parent = t.parent
         /\ Len(u.kids) = Len(t.kids) /\ p \in 1..Size(t) /\ t.parent[c] = p
         /\ Len(u.open) = Len(t.open) - 1
         /\ \A i \in 1..Len(u.open) : u.open[i] = t.open[i]
         /\ \A n \in 1..Size(t) : n # p => u.kids[n] = t.kids[n]
         /\ Len(u.kids[p]) = Len(t.kids[p]) + 1 /\ u.kids[p][Len(t.kids[p]) + 1] = c
         /\ \A i \in 1..Len(t.kids[p]) : u.kids[p][i] = t.kids[p][i]
<1> DEFINE u == Pop(t)
           c == Top(t)
           rest == Front(t.open)
           p == t.open[Len(t.open) - 1]
<1>1. Len(t.open) \in Nat /\ t.open \in Seq(Nat) /\ t.open # <<>> /\ c \in Nat
  BY TypeFacts, TopIsOpen, EmptySeq
<1>2. /\ rest \in Seq(Nat) /\ Len(rest) = Len(t.open) - 1
      /\ \A i \in 1..(Len(t.open) - 1) : rest[i] = t.open[i]
  <2>1. \A i \in 1..(Len(t.open) - 1) : t.open[i] \in Nat
    BY <1>1, TypeFacts
  <2>2. QED
    BY <1>1, <2>1, SubSeqProperties DEF Front
<1>3. Last(rest) = p
  <2> DEFINE k == Len(t.open) - 1
  <2>1. Len(rest) = k /\ \A i \in 1..k : rest[i] = t.open[i]
    BY <1>2
  <2>2. k \in 1..k
    <3> DEFINE l == Len(t.open)
    <3>1. l \in Nat /\ l > 1 /\ k = l - 1
      BY <1>1
    <3> HIDE DEF l, k
    <3>2. QED
      BY <3>1
  <2> HIDE DEF k, rest
  <2>3. rest[k] = t.open[k]
    BY <2>1, <2>2
  <2>4. QED
    BY <2>1, <2>3 DEF Last, k, p
<1>4. p \in 1..Size(t) /\ t.parent[c] = p
  <2>1. c = t.open[Len(t.open)]
    BY <1>1, TopIsOpen
  <2> DEFINE l == Len(t.open)
  <2>0. l \in Nat /\ l > 1
    BY <1>1
  <2> HIDE DEF l
  <2>2. l \in 1..l /\ l - 1 \in 1..l /\ l # 1
    BY <2>0
  <2> USE DEF l
  <2>3. QED
    BY <2>1, <2>2 DEF Path
<1>5. /\ u.items = t.items /\ u.parent = t.parent
      /\ u.kids = Adopt(t.kids, p, c) /\ u.open = rest
      /\ u = [items |-> u.items, parent |-> u.parent, kids |-> u.kids, open |-> u.open]
  <2>1. t = [items |-> t.items, parent |-> t.parent, kids |-> t.kids, open |-> t.open]
    BY DEF WellTyped, TreeType
  <2>2. u = [t EXCEPT !.open = rest, !.kids = Adopt(@, p, c)]
    BY <1>3 DEF Pop
  <2> HIDE DEF u, c, rest, p
  <2>3. u = [items |-> t.items, parent |-> t.parent, kids |-> Adopt(t.kids, p, c),
             open |-> rest]
    BY <2>1, <2>2
  <2>4. QED
    BY <2>3
<1> HIDE DEF u, c, rest, p
<1>6. Len(t.kids) = Size(t) /\ p \in 1..Len(t.kids)
  BY <1>4 DEF WellTyped
<1>7. /\ u.kids \in Seq(Seq(Nat)) /\ Len(u.kids) = Len(t.kids)
      /\ \A q \in 1..Len(t.kids) : q # p => u.kids[q] = t.kids[q]
      /\ Len(u.kids[p]) = Len(t.kids[p]) + 1 /\ u.kids[p][Len(t.kids[p]) + 1] = c
      /\ \A i \in 1..Len(t.kids[p]) : u.kids[p][i] = t.kids[p][i]
  <2> DEFINE k == t.kids
  <2>1. k \in Seq(Seq(Nat)) /\ p \in 1..Len(k) /\ c \in Nat
    BY <1>1, <1>6, TypeFacts
  <2>2. u.kids = Adopt(k, p, c)
    BY <1>5
  <2> HIDE DEF k
  <2>3. /\ Adopt(k, p, c) \in Seq(Seq(Nat)) /\ Len(Adopt(k, p, c)) = Len(k)
        /\ \A q \in 1..Len(k) : q # p => Adopt(k, p, c)[q] = k[q]
        /\ Len(Adopt(k, p, c)[p]) = Len(k[p]) + 1
        /\ Adopt(k, p, c)[p][Len(k[p]) + 1] = c
        /\ \A i \in 1..Len(k[p]) : Adopt(k, p, c)[p][i] = k[p][i]
    BY <2>1, Adopted
  <2>4. QED
    BY <2>2, <2>3 DEF k
<1>8. u \in TreeType
  <2>1. u.items \in Seq(Names) /\ u.parent \in Seq(Nat) /\ u.open \in Seq(Nat)
    BY <1>2, <1>5, TypeFacts
  <2>2. QED
    BY <1>5, <1>7, <2>1 DEF TreeType
<1>9. Len(u.open) = Len(t.open) - 1 /\ \A i \in 1..Len(u.open) : u.open[i] = t.open[i]
  BY <1>1, <1>2, <1>5
<1>10. \A n \in 1..Size(t) : n # p => u.kids[n] = t.kids[n]
  BY <1>6, <1>7
<1>11. QED
  BY <1>4, <1>5, <1>7, <1>8, <1>9, <1>10 DEF u, c, p

-----------------------------------------------------------------------------
(* The helpers keep a tree good *)

LEMMA OpenFacts ==
  ASSUME NEW t, WellTyped(t), Path(t)
  PROVE  /\ Size(t) \in Nat /\ Len(t.open) \in Nat
         /\ \A i \in 1..Len(t.open) : t.open[i] \in 1..Size(t)
         /\ \A i \in 1..Len(t.open) : i > 1 => t.open[i] > 1
         /\ t.open # <<>> <=> Len(t.open) >= 1
         /\ Size(t) >= 1 <=> Len(t.open) >= 1
         /\ Len(t.open) >= 1 => t.open[1] = 1 /\ IsOpen(t, 1)
         /\ Size(t) = 1 => Len(t.open) = 1
         /\ Len(t.open) >= 2 => Size(t) >= 2
<1>1. Size(t) \in Nat /\ Len(t.open) \in Nat /\ t.open \in Seq(Nat)
  BY TypeFacts
<1>2. t.open # <<>> <=> Len(t.open) >= 1
  BY <1>1, EmptySeq
<1>3. \A i \in 1..Len(t.open) : t.open[i] \in 1..Size(t)
  BY DEF Path
<1>4. Size(t) >= 1 <=> Len(t.open) >= 1
  <2>1. ASSUME Len(t.open) >= 1 PROVE Size(t) >= 1
    <3>1. 1 \in 1..Len(t.open)
      BY <1>1, <2>1
    <3>2. QED
      BY <1>1, <1>3, <3>1
  <2>2. QED
    BY <1>1, <1>2, <2>1 DEF WellTyped
<1>5. Len(t.open) >= 1 => t.open[1] = 1 /\ IsOpen(t, 1)
  <2>1. Len(t.open) >= 1 => 1 \in 1..Len(t.open) /\ t.open[1] = 1
    BY <1>1, <1>2 DEF Path, Root
  <2>2. QED
    BY <2>1 DEF IsOpen
<1>6. \A i \in 1..Len(t.open) : i > 1 => t.open[i] > 1
  <2>1. ASSUME NEW i \in 1..Len(t.open), i > 1 PROVE t.open[i] > 1
    <3>1. 1 \in 1..Len(t.open) /\ 1 < i
      BY <1>1, <2>1
    <3>2. t.open[1] < t.open[i]
      BY <3>1 DEF Path
    <3>3. t.open[1] = 1
      BY <1>1, <1>5, <3>1
    <3>4. QED
      BY <3>2, <3>3
  <2>2. QED
    BY <2>1
<1>7. Len(t.open) >= 2 => Size(t) >= 2
  <2>1. Len(t.open) >= 2 => 2 \in 1..Len(t.open)
    BY <1>1
  <2>2. Len(t.open) >= 2 => t.open[2] > 1 /\ t.open[2] \in 1..Size(t)
    BY <1>3, <1>6, <2>1
  <2>3. QED
    BY <1>1, <2>2
<1>8. Size(t) = 1 => Len(t.open) = 1
  <2> DEFINE l == Len(t.open)
  <2>1. Size(t) = 1 => l \in Nat /\ l >= 1 /\ ~(l >= 2)
    BY <1>1, <1>4, <1>7
  <2> HIDE DEF l
  <2>2. Size(t) = 1 => l = 1
    BY <2>1
  <2>3. QED
    BY <2>2 DEF l
<1>9. QED
  BY <1>1, <1>2, <1>3, <1>4, <1>5, <1>6, <1>7, <1>8

\* The innermost open item is the head of the document only if two are open.
LEMMA HeadIsTop ==
  ASSUME NEW t, WellTyped(t), Path(t), t.open # <<>>,
         t.items[Top(t)] = "head", t.parent[Top(t)] = Root
  PROVE  InHead(t)
<1> DEFINE l == Len(t.open)
<1>1. l \in Nat /\ l >= 1 /\ l \in 1..l
  BY OpenFacts
<1>2. Top(t) = t.open[l]
  BY TopIsOpen
<1>3. t.parent[t.open[l]] = IF l = 1 THEN 0 ELSE t.open[l - 1]
  BY <1>1 DEF Path
<1>4. l # 1 /\ t.open[l - 1] = 1
  BY <1>2, <1>3 DEF Root
<1>5. l - 1 > 1 => t.open[l - 1] > 1
  <2>1. l - 1 > 1 => l - 1 \in 1..l
    BY <1>1
  <2>2. QED
    BY <2>1, OpenFacts
<1> HIDE DEF l
<1>6. ~(l - 1 > 1)
  BY <1>4, <1>5
<1>7. l = 2
  BY <1>1, <1>4, <1>6
<1>8. QED
  BY <1>7 DEF InHead, l

LEMMA HeadStaysClean ==
  ASSUME NEW t, WellTyped(t), Path(t), HeadClean(t), NEW name, NEW u,
         Grown(t, u, name), InHead(t) => name \in HeadTags
  PROVE  HeadClean(u)
<1>1. SUFFICES ASSUME NEW n \in 1..Size(u), u.parent[n] # 0,
                      u.items[u.parent[n]] = "head", u.parent[u.parent[n]] = Root
               PROVE  u.items[n] \in HeadTags
  BY DEF HeadClean
<1>2. Size(t) \in Nat /\ Size(u) = Size(t) + 1
  BY TypeFacts DEF Grown
<1>3. CASE n \in 1..Size(t)
  <2>1. u.parent[n] = t.parent[n] /\ u.items[n] = t.items[n]
    BY <1>3 DEF Grown
  <2>2. t.parent[n] \in Nat /\ t.parent[n] < n /\ t.parent[n] # 0
    BY <1>1, <1>3, <2>1, TypeFacts DEF WellTyped
  <2>3. t.parent[n] \in 1..Size(t)
    BY <1>2, <1>3, <2>2
  <2>4. t.items[t.parent[n]] = "head" /\ t.parent[t.parent[n]] = Root
    BY <1>1, <2>1, <2>3 DEF Grown
  <2>5. QED
    BY <1>3, <2>1, <2>2, <2>4 DEF HeadClean
<1>4. CASE n = Size(u)
  <2>1. u.parent[n] = Top(t) /\ u.items[n] = name
    BY <1>4 DEF Grown
  <2>2. t.open # <<>> /\ Top(t) \in 1..Size(t)
    BY <1>1, <2>1, TopIsOpen DEF Top
  <2>3. t.items[Top(t)] = "head" /\ t.parent[Top(t)] = Root
    BY <1>1, <2>1, <2>2 DEF Grown
  <2>4. QED
    BY <2>1, <2>2, <2>3, HeadIsTop
<1>5. QED
  BY <1>2, <1>3, <1>4

\* E and F agree on the kids of p, to which u may add c.
Agree(t, E, F, p) ==
  Len(t.kids[p]) \in Nat /\ \A i \in 1..Len(t.kids[p]) : F[t.kids[p][i]] = E[t.kids[p][i]]

OneMore(t, u, p, c) ==
  /\ Len(u.kids[p]) = Len(t.kids[p]) + 1 /\ u.kids[p][Len(t.kids[p]) + 1] = c
  /\ \A i \in 1..Len(t.kids[p]) : u.kids[p][i] = t.kids[p][i]

LEMMA UntilSame ==
  ASSUME NEW t, NEW u, NEW E, NEW F, NEW p, u.kids[p] = t.kids[p], Agree(t, E, F, p)
  PROVE  Until(u, F, p) = Until(t, E, p)
<1> DEFINE k == Len(t.kids[p])
<1>1. k # 0 => k \in 1..k
  <2>1. k \in Nat
    BY DEF Agree
  <2> HIDE DEF k
  <2>2. QED
    BY <2>1
<1>2. QED
  BY <1>1 DEF Until, Agree

LEMMA FollowSame ==
  ASSUME NEW t, NEW u, NEW E, NEW F, NEW p, u.kids[p] = t.kids[p], Agree(t, E, F, p),
         Follow(t, E, p)
  PROVE  Follow(u, F, p)
<1> DEFINE q == t.kids[p]
           k == Len(q)
<1>1. k \in Nat /\ u.kids[p] = q /\ \A i \in 1..k : F[q[i]] = E[q[i]]
  BY DEF Agree
<1>2. \A i \in 1..k : q[i] = IF i = 1 THEN p + 1 ELSE E[q[i - 1]] + 1
  BY DEF Follow
<1> HIDE DEF q, k
<1>3. \A i \in 1..k : i # 1 => i - 1 \in 1..k
  BY <1>1
<1>4. \A i \in 1..k : q[i] = IF i = 1 THEN p + 1 ELSE F[q[i - 1]] + 1
  BY <1>1, <1>2, <1>3
<1>5. QED
  BY <1>1, <1>4 DEF Follow, k

\* The kids of an item, by their numbers.
LEMMA KidsBelow ==
  ASSUME NEW t, WellTyped(t), KidsClosed(t), NEW p \in 1..Size(t)
  PROVE  /\ Len(t.kids[p]) \in Nat /\ Size(t) \in Nat
         /\ \A i \in 1..Len(t.kids[p]) : t.kids[p][i] \in 1..Size(t) /\ ~IsOpen(t, t.kids[p][i])
<1>1. Len(t.kids[p]) \in Nat /\ Size(t) \in Nat
  BY TypeFacts
<1>2. \A n \in 2..Size(t) : n \in 1..Size(t)
  BY <1>1
<1>3. QED
  BY <1>1, <1>2 DEF KidsClosed

LEMMA PushSpans ==
  ASSUME NEW t, WellTyped(t), Path(t), KidsClosed(t), Spanned(t), NEW name \in Names
  PROVE  Spanned(Push(t, name))
<1> DEFINE u == Push(t, name)
           s == Size(t)
           m == s + 1
           l == Len(t.open)
<1>1. /\ Size(u) = m /\ u.kids[m] = <<>>
      /\ \A n \in 1..s : u.kids[n] = t.kids[n]
      /\ Len(u.open) = l + 1 /\ u.open[l + 1] = m
      /\ \A i \in 1..l : u.open[i] = t.open[i]
  BY PushFields DEF Grown
<1>2. /\ s \in Nat /\ l \in Nat
      /\ \A i \in 1..l : t.open[i] \in 1..s
  BY OpenFacts
<1>3. PICK E \in [1..s -> Nat] : Spans(t, E)
  BY DEF Spanned
<1> DEFINE F == [n \in 1..m |-> IF n = m THEN m ELSE E[n]]
<1>4. \A p \in 1..s : /\ Len(t.kids[p]) \in Nat
                      /\ \A i \in 1..Len(t.kids[p]) : t.kids[p][i] \in 1..s
  BY KidsBelow
<1> HIDE DEF u, s, l
<1>5. /\ m \in Nat /\ m \in 1..m /\ \A n \in 1..s : n \in 1..m /\ n # m
      /\ \A n \in 1..m : n = m \/ n \in 1..s
      /\ \A i \in 1..(l + 1) : i = l + 1 \/ (i \in 1..l /\ i # l + 1)
      /\ \A i \in 1..l : i # l => i + 1 \in 1..l
  BY <1>2
<1>6. F \in [1..m -> Nat] /\ F[m] = m /\ \A n \in 1..s : F[n] = E[n]
  <2> HIDE DEF m
  <2>1. QED
    BY <1>3, <1>5
<1>m. m = s + 1
  OBVIOUS
<1> HIDE DEF m, F
<1>7. /\ \A n \in 1..s : n <= E[n]
      /\ \A p \in 1..s : Follow(t, E, p)
      /\ \A n \in 1..s : ~IsOpen(t, n) => E[n] = Until(t, E, n)
      /\ \A i \in 1..l : Until(t, E, t.open[i]) + 1 = NextOpen(t, i)
  BY <1>3 DEF Spans, s, l
<1>8. \A p \in 1..s : Until(u, F, p) = Until(t, E, p) /\ Follow(u, F, p)
  <2>1. ASSUME NEW p \in 1..s PROVE Until(u, F, p) = Until(t, E, p) /\ Follow(u, F, p)
    <3>1. u.kids[p] = t.kids[p] /\ Agree(t, E, F, p)
      BY <1>1, <1>4, <1>6 DEF Agree
    <3>2. Until(u, F, p) = Until(t, E, p)
      BY <3>1, UntilSame
    <3>3. Follow(t, E, p)
      BY <1>7
    <3>4. Follow(u, F, p)
      BY <3>1, <3>3, FollowSame
    <3>5. QED
      BY <3>2, <3>4
  <2>2. QED
    BY <2>1
<1>9. Until(u, F, m) = m /\ Follow(u, F, m)
  <2>1. u.kids[m] = <<>> /\ Len(<<>>) = 0
    BY <1>1, EmptySeq
  <2>2. Len(u.kids[m]) = 0
    BY <2>1
  <2>3. QED
    BY <2>2 DEF Until, Follow
<1>10. \A n \in 1..m : n <= F[n]
  BY <1>5, <1>6, <1>7
<1>11. \A p \in 1..m : Follow(u, F, p)
  BY <1>5, <1>8, <1>9
<1>12. ASSUME NEW n \in 1..m, ~IsOpen(u, n) PROVE F[n] = Until(u, F, n)
  <2>1. n # m
    BY <1>1, <1>2, <1>12 DEF IsOpen
  <2>2. n \in 1..s
    BY <1>5, <2>1
  <2>3. ~IsOpen(t, n)
    <3>1. \A i \in 1..l : i \in 1..(l + 1)
      BY <1>2
    <3>2. QED
      BY <1>1, <1>12, <3>1 DEF IsOpen, l
  <2>4. QED
    BY <1>6, <1>7, <1>8, <2>2, <2>3
<1>13. ASSUME NEW i \in 1..(l + 1) PROVE Until(u, F, u.open[i]) + 1 = NextOpen(u, i)
  <2>1. CASE i = l + 1
    BY <1>1, <1>9, <2>1 DEF NextOpen
  <2>2. CASE i \in 1..l /\ i # l + 1
    <3>1. Until(u, F, u.open[i]) + 1 = NextOpen(t, i)
      BY <1>1, <1>2, <1>7, <1>8, <2>2
    <3>2. NextOpen(u, i) = u.open[i + 1]
      BY <1>1, <2>2 DEF NextOpen
    <3>3. CASE i = l
      BY <1>1, <1>m, <3>1, <3>2, <3>3 DEF NextOpen, l, s
    <3>4. CASE i # l
      BY <1>1, <1>5, <2>2, <3>1, <3>2, <3>4 DEF NextOpen, l
    <3>5. QED
      BY <3>3, <3>4
  <2>3. QED
    BY <1>5, <2>1, <2>2
<1>14. Spans(u, F)
  BY <1>1, <1>6, <1>10, <1>11, <1>12, <1>13 DEF Spans
<1>15. QED
  BY <1>1, <1>6, <1>14 DEF Spanned, u

\* One child more: it follows what is below the item.
LEMMA FollowMore ==
  ASSUME NEW t, NEW u, NEW E, NEW F, NEW p, NEW c, OneMore(t, u, p, c), Agree(t, E, F, p),
         Follow(t, E, p), c = Until(t, E, p) + 1
  PROVE  Follow(u, F, p) /\ Until(u, F, p) = F[c]
<1> DEFINE q == t.kids[p]
           r == u.kids[p]
           k == Len(q)
<1>1. /\ k \in Nat /\ Len(r) = k + 1 /\ r[k + 1] = c
      /\ \A i \in 1..k : r[i] = q[i] /\ F[q[i]] = E[q[i]]
  BY DEF OneMore, Agree
<1>2. /\ \A i \in 1..k : q[i] = IF i = 1 THEN p + 1 ELSE E[q[i - 1]] + 1
      /\ c = IF k = 0 THEN p + 1 ELSE E[q[k]] + 1
  BY DEF Follow, Until
<1> HIDE DEF q, k, r
<1>3. /\ \A i \in 1..k : i # 1 => i - 1 \in 1..k
      /\ \A i \in 1..(k + 1) : i \in 1..k \/ i = k + 1
      /\ k # 0 => k \in 1..k /\ k + 1 # 1
      /\ k = 0 => k + 1 = 1
      /\ k + 1 # 0 /\ (k + 1) - 1 = k
  BY <1>1
<1>4. \A i \in 1..k : r[i] = IF i = 1 THEN p + 1 ELSE F[r[i - 1]] + 1
  BY <1>1, <1>2, <1>3
<1>5. r[k + 1] = IF k + 1 = 1 THEN p + 1 ELSE F[r[(k + 1) - 1]] + 1
  BY <1>1, <1>2, <1>3
<1>6. \A i \in 1..(k + 1) : r[i] = IF i = 1 THEN p + 1 ELSE F[r[i - 1]] + 1
  BY <1>3, <1>4, <1>5
<1>7. Follow(u, F, p)
  BY <1>1, <1>6 DEF Follow, r
<1>8. Until(u, F, p) = F[c]
  BY <1>1, <1>3 DEF Until, r
<1>9. QED
  BY <1>7, <1>8

LEMMA LeafSpans ==
  ASSUME NEW t, WellTyped(t), Path(t), KidsClosed(t), Spanned(t), t.open # <<>>,
         NEW name \in Names
  PROVE  Spanned(Leaf(t, name))
<1> DEFINE u == Leaf(t, name)
           s == Size(t)
           m == s + 1
           l == Len(t.open)
           top == Top(t)
<1>1. /\ Size(u) = m /\ u.kids[m] = <<>> /\ u.open = t.open
      /\ \A n \in 1..s : n # top => u.kids[n] = t.kids[n]
      /\ Len(u.kids[top]) = Len(t.kids[top]) + 1
      /\ u.kids[top][Len(t.kids[top]) + 1] = m
      /\ \A i \in 1..Len(t.kids[top]) : u.kids[top][i] = t.kids[top][i]
  BY LeafFields DEF Grown
<1>2. /\ s \in Nat /\ l \in Nat /\ l \in 1..l /\ top = t.open[l]
      /\ \A i \in 1..l : t.open[i] \in 1..s
      /\ \A i, j \in 1..l : i < j => t.open[i] < t.open[j]
  <2>1. l \in Nat /\ l >= 1
    BY OpenFacts
  <2>2. l \in 1..l
    <3> HIDE DEF l
    <3>1. QED
      BY <2>1
  <2>3. QED
    BY <2>1, <2>2, OpenFacts, TopIsOpen DEF Path
<1>3. PICK E \in [1..s -> Nat] : Spans(t, E)
  BY DEF Spanned
<1> DEFINE F == [n \in 1..m |-> IF n = m THEN m ELSE E[n]]
<1>4. \A p \in 1..s : /\ Len(t.kids[p]) \in Nat
                      /\ \A i \in 1..Len(t.kids[p]) : t.kids[p][i] \in 1..s
  BY KidsBelow
<1> HIDE DEF u, s, l, top
<1>5. /\ m \in Nat /\ m \in 1..m /\ \A n \in 1..s : n \in 1..m /\ n # m
      /\ \A n \in 1..m : n = m \/ n \in 1..s
      /\ \A i \in 1..l : i # l => i < l /\ i + 1 \in 1..l
  BY <1>2
<1>6. F \in [1..m -> Nat] /\ F[m] = m /\ \A n \in 1..s : F[n] = E[n]
  <2> HIDE DEF m
  <2>1. QED
    BY <1>3, <1>5
<1>m. m = s + 1
  OBVIOUS
<1> HIDE DEF m, F
<1>7. /\ \A n \in 1..s : n <= E[n]
      /\ \A p \in 1..s : Follow(t, E, p)
      /\ \A n \in 1..s : ~IsOpen(t, n) => E[n] = Until(t, E, n)
      /\ \A i \in 1..l : Until(t, E, t.open[i]) + 1 = NextOpen(t, i)
  BY <1>3 DEF Spans, s, l
<1>8. \A p \in 1..s : p # top => Until(u, F, p) = Until(t, E, p) /\ Follow(u, F, p)
  <2>1. ASSUME NEW p \in 1..s, p # top PROVE Until(u, F, p) = Until(t, E, p) /\ Follow(u, F, p)
    <3>1. u.kids[p] = t.kids[p] /\ Agree(t, E, F, p)
      BY <1>1, <1>4, <1>6, <2>1 DEF Agree
    <3>2. Until(u, F, p) = Until(t, E, p)
      BY <3>1, UntilSame
    <3>3. Follow(t, E, p)
      BY <1>7
    <3>4. Follow(u, F, p)
      BY <3>1, <3>3, FollowSame
    <3>5. QED
      BY <3>2, <3>4
  <2>2. QED
    BY <2>1
<1>9. Until(u, F, m) = m /\ Follow(u, F, m)
  <2>1. u.kids[m] = <<>> /\ Len(<<>>) = 0
    BY <1>1, EmptySeq
  <2>2. Len(u.kids[m]) = 0
    BY <2>1
  <2>3. QED
    BY <2>2 DEF Until, Follow
<1>10. \A n \in 1..m : n <= F[n]
  BY <1>5, <1>6, <1>7
<1>11. Follow(u, F, top) /\ Until(u, F, top) = m
  <2>1. top \in 1..s /\ Follow(t, E, top)
    BY <1>2, <1>7
  <2>2. m = Until(t, E, top) + 1
    BY <1>2, <1>7, <1>m DEF NextOpen, l, s
  <2>3. Agree(t, E, F, top) /\ OneMore(t, u, top, m)
    BY <1>1, <1>4, <1>6, <2>1 DEF Agree, OneMore
  <2>4. Follow(u, F, top) /\ Until(u, F, top) = F[m]
    BY <2>1, <2>2, <2>3, FollowMore
  <2>5. QED
    BY <1>6, <2>4
<1>12. \A p \in 1..m : Follow(u, F, p)
  BY <1>5, <1>8, <1>9, <1>11
<1>13. ASSUME NEW n \in 1..m, ~IsOpen(u, n) PROVE F[n] = Until(u, F, n)
  <2>1. ~IsOpen(t, n) /\ n # top
    BY <1>1, <1>2, <1>13 DEF IsOpen, l
  <2>2. QED
    BY <1>5, <1>6, <1>7, <1>8, <1>9, <2>1
<1>14. ASSUME NEW i \in 1..l PROVE Until(u, F, u.open[i]) + 1 = NextOpen(u, i)
  <2>1. CASE i = l
    BY <1>1, <1>2, <1>11, <2>1 DEF NextOpen, l
  <2>2. CASE i # l
    <3>1. i < l /\ t.open[i] < t.open[l]
      BY <1>2, <1>5, <2>2
    <3>2. t.open[i] \in 1..s /\ t.open[i] # top
      BY <1>2, <3>1
    <3>3. Until(u, F, t.open[i]) + 1 = NextOpen(t, i)
      BY <1>7, <1>8, <3>2
    <3>4. QED
      BY <1>1, <2>2, <3>3 DEF NextOpen, l
  <2>3. QED
    BY <2>1, <2>2
<1>15. Spans(u, F)
  BY <1>1, <1>6, <1>10, <1>12, <1>13, <1>14 DEF Spans, l
<1>16. QED
  BY <1>1, <1>6, <1>15 DEF Spanned, u

LEMMA PopSpans ==
  ASSUME NEW t, WellTyped(t), Path(t), KidsClosed(t), Spanned(t), Len(t.open) > 1
  PROVE  Spanned(Pop(t))
<1> DEFINE u == Pop(t)
           s == Size(t)
           l == Len(t.open)
           c == Top(t)
           top == t.open[l - 1]
<1>1. /\ Size(u) = s /\ Len(u.open) = l - 1
      /\ \A i \in 1..Len(u.open) : u.open[i] = t.open[i]
      /\ \A n \in 1..s : n # top => u.kids[n] = t.kids[n]
      /\ Len(u.kids[top]) = Len(t.kids[top]) + 1 /\ u.kids[top][Len(t.kids[top]) + 1] = c
      /\ \A i \in 1..Len(t.kids[top]) : u.kids[top][i] = t.kids[top][i]
  BY PopFields DEF Size
<1>2. /\ s \in Nat /\ l \in Nat /\ l > 1
      /\ \A i \in 1..l : t.open[i] \in 1..s
      /\ \A i, j \in 1..l : i < j => t.open[i] < t.open[j]
      /\ c = t.open[l] /\ top = t.open[l - 1]
  BY OpenFacts, TopIsOpen DEF Path
<1>3. PICK E \in [1..s -> Nat] : Spans(t, E)
  BY DEF Spanned
<1> DEFINE F == [E EXCEPT ![c] = s]
<1>4. \A p \in 1..s : /\ Len(t.kids[p]) \in Nat
                      /\ \A i \in 1..Len(t.kids[p]) : /\ t.kids[p][i] \in 1..s
                                                       /\ ~IsOpen(t, t.kids[p][i])
  BY KidsBelow
<1> HIDE DEF u, s, l, c, top
<1>5. /\ l \in 1..l /\ l - 1 \in 1..l /\ l - 1 < l /\ (l - 1) + 1 = l /\ l - 1 # l
      /\ \A i \in 1..(l - 1) : i \in 1..l /\ i < l /\ i + 1 \in 1..l /\ i # l
      /\ \A i \in 1..(l - 1) : i # l - 1 => i < l - 1 /\ i + 1 \in 1..(l - 1)
      /\ \A i \in 1..l : i = l \/ i \in 1..(l - 1)
  <2>1. l \in Nat /\ l > 1
    BY <1>2
  <2>2. QED
    BY <2>1
<1>6. c \in 1..s /\ top \in 1..s /\ top < c /\ IsOpen(t, c)
  BY <1>2, <1>5 DEF IsOpen, l
<1>7. F \in [1..s -> Nat] /\ F[c] = s /\ \A n \in 1..s : n # c => F[n] = E[n]
  BY <1>2, <1>3, <1>6
<1> HIDE DEF F
<1>8. /\ \A n \in 1..s : n <= E[n]
      /\ \A p \in 1..s : Follow(t, E, p)
      /\ \A n \in 1..s : ~IsOpen(t, n) => E[n] = Until(t, E, n)
      /\ \A i \in 1..l : Until(t, E, t.open[i]) + 1 = NextOpen(t, i)
  BY <1>3 DEF Spans, s, l
<1>9. \A p \in 1..s : \A i \in 1..Len(t.kids[p]) : F[t.kids[p][i]] = E[t.kids[p][i]]
  BY <1>4, <1>6, <1>7
<1>10. \A p \in 1..s : p # top => Until(u, F, p) = Until(t, E, p) /\ Follow(u, F, p)
  <2>1. ASSUME NEW p \in 1..s, p # top PROVE Until(u, F, p) = Until(t, E, p) /\ Follow(u, F, p)
    <3>1. u.kids[p] = t.kids[p] /\ Agree(t, E, F, p)
      BY <1>1, <1>4, <1>9, <2>1 DEF Agree
    <3>2. Until(u, F, p) = Until(t, E, p)
      BY <3>1, UntilSame
    <3>3. Follow(t, E, p)
      BY <1>8
    <3>4. Follow(u, F, p)
      BY <3>1, <3>3, FollowSame
    <3>5. QED
      BY <3>2, <3>4
  <2>2. QED
    BY <2>1
<1>11. Follow(u, F, top) /\ Until(u, F, top) = s
  <2>1. Follow(t, E, top)
    BY <1>6, <1>8
  <2>2. c = Until(t, E, top) + 1
    <3>1. Until(t, E, t.open[l - 1]) + 1 = NextOpen(t, l - 1)
      BY <1>5, <1>8
    <3>2. NextOpen(t, l - 1) = c
      BY <1>2, <1>5 DEF NextOpen, l
    <3>3. QED
      BY <1>2, <3>1, <3>2
  <2>3. Agree(t, E, F, top) /\ OneMore(t, u, top, c)
    BY <1>1, <1>4, <1>6, <1>9 DEF Agree, OneMore
  <2>4. Follow(u, F, top) /\ Until(u, F, top) = F[c]
    BY <2>1, <2>2, <2>3, FollowMore
  <2>5. QED
    BY <1>7, <2>4
<1>12. \A p \in 1..s : Follow(u, F, p)
  BY <1>10, <1>11
<1>13. ASSUME NEW n \in 1..s, ~IsOpen(u, n) PROVE F[n] = Until(u, F, n)
  <2>1. n # top
    <3>1. l - 1 \in 1..(l - 1)
      BY <1>2
    <3>2. IsOpen(u, top)
      BY <1>1, <1>2, <3>1 DEF IsOpen
    <3>3. QED
      BY <1>13, <3>2
  <2>2. CASE n = c
    <3>1. Until(t, E, c) + 1 = s + 1
      BY <1>2, <1>5, <1>8 DEF NextOpen, l, s
    <3>2. Until(t, E, c) = s
      <4>1. Until(t, E, c) \in Nat
        <5> DEFINE k == Len(t.kids[c])
        <5>1. k \in Nat /\ \A i \in 1..k : t.kids[c][i] \in 1..s
          BY <1>4, <1>6
        <5>2. k # 0 => k \in 1..k
          <6> HIDE DEF k
          <6>1. QED
            BY <5>1
        <5>3. k # 0 => E[t.kids[c][k]] \in Nat
          BY <1>3, <5>1, <5>2
        <5>4. c \in Nat
          BY <1>2, <1>6
        <5>5. QED
          BY <5>3, <5>4 DEF Until
      <4>2. QED
        BY <1>2, <3>1, <4>1
    <3>3. QED
      BY <1>7, <1>10, <2>1, <2>2, <3>2
  <2>3. CASE n # c
    <3>1. ~IsOpen(t, n)
      <4>1. ASSUME NEW i \in 1..l, t.open[i] = n PROVE FALSE
        <5>1. i # l
          BY <1>2, <2>3, <4>1
        <5>2. i \in 1..(l - 1)
          BY <1>5, <5>1
        <5>3. u.open[i] = n /\ i \in 1..Len(u.open)
          BY <1>1, <4>1, <5>2
        <5>4. QED
          BY <1>13, <5>3 DEF IsOpen
      <4>2. QED
        BY <4>1 DEF IsOpen, l
    <3>2. QED
      BY <1>7, <1>8, <1>10, <2>1, <2>3, <3>1
  <2>4. QED
    BY <2>2, <2>3
<1>14. ASSUME NEW i \in 1..(l - 1) PROVE Until(u, F, u.open[i]) + 1 = NextOpen(u, i)
  <2>1. u.open[i] = t.open[i]
    BY <1>1
  <2>2. CASE i = l - 1
    BY <1>1, <1>2, <1>11, <2>1, <2>2 DEF NextOpen
  <2>3. CASE i # l - 1
    <3>1. t.open[i] \in 1..s /\ t.open[i] < top
      BY <1>2, <1>5, <2>3
    <3>2. t.open[i] # top
      BY <1>6, <3>1
    <3>3. Until(u, F, t.open[i]) + 1 = NextOpen(t, i)
      BY <1>5, <1>8, <1>10, <3>1, <3>2
    <3>4. NextOpen(t, i) = t.open[i + 1] /\ NextOpen(u, i) = u.open[i + 1]
      BY <1>1, <1>5, <2>3 DEF NextOpen, l
    <3>5. u.open[i + 1] = t.open[i + 1]
      BY <1>1, <1>5, <2>3
    <3>6. QED
      BY <2>1, <3>3, <3>4, <3>5
  <2>4. QED
    BY <2>2, <2>3
<1>15. \A n \in 1..s : n <= F[n]
  <2>1. \A n \in 1..s : n <= s
    BY <1>2
  <2>2. QED
    BY <1>7, <1>8, <2>1
<1>16. Spans(u, F)
  BY <1>1, <1>7, <1>12, <1>13, <1>14, <1>15 DEF Spans
<1>17. QED
  BY <1>1, <1>7, <1>16 DEF Spanned, u

LEMMA PushGood ==
  ASSUME NEW t, Good(t), NEW name \in Names,
         Size(t) = 0 => name = "html",
         Size(t) = 1 => name \in {"head", "body"},
         InHead(t) => name \in HeadTags
  PROVE  Good(Push(t, name))
<1> DEFINE u == Push(t, name)
           m == Size(t) + 1
           l == Len(t.open)
<1>1. WellTyped(t) /\ Path(t) /\ Placed(t) /\ HeadClean(t) /\ Shape(t)
  BY DEF Good
<1>2. /\ u \in TreeType /\ Grown(t, u, name)
      /\ \A n \in 1..Size(t) : u.kids[n] = t.kids[n]
      /\ Len(u.open) = l + 1 /\ u.open[Len(u.open)] = Size(u)
      /\ \A i \in 1..l : u.open[i] = t.open[i]
  BY <1>1, PushFields
<1>3. /\ Size(t) \in Nat /\ l \in Nat /\ Size(u) = m /\ m \in Nat
      /\ Top(t) \in 0..Size(t)
      /\ \A i \in 1..l : t.open[i] \in 1..Size(t)
  BY <1>1, <1>2, OpenFacts, TopIsOpen DEF Grown
<1>4. \A n \in 1..m : n = m \/ n \in 1..Size(t)
  BY <1>3
<1>5. \A i \in 1..(l + 1) : i = l + 1 \/ i \in 1..l
  BY <1>3
<1>6. \A n \in 1..Size(t) : /\ u.items[n] = t.items[n] /\ u.parent[n] = t.parent[n]
                            /\ u.kids[n] = t.kids[n] /\ n \in 1..m /\ n # m
  BY <1>2, <1>3 DEF Grown
<1>7. u.items[m] = name /\ u.parent[m] = Top(t) /\ u.kids[m] = <<>> /\ u.open[l + 1] = m
  BY <1>2, <1>3 DEF Grown
<1> HIDE DEF u, m
<1>8. WellTyped(u)
  <2>1. \A n \in 1..Size(u) : u.parent[n] < n
    <3>1. Top(t) < m
      BY <1>3 DEF m
    <3>2. QED
      BY <1>1, <1>3, <1>4, <1>6, <1>7, <3>1 DEF WellTyped
  <2>2. u.open # <<>>
    <3>1. Len(u.open) # 0
      BY <1>2, <1>3
    <3>2. QED
      BY <3>1, EmptySeq
  <2>3. QED
    BY <1>2, <2>1, <2>2 DEF WellTyped, Grown
<1>9. \A n : IsOpen(u, n) <=> IsOpen(t, n) \/ n = m
  <2>1. l + 1 \in 1..(l + 1) /\ \A i \in 1..l : i \in 1..(l + 1)
    BY <1>3
  <2>2. QED
    BY <1>2, <1>5, <1>7, <2>1 DEF IsOpen
<1>10. Path(u)
  <2>1. ASSUME NEW i \in 1..(l + 1)
        PROVE  /\ u.open[i] \in 1..m
               /\ u.parent[u.open[i]] = IF i = 1 THEN 0 ELSE u.open[i - 1]
    <3>1. CASE i \in 1..l
      <4>1. u.open[i] = t.open[i] /\ t.open[i] \in 1..Size(t)
        BY <1>2, <1>3, <3>1
      <4>2. i # 1 => i - 1 \in 1..l
        BY <1>3, <3>1
      <4>3. t.parent[t.open[i]] = IF i = 1 THEN 0 ELSE t.open[i - 1]
        BY <1>1, <3>1 DEF Path
      <4>4. QED
        BY <1>2, <1>6, <4>1, <4>2, <4>3
    <3>2. CASE i = l + 1
      <4>1. u.open[i] = m /\ m \in 1..m /\ u.parent[m] = Top(t)
        BY <1>3, <1>7, <3>2 DEF m
      <4>2. CASE l = 0
        BY <1>1, <1>3, <3>2, <4>1, <4>2, OpenFacts DEF Top
      <4>3. CASE l # 0
        <5>1. l \in 1..l /\ i # 1 /\ i - 1 = l /\ t.open # <<>>
          BY <1>1, <1>3, <3>2, <4>3, OpenFacts
        <5>2. Top(t) = t.open[l]
          BY <1>1, <5>1, TopIsOpen
        <5>3. QED
          BY <1>2, <4>1, <5>1, <5>2
      <4>4. QED
        BY <4>2, <4>3
    <3>3. QED
      BY <1>5, <3>1, <3>2
  <2>2. u.open[1] = Root
    <3>1. CASE l = 0
      <4>1. Size(t) = 0
        BY <1>1, <1>3, <3>1, OpenFacts
      <4>2. QED
        BY <1>7, <3>1, <4>1 DEF m, Root
    <3>2. CASE l # 0
      <4>1. l >= 1 /\ 1 \in 1..l
        BY <1>3, <3>2
      <4>2. QED
        BY <1>1, <1>2, <4>1, OpenFacts DEF Root
    <3>3. QED
      BY <3>1, <3>2
  <2>3. ASSUME NEW i \in 1..(l + 1), NEW j \in 1..(l + 1), i < j
        PROVE  u.open[i] < u.open[j]
    <3>1. i \in 1..l
      BY <1>3, <2>3
    <3>2. u.open[i] = t.open[i] /\ t.open[i] \in 1..Size(t)
      BY <1>2, <1>3, <3>1
    <3>3. CASE j \in 1..l
      BY <1>1, <1>2, <2>3, <3>1, <3>2, <3>3 DEF Path
    <3>4. CASE j = l + 1
      BY <1>3, <1>7, <3>2, <3>4 DEF m
    <3>5. QED
      BY <1>5, <3>3, <3>4
  <2>4. QED
    BY <1>2, <1>3, <2>1, <2>2, <2>3 DEF Path
<1>11. KidsClosed(u)
  <2>1. SUFFICES ASSUME NEW p \in 1..m, NEW i \in 1..Len(u.kids[p])
                 PROVE  /\ u.kids[p][i] \in 2..m
                        /\ u.parent[u.kids[p][i]] = p
                        /\ ~IsOpen(u, u.kids[p][i])
    BY <1>3 DEF KidsClosed
  <2>2. p # m
    <3>1. Len(<<>>) = 0
      BY EmptySeq
    <3>2. QED
      BY <1>7, <2>1, <3>1
  <2>3. p \in 1..Size(t) /\ u.kids[p] = t.kids[p] /\ i \in 1..Len(t.kids[p])
    BY <1>4, <1>6, <2>1, <2>2
  <2>4. /\ t.kids[p][i] \in 2..Size(t) /\ t.parent[t.kids[p][i]] = p
        /\ ~IsOpen(t, t.kids[p][i])
    BY <1>1, <2>3 DEF Placed, KidsClosed
  <2>5. t.kids[p][i] \in 2..m /\ t.kids[p][i] \in 1..Size(t) /\ t.kids[p][i] # m
    BY <1>3, <2>4 DEF m
  <2>6. QED
    BY <1>6, <1>9, <2>3, <2>4, <2>5
<1>12. KidsApart(u)
  <2>1. SUFFICES ASSUME NEW p \in 1..m, NEW i \in 1..Len(u.kids[p]),
                        NEW j \in 1..Len(u.kids[p]), u.kids[p][i] = u.kids[p][j]
                 PROVE  i = j
    BY <1>3 DEF KidsApart
  <2>2. p # m
    <3>1. Len(<<>>) = 0
      BY EmptySeq
    <3>2. QED
      BY <1>7, <2>1, <3>1
  <2>3. QED
    BY <1>1, <1>4, <1>6, <2>1, <2>2 DEF Placed, KidsApart
<1>13. ClosedListed(u)
  <2>1. SUFFICES ASSUME NEW n \in 2..m, ~IsOpen(u, n)
                 PROVE  /\ u.parent[n] \in 1..m
                        /\ \E i \in 1..Len(u.kids[u.parent[n]]) :
                             u.kids[u.parent[n]][i] = n
    BY <1>3 DEF ClosedListed
  <2>2. ~IsOpen(t, n) /\ n # m /\ n \in 2..Size(t) /\ n \in 1..Size(t)
    BY <1>3, <1>9, <2>1 DEF m
  <2>3. /\ t.parent[n] \in 1..Size(t)
        /\ \E i \in 1..Len(t.kids[t.parent[n]]) : t.kids[t.parent[n]][i] = n
    BY <1>1, <2>2 DEF Placed, ClosedListed
  <2>4. QED
    BY <1>6, <2>2, <2>3
<1>14. KidsFit(u)
  <2>1. Len(<<>>) = 0
    BY EmptySeq
  <2>2. ASSUME NEW p \in 1..m PROVE Len(u.kids[p]) <= m
    <3>1. CASE p = m
      BY <1>3, <1>7, <2>1, <3>1
    <3>2. CASE p \in 1..Size(t)
      <4>1. Len(t.kids[p]) <= Size(t) /\ Len(t.kids[p]) \in Nat
        BY <1>1, <3>2, TypeFacts DEF Placed, KidsFit
      <4>2. QED
        BY <1>3, <1>6, <3>2, <4>1 DEF m
    <3>3. QED
      BY <1>4, <3>1, <3>2
  <2>3. ASSUME NEW i \in 1..(l + 1)
        PROVE  Len(u.kids[u.open[i]]) < NextOpen(u, i) - u.open[i]
    <3>1. CASE i = l + 1
      <4>1. NextOpen(u, i) = m + 1
        BY <1>2, <1>3, <3>1 DEF NextOpen
      <4>2. QED
        BY <1>3, <1>7, <2>1, <3>1, <4>1
    <3>2. CASE i \in 1..l
      <4>1. Len(t.kids[t.open[i]]) < NextOpen(t, i) - t.open[i]
        BY <1>1, <3>2 DEF Placed, KidsFit
      <4>2. u.open[i] = t.open[i] /\ u.kids[t.open[i]] = t.kids[t.open[i]]
        BY <1>2, <1>3, <1>6, <3>2
      <4>3. i # l + 1
        BY <1>3, <3>2
      <4>4. NextOpen(u, i) = u.open[i + 1]
        BY <1>2, <4>3 DEF NextOpen
      <4>5. NextOpen(t, i) = u.open[i + 1]
        <5>1. CASE i = l
          BY <1>7, <5>1 DEF NextOpen, m
        <5>2. CASE i # l
          <6>1. i + 1 \in 1..l
            BY <1>3, <3>2, <5>2
          <6>2. QED
            BY <1>2, <5>2, <6>1 DEF NextOpen
        <5>3. QED
          BY <5>1, <5>2
      <4>6. QED
        BY <4>1, <4>2, <4>4, <4>5
    <3>3. QED
      BY <1>5, <3>1, <3>2
  <2>4. QED
    BY <1>2, <1>3, <2>2, <2>3 DEF KidsFit
<1>15. HeadClean(u)
  BY <1>1, <1>2, HeadStaysClean
<1>16. Shape(u)
  <2>1. u.items[1] = "html"
    <3>1. CASE Size(t) = 0
      BY <1>7, <3>1 DEF m
    <3>2. CASE Size(t) # 0
      <4>1. 1 \in 1..Size(t) /\ Size(t) >= 1
        BY <1>3, <3>2
      <4>2. QED
        BY <1>1, <1>6, <4>1 DEF Shape
    <3>3. QED
      BY <3>1, <3>2
  <2>2. ASSUME m >= 2
        PROVE  /\ u.items[2] \in {"head", "body"}
               /\ IF l + 1 >= 2 /\ u.open[2] = 2
                  THEN u.kids[1] = <<>>
                  ELSE Len(u.kids[1]) >= 1 /\ u.kids[1][1] = 2
    <3>1. Size(t) >= 1 /\ 1 \in 1..Size(t) /\ l >= 1
      BY <1>1, <1>3, <2>2, OpenFacts DEF m
    <3>2. u.kids[1] = t.kids[1]
      BY <1>6, <3>1
    <3>3. CASE Size(t) = 1
      <4>1. m = 2 /\ l = 1 /\ l \in 1..l
        BY <1>1, <3>3, OpenFacts DEF m
      <4>2. u.items[2] \in {"head", "body"} /\ u.open[2] = 2
        BY <1>7, <3>3, <4>1
      <4>3. Len(t.kids[1]) < 2 - 1
        <5>1. Len(t.kids[t.open[1]]) < NextOpen(t, 1) - t.open[1]
          BY <1>1, <4>1 DEF Placed, KidsFit
        <5>2. NextOpen(t, 1) = 2 /\ t.open[1] = 1
          BY <1>1, <3>1, <3>3, <4>1, OpenFacts DEF NextOpen
        <5>3. QED
          BY <5>1, <5>2
      <4>4. t.kids[1] \in Seq(Nat) /\ Len(t.kids[1]) \in Nat
        BY <1>1, <3>1, TypeFacts
      <4>5. Len(t.kids[1]) = 0
        BY <4>3, <4>4
      <4>6. t.kids[1] = <<>>
        BY <4>4, <4>5, EmptySeq
      <4>7. QED
        BY <3>2, <4>1, <4>2, <4>6
    <3>4. CASE Size(t) >= 2
      <4>1. 2 \in 1..Size(t) /\ m # 2
        BY <1>3, <3>4 DEF m
      <4>2. u.items[2] \in {"head", "body"}
        BY <1>1, <1>6, <3>4, <4>1 DEF Shape
      <4>3. u.open[2] = 2 <=> l >= 2 /\ t.open[2] = 2
        <5>1. l >= 2 => 2 \in 1..l
          BY <1>3
        <5>2. ~(l >= 2) => l + 1 = 2
          BY <1>3, <3>1
        <5>3. QED
          BY <1>2, <1>7, <4>1, <5>1, <5>2
      <4>4. l + 1 >= 2
        BY <1>3, <3>1
      <4>5. QED
        BY <1>1, <3>2, <3>4, <4>2, <4>3, <4>4 DEF Shape
    <3>5. QED
      BY <1>3, <3>1, <3>3, <3>4
  <2>3. QED
    BY <1>2, <1>3, <2>1, <2>2 DEF Shape
<1>17. Spanned(u)
  BY <1>1, PushSpans DEF Good, Placed, u
<1>18. QED
  BY <1>8, <1>10, <1>11, <1>12, <1>13, <1>14, <1>15, <1>16, <1>17 DEF Good, Placed, u

LEMMA LeafGood ==
  ASSUME NEW t, Good(t), NEW name \in Names, Size(t) >= 2,
         InHead(t) => name \in HeadTags
  PROVE  Good(Leaf(t, name)) /\ Leaf(t, name).open = t.open
<1> DEFINE u == Leaf(t, name)
           m == Size(t) + 1
           l == Len(t.open)
           p == Top(t)
           old == t.kids[p]
<1>1. WellTyped(t) /\ Path(t) /\ Placed(t) /\ HeadClean(t) /\ Shape(t)
  BY DEF Good
<1>2. /\ Size(t) \in Nat /\ l \in Nat /\ l >= 1 /\ l \in 1..l /\ t.open # <<>>
      /\ \A i \in 1..l : t.open[i] \in 1..Size(t)
  BY <1>1, OpenFacts
<1>3. /\ u \in TreeType /\ Grown(t, u, name) /\ u.open = t.open
      /\ \A n \in 1..Size(t) : n # p => u.kids[n] = t.kids[n]
      /\ Len(u.kids[p]) = Len(old) + 1 /\ u.kids[p][Len(old) + 1] = Size(u)
      /\ \A i \in 1..Len(old) : u.kids[p][i] = old[i]
  BY <1>1, <1>2, LeafFields
<1>4. p \in 1..Size(t) /\ p = t.open[l] /\ Len(old) \in Nat /\ Len(old) <= Size(t)
  BY <1>1, <1>2, TopIsOpen, TypeFacts DEF Placed, KidsFit
<1>5. Size(u) = m /\ m \in Nat /\ m \in 1..m /\ \A n \in 1..Size(t) : n \in 1..m /\ n # m
  BY <1>2, <1>3 DEF Grown
<1>6. \A n \in 1..m : n = m \/ n \in 1..Size(t)
  BY <1>2
<1>7. /\ \A n \in 1..Size(t) : u.items[n] = t.items[n] /\ u.parent[n] = t.parent[n]
      /\ u.items[m] = name /\ u.parent[m] = p /\ u.kids[m] = <<>>
  BY <1>3, <1>5 DEF Grown
<1>8. \A i \in 1..Len(u.kids[p]) : i = Len(old) + 1 \/ i \in 1..Len(old)
  <2>1. Len(old) \in Nat /\ Len(u.kids[p]) = Len(old) + 1
    BY <1>3, <1>4
  <2>2. \A i \in 1..(Len(old) + 1) : i = Len(old) + 1 \/ i \in 1..Len(old)
    BY <2>1
  <2>3. QED
    BY <2>1, <2>2
<1>9. Len(<<>>) = 0
  BY EmptySeq
<1>m. m = Size(t) + 1
  OBVIOUS
<1> HIDE DEF u, m, p, old
<1>10. WellTyped(u)
  <2>1. p < m
    BY <1>2, <1>4, <1>m
  <2>2. \A n \in 1..Size(u) : u.parent[n] < n
    BY <1>1, <1>5, <1>6, <1>7, <2>1 DEF WellTyped
  <2>3. QED
    BY <1>2, <1>3, <2>2 DEF WellTyped, Grown
<1>11. \A n : IsOpen(u, n) <=> IsOpen(t, n)
  BY <1>3 DEF IsOpen
<1>12. ~IsOpen(t, m)
  BY <1>2, <1>5 DEF IsOpen
<1>13. Path(u)
  <2>1. ASSUME NEW i \in 1..l
        PROVE  /\ t.open[i] \in 1..m
               /\ u.parent[t.open[i]] = IF i = 1 THEN 0 ELSE t.open[i - 1]
    BY <1>1, <1>2, <1>5, <1>7 DEF Path
  <2>2. QED
    BY <1>1, <1>3, <1>5, <2>1 DEF Path
<1>14. ASSUME NEW q \in 1..m, NEW i \in 1..Len(u.kids[q])
       PROVE  \/ q = p /\ i = Len(old) + 1 /\ u.kids[q][i] = m
              \/ /\ q \in 1..Size(t) /\ i \in 1..Len(t.kids[q])
                 /\ u.kids[q][i] = t.kids[q][i]
  <2>1. q # m
    BY <1>7, <1>9, <1>14
  <2>2. q \in 1..Size(t)
    BY <1>6, <2>1
  <2>3. CASE q # p
    BY <1>3, <2>2, <2>3
  <2>4. CASE q = p
    BY <1>3, <1>5, <1>8, <2>2, <2>4 DEF old
  <2>5. QED
    BY <2>3, <2>4
<1>15. KidsClosed(u)
  <2>1. SUFFICES ASSUME NEW q \in 1..m, NEW i \in 1..Len(u.kids[q])
                 PROVE  /\ u.kids[q][i] \in 2..m
                        /\ u.parent[u.kids[q][i]] = q
                        /\ ~IsOpen(u, u.kids[q][i])
    BY <1>5 DEF KidsClosed
  <2>2. CASE q = p /\ u.kids[q][i] = m
    <3>1. m \in 2..m
      BY <1>2, <1>m
    <3>2. QED
      BY <1>7, <1>11, <1>12, <2>2, <3>1
  <2>3. CASE /\ q \in 1..Size(t) /\ i \in 1..Len(t.kids[q])
             /\ u.kids[q][i] = t.kids[q][i]
    <3>1. /\ t.kids[q][i] \in 2..Size(t) /\ t.parent[t.kids[q][i]] = q
          /\ ~IsOpen(t, t.kids[q][i])
      BY <1>1, <2>3 DEF Placed, KidsClosed
    <3>2. t.kids[q][i] \in 2..m /\ t.kids[q][i] \in 1..Size(t)
      BY <1>2, <1>m, <3>1
    <3>3. QED
      BY <1>7, <1>11, <2>3, <3>1, <3>2
  <2>4. QED
    BY <1>14, <2>2, <2>3
<1>16. KidsApart(u)
  <2>1. SUFFICES ASSUME NEW q \in 1..m, NEW i \in 1..Len(u.kids[q]),
                        NEW j \in 1..Len(u.kids[q]), u.kids[q][i] = u.kids[q][j]
                 PROVE  i = j
    BY <1>5 DEF KidsApart
  <2>2. \A k \in 1..Len(t.kids[q]) : q \in 1..Size(t) => t.kids[q][k] # m
    <3>1. \A k \in 1..Len(t.kids[q]) : q \in 1..Size(t) => t.kids[q][k] \in 2..Size(t)
      BY <1>1 DEF Placed, KidsClosed
    <3>2. m \notin 2..Size(t)
      BY <1>2, <1>m
    <3>3. QED
      BY <3>1, <3>2
  <2> DEFINE New(k) == q = p /\ k = Len(old) + 1 /\ u.kids[q][k] = m
             Old(k) == /\ q \in 1..Size(t) /\ k \in 1..Len(t.kids[q])
                       /\ u.kids[q][k] = t.kids[q][k]
  <2>3. (New(i) \/ Old(i)) /\ (New(j) \/ Old(j))
    BY <1>14
  <2>4. CASE New(i) /\ New(j)
    BY <2>4
  <2>5. CASE Old(i) /\ Old(j)
    BY <1>1, <2>1, <2>5 DEF Placed, KidsApart
  <2>6. CASE (New(i) /\ Old(j)) \/ (Old(i) /\ New(j))
    BY <2>1, <2>2, <2>6
  <2>7. QED
    BY <2>3, <2>4, <2>5, <2>6
<1>17. ClosedListed(u)
  <2>1. SUFFICES ASSUME NEW n \in 2..m, ~IsOpen(u, n)
                 PROVE  /\ u.parent[n] \in 1..m
                        /\ \E i \in 1..Len(u.kids[u.parent[n]]) :
                             u.kids[u.parent[n]][i] = n
    BY <1>5 DEF ClosedListed
  <2>2. CASE n = m
    <3>1. Len(old) + 1 \in 1..Len(u.kids[p])
      BY <1>3, <1>4
    <3>2. QED
      BY <1>3, <1>4, <1>5, <1>7, <2>2, <3>1
  <2>3. CASE n # m
    <3>1. n \in 2..Size(t) /\ n \in 1..Size(t) /\ ~IsOpen(t, n)
      BY <1>2, <1>11, <1>m, <2>1, <2>3
    <3>2. PICK i \in 1..Len(t.kids[t.parent[n]]) : t.kids[t.parent[n]][i] = n
      BY <1>1, <3>1 DEF Placed, ClosedListed
    <3>3. t.parent[n] \in 1..Size(t)
      BY <1>1, <3>1 DEF Placed, ClosedListed
    <3>4. CASE t.parent[n] = p
      <4>1. i \in 1..Len(old) /\ old[i] = n
        BY <3>2, <3>4 DEF old
      <4>2. u.kids[p][i] = n
        BY <1>3, <4>1
      <4>3. i \in 1..Len(u.kids[p])
        BY <1>3, <1>4, <4>1
      <4>4. QED
        BY <1>5, <1>7, <3>1, <3>3, <3>4, <4>2, <4>3
    <3>5. CASE t.parent[n] # p
      <4>1. u.parent[n] = t.parent[n] /\ u.parent[n] \in 1..m
        BY <1>5, <1>7, <3>1, <3>3
      <4>2. u.kids[u.parent[n]] = t.kids[t.parent[n]]
        BY <1>3, <3>3, <3>5, <4>1
      <4>3. QED
        BY <3>2, <4>1, <4>2
    <3>6. QED
      BY <3>4, <3>5
  <2>4. QED
    BY <2>2, <2>3
<1>18. KidsFit(u)
  <2>1. ASSUME NEW q \in 1..m PROVE Len(u.kids[q]) <= m
    <3>1. CASE q = m
      BY <1>5, <1>7, <1>9, <3>1
    <3>2. CASE q = p
      BY <1>2, <1>3, <1>4, <1>m, <3>2
    <3>3. CASE q \in 1..Size(t) /\ q # p
      <4>1. Len(t.kids[q]) <= Size(t) /\ Len(t.kids[q]) \in Nat
        BY <1>1, <3>3, TypeFacts DEF Placed, KidsFit
      <4>2. QED
        BY <1>2, <1>3, <1>m, <3>3, <4>1
    <3>4. QED
      BY <1>6, <3>1, <3>2, <3>3
  <2>2. ASSUME NEW i \in 1..l
        PROVE  Len(u.kids[t.open[i]]) < NextOpen(u, i) - t.open[i]
    <3>1. Len(t.kids[t.open[i]]) < NextOpen(t, i) - t.open[i]
      BY <1>1, <2>2 DEF Placed, KidsFit
    <3>2. CASE i = l
      <4>1. NextOpen(u, i) = m + 1 /\ NextOpen(t, i) = m
        BY <1>3, <1>5, <1>m, <3>2 DEF NextOpen
      <4>2. Len(old) < m - p
        BY <1>4, <3>1, <3>2, <4>1 DEF old
      <4>3. p \in Nat
        BY <1>4
      <4>4. Len(old) + 1 < (m + 1) - p
        BY <1>4, <1>5, <4>2, <4>3
      <4>5. t.open[i] = p
        BY <1>4, <3>2
      <4>6. Len(u.kids[t.open[i]]) = Len(old) + 1
        BY <1>3, <4>5
      <4>7. NextOpen(u, i) - t.open[i] = (m + 1) - p
        BY <4>1, <4>5
      <4>8. QED
        BY <4>4, <4>6, <4>7
    <3>3. CASE i # l
      <4>1. NextOpen(u, i) = NextOpen(t, i)
        BY <1>3, <3>3 DEF NextOpen
      <4>2. i < l
        BY <1>2, <2>2, <3>3
      <4>3. t.open[i] < t.open[l]
        BY <1>1, <1>2, <2>2, <4>2 DEF Path
      <4>4. t.open[i] # p
        BY <1>2, <1>4, <2>2, <4>3
      <4>5. QED
        BY <1>2, <1>3, <2>2, <3>1, <4>1, <4>4
    <3>4. QED
      BY <3>2, <3>3
  <2>3. QED
    BY <1>3, <1>5, <2>1, <2>2 DEF KidsFit
<1>19. HeadClean(u)
  BY <1>1, <1>3, HeadStaysClean
<1>20. Shape(u)
  <2>1. 1 \in 1..Size(t) /\ 2 \in 1..Size(t)
    BY <1>2
  <2>2. u.items[1] = "html" /\ u.items[2] \in {"head", "body"}
    BY <1>1, <1>2, <1>7, <2>1 DEF Shape
  <2>3. CASE l >= 2 /\ t.open[2] = 2
    <3>1. t.kids[1] = <<>>
      BY <1>1, <2>3 DEF Shape
    <3>2. l > 1
      BY <1>2, <2>3
    <3>3. p > 1
      BY <1>1, <1>2, <1>4, <3>2, OpenFacts
    <3>4. p # 1
      BY <1>4, <3>3
    <3>5. QED
      BY <1>3, <2>1, <2>2, <2>3, <3>1, <3>4 DEF Shape
  <2>4. CASE ~(l >= 2 /\ t.open[2] = 2)
    <3>1. Len(t.kids[1]) >= 1 /\ t.kids[1][1] = 2 /\ Len(t.kids[1]) \in Nat
      BY <1>1, <2>1, <2>4, TypeFacts DEF Shape
    <3>2. Len(u.kids[1]) >= 1 /\ u.kids[1][1] = 2
      <4>1. CASE p = 1
        <5>1. 1 \in 1..Len(old)
          BY <3>1, <4>1 DEF old
        <5>2. u.kids[1][1] = 2
          BY <1>3, <3>1, <4>1, <5>1 DEF old
        <5>3. QED
          BY <1>3, <1>4, <4>1, <5>2
      <4>2. CASE p # 1
        BY <1>3, <2>1, <3>1, <4>2
      <4>3. QED
        BY <4>1, <4>2
    <3>3. QED
      BY <1>3, <2>2, <2>4, <3>2 DEF Shape
  <2>5. QED
    BY <2>3, <2>4
<1>21. Spanned(u)
  BY <1>1, <1>2, LeafSpans DEF Good, Placed, u
<1>22. QED
  BY <1>3, <1>10, <1>13, <1>15, <1>16, <1>17, <1>18, <1>19, <1>20, <1>21 DEF Good, Placed, u

LEMMA PopGood ==
  ASSUME NEW t, Good(t), Len(t.open) > 1
  PROVE  /\ Good(Pop(t)) /\ Size(Pop(t)) = Size(t)
         /\ Len(Pop(t).open) = Len(t.open) - 1
<1> DEFINE u == Pop(t)
           l == Len(t.open)
           c == Top(t)
           p == t.open[l - 1]
           old == t.kids[p]
<1>1. WellTyped(t) /\ Path(t) /\ Placed(t) /\ HeadClean(t) /\ Shape(t)
  BY DEF Good
<1>2. /\ u \in TreeType /\ u.items = t.items /\ u.parent = t.parent
      /\ Len(u.kids) = Len(t.kids) /\ p \in 1..Size(t) /\ t.parent[c] = p
      /\ Len(u.open) = l - 1
      /\ \A i \in 1..Len(u.open) : u.open[i] = t.open[i]
      /\ \A n \in 1..Size(t) : n # p => u.kids[n] = t.kids[n]
      /\ Len(u.kids[p]) = Len(old) + 1 /\ u.kids[p][Len(old) + 1] = c
      /\ \A i \in 1..Len(old) : u.kids[p][i] = old[i]
  BY <1>1, PopFields
<1>3. /\ Size(t) \in Nat /\ l \in Nat /\ l > 1 /\ t.open # <<>>
      /\ \A i \in 1..l : t.open[i] \in 1..Size(t)
  BY <1>1, OpenFacts
<1>4. c = t.open[l]
  BY <1>1, <1>3, TopIsOpen
<1>5. Len(old) \in Nat
  BY <1>1, <1>2, TypeFacts
<1>6. Size(u) = Size(t)
  BY <1>2 DEF Size
<1>7. \A i, j \in 1..l : i < j => t.open[i] < t.open[j]
  BY <1>1 DEF Path
<1>8. \A i \in 1..l : i > 1 => t.open[i] > 1
  BY <1>1, OpenFacts
<1>9. t.open[1] = 1
  BY <1>1, <1>3, OpenFacts
<1> HIDE DEF u, l, c, p, old
<1>10. /\ l \in 1..l /\ l - 1 \in 1..l /\ l - 1 \in Nat /\ l - 1 >= 1
       /\ \A i \in 1..(l - 1) : i \in 1..l /\ i < l
       /\ \A i \in 1..l : i # l => i \in 1..(l - 1)
  BY <1>3
<1>11. p = t.open[l - 1]
  BY DEF p
<1>12. c \in 2..Size(t) /\ c \in 1..Size(t) /\ p < c
  <2>1. c > 1 /\ c \in 1..Size(t)
    BY <1>3, <1>4, <1>8, <1>10
  <2>2. p < c
    BY <1>3, <1>4, <1>7, <1>10, <1>11
  <2>3. QED
    BY <1>3, <2>1, <2>2
<1>13. WellTyped(u)
  <2>1. u.open # <<>>
    <3>1. Len(u.open) # 0
      BY <1>2, <1>10
    <3>2. QED
      BY <3>1, EmptySeq
  <2>2. QED
    BY <1>1, <1>2, <1>6, <2>1 DEF WellTyped
<1>14. Path(u)
  <2>1. ASSUME NEW i \in 1..(l - 1)
        PROVE  /\ u.open[i] \in 1..Size(t)
               /\ t.parent[u.open[i]] = IF i = 1 THEN 0 ELSE u.open[i - 1]
    <3>1. i \in 1..l /\ u.open[i] = t.open[i]
      BY <1>2, <1>10
    <3>2. i # 1 => i - 1 \in 1..(l - 1)
      BY <1>10
    <3>3. t.parent[t.open[i]] = IF i = 1 THEN 0 ELSE t.open[i - 1]
      BY <1>1, <3>1 DEF Path, l
    <3>4. QED
      BY <1>2, <1>3, <3>1, <3>2, <3>3
  <2>2. u.open[1] = Root
    <3>1. 1 \in 1..(l - 1)
      BY <1>10
    <3>2. QED
      BY <1>2, <1>9, <3>1 DEF Root
  <2>3. ASSUME NEW i \in 1..(l - 1), NEW j \in 1..(l - 1), i < j
        PROVE  u.open[i] < u.open[j]
    BY <1>2, <1>7, <1>10, <2>3
  <2>4. QED
    BY <1>2, <1>6, <2>1, <2>2, <2>3 DEF Path
<1>15. ASSUME NEW i \in 1..l, i # l PROVE t.open[i] # c
  <2>1. i < l /\ t.open[i] \in 1..Size(t)
    BY <1>3, <1>10, <1>15
  <2>2. t.open[i] < c
    BY <1>4, <1>7, <1>10, <2>1
  <2>3. QED
    BY <1>12, <2>1, <2>2
<1>16. IsOpen(t, c) /\ ~IsOpen(u, c)
  <2>1. IsOpen(t, c)
    BY <1>4, <1>10 DEF IsOpen, l
  <2>2. \A i \in 1..Len(u.open) : i \in 1..l /\ i # l /\ u.open[i] = t.open[i]
    BY <1>2, <1>10
  <2>3. ~IsOpen(u, c)
    BY <1>15, <2>2 DEF IsOpen
  <2>4. QED
    BY <2>1, <2>3
<1>17. \A n : IsOpen(u, n) => IsOpen(t, n)
  BY <1>2, <1>10 DEF IsOpen, l
<1>18. \A n : IsOpen(t, n) /\ n # c => IsOpen(u, n)
  <2>1. ASSUME NEW n, IsOpen(t, n), n # c PROVE IsOpen(u, n)
    <3>1. PICK i \in 1..l : t.open[i] = n
      BY <2>1 DEF IsOpen, l
    <3>2. i # l
      BY <1>4, <2>1, <3>1
    <3>3. QED
      BY <1>2, <1>10, <3>1, <3>2 DEF IsOpen
  <2>2. QED
    BY <2>1
<1>19. \A i \in 1..Len(u.kids[p]) : i = Len(old) + 1 \/ i \in 1..Len(old)
  BY <1>2, <1>5
<1>20. ASSUME NEW q \in 1..Size(t), NEW i \in 1..Len(u.kids[q])
       PROVE  \/ q = p /\ i = Len(old) + 1 /\ u.kids[q][i] = c
              \/ i \in 1..Len(t.kids[q]) /\ u.kids[q][i] = t.kids[q][i]
  <2>1. CASE q # p
    BY <1>2, <2>1
  <2>2. CASE q = p
    BY <1>2, <1>19, <2>2 DEF old
  <2>3. QED
    BY <2>1, <2>2
<1>21. ASSUME NEW q \in 1..Size(t), NEW i \in 1..Len(t.kids[q])
       PROVE  i \in 1..Len(u.kids[q]) /\ u.kids[q][i] = t.kids[q][i]
  <2>1. CASE q # p
    BY <1>2, <2>1
  <2>2. CASE q = p
    <3>1. i \in 1..Len(old)
      BY <2>2 DEF old
    <3>2. i \in 1..Len(u.kids[p])
      BY <1>2, <1>5, <3>1
    <3>3. QED
      BY <1>2, <2>2, <3>1, <3>2 DEF old
  <2>3. QED
    BY <2>1, <2>2
<1>22. KidsClosed(u)
  <2>1. SUFFICES ASSUME NEW q \in 1..Size(t), NEW i \in 1..Len(u.kids[q])
                 PROVE  /\ u.kids[q][i] \in 2..Size(t)
                        /\ t.parent[u.kids[q][i]] = q
                        /\ ~IsOpen(u, u.kids[q][i])
    BY <1>2, <1>6 DEF KidsClosed
  <2>2. CASE q = p /\ u.kids[q][i] = c
    BY <1>2, <1>12, <1>16, <2>2
  <2>3. CASE i \in 1..Len(t.kids[q]) /\ u.kids[q][i] = t.kids[q][i]
    BY <1>1, <1>17, <2>3 DEF Placed, KidsClosed
  <2>4. QED
    BY <1>20, <2>2, <2>3
<1>23. KidsApart(u)
  <2>1. SUFFICES ASSUME NEW q \in 1..Size(t), NEW i \in 1..Len(u.kids[q]),
                        NEW j \in 1..Len(u.kids[q]), u.kids[q][i] = u.kids[q][j]
                 PROVE  i = j
    BY <1>6 DEF KidsApart
  <2>2. \A k \in 1..Len(t.kids[q]) : t.kids[q][k] # c
    BY <1>1, <1>16 DEF Placed, KidsClosed
  <2> DEFINE New(k) == q = p /\ k = Len(old) + 1 /\ u.kids[q][k] = c
             Old(k) == k \in 1..Len(t.kids[q]) /\ u.kids[q][k] = t.kids[q][k]
  <2>3. (New(i) \/ Old(i)) /\ (New(j) \/ Old(j))
    BY <1>20
  <2>4. CASE New(i) /\ New(j)
    BY <2>4
  <2>5. CASE Old(i) /\ Old(j)
    BY <1>1, <2>1, <2>5 DEF Placed, KidsApart
  <2>6. CASE (New(i) /\ Old(j)) \/ (Old(i) /\ New(j))
    BY <2>1, <2>2, <2>6
  <2>7. QED
    BY <2>3, <2>4, <2>5, <2>6
<1>24. ClosedListed(u)
  <2>1. SUFFICES ASSUME NEW n \in 2..Size(t), ~IsOpen(u, n)
                 PROVE  /\ t.parent[n] \in 1..Size(t)
                        /\ \E i \in 1..Len(u.kids[t.parent[n]]) :
                             u.kids[t.parent[n]][i] = n
    BY <1>2, <1>6 DEF ClosedListed
  <2>2. CASE n = c
    <3>1. Len(old) + 1 \in 1..Len(u.kids[p])
      BY <1>2, <1>5
    <3>2. QED
      BY <1>2, <2>2, <3>1
  <2>3. CASE n # c
    <3>1. ~IsOpen(t, n)
      BY <1>18, <2>1, <2>3
    <3>2. t.parent[n] \in 1..Size(t)
      BY <1>1, <3>1 DEF Placed, ClosedListed
    <3>3. PICK i \in 1..Len(t.kids[t.parent[n]]) : t.kids[t.parent[n]][i] = n
      BY <1>1, <3>1 DEF Placed, ClosedListed
    <3>4. QED
      BY <1>21, <3>2, <3>3
  <2>4. QED
    BY <2>2, <2>3
<1>25. Len(old) < c - p
  <2>1. Len(t.kids[t.open[l - 1]]) < NextOpen(t, l - 1) - t.open[l - 1]
    BY <1>1, <1>10 DEF Placed, KidsFit, l
  <2>2. NextOpen(t, l - 1) = t.open[(l - 1) + 1]
    <3>1. l - 1 # l
      BY <1>3
    <3>2. QED
      BY <3>1 DEF NextOpen, l
  <2>3. (l - 1) + 1 = l
    BY <1>3
  <2>4. QED
    BY <1>4, <1>11, <2>1, <2>2, <2>3 DEF old
<1>26. KidsFit(u)
  <2>1. ASSUME NEW q \in 1..Size(t) PROVE Len(u.kids[q]) <= Size(t)
    <3>1. CASE q = p
      <4>1. Len(old) + 1 <= Size(t)
        BY <1>2, <1>3, <1>5, <1>12, <1>25
      <4>2. QED
        BY <1>2, <3>1, <4>1
    <3>2. CASE q # p
      BY <1>1, <1>2, <3>2 DEF Placed, KidsFit
    <3>3. QED
      BY <3>1, <3>2
  <2>2. ASSUME NEW i \in 1..(l - 1)
        PROVE  Len(u.kids[u.open[i]]) < NextOpen(u, i) - u.open[i]
    <3>1. u.open[i] = t.open[i] /\ i \in 1..l /\ i # l
      BY <1>2, <1>10
    <3>2. CASE i = l - 1
      <4>1. u.open[i] = p
        BY <1>11, <3>1, <3>2
      <4>2. NextOpen(u, i) = Size(t) + 1
        BY <1>2, <1>6, <3>2 DEF NextOpen
      <4>3. Len(u.kids[u.open[i]]) = Len(old) + 1
        BY <1>2, <4>1
      <4>4. Len(old) + 1 < (Size(t) + 1) - p
        BY <1>2, <1>3, <1>5, <1>12, <1>25
      <4>5. NextOpen(u, i) - u.open[i] = (Size(t) + 1) - p
        BY <4>1, <4>2
      <4>6. QED
        BY <4>3, <4>4, <4>5
    <3>3. CASE i # l - 1
      <4>1. i < l - 1 /\ i + 1 \in 1..(l - 1)
        BY <1>10, <3>3
      <4>2. t.open[i] < p /\ t.open[i] \in 1..Size(t)
        BY <1>3, <1>7, <1>10, <1>11, <3>1, <4>1
      <4>3. t.open[i] # p
        BY <1>2, <4>2
      <4>4. NextOpen(u, i) = t.open[i + 1]
        BY <1>2, <3>3, <4>1 DEF NextOpen
      <4>5. NextOpen(t, i) = t.open[i + 1]
        BY <3>1 DEF NextOpen, l
      <4>6. Len(t.kids[t.open[i]]) < NextOpen(t, i) - t.open[i]
        BY <1>1, <3>1 DEF Placed, KidsFit, l
      <4>7. u.kids[t.open[i]] = t.kids[t.open[i]]
        BY <1>2, <4>2, <4>3
      <4>8. QED
        BY <3>1, <4>4, <4>5, <4>6, <4>7
    <3>4. QED
      BY <3>2, <3>3
  <2>3. QED
    BY <1>2, <1>6, <2>1, <2>2 DEF KidsFit
<1>27. HeadClean(u)
  BY <1>1, <1>2, <1>6 DEF HeadClean
<1>28. Shape(u)
  <2>1. Size(t) >= 2 /\ 1 \in 1..Size(t)
    BY <1>3, <1>12
  <2>2. u.items[1] = "html" /\ u.items[2] \in {"head", "body"}
    BY <1>1, <1>2, <1>3, <2>1 DEF Shape
  <2>3. CASE t.open[2] = 2
    <3>1. t.kids[1] = <<>>
      BY <1>1, <1>3, <2>1, <2>3 DEF Shape, l
    <3>2. CASE l = 2
      <4>1. p = 1 /\ c = 2 /\ Len(old) = 0
        <5>1. Len(<<>>) = 0
          BY EmptySeq
        <5>2. p = 1
          BY <1>9, <1>11, <3>2
        <5>3. QED
          BY <1>4, <2>3, <3>1, <3>2, <5>1, <5>2 DEF old
      <4>2. Len(u.kids[1]) = 1 /\ u.kids[1][1] = 2
        BY <1>2, <4>1
      <4>3. ~(Len(u.open) >= 2)
        BY <1>2, <3>2
      <4>4. QED
        BY <2>2, <4>2, <4>3 DEF Shape
    <3>3. CASE l # 2
      <4>1. l - 1 > 1 /\ l - 1 >= 2 /\ 2 \in 1..(l - 1)
        BY <1>3, <3>3
      <4>2. p > 1
        BY <1>8, <1>10, <1>11, <4>1
      <4>3. p # 1
        BY <1>2, <4>2
      <4>4. u.kids[1] = <<>> /\ u.open[2] = 2 /\ Len(u.open) >= 2
        BY <1>2, <2>1, <2>3, <3>1, <4>1, <4>3
      <4>5. QED
        BY <2>2, <4>4 DEF Shape
    <3>4. QED
      BY <3>2, <3>3
  <2>4. CASE t.open[2] # 2
    <3>1. Len(t.kids[1]) >= 1 /\ t.kids[1][1] = 2
      BY <1>1, <2>1, <2>4 DEF Shape
    <3>2. 1 \in 1..Len(t.kids[1])
      BY <1>1, <2>1, <3>1, TypeFacts
    <3>3. 1 \in 1..Len(u.kids[1]) /\ u.kids[1][1] = 2
      BY <1>21, <2>1, <3>1, <3>2
    <3>4. Len(u.kids[1]) >= 1
      <4>1. Len(u.kids[1]) \in Nat
        BY <1>6, <1>13, <2>1, TypeFacts
      <4>2. QED
        BY <3>3, <4>1
    <3>5. ~(Len(u.open) >= 2 /\ u.open[2] = 2)
      <4>1. Len(u.open) >= 2 => 2 \in 1..Len(u.open)
        BY <1>2, <1>10
      <4>2. QED
        BY <1>2, <2>4, <4>1
    <3>6. QED
      BY <2>2, <3>3, <3>4, <3>5 DEF Shape
  <2>5. QED
    BY <2>3, <2>4
<1>29. Spanned(u)
  BY <1>1, <1>3, PopSpans DEF Good, Placed, u, l
<1>30. QED
  BY <1>2, <1>6, <1>13, <1>14, <1>22, <1>23, <1>24, <1>26, <1>27, <1>28, <1>29
     DEF Good, Placed, u, l

LEMMA PushTop ==
  ASSUME NEW t, WellTyped(t), Path(t), NEW name \in Names
  PROVE  /\ Size(Push(t, name)) = Size(t) + 1
         /\ Len(Push(t, name).open) = Len(t.open) + 1
         /\ InHead(Push(t, name)) => name = "head"
<1> DEFINE u == Push(t, name)
<1>1. /\ u \in TreeType /\ Grown(t, u, name)
      /\ Len(u.open) = Len(t.open) + 1 /\ u.open[Len(u.open)] = Size(u)
  BY PushFields
<1> HIDE DEF u
<1>2. Len(u.open) \in Nat /\ Len(u.open) # 0
  BY <1>1, TypeFacts
<1>3. u.open # <<>>
  BY <1>2, EmptySeq
<1>4. Top(u) = Size(u)
  BY <1>1, <1>3 DEF Top, Last
<1>5. QED
  BY <1>1, <1>4 DEF Grown, InHead, u

\* After implcit_tag the tree can take what is called name: nothing but html
\* comes first, nothing but head and body comes second, and only what belongs
\* in the head finds it open.
LEMMA ImpliedGood ==
  ASSUME NEW t, Good(t), NEW name
  PROVE  LET r == Implied(t, name) IN
         /\ Good(r)
         /\ Size(r) = 0 => name = "html"
         /\ Size(r) = 1 => name \in AfterHtmlTags
         /\ InHead(r) => name \in HeadTags \cup {"/head"}
<1> DEFINE r == Rooted(t, name)
<1>1. {"html", "head", "body"} \subseteq Names
  BY TagsAssumption DEF Names
<1>2. Good(r) /\ (Size(r) = 0 => name = "html")
  <2>1. WellTyped(t) /\ Path(t)
    BY DEF Good
  <2>2. CASE t.open = <<>> /\ name # "html"
    <3>1. Size(t) = 0 /\ Len(t.open) = 0
      BY <2>1, <2>2, EmptySeq DEF WellTyped
    <3>2. ~InHead(t) /\ Size(t) # 1
      BY <3>1 DEF InHead
    <3>3. Good(Push(t, "html"))
      BY <1>1, <3>1, <3>2, PushGood
    <3>4. Size(Push(t, "html")) = 1
      BY <1>1, <2>1, <3>1, PushTop
    <3>5. QED
      BY <2>2, <3>3, <3>4 DEF Rooted
  <2>3. CASE ~(t.open = <<>> /\ name # "html")
    <3>1. r = t
      BY <2>3 DEF Rooted
    <3>2. Size(t) = 0 => t.open = <<>>
      BY <2>1, OpenFacts
    <3>3. QED
      BY <2>3, <3>1, <3>2
  <2>4. QED
    BY <2>2, <2>3
<1> HIDE DEF r
<1>3. WellTyped(r) /\ Path(r)
  BY <1>2 DEF Good
<1>4. CASE AtRoot(r) /\ name \notin AfterHtmlTags
  <2> DEFINE h == IF name \in HeadTags THEN "head" ELSE "body"
             u == Push(r, h)
  <2>1. h \in Names /\ h \in {"head", "body"}
    BY <1>1
  <2>2. Len(r.open) = 1 /\ Size(r) >= 1 /\ Size(r) \in Nat
    BY <1>3, <1>4, OpenFacts DEF AtRoot
  <2>3. ~InHead(r) /\ Size(r) # 0
    BY <2>2 DEF InHead
  <2> HIDE DEF h
  <2>4. Good(u)
    BY <1>2, <2>1, <2>3, PushGood
  <2>5. Size(u) = Size(r) + 1 /\ (InHead(u) => h = "head")
    BY <1>3, <2>1, PushTop
  <2>6. Size(u) # 0 /\ Size(u) # 1
    BY <2>2, <2>3, <2>5
  <2>7. h = "head" => name \in HeadTags
    BY DEF h
  <2>8. Implied(t, name) = u
    <3>1. Implied(t, name) = Push(r, IF name \in HeadTags THEN "head" ELSE "body")
      BY <1>4, <2>3 DEF Implied, r
    <3>2. QED
      BY <3>1 DEF h
  <2>9. QED
    BY <2>4, <2>5, <2>6, <2>7, <2>8
<1>5. CASE InHead(r) /\ name \notin HeadTags \cup {"/head"}
  <2>1. Len(r.open) = 2 /\ Len(r.open) > 1 /\ Size(r) >= 2 /\ Size(r) \in Nat
    BY <1>3, <1>5, OpenFacts DEF InHead
  <2>2. Good(Pop(r)) /\ Size(Pop(r)) = Size(r) /\ Len(Pop(r).open) = 1
    <3>1. /\ Good(Pop(r)) /\ Size(Pop(r)) = Size(r)
          /\ Len(Pop(r).open) = Len(r.open) - 1
      BY <1>2, <2>1, PopGood
    <3>2. QED
      BY <2>1, <3>1
  <2>3. ~InHead(Pop(r))
    BY <2>2 DEF InHead
  <2>4. ~AtRoot(r)
    BY <2>1 DEF AtRoot
  <2>5. Implied(t, name) = Pop(r)
    BY <1>5, <2>4 DEF Implied, r
  <2>6. QED
    BY <2>1, <2>2, <2>3, <2>5
<1>6. CASE /\ ~(AtRoot(r) /\ name \notin AfterHtmlTags)
           /\ ~(InHead(r) /\ name \notin HeadTags \cup {"/head"})
  <2>1. Implied(t, name) = r
    BY <1>6 DEF Implied, r
  <2>2. Size(r) = 1 => AtRoot(r)
    BY <1>3, OpenFacts DEF AtRoot
  <2>3. QED
    BY <1>2, <1>6, <2>1, <2>2
<1>7. QED
  BY <1>4, <1>5, <1>6

-----------------------------------------------------------------------------
(* The inductive invariant *)

\* The tree, when it is done as it stood with nothing but its root open.
Standing == IF phase = "done" THEN [Tree EXCEPT !.open = <<Root>>] ELSE Tree

IInv ==
  /\ Good(Standing)
  /\ phase = "done" => open = <<>>
  /\ phase = "closing" => open # <<>>

LEMMA Became ==
  ASSUME NEW t, Good(t), Become(t)
  PROVE  Tree' = t /\ open' = t.open
<1>1. t = [items |-> t.items, parent |-> t.parent, kids |-> t.kids, open |-> t.open]
  BY DEF Good, WellTyped, TreeType
<1>2. QED
  BY <1>1 DEF Become, Tree

LEMMA InitIInv == Init => IInv
<1> SUFFICES ASSUME Init PROVE IInv
  OBVIOUS
<1>1. Standing = Tree /\ phase = "parsing"
  BY DEF Init, Standing
<1>2. /\ Tree.items = <<>> /\ Tree.parent = <<>> /\ Tree.kids = <<>> /\ Tree.open = <<>>
      /\ Tree \in TreeType
  <2>1. <<>> \in Seq(Names) /\ <<>> \in Seq(Nat) /\ <<>> \in Seq(Seq(Nat))
    BY EmptySeq
  <2>2. QED
    BY <2>1 DEF Init, Tree, TreeType
<1>3. Size(Tree) = 0 /\ Len(Tree.open) = 0 /\ Len(Tree.parent) = 0 /\ Len(Tree.kids) = 0
  BY <1>2, EmptySeq DEF Size
<1>4. WellTyped(Tree)
  BY <1>2, <1>3 DEF WellTyped
<1>5. Path(Tree)
  BY <1>2, <1>3 DEF Path
<1>6. Placed(Tree) /\ HeadClean(Tree) /\ Shape(Tree)
  BY <1>3 DEF Placed, KidsClosed, KidsApart, ClosedListed, KidsFit, HeadClean, Shape
<1>7. Spanned(Tree)
  <2> DEFINE E == [n \in 1..0 |-> n]
  <2>1. E \in [1..0 -> Nat]
    OBVIOUS
  <2> HIDE DEF E
  <2>2. Spans(Tree, E)
    BY <1>3, <2>1 DEF Spans
  <2>3. QED
    BY <1>3, <2>1, <2>2 DEF Spanned
<1>8. QED
  BY <1>1, <1>4, <1>5, <1>6, <1>7 DEF IInv, Good

\* Text and StartTag: what is complete at once, or waits.
LEMMA StepText == ASSUME IInv, Text PROVE IInv'
<1>1. phase = "parsing" /\ phase' = "parsing" /\ Good(Tree)
  BY DEF Text, IInv, Standing
<1>2. PICK text \in Texts : Become(Leaf(Implied(Tree, ""), text))
  BY DEF Text
<1> DEFINE r == Implied(Tree, "")
           u == Leaf(r, text)
<1>3. "" \notin HeadTags \cup {"/head"} /\ "" \notin AfterHtmlTags /\ "" # "html"
  BY TagsAssumption DEF AfterHtmlTags
<1>4. Good(r) /\ Size(r) # 0 /\ Size(r) # 1 /\ ~InHead(r)
  BY <1>1, <1>3, ImpliedGood
<1> HIDE DEF r
<1>5. Size(r) >= 2
  BY <1>4, TypeFacts DEF Good
<1>6. Good(u)
  BY <1>4, <1>5, LeafGood DEF Names
<1>7. Become(u)
  BY <1>2 DEF r
<1> HIDE DEF u
<1>8. Tree' = u
  BY <1>6, <1>7, Became
<1>9. QED
  BY <1>1, <1>6, <1>8 DEF IInv, Standing

LEMMA StepStartTag == ASSUME IInv, NEW name \in Tags, StartTag(name) PROVE IInv'
<1> DEFINE r == Implied(Tree, name)
           u == IF name \in VoidTags THEN Leaf(r, name) ELSE Push(r, name)
<1>1. phase = "parsing" /\ phase' = "parsing" /\ Good(Tree) /\ Become(u)
  BY DEF StartTag, IInv, Standing
<1>2. name \in Names /\ name # "/head" /\ name # "/html"
  BY TagsAssumption DEF Names
<1>3. /\ Good(r)
      /\ Size(r) = 0 => name = "html"
      /\ Size(r) = 1 => name \in {"head", "body"}
      /\ InHead(r) => name \in HeadTags
  BY <1>1, <1>2, ImpliedGood DEF AfterHtmlTags
<1> HIDE DEF r
<1>4. Good(u)
  <2>1. CASE name \in VoidTags
    <3>1. Size(r) # 0 /\ Size(r) # 1
      BY <1>3, <2>1, TagsAssumption
    <3>2. Size(r) >= 2
      BY <1>3, <3>1, TypeFacts DEF Good
    <3>3. QED
      BY <1>2, <1>3, <2>1, <3>2, LeafGood
  <2>2. CASE name \notin VoidTags
    BY <1>2, <1>3, <2>2, PushGood
  <2>3. QED
    BY <2>1, <2>2
<1> HIDE DEF u
<1>5. Tree' = u
  BY <1>1, <1>4, Became
<1>6. QED
  BY <1>1, <1>4, <1>5 DEF IInv, Standing

LEMMA StepEndTag == ASSUME IInv, NEW name \in EndTags, EndTag(name) PROVE IInv'
<1> DEFINE r == Implied(Tree, name)
           u == IF AtRoot(r) THEN r ELSE Pop(r)
<1>1. phase = "parsing" /\ phase' = "parsing" /\ Good(Tree) /\ Become(u)
  BY DEF EndTag, IInv, Standing
<1>2. Good(r) /\ Size(r) # 0
  BY <1>1, ImpliedGood DEF EndTags
<1> HIDE DEF r
<1>3. Good(u)
  <2>1. CASE AtRoot(r)
    BY <1>2, <2>1
  <2>2. CASE ~AtRoot(r)
    <3> DEFINE l == Len(r.open)
    <3>1. l \in Nat /\ l >= 1 /\ l # 1
      <4>1. WellTyped(r) /\ Path(r)
        BY <1>2 DEF Good
      <4>2. Size(r) >= 1
        BY <1>2, <4>1, TypeFacts
      <4>3. QED
        BY <2>2, <4>1, <4>2, OpenFacts DEF AtRoot
    <3> HIDE DEF l
    <3>2. l > 1
      BY <3>1
    <3>3. Good(Pop(r))
      BY <1>2, <3>2, PopGood DEF l
    <3>4. QED
      BY <2>2, <3>3
  <2>3. QED
    BY <2>1, <2>2
<1> HIDE DEF u
<1>4. Tree' = u
  BY <1>1, <1>3, Became
<1>5. QED
  BY <1>1, <1>3, <1>4 DEF IInv, Standing

\* finish: the stack is not empty when it begins, and its root stays to the end.
LEMMA StepEndOfInput == ASSUME IInv, EndOfInput PROVE IInv'
<1> DEFINE r == Implied(Tree, "")
           u == IF open = <<>> THEN r ELSE Tree
<1>1. phase = "parsing" /\ phase' = "closing" /\ Good(Tree) /\ Become(u)
  BY DEF EndOfInput, IInv, Standing
<1>2. Good(r) /\ Size(r) # 0
  BY <1>1, ImpliedGood
<1>3. r.open # <<>>
  BY <1>2 DEF Good, WellTyped
<1> HIDE DEF r
<1>4. Good(u) /\ u.open # <<>>
  BY <1>1, <1>2, <1>3 DEF Tree
<1> HIDE DEF u
<1>5. Tree' = u /\ open' = u.open
  BY <1>1, <1>4, Became
<1>6. QED
  BY <1>1, <1>4, <1>5 DEF IInv, Standing

LEMMA StepCloseOne == ASSUME IInv, CloseOne PROVE IInv'
<1> DEFINE u == Pop(Tree)
<1>1. phase = "closing" /\ phase' = "closing" /\ Good(Tree) /\ Become(u)
  BY DEF CloseOne, IInv, Standing
<1>2. Len(Tree.open) > 1
  BY DEF CloseOne, Tree
<1>3. Good(u) /\ Len(u.open) = Len(Tree.open) - 1
  BY <1>1, <1>2, PopGood
<1>4. Len(Tree.open) \in Nat
  BY <1>1, TypeFacts DEF Good
<1> HIDE DEF u
<1>5. Len(u.open) # 0
  <2> DEFINE l == Len(Tree.open)
  <2>1. l \in Nat /\ l > 1 /\ Len(u.open) = l - 1
    BY <1>2, <1>3, <1>4
  <2> HIDE DEF l
  <2>2. QED
    BY <2>1
<1>6. u.open # <<>>
  BY <1>5, EmptySeq
<1>7. Tree' = u /\ open' = u.open
  BY <1>1, <1>3, Became
<1>8. QED
  BY <1>1, <1>3, <1>6, <1>7 DEF IInv, Standing

LEMMA StepFinish == ASSUME IInv, Finish PROVE IInv'
<1>1. /\ phase = "closing" /\ phase' = "done" /\ open' = <<>> /\ Len(open) = 1
      /\ UNCHANGED <<items, parent, kids>> /\ Good(Tree)
  BY DEF Finish, IInv, Standing
<1>2. open \in Seq(Nat) /\ open[1] = Root
  <2>1. WellTyped(Tree) /\ Path(Tree) /\ Len(Tree.open) >= 1
    BY <1>1 DEF Good, Tree
  <2>2. Tree.open \in Seq(Nat) /\ Tree.open[1] = 1
    BY <2>1, OpenFacts, TypeFacts
  <2>3. QED
    BY <2>2 DEF Tree, Root
<1>3. open = <<Root>>
  BY <1>1, <1>2
<1>4. Standing' = Tree
  BY <1>1, <1>3 DEF Standing, Tree
<1>5. QED
  BY <1>1, <1>4 DEF IInv

LEMMA StepIInv == IInv /\ [Next]_vars => IInv'
<1> SUFFICES ASSUME IInv, [Next]_vars PROVE IInv'
  OBVIOUS
<1>1. CASE Text
  BY <1>1, StepText
<1>2. ASSUME NEW name \in Tags, StartTag(name) PROVE IInv'
  BY <1>2, StepStartTag
<1>3. ASSUME NEW name \in EndTags, EndTag(name) PROVE IInv'
  BY <1>3, StepEndTag
<1>4. CASE NamelessTag
  BY <1>4 DEF NamelessTag, IInv, Standing, Tree
<1>5. CASE EndOfInput
  BY <1>5, StepEndOfInput
<1>6. CASE CloseOne
  BY <1>6, StepCloseOne
<1>7. CASE Finish
  BY <1>7, StepFinish
<1>8. CASE UNCHANGED vars
  BY <1>8 DEF vars, IInv, Standing, Tree
<1>9. QED
  BY <1>1, <1>2, <1>3, <1>4, <1>5, <1>6, <1>7, <1>8 DEF Next

-----------------------------------------------------------------------------
(* What follows from it *)

LEMMA StandingFields ==
  /\ Standing.items = items /\ Standing.parent = parent /\ Standing.kids = kids
  /\ phase # "done" => Standing.open = open
  /\ phase = "done" => Standing.open = <<Root>>
  BY DEF Standing, Tree

LEMMA ItemsAreNumbered == IInv => Items = 1..Size(Standing)
<1> SUFFICES ASSUME IInv PROVE Items = 1..Size(Standing)
  OBVIOUS
<1>1. items \in Seq(Names)
  BY StandingFields, TypeFacts DEF IInv, Good
<1>2. DOMAIN items = 1..Len(items)
  BY <1>1, LenProperties
<1>3. QED
  BY <1>2, StandingFields DEF Items, Size

LEMMA PathOpen == IInv => OpenIsAPath
<1> SUFFICES ASSUME IInv PROVE OpenIsAPath
  OBVIOUS
<1>1. CASE phase = "done"
  BY <1>1, EmptySeq DEF IInv, OpenIsAPath
<1>2. CASE phase # "done"
  <2>1. WellTyped(Standing) /\ Path(Standing)
    BY DEF IInv, Good
  <2>2. open = Standing.open /\ parent = Standing.parent
    BY <1>2, StandingFields
  <2>3. open \in Seq(Nat)
    BY <2>1, <2>2, TypeFacts
  <2>4. DOMAIN open = 1..Len(open)
    BY <2>3, LenProperties
  <2>5. QED
    BY <2>1, <2>2, <2>4 DEF IInv, OpenIsAPath, Path
<1>3. QED
  BY <1>1, <1>2

\* In a good tree an item stands among the children of its parent once, or is
\* open.
LEMMA GoodPlaces ==
  ASSUME NEW t, Good(t), NEW n \in 1..Size(t)
  PROVE  LET N == 1..Size(t)
             slots == UNION {{p} \X DOMAIN t.kids[p] : p \in N}
             places == {at \in slots : t.kids[at[1]][at[2]] = n}
         IN IF IsOpen(t, n) THEN places = {} ELSE \E i \in N : places = {<<t.parent[n], i>>}
<1> DEFINE N == 1..Size(t)
           slots == UNION {{p} \X DOMAIN t.kids[p] : p \in N}
           places == {at \in slots : t.kids[at[1]][at[2]] = n}
<1>1. WellTyped(t) /\ Path(t) /\ KidsClosed(t) /\ KidsApart(t) /\ ClosedListed(t) /\ KidsFit(t)
  BY DEF Good, Placed
<1>2. \A p \in N : DOMAIN t.kids[p] = 1..Len(t.kids[p])
  BY <1>1, TypeFacts, LenProperties
<1>3. \A at \in places : /\ at[1] \in N /\ at = <<at[1], at[2]>>
                         /\ at[2] \in 1..Len(t.kids[at[1]])
                         /\ t.kids[at[1]][at[2]] = n
  BY <1>2
<1>4. \A at \in places : ~IsOpen(t, n) /\ t.parent[n] = at[1]
  BY <1>1, <1>3 DEF KidsClosed
<1>5. CASE IsOpen(t, n)
  BY <1>4, <1>5
<1>6. CASE ~IsOpen(t, n)
  <2>1. n \in 2..Size(t)
    <3>1. Size(t) \in Nat /\ n # 1
      BY <1>1, <1>6, OpenFacts
    <3>2. QED
      BY <3>1
  <2>2. t.parent[n] \in N
    BY <1>1, <1>6, <2>1 DEF ClosedListed
  <2>3. PICK i \in 1..Len(t.kids[t.parent[n]]) : t.kids[t.parent[n]][i] = n
    BY <1>1, <1>6, <2>1 DEF ClosedListed
  <2>4. i \in N
    <3>1. /\ Len(t.kids[t.parent[n]]) <= Size(t) /\ Len(t.kids[t.parent[n]]) \in Nat
          /\ Size(t) \in Nat
      BY <1>1, <2>2, TypeFacts DEF KidsFit
    <3>2. QED
      BY <3>1
  <2>5. <<t.parent[n], i>> \in places
    BY <1>2, <2>2, <2>3, <2>4
  <2>6. ASSUME NEW at \in places PROVE at = <<t.parent[n], i>>
    <3>1. at[1] = t.parent[n] /\ at[2] \in 1..Len(t.kids[t.parent[n]])
      BY <1>3, <1>4
    <3>2. t.kids[t.parent[n]][at[2]] = n
      BY <1>3, <1>4
    <3>3. at[2] = i
      BY <1>1, <2>2, <2>3, <3>1, <3>2 DEF KidsApart
    <3>4. QED
      BY <1>3, <3>1, <3>3
  <2>7. places = {<<t.parent[n], i>>}
    BY <2>5, <2>6
  <2>8. QED
    BY <1>6, <2>4, <2>7
<1>7. QED
  BY <1>5, <1>6

LEMMA PlacedTree == IInv => PlacedOnce
<1> SUFFICES ASSUME IInv, NEW n \in Items
             PROVE  LET slots == UNION {{p} \X DOMAIN kids[p] : p \in Items}
                        places == {at \in slots : kids[at[1]][at[2]] = n} IN
                    IF n = Root \/ n \in ToSet(open)
                    THEN places = {}
                    ELSE \E i \in Items : places = {<<parent[n], i>>}
  BY DEF PlacedOnce
<1>1. Good(Standing) /\ WellTyped(Standing) /\ Path(Standing)
  BY DEF IInv, Good
<1>2. Items = 1..Size(Standing) /\ Standing.kids = kids /\ Standing.parent = parent
  BY ItemsAreNumbered, StandingFields
<1>3. IsOpen(Standing, n) <=> n = Root \/ n \in ToSet(open)
  <2>1. IsOpen(Standing, Root)
    <3>1. Size(Standing) >= 1
      BY <1>1, <1>2, OpenFacts
    <3>2. QED
      BY <1>1, <3>1, OpenFacts DEF Root
  <2>2. CASE phase = "done"
    <3>1. Standing.open = <<Root>> /\ Len(<<Root>>) = 1 /\ open = <<>>
      BY <2>2, StandingFields DEF IInv
    <3>2. ToSet(open) = {}
      BY <3>1, EmptySeq DEF ToSet
    <3>3. IsOpen(Standing, n) => n = Root
      BY <3>1 DEF IsOpen
    <3>4. QED
      BY <2>1, <3>2, <3>3
  <2>3. CASE phase # "done"
    <3>1. open = Standing.open /\ open \in Seq(Nat)
      BY <1>1, <2>3, StandingFields, TypeFacts
    <3>2. DOMAIN open = 1..Len(open)
      BY <3>1, LenProperties
    <3>3. ToSet(open) = {open[i] : i \in 1..Len(open)}
      BY <3>2 DEF ToSet
    <3>4. IsOpen(Standing, n) <=> n \in ToSet(open)
      BY <3>1, <3>3 DEF IsOpen
    <3>5. QED
      BY <2>1, <3>4
  <2>4. QED
    BY <2>2, <2>3
<1>4. QED
  BY <1>1, <1>2, <1>3, GoodPlaces

LEMMA TreeIsSound == IInv => TreeSound
  BY PathOpen, PlacedTree DEF TreeSound

LEMMA HeadIsClean == IInv => HeadHoldsHeadTags
  BY ItemsAreNumbered, StandingFields DEF IInv, Good, HeadClean, HeadHoldsHeadTags

LEMMA RootIsShaped == IInv => RootShape
<1> SUFFICES ASSUME IInv, phase = "done" PROVE RootShape
  BY DEF RootShape
<1>1. WellTyped(Standing) /\ Path(Standing) /\ Shape(Standing)
  BY DEF IInv, Good
<1>2. Standing.open = <<Root>> /\ Standing.items = items /\ Standing.kids = kids
  BY StandingFields
<1>3. Len(Standing.open) = 1
  BY <1>2
<1>4. Size(Standing) = Len(items) /\ Size(Standing) \in Nat /\ Size(Standing) >= 1
  <2>1. Size(Standing) \in Nat /\ Root \in 1..Size(Standing)
    <3>1. Standing.open # <<>>
      BY <1>2
    <3>2. Standing.open[1] = Root
      BY <1>2
    <3>3. 1 \in 1..Len(Standing.open)
      BY <1>3
    <3>4. /\ Size(Standing) \in Nat
          /\ \A i \in 1..Len(Standing.open) : Standing.open[i] \in 1..Size(Standing)
      BY <1>1, <3>1, OpenFacts
    <3>5. QED
      BY <3>2, <3>3, <3>4
  <2>2. Size(Standing) >= 1
    BY <2>1
  <2>3. QED
    BY <1>2, <2>1, <2>2 DEF Size
<1>5. items[Root] = "html"
  BY <1>1, <1>2, <1>4 DEF Shape, Root
<1>6. Len(items) > 1 => items[2] \in {"head", "body"} /\ kids[Root][1] = 2
  BY <1>1, <1>2, <1>3, <1>4 DEF Shape, Root
<1>7. Len(items) > 1 => Head(kids[Root]) = 2
  BY <1>6 DEF Root
<1>8. QED
  BY <1>5, <1>6, <1>7 DEF RootShape

-----------------------------------------------------------------------------
(* The order of the finished tree *)

\* The numbers from a to b.
Run(a, b) == [i \in 1..(b - a + 1) |-> a + i - 1]

LEMMA RunType ==
  ASSUME NEW a \in Nat, NEW b \in Nat, a <= b + 1
  PROVE  /\ Run(a, b) \in Seq(Nat) /\ Len(Run(a, b)) = b - a + 1
         /\ \A i \in 1..(b - a + 1) : Run(a, b)[i] = a + i - 1
<1> DEFINE k == b - a + 1
           r == Run(a, b)
<1>1. k \in Nat /\ r = [i \in 1..k |-> a + i - 1]
  BY DEF Run
<1>2. \A i \in 1..k : a + i - 1 \in Nat
  OBVIOUS
<1> HIDE DEF k, r
<1>3. r \in [1..k -> Nat] /\ \A i \in 1..k : r[i] = a + i - 1
  BY <1>1, <1>2
<1>4. r \in Seq(Nat)
  BY <1>1, <1>3, SeqDef
<1>5. Len(r) = k
  BY <1>1, <1>3, <1>4, LenProperties
<1>6. QED
  BY <1>3, <1>4, <1>5 DEF k, r

LEMMA RunConcat ==
  ASSUME NEW a \in Nat, NEW b \in Nat, NEW c \in Nat, a <= b + 1, b <= c
  PROVE  Run(a, b) \o Run(b + 1, c) = Run(a, c)
<1> DEFINE q == Run(a, b)
           r == Run(b + 1, c)
           t == Run(a, c)
           k == b - a + 1
           l == c - (b + 1) + 1
           m == c - a + 1
<1>1. /\ k \in Nat /\ l \in Nat /\ m \in Nat /\ m = k + l /\ a + k = b + 1
      /\ a <= c + 1 /\ b + 1 <= c + 1 /\ b + 1 \in Nat
  OBVIOUS
<1>2. /\ q \in Seq(Nat) /\ Len(q) = k /\ \A i \in 1..k : q[i] = a + i - 1
      /\ r \in Seq(Nat) /\ Len(r) = l /\ \A i \in 1..l : r[i] = b + 1 + i - 1
      /\ t \in Seq(Nat) /\ Len(t) = m /\ \A i \in 1..m : t[i] = a + i - 1
  <2>1. q \in Seq(Nat) /\ Len(q) = k /\ \A i \in 1..k : q[i] = a + i - 1
    BY RunType
  <2>2. r \in Seq(Nat) /\ Len(r) = l /\ \A i \in 1..l : r[i] = b + 1 + i - 1
    <3> DEFINE d == b + 1
    <3>1. d \in Nat /\ d <= c + 1
      BY <1>1
    <3> HIDE DEF d
    <3>2. /\ Run(d, c) \in Seq(Nat) /\ Len(Run(d, c)) = c - d + 1
          /\ \A i \in 1..(c - d + 1) : Run(d, c)[i] = d + i - 1
      BY <3>1, RunType
    <3>3. QED
      BY <3>2 DEF d
  <2>3. t \in Seq(Nat) /\ Len(t) = m /\ \A i \in 1..m : t[i] = a + i - 1
    BY <1>1, RunType
  <2>4. QED
    BY <2>1, <2>2, <2>3
<1> HIDE DEF q, r, t, k, l, m
<1>3. /\ q \o r \in Seq(Nat) /\ Len(q \o r) = k + l
      /\ \A i \in 1..(k + l) : (q \o r)[i] = IF i <= k THEN q[i] ELSE r[i - k]
  <2>1. q \in Seq(Nat) /\ r \in Seq(Nat) /\ Len(q) = k /\ Len(r) = l
    BY <1>2
  <2>2. QED
    BY <2>1, ConcatProperties
<1>4. ASSUME NEW i \in 1..m PROVE (q \o r)[i] = t[i]
  <2>1. CASE i <= k
    <3>1. i \in 1..k
      BY <1>1, <1>4, <2>1
    <3>2. QED
      BY <1>1, <1>2, <1>3, <2>1, <3>1
  <2>2. CASE ~(i <= k)
    <3>1. i - k \in 1..l /\ b + 1 + (i - k) - 1 = a + i - 1
      BY <1>1, <2>2
    <3>2. r[i - k] = b + 1 + (i - k) - 1
      BY <1>2, <3>1
    <3>3. QED
      BY <1>1, <1>2, <1>3, <2>2, <3>1, <3>2
  <2>3. QED
    BY <2>1, <2>2
<1>5. q \o r = t
  <2>1. /\ q \o r \in Seq(Nat) /\ t \in Seq(Nat) /\ Len(q \o r) = Len(t)
        /\ \A i \in 1..Len(q \o r) : (q \o r)[i] = t[i]
    BY <1>1, <1>2, <1>3, <1>4
  <2>2. QED
    BY <2>1, SeqEqual
<1>6. QED
  BY <1>5 DEF q, r, t

\* Runs that follow each other, behind p.
Runs(p, q, e) ==
  /\ Len(e) = Len(q)
  /\ \A i \in 1..Len(q) : q[i] = (IF i = 1 THEN p + 1 ELSE e[i - 1] + 1) /\ q[i] <= e[i]

LEMMA RunsJoined ==
  ASSUME NEW p \in Nat, NEW q \in Seq(Nat), NEW e \in Seq(Nat), Runs(p, q, e)
  PROVE  <<p>> \o FlattenSeq([i \in DOMAIN q |-> Run(q[i], e[i])])
           = Run(p, IF Len(q) = 0 THEN p ELSE e[Len(q)])
<1> DEFINE k == Len(q)
           runs == [i \in DOMAIN q |-> Run(q[i], e[i])]
           S == Seq(Nat)
<1>1. /\ k \in Nat /\ DOMAIN q = 1..k
      /\ \A i \in 1..k : /\ q[i] \in Nat /\ e[i] \in Nat /\ q[i] <= e[i]
                         /\ q[i] = IF i = 1 THEN p + 1 ELSE e[i - 1] + 1
  BY ElementOfSeq DEF Runs
<1>2. Run(p, p) = <<p>>
  <2>1. Run(p, p) \in Seq(Nat) /\ Len(Run(p, p)) = 1 /\ Run(p, p)[1] = p
    <3>1. p <= p + 1 /\ p - p + 1 = 1 /\ 1 \in 1..1 /\ p + 1 - 1 = p
      OBVIOUS
    <3>2. /\ Run(p, p) \in Seq(Nat) /\ Len(Run(p, p)) = p - p + 1
          /\ \A i \in 1..(p - p + 1) : Run(p, p)[i] = p + i - 1
      BY <3>1, RunType
    <3>3. QED
      BY <3>1, <3>2
  <2>2. <<p>> \in Seq(Nat) /\ Len(<<p>>) = 1 /\ <<p>>[1] = p
    OBVIOUS
  <2>3. \A i \in 1..1 : Run(p, p)[i] = <<p>>[i]
    BY <2>1, <2>2
  <2>4. QED
    BY <2>1, <2>2, <2>3, SeqEqual
<1>3. runs = [i \in 1..k |-> Run(q[i], e[i])]
  BY <1>1
<1> HIDE DEF k, runs
<1>4. \A i \in 1..k : runs[i] = Run(q[i], e[i]) /\ Run(q[i], e[i]) \in S
  <2>1. ASSUME NEW i \in 1..k PROVE Run(q[i], e[i]) \in S
    <3>1. q[i] \in Nat /\ e[i] \in Nat /\ q[i] <= e[i] + 1
      BY <1>1
    <3>2. QED
      BY <3>1, RunType
  <2>2. QED
    BY <1>3, <2>1
<1>5. runs \in Seq(S) /\ Len(runs) = k
  <2> HIDE DEF S
  <2>1. runs \in [1..k -> S]
    BY <1>3, <1>4
  <2>2. runs \in Seq(S)
    BY <1>1, <2>1, SeqDef
  <2>3. QED
    BY <1>1, <2>1, <2>2, LenProperties
<1>6. CASE k = 0
  <2>1. runs = <<>>
    BY <1>5, <1>6, EmptySeq
  <2>2. FlattenSeq(runs) = <<>>
    BY <2>1, FlattenEmpty
  <2>3. <<p>> \in Seq(Nat)
    OBVIOUS
  <2>4. <<p>> \o <<>> = <<p>>
    BY <2>3, ConcatEmptySeq
  <2>5. QED
    BY <1>2, <1>6, <2>2, <2>4 DEF k, runs
<1>7. CASE k # 0
  <2>1. PICK g \in [1..k -> Seq(Nat)] : Flattens(g, runs)
    BY <1>5, <1>7, Flattening
  <2>2. /\ g[1] = runs[1] /\ FlattenSeq(runs) = g[k]
        /\ \A n \in 2..k : g[n] = g[n - 1] \o runs[n]
    BY <1>5, <2>1 DEF Flattens
  <2> DEFINE T == {n \in Nat : n \in 1..k => p + 1 <= e[n] /\ g[n] = Run(p + 1, e[n])}
  <2>3. 0 \in T
    OBVIOUS
  <2>4. ASSUME NEW n \in Nat, n \in T PROVE n + 1 \in T
    <3>1. CASE n = 0
      BY <1>1, <1>4, <1>7, <2>2, <3>1
    <3>2. CASE n # 0 /\ n + 1 <= k
      <4>1. n + 1 \in 2..k /\ n + 1 \in 1..k /\ n \in 1..k /\ (n + 1) - 1 = n /\ n + 1 # 1
        BY <1>1, <3>2
      <4>2. p + 1 <= e[n] /\ g[n] = Run(p + 1, e[n])
        BY <2>4, <4>1
      <4>3. g[n + 1] = g[n] \o runs[n + 1] /\ runs[n + 1] = Run(q[n + 1], e[n + 1])
        BY <1>4, <2>2, <4>1
      <4>4. q[n + 1] = e[n] + 1 /\ q[n + 1] <= e[n + 1] /\ e[n] \in Nat /\ e[n + 1] \in Nat
        BY <1>1, <4>1
      <4> DEFINE a == p + 1
                 b == e[n]
                 c == e[n + 1]
      <4>5. a \in Nat /\ b \in Nat /\ c \in Nat /\ a <= b /\ b + 1 <= c
        BY <4>2, <4>4
      <4>6. g[n + 1] = Run(a, b) \o Run(b + 1, c)
        BY <4>2, <4>3, <4>4
      <4> HIDE DEF a, b, c
      <4>7. Run(a, b) \o Run(b + 1, c) = Run(a, c) /\ a <= c
        <5>1. a \in Nat /\ b \in Nat /\ c \in Nat /\ a <= b + 1 /\ b <= c /\ a <= c
          BY <4>5
        <5>2. Run(a, b) \o Run(b + 1, c) = Run(a, c)
          BY <5>1, RunConcat
        <5>3. QED
          BY <5>1, <5>2
      <4>8. p + 1 <= e[n + 1] /\ g[n + 1] = Run(p + 1, e[n + 1])
        BY <4>6, <4>7 DEF a, c
      <4>9. QED
        BY <4>8
    <3>3. CASE ~(n + 1 <= k)
      BY <1>1, <3>3
    <3>4. QED
      BY <3>1, <3>2, <3>3
  <2> HIDE DEF T
  <2>5. Nat \subseteq T
    BY <2>3, <2>4, NatAll
  <2>6. k \in 1..k
    BY <1>1, <1>7
  <2>7. p + 1 <= e[k] /\ g[k] = Run(p + 1, e[k]) /\ e[k] \in Nat
    BY <1>1, <2>5, <2>6 DEF T
  <2> DEFINE c == e[k]
  <2>8. c \in Nat /\ p <= c /\ p <= p + 1
    BY <2>7
  <2> HIDE DEF c
  <2>9. Run(p, p) \o Run(p + 1, c) = Run(p, c)
    BY <2>8, RunConcat
  <2>10. QED
    BY <1>2, <1>7, <2>2, <2>7, <2>9 DEF c, k, runs
<1>8. QED
  BY <1>6, <1>7

\* What tree_to_list is a solution of: there is one solution, for the kids of an
\* item come after it.
Lists(N, kd, f) ==
  f = [n \in 1..N |-> <<n>> \o FlattenSeq([i \in DOMAIN kd[n] |-> f[kd[n][i]]])]

LEMMA ListsAgree ==
  ASSUME NEW N \in Nat, NEW kd, NEW f, NEW g, Lists(N, kd, f), Lists(N, kd, g),
         \A n \in 1..N : \A i \in DOMAIN kd[n] : kd[n][i] \in 1..N /\ n < kd[n][i]
  PROVE  \A n \in 1..N : f[n] = g[n]
<1> DEFINE T == {k \in Nat : \A n \in 1..N : n + k > N => f[n] = g[n]}
<1>1. /\ \A n \in 1..N : f[n] = <<n>> \o FlattenSeq([i \in DOMAIN kd[n] |-> f[kd[n][i]]])
      /\ \A n \in 1..N : g[n] = <<n>> \o FlattenSeq([i \in DOMAIN kd[n] |-> g[kd[n][i]]])
  <2>1. ASSUME NEW h, Lists(N, kd, h)
        PROVE  \A n \in 1..N : h[n] = <<n>> \o FlattenSeq([i \in DOMAIN kd[n] |-> h[kd[n][i]]])
    <3> DEFINE body(n) == <<n>> \o FlattenSeq([i \in DOMAIN kd[n] |-> h[kd[n][i]]])
    <3>1. h = [n \in 1..N |-> body(n)]
      BY <2>1, Zenon DEF Lists
    <3> HIDE DEF body
    <3>2. \A n \in 1..N : h[n] = body(n)
      BY <3>1
    <3>3. QED
      BY <3>2, Zenon DEF body
  <2>2. QED
    BY <2>1
<1>2. 0 \in T
  OBVIOUS
<1>3. ASSUME NEW k \in Nat, k \in T PROVE k + 1 \in T
  <2>1. ASSUME NEW n \in 1..N, n + (k + 1) > N PROVE f[n] = g[n]
    <3>1. \A i \in DOMAIN kd[n] : f[kd[n][i]] = g[kd[n][i]]
      <4>1. ASSUME NEW i \in DOMAIN kd[n] PROVE f[kd[n][i]] = g[kd[n][i]]
        <5> DEFINE m == kd[n][i]
        <5>1. m \in 1..N /\ n < m
          OBVIOUS
        <5> HIDE DEF m
        <5>2. m + k > N
          BY <2>1, <5>1
        <5>3. f[m] = g[m]
          BY <1>3, <5>1, <5>2
        <5>4. QED
          BY <5>3 DEF m
      <4>2. QED
        BY <4>1
    <3>2. [i \in DOMAIN kd[n] |-> f[kd[n][i]]] = [i \in DOMAIN kd[n] |-> g[kd[n][i]]]
      BY <3>1
    <3>3. QED
      BY <1>1, <3>2
  <2>2. QED
    BY <2>1
<1> HIDE DEF T
<1>4. N + 1 \in T
  BY <1>2, <1>3, NatAll
<1>5. \A n \in 1..N : n + (N + 1) > N
  OBVIOUS
<1>6. QED
  BY <1>4, <1>5 DEF T

\* The items of a finished tree: what is below item n has the numbers from n + 1
\* to F[n], child by child.
Numbered(N, F) ==
  /\ N \in Nat /\ Root \in 1..N /\ Items = 1..N
  /\ F \in [1..N -> Nat] /\ F[Root] = N
  /\ \A n \in 1..N :
       /\ n <= F[n] /\ ListOf[n] = Run(n, F[n])
       /\ kids[n] \in Seq(1..N) /\ Len(kids[n]) \in Nat
       /\ F[n] = IF Len(kids[n]) = 0 THEN n ELSE F[kids[n][Len(kids[n])]]
       /\ \A i \in 1..Len(kids[n]) :
            /\ kids[n][i] \in 1..N /\ n < kids[n][i]
            /\ kids[n][i] = IF i = 1 THEN n + 1 ELSE F[kids[n][i - 1]] + 1

LEMMA NumberedTree ==
  ASSUME IInv, phase = "done"
  PROVE  \E F \in [1..Len(items) -> Nat] : Numbered(Len(items), F)
<1> DEFINE t == Standing
           N == Size(t)
<1>1. WellTyped(t) /\ Path(t) /\ KidsClosed(t) /\ Spanned(t)
  BY DEF IInv, Good, Placed
<1>2. t.open = <<Root>> /\ t.kids = kids /\ Items = 1..N /\ N \in Nat
  BY <1>1, StandingFields, ItemsAreNumbered, TypeFacts
<1>3. Len(t.open) = 1 /\ t.open[1] = Root /\ 1 \in 1..1
  BY <1>2
<1>4. PICK E \in [1..N -> Nat] : Spans(t, E)
  BY <1>1 DEF Spanned
<1>5. /\ \A n \in 1..N : n <= E[n] /\ E[n] \in Nat
      /\ \A n \in 1..N : Follow(t, E, n)
      /\ \A n \in 1..N : ~IsOpen(t, n) => E[n] = Until(t, E, n)
      /\ Until(t, E, Root) + 1 = N + 1
  <2>1. Until(t, E, t.open[1]) + 1 = NextOpen(t, 1)
    BY <1>3, <1>4 DEF Spans
  <2>2. NextOpen(t, 1) = N + 1
    BY <1>3 DEF NextOpen
  <2>3. QED
    BY <1>3, <1>4, <2>1, <2>2 DEF Spans
<1>6. /\ 1 \in 1..N
      /\ \A p \in 1..N : /\ kids[p] \in Seq(Nat) /\ Len(kids[p]) \in Nat
                         /\ DOMAIN kids[p] = 1..Len(kids[p])
                         /\ \A i \in 1..Len(kids[p]) : /\ kids[p][i] \in 1..N
                                                       /\ ~IsOpen(t, kids[p][i])
                                                       /\ p < kids[p][i]
  <2>1. 1 \in 1..N
    BY <1>1, <1>3, OpenFacts DEF Root
  <2>2. ASSUME NEW p \in 1..N
        PROVE  /\ kids[p] \in Seq(Nat) /\ Len(kids[p]) \in Nat
               /\ DOMAIN kids[p] = 1..Len(kids[p])
               /\ \A i \in 1..Len(kids[p]) : /\ kids[p][i] \in 1..N
                                             /\ ~IsOpen(t, kids[p][i])
                                             /\ p < kids[p][i]
    <3>1. kids[p] \in Seq(Nat) /\ Len(kids[p]) \in Nat
      BY <1>1, <1>2, TypeFacts
    <3>2. DOMAIN kids[p] = 1..Len(kids[p])
      BY <3>1, LenProperties
    <3>3. ASSUME NEW i \in 1..Len(kids[p])
          PROVE kids[p][i] \in 1..N /\ ~IsOpen(t, kids[p][i]) /\ p < kids[p][i]
      <4>1. kids[p][i] \in 1..N /\ ~IsOpen(t, kids[p][i])
        BY <1>1, <1>2, KidsBelow
      <4>2. t.parent[kids[p][i]] = p
        BY <1>1, <1>2 DEF KidsClosed
      <4>3. QED
        BY <1>1, <4>1, <4>2 DEF WellTyped
    <3>4. QED
      BY <3>1, <3>2, <3>3
  <2>3. QED
    BY <2>1, <2>2
<1> DEFINE last(n) == Until(t, E, n)
           full == [n \in 1..N |-> Run(n, last(n))]
           body(n) == <<n>> \o FlattenSeq([i \in DOMAIN kids[n] |-> full[kids[n][i]]])
<1> HIDE DEF t, N
<1>7. Lists(N, kids, full)
  <2>1. ASSUME NEW p \in 1..N PROVE full[p] = body(p)
    <3> DEFINE q == kids[p]
               k == Len(q)
               e == [i \in 1..k |-> E[q[i]]]
    <3>1. /\ q \in Seq(Nat) /\ k \in Nat /\ DOMAIN q = 1..k
          /\ \A i \in 1..k : q[i] \in 1..N /\ E[q[i]] \in Nat /\ q[i] <= E[q[i]]
      BY <1>5, <1>6
    <3>2. \A i \in 1..k : last(q[i]) = E[q[i]]
      BY <1>5, <1>6
    <3>3. \A i \in 1..k : q[i] = IF i = 1 THEN p + 1 ELSE E[q[i - 1]] + 1
      BY <1>2, <1>5 DEF Follow
    <3>4. last(p) = IF k = 0 THEN p ELSE E[q[k]]
      BY <1>2 DEF Until
    <3> HIDE DEF q, k, last
    <3>5. e \in Seq(Nat) /\ Len(e) = k /\ \A i \in 1..k : e[i] = E[q[i]]
      <4>1. e \in [1..k -> Nat] /\ \A i \in 1..k : e[i] = E[q[i]]
        BY <3>1
      <4> HIDE DEF e
      <4>2. e \in Seq(Nat)
        BY <3>1, <4>1, SeqDef
      <4>3. QED
        BY <3>1, <4>1, <4>2, LenProperties
    <3> HIDE DEF e
    <3>6. \A i \in 1..k : i # 1 => i - 1 \in 1..k
      BY <3>1
    <3>7. Runs(p, q, e)
      <4>1. ASSUME NEW i \in 1..k PROVE q[i] = IF i = 1 THEN p + 1 ELSE e[i - 1] + 1
        <5>1. i # 1 => e[i - 1] = E[q[i - 1]]
          BY <3>5, <3>6
        <5>2. QED
          BY <3>3, <5>1
      <4>2. \A i \in 1..k : q[i] <= e[i]
        BY <3>1, <3>5
      <4>3. QED
        BY <3>5, <4>1, <4>2 DEF Runs, k
    <3>8. p \in Nat
      BY <1>2
    <3>9. <<p>> \o FlattenSeq([i \in DOMAIN q |-> Run(q[i], e[i])])
            = Run(p, IF Len(q) = 0 THEN p ELSE e[Len(q)])
      BY <3>1, <3>5, <3>7, <3>8, RunsJoined
    <3>10. [i \in DOMAIN q |-> Run(q[i], e[i])] = [i \in DOMAIN q |-> full[q[i]]]
      BY <3>1, <3>2, <3>5
    <3>11. k # 0 => e[k] = E[q[k]]
      BY <3>1, <3>5
    <3>12. (IF Len(q) = 0 THEN p ELSE e[Len(q)]) = last(p)
      BY <3>4, <3>11 DEF k
    <3>13. QED
      BY <3>9, <3>10, <3>12 DEF q
  <2> HIDE DEF body
  <2>2. full = [n \in 1..N |-> body(n)]
    BY <2>1
  <2>3. QED
    BY <2>2 DEF Lists, body
<1> HIDE DEF full, last
<1>8. Lists(N, kids, ListOf)
  <2> DEFINE Solves(f) == f = [n \in 1..N |-> <<n>> \o FlattenSeq([i \in DOMAIN kids[n] |-> f[kids[n][i]]])]
  <2>1. ListOf = CHOOSE f : Solves(f)
    BY <1>2, Zenon DEF ListOf
  <2>2. Solves(full)
    BY <1>7, Zenon DEF Lists
  <2> HIDE DEF Solves
  <2>3. Solves(ListOf)
    BY <2>1, <2>2
  <2>4. QED
    BY <2>3, Zenon DEF Lists, Solves
<1>9. \A n \in 1..N : ListOf[n] = full[n]
  <2>1. \A n \in 1..N : \A i \in DOMAIN kids[n] : kids[n][i] \in 1..N /\ n < kids[n][i]
    BY <1>6
  <2>2. QED
    BY <1>2, <1>7, <1>8, <2>1, ListsAgree
<1> DEFINE F == [n \in 1..N |-> last(n)]
<1>10. ASSUME NEW n \in 1..N
       PROVE  /\ last(n) \in Nat /\ n <= last(n)
              /\ last(n) = IF Len(kids[n]) = 0 THEN n ELSE last(kids[n][Len(kids[n])])
  <2> DEFINE k == Len(kids[n])
             c == kids[n][k]
  <2>1. last(n) = IF k = 0 THEN n ELSE E[c]
    BY <1>2 DEF last, Until
  <2>2. CASE k = 0
    BY <1>2, <2>1, <2>2
  <2>3. CASE k # 0
    <3>1. k \in 1..k
      <4>1. k \in Nat
        BY <1>6
      <4> HIDE DEF k
      <4>2. QED
        BY <2>3, <4>1
    <3>2. c \in 1..N /\ ~IsOpen(t, c) /\ n < c
      BY <1>6, <3>1
    <3> HIDE DEF k, c
    <3>3. E[c] = last(c) /\ c <= E[c] /\ E[c] \in Nat
      BY <1>5, <3>2 DEF last
    <3>4. n <= E[c]
      BY <1>2, <3>2, <3>3
    <3>5. QED
      BY <2>1, <2>3, <3>3, <3>4 DEF k, c
  <2>4. QED
    BY <2>2, <2>3
<1>11. F \in [1..N -> Nat] /\ \A n \in 1..N : F[n] = last(n)
  BY <1>10
<1>12. \A n \in 1..N : \A i \in 1..Len(kids[n]) :
         kids[n][i] = IF i = 1 THEN n + 1 ELSE last(kids[n][i - 1]) + 1
  <2>1. ASSUME NEW n \in 1..N, NEW i \in 1..Len(kids[n])
        PROVE  kids[n][i] = IF i = 1 THEN n + 1 ELSE last(kids[n][i - 1]) + 1
    <3>1. kids[n][i] = IF i = 1 THEN n + 1 ELSE E[kids[n][i - 1]] + 1
      BY <1>2, <1>5 DEF Follow
    <3>2. CASE i # 1
      <4> DEFINE k == Len(kids[n])
      <4>1. i \in 1..k /\ k \in Nat
        BY <1>6
      <4> HIDE DEF k
      <4>2. i - 1 \in 1..k
        BY <3>2, <4>1
      <4>3. kids[n][i - 1] \in 1..N /\ ~IsOpen(t, kids[n][i - 1])
        BY <1>6, <4>2 DEF k
      <4>4. E[kids[n][i - 1]] = last(kids[n][i - 1])
        BY <1>5, <4>3 DEF last
      <4>5. QED
        BY <3>1, <3>2, <4>4
    <3>3. QED
      BY <3>1, <3>2
  <2>2. QED
    BY <2>1
<1>13. last(Root) = N
  <2>1. last(Root) + 1 = N + 1 /\ last(Root) \in Nat
    BY <1>5, <1>6, <1>10 DEF last, Root
  <2>2. QED
    BY <1>2, <2>1
<1> HIDE DEF F
<1>14. ASSUME NEW n \in 1..N
       PROVE  /\ n <= F[n] /\ ListOf[n] = Run(n, F[n])
              /\ kids[n] \in Seq(1..N) /\ Len(kids[n]) \in Nat
              /\ F[n] = IF Len(kids[n]) = 0 THEN n ELSE F[kids[n][Len(kids[n])]]
              /\ \A i \in 1..Len(kids[n]) :
                   /\ kids[n][i] \in 1..N /\ n < kids[n][i]
                   /\ kids[n][i] = IF i = 1 THEN n + 1 ELSE F[kids[n][i - 1]] + 1
  <2> DEFINE k == Len(kids[n])
  <2>1. /\ k \in Nat /\ kids[n] \in Seq(Nat)
        /\ \A i \in 1..k : kids[n][i] \in 1..N /\ n < kids[n][i]
    BY <1>6
  <2>2. /\ last(n) = IF k = 0 THEN n ELSE last(kids[n][k])
        /\ \A i \in 1..k : kids[n][i] = IF i = 1 THEN n + 1 ELSE last(kids[n][i - 1]) + 1
    BY <1>10, <1>12
  <2>3. ListOf[n] = Run(n, last(n))
    BY <1>9 DEF full
  <2>4. kids[n] \in [1..k -> 1..N]
    <3>1. kids[n] \in [1..k -> Nat]
      BY <2>1, LenProperties
    <3>2. QED
      BY <2>1, <3>1
  <2>5. kids[n] \in Seq(1..N)
    <3> DEFINE q == kids[n]
               D == 1..N
    <3>1. k \in Nat /\ q \in [1..k -> D]
      BY <2>1, <2>4
    <3> HIDE DEF k, q, D
    <3>2. q \in Seq(D)
      BY <3>1, SeqDef
    <3>3. QED
      BY <3>2 DEF q, D
  <2> HIDE DEF k
  <2>6. (k # 0 => k \in 1..k) /\ \A i \in 1..k : i # 1 => i - 1 \in 1..k
    BY <2>1
  <2>7. F[n] = IF k = 0 THEN n ELSE F[kids[n][k]]
    BY <1>11, <2>1, <2>2, <2>6
  <2>8. ASSUME NEW i \in 1..k
        PROVE  kids[n][i] = IF i = 1 THEN n + 1 ELSE F[kids[n][i - 1]] + 1
    <3>1. i # 1 => kids[n][i - 1] \in 1..N
      BY <2>1, <2>6
    <3>2. QED
      BY <1>11, <2>2, <3>1
  <2>9. n <= F[n] /\ ListOf[n] = Run(n, F[n])
    BY <1>10, <1>11, <2>3
  <2>10. QED
    BY <2>1, <2>5, <2>7, <2>8, <2>9 DEF k
<1>15. Numbered(N, F)
  <2>1. Root \in 1..N
    BY <1>6 DEF Root
  <2>2. F[Root] = N
    BY <1>11, <1>13, <2>1
  <2>3. QED
    BY <1>2, <1>11, <1>14, <2>1, <2>2 DEF Numbered
<1>16. N = Len(items)
  BY StandingFields DEF N, Size, t
<1>17. QED
  BY <1>11, <1>15, <1>16

LEMMA ListedInOrder == IInv => SourceOrder
<1> SUFFICES ASSUME IInv, phase = "done"
             PROVE  ListOf[Root] = [n \in Items |-> n]
  BY DEF SourceOrder
<1> DEFINE N == Len(items)
<1>1. PICK F \in [1..N -> Nat] : Numbered(N, F)
  BY NumberedTree
<1>2. N \in Nat /\ Items = 1..N /\ ListOf[Root] = Run(1, N)
  BY <1>1 DEF Numbered, Root
<1>3. N - 1 + 1 = N /\ \A i \in 1..N : 1 + i - 1 = i
  BY <1>2
<1>4. QED
  BY <1>2, <1>3 DEF Run

-----------------------------------------------------------------------------
(* Heights that add up, and lines *)

\* Ends is the function it looks like: each layout ends its height further down.
LEMMA EndsAddUp ==
  ASSUME NEW heights \in Seq(Nat)
  PROVE  LET end == Ends(heights) IN
         /\ end \in [0..Len(heights) -> Nat] /\ end[0] = 0
         /\ \A k \in 1..Len(heights) : end[k] = end[k - 1] + heights[k]
<1> DEFINE N == Len(heights)
           Body(u) == [k \in 0..N |-> IF k = 0 THEN 0 ELSE u[k - 1] + heights[k]]
           f == CHOOSE u : u = Body(u)
           step == [q \in Nat \X Nat |-> IF q[1] \in 1..N THEN q[2] + heights[q[1]] ELSE q[2]]
<1>1. Ends(heights) = f
  BY DEF Ends
<1>2. N \in Nat /\ \A k \in 1..N : heights[k] \in Nat
  BY LenProperties, ElementOfSeq
<1> HIDE DEF N
<1>3. step \in [Nat \X Nat -> Nat]
  BY <1>2
<1>4. \A k \in 1..N, v \in Nat : step[<<k, v>>] = v + heights[k]
  BY <1>2
<1> HIDE DEF step
<1>5. PICK g \in [0..N -> Nat] : RecursUpTo(g, N, 0, step)
  BY <1>2, <1>3, RecursionUpTo
<1>6. g[0] = 0 /\ \A k \in 1..N : g[k] = g[k - 1] + heights[k]
  <2>1. ASSUME NEW k \in 1..N PROVE g[k] = g[k - 1] + heights[k]
    <3>1. k - 1 \in 0..N /\ g[k - 1] \in Nat
      BY <1>2
    <3>2. QED
      BY <1>4, <1>5, <3>1 DEF RecursUpTo
  <2>2. QED
    BY <1>5, <2>1 DEF RecursUpTo
<1>7. g = Body(g)
  <2>1. \A k \in 0..N : k = 0 \/ k \in 1..N
    BY <1>2
  <2>2. QED
    BY <1>6, <2>1
<1>8. f = Body(f)
  <2> HIDE DEF Body
  <2>1. QED
    BY <1>7
<1> HIDE DEF f
<1>9. \A k \in 0..N : f[k] = g[k]
  <2> DEFINE T == {k \in Nat : k \in 0..N => f[k] = g[k]}
  <2>1. 0 \in T
    BY <1>2, <1>6, <1>8
  <2>2. ASSUME NEW k \in Nat, k \in T PROVE k + 1 \in T
    <3>1. CASE k + 1 \in 0..N
      <4>1. k \in 0..N /\ k + 1 \in 1..N /\ (k + 1) - 1 = k /\ k + 1 # 0
        BY <1>2, <3>1
      <4>2. f[k + 1] = f[k] + heights[k + 1] /\ g[k + 1] = g[k] + heights[k + 1]
        BY <1>6, <1>8, <3>1, <4>1
      <4>3. f[k] = g[k]
        BY <2>2, <4>1
      <4>4. f[k + 1] = g[k + 1]
        BY <4>2, <4>3
      <4>5. QED
        BY <4>4
    <3>2. QED
      BY <3>1
  <2> HIDE DEF T
  <2>3. Nat \subseteq T
    BY <2>1, <2>2, NatAll
  <2>4. QED
    BY <2>3 DEF T
<1>10. f = g
  BY <1>8, <1>9
<1>11. QED
  BY <1>1, <1>6, <1>10 DEF N

\* The layouts stand below each other.
LEMMA EndsRise ==
  ASSUME NEW heights \in Seq(Nat)
  PROVE  /\ Total(heights) \in Nat /\ Ends(heights)[Len(heights)] = Total(heights)
         /\ \A j, k \in 0..Len(heights) : /\ Ends(heights)[k] \in Nat
                                          /\ j <= k => Ends(heights)[j] <= Ends(heights)[k]
<1> DEFINE N == Len(heights)
           e == Ends(heights)
<1>1. /\ N \in Nat /\ e \in [0..N -> Nat] /\ \A k \in 1..N : e[k] = e[k - 1] + heights[k]
      /\ \A k \in 1..N : heights[k] \in Nat
  BY EndsAddUp, LenProperties, ElementOfSeq
<1>2. Total(heights) = e[N]
  BY DEF Total
<1> HIDE DEF e, N
<1>3. ASSUME NEW j \in 0..N PROVE \A k \in 0..N : j <= k => e[j] <= e[k]
  <2> DEFINE T == {k \in Nat : k \in 0..N /\ j <= k => e[j] <= e[k]}
  <2>1. 0 \in T
    BY <1>1
  <2>2. ASSUME NEW k \in Nat, k \in T PROVE k + 1 \in T
    <3>1. CASE k + 1 \in 0..N /\ j <= k
      <4>1. k \in 0..N /\ k + 1 \in 1..N /\ (k + 1) - 1 = k
        BY <1>1, <3>1
      <4>2. e[k + 1] = e[k] + heights[k + 1] /\ heights[k + 1] \in Nat /\ e[k] \in Nat /\ e[j] \in Nat
        BY <1>1, <4>1
      <4>3. e[j] <= e[k]
        BY <2>2, <3>1, <4>1
      <4>4. e[j] <= e[k + 1]
        BY <4>2, <4>3
      <4>5. QED
        BY <4>4
    <3>2. CASE k + 1 \in 0..N /\ ~(j <= k)
      <4>1. j <= k + 1 => j = k + 1
        BY <3>2
      <4>2. e[k + 1] \in Nat
        BY <1>1, <3>2
      <4>3. j <= k + 1 => e[j] <= e[k + 1]
        BY <4>1, <4>2
      <4> HIDE DEF T
      <4>4. QED
        BY <4>3 DEF T
    <3>3. QED
      BY <3>1, <3>2
  <2> HIDE DEF T
  <2>3. Nat \subseteq T
    BY <2>1, <2>2, NatAll
  <2>4. QED
    BY <2>3 DEF T
<1>4. N \in 0..N
  BY <1>1
<1>5. QED
  BY <1>1, <1>2, <1>3, <1>4 DEF e, N

Less == {pair \in Nat \X Nat : pair[1] < pair[2]}

\* What stands in content: the numbers rise, with breaks among them.
Later == {pair \in Nat \X Nat : pair[1] = Break \/ pair[2] = Break \/ pair[1] < pair[2]}

Rising(lines) ==
  /\ \A l \in 1..Len(lines) : Ordered(lines[l], Less)
  /\ \A l, m \in 1..Len(lines) : l < m => Between(Elems(lines[l]), Elems(lines[m]), Less)

\* The lines of the first k of the content.
LaidOut(content, k, lines) ==
  /\ lines \in Seq(Seq(Nat)) /\ Len(lines) >= 1
  /\ \A l \in 1..Len(lines) : \A x \in Elems(lines[l]) :
       x # Break /\ \E j \in 1..k : x = content[j]
  /\ \A j \in 1..k : content[j] # Break =>
       \E l \in 1..Len(lines) : content[j] \in Elems(lines[l])
  /\ Rising(lines)

LEMMA EmptyOrdered == Elems(<<>>) = {} /\ \A R : Ordered(<<>>, R)
<1>1. Len(<<>>) = 0
  OBVIOUS
<1>2. QED
  BY <1>1 DEF Elems, Ordered

\* What is laid out stays so when br begins another line,
LEMMA BreakLaidOut ==
  ASSUME NEW content \in Seq(Nat), NEW k \in 1..Len(content), content[k] = Break,
         NEW lines, LaidOut(content, k - 1, lines)
  PROVE  LaidOut(content, k, Joined(lines, content[k]))
<1> DEFINE L == Len(lines)
           r == Append(lines, <<>>)
<1>1. Joined(lines, content[k]) = r
  BY DEF Joined
<1>2. lines \in Seq(Seq(Nat)) /\ L >= 1 /\ L \in Nat /\ <<>> \in Seq(Nat) /\ Rising(lines)
  BY EmptySeq, LenProperties DEF LaidOut
<1>3. /\ r \in Seq(Seq(Nat)) /\ Len(r) = L + 1 /\ r[L + 1] = <<>>
      /\ \A l \in 1..L : r[l] = lines[l]
  BY <1>2, AppendProperties
<1>4. k \in Nat /\ \A j \in 1..k : j \in 1..(k - 1) \/ j = k
  BY LenProperties
<1> HIDE DEF r
<1>5. \A l \in 1..(L + 1) : l \in 1..L \/ r[l] = <<>>
  BY <1>2, <1>3
<1>6. \A l \in 1..L : l \in 1..(L + 1)
  BY <1>2
<1>7. \A l \in 1..Len(r) : \A x \in Elems(r[l]) : x # Break /\ \E j \in 1..k : x = content[j]
  <2>1. ASSUME NEW l \in 1..L, NEW x \in Elems(r[l])
        PROVE  x # Break /\ \E j \in 1..k : x = content[j]
    <3>0. \A m \in 1..L : \A z \in Elems(lines[m]) :
             z # Break /\ \E j \in 1..(k - 1) : z = content[j]
      BY DEF LaidOut
    <3>1. x # Break /\ \E j \in 1..(k - 1) : x = content[j]
      BY <1>3, <2>1, <3>0
    <3>2. \A j \in 1..(k - 1) : j \in 1..k
      BY <1>4
    <3>3. QED
      BY <3>1, <3>2
  <2>2. QED
    BY <1>3, <1>5, <2>1, EmptyOrdered
<1>8. ASSUME NEW j \in 1..k, content[j] # Break
      PROVE \E l \in 1..Len(r) : content[j] \in Elems(r[l])
  <2>1. j \in 1..(k - 1)
    BY <1>4, <1>8
  <2>2. PICK l \in 1..L : content[j] \in Elems(lines[l])
    BY <1>8, <2>1 DEF LaidOut
  <2>3. QED
    BY <1>3, <1>6, <2>2
<1>9. Rising(r)
  <2>1. ASSUME NEW l \in 1..(L + 1) PROVE Ordered(r[l], Less)
    <3>1. CASE l \in 1..L
      BY <1>2, <1>3, <3>1 DEF Rising
    <3>2. CASE r[l] = <<>>
      BY <3>2, EmptyOrdered
    <3>3. QED
      BY <1>5, <3>1, <3>2
  <2>2. ASSUME NEW l \in 1..(L + 1), NEW m \in 1..(L + 1), l < m
        PROVE Between(Elems(r[l]), Elems(r[m]), Less)
    <3>1. CASE r[l] = <<>> \/ r[m] = <<>>
      BY <3>1, EmptyOrdered DEF Between
    <3>2. CASE l \in 1..L /\ m \in 1..L
      BY <1>2, <1>3, <2>2, <3>2 DEF Rising
    <3>3. QED
      BY <1>5, <3>1, <3>2
  <2>3. QED
    BY <1>3, <2>1, <2>2 DEF Rising
<1>10. QED
  <2>1. Len(r) >= 1
    BY <1>2, <1>3
  <2>2. QED
    BY <1>1, <1>3, <1>7, <1>8, <1>9, <2>1 DEF LaidOut

\* and when a box joins the last one.
LEMMA BoxLaidOut ==
  ASSUME NEW content \in Seq(Nat), Ordered(content, Later),
         NEW k \in 1..Len(content), content[k] # Break,
         NEW lines, LaidOut(content, k - 1, lines)
  PROVE  LaidOut(content, k, Joined(lines, content[k]))
<1> DEFINE L == Len(lines)
           box == content[k]
           e == Append(lines[L], box)
           r == [lines EXCEPT ![L] = e]
<1>1. Joined(lines, box) = r
  BY DEF Joined
<1>2. lines \in Seq(Seq(Nat)) /\ L >= 1 /\ L \in Nat /\ box \in Nat /\ Rising(lines)
  BY LenProperties, ElementOfSeq DEF LaidOut
<1>3. L \in 1..L /\ lines[L] \in Seq(Nat)
  BY <1>2, ElementOfSeq
<1>4. k \in Nat /\ (\A j \in 1..k : j \in 1..(k - 1) \/ j = k) /\ k \in 1..k
      /\ \A j \in 1..(k - 1) : j \in 1..k /\ j \in 1..Len(content) /\ j < k
  BY LenProperties
<1>5. ASSUME NEW l \in 1..L, NEW x \in Elems(lines[l])
      PROVE  <<x, box>> \in Less /\ x # Break /\ \E j \in 1..k : x = content[j]
  <2>1. PICK j \in 1..(k - 1) : x = content[j] /\ x # Break
    BY DEF LaidOut
  <2>2. <<x, box>> \in Later
    BY <1>4, <2>1 DEF Ordered
  <2>3. QED
    BY <1>4, <2>1, <2>2 DEF Later, Less
<1> DEFINE last == lines[L]
<1>6. last \in Seq(Nat) /\ e = Append(last, box) /\ Ordered(last, Less)
  BY <1>2, <1>3 DEF Rising
<1>7. Between(Elems(last), {box}, Less)
  BY <1>3, <1>5 DEF Between
<1>8. /\ e \in Seq(Nat) /\ Elems(e) = Elems(last) \cup {box} /\ Ordered(e, Less)
  <2> HIDE DEF last, box, e
  <2>1. /\ Append(last, box) \in Seq(Nat) /\ Elems(Append(last, box)) = Elems(last) \cup {box}
        /\ \A R : Ordered(last, R) /\ Between(Elems(last), {box}, R) => Ordered(Append(last, box), R)
    BY <1>2, <1>6, AppendOrdered
  <2>2. QED
    BY <1>6, <1>7, <2>1
<1> HIDE DEF e, box
<1>9. /\ r \in Seq(Seq(Nat)) /\ Len(r) = L
      /\ \A l \in 1..L : r[l] = IF l = L THEN e ELSE lines[l]
  BY <1>2, <1>3, <1>8, ExceptSeq
<1> HIDE DEF r, L
<1>10. /\ \A l \in 1..L : Elems(r[l]) = IF l = L THEN Elems(lines[l]) \cup {box} ELSE Elems(lines[l])
       /\ \A l \in 1..L : Elems(lines[l]) \subseteq Elems(r[l])
       /\ box \in Elems(r[L])
  BY <1>3, <1>8, <1>9
<1> HIDE DEF last
<1>11. ASSUME NEW l \in 1..L, NEW x \in Elems(r[l])
       PROVE  x # Break /\ \E j \in 1..k : x = content[j]
  <2>1. x \in Elems(lines[l]) \/ x = box
    BY <1>10
  <2>2. box # Break /\ box = content[k]
    BY DEF box
  <2>3. QED
    BY <1>4, <1>5, <2>1, <2>2
<1>12. ASSUME NEW j \in 1..k, content[j] # Break
       PROVE \E l \in 1..L : content[j] \in Elems(r[l])
  <2>1. CASE j = k
    BY <1>3, <1>10, <2>1 DEF box
  <2>2. CASE j # k
    <3>1. PICK l \in 1..L : content[j] \in Elems(lines[l])
      BY <1>4, <1>12, <2>2 DEF LaidOut, L
    <3>2. QED
      BY <1>10, <3>1
  <2>3. QED
    BY <2>1, <2>2
<1>13. Rising(r)
  <2>1. ASSUME NEW l \in 1..L PROVE Ordered(r[l], Less)
    BY <1>2, <1>8, <1>9 DEF Rising, L
  <2>2. ASSUME NEW l \in 1..L, NEW m \in 1..L, l < m
        PROVE Between(Elems(r[l]), Elems(r[m]), Less)
    <3>1. Elems(r[l]) = Elems(lines[l])
      <4>1. l # L
        BY <1>2, <2>2
      <4>2. QED
        BY <1>10, <4>1
    <3>2. Between(Elems(lines[l]), Elems(lines[m]), Less)
      BY <1>2, <2>2 DEF Rising, L
    <3>3. \A x \in Elems(lines[l]) : <<x, box>> \in Less
      BY <1>5
    <3>4. \A y \in Elems(r[m]) : y \in Elems(lines[m]) \/ y = box
      BY <1>10
    <3>5. QED
      BY <3>1, <3>2, <3>3, <3>4 DEF Between
  <2>3. QED
    BY <1>9, <2>1, <2>2 DEF Rising
<1>14. QED
  <2>1. Len(r) >= 1
    BY <1>2, <1>9
  <2>2. QED
    BY <1>1, <1>9, <1>11, <1>12, <1>13, <2>1 DEF LaidOut, box

\* The line that layout begins with.
LEMMA FirstLine ==
  ASSUME NEW content
  PROVE  LaidOut(content, 0, << <<>> >>)
<1> DEFINE r == << <<>> >>
<1>1. /\ r \in Seq(Seq(Nat)) /\ Len(r) = 1 /\ \A l \in 1..Len(r) : r[l] = <<>> /\ l = 1
  OBVIOUS
<1> HIDE DEF r
<1>2. /\ \A l \in 1..Len(r) : Elems(r[l]) = {} /\ Ordered(r[l], Less)
      /\ \A l, m \in 1..Len(r) : ~(l < m)
  BY <1>1, EmptyOrdered
<1>3. Rising(r)
  BY <1>2 DEF Rising
<1>4. \A j \in 1..0 : FALSE
  OBVIOUS
<1>5. QED
  BY <1>1, <1>2, <1>3, <1>4 DEF LaidOut, r

LEMMA JoinedType ==
  ASSUME NEW lines \in Seq(Seq(Nat)) \ {<<>>}, NEW box \in Nat
  PROVE  Joined(lines, box) \in Seq(Seq(Nat)) \ {<<>>}
<1> DEFINE L == Len(lines)
           e == Append(lines[L], box)
<1>1. lines \in Seq(Seq(Nat)) /\ L \in Nat /\ L # 0 /\ <<>> \in Seq(Nat) /\ Len(<<>>) = 0
  BY EmptySeq, LenProperties
<1>2. /\ Append(lines, <<>>) \in Seq(Seq(Nat)) /\ Len(Append(lines, <<>>)) = L + 1
  BY <1>1, AppendProperties
<1>3. L \in 1..L /\ lines[L] \in Seq(Nat) /\ e \in Seq(Nat)
  <2>1. L \in 1..L
    BY <1>1
  <2>2. lines[L] \in Seq(Nat)
    BY <2>1, ElementOfSeq
  <2>3. QED
    BY <2>1, <2>2, AppendProperties
<1> HIDE DEF e
<1>4. [lines EXCEPT ![L] = e] \in Seq(Seq(Nat)) /\ Len([lines EXCEPT ![L] = e]) = L
  BY <1>3, ExceptSeq
<1>5. CASE box = Break
  <2>1. Joined(lines, box) = Append(lines, <<>>)
    BY <1>5 DEF Joined
  <2>2. L + 1 # 0
    BY <1>1
  <2>3. QED
    BY <1>1, <1>2, <2>1, <2>2
<1>6. CASE box # Break
  <2>1. Joined(lines, box) = [lines EXCEPT ![L] = e]
    BY <1>6 DEF Joined, e
  <2> DEFINE r == [lines EXCEPT ![L] = e]
  <2>2. r \in Seq(Seq(Nat)) /\ Len(r) # Len(<<>>)
    BY <1>1, <1>4
  <2> HIDE DEF r
  <2>3. r # <<>>
    BY <2>2
  <2>4. QED
    BY <2>1, <2>2, <2>3 DEF r
<1>7. QED
  BY <1>5, <1>6

\* Every box of the content is in a line, and they rise along the lines.
LEMMA CutLaidOut ==
  ASSUME NEW content \in Seq(Nat), Ordered(content, Later)
  PROVE  LaidOut(content, Len(content), Cut(content))
<1> DEFINE N == Len(content)
           S == Seq(Seq(Nat)) \ {<<>>}
           one == << <<>> >>
           Body(u) == [k \in 0..N |-> IF k = 0 THEN one ELSE Joined(u[k - 1], content[k])]
           f == CHOOSE u : u = Body(u)
           step == [q \in Nat \X S |-> IF q[1] \in 1..N THEN Joined(q[2], content[q[1]]) ELSE q[2]]
<1>1. Cut(content) = f[N]
  BY DEF Cut
<1>2. N \in Nat /\ \A k \in 1..N : content[k] \in Nat
  BY LenProperties, ElementOfSeq
<1>3. one \in S
  <2>1. one \in Seq(Seq(Nat)) /\ Len(one) # Len(<<>>)
    OBVIOUS
  <2> HIDE DEF one
  <2>2. one # <<>>
    BY <2>1
  <2>3. QED
    BY <2>1, <2>2
<1>j. \A v \in S, box \in Nat : Joined(v, box) \in S
  BY JoinedType
<1> HIDE DEF N, S, one
<1>4. step \in [Nat \X S -> S]
  BY <1>2, <1>j
<1>5. \A k \in 1..N, v \in S : step[<<k, v>>] = Joined(v, content[k])
  BY <1>2
<1> HIDE DEF step
<1>6. PICK g \in [0..N -> S] : RecursUpTo(g, N, one, step)
  BY <1>2, <1>3, <1>4, RecursionUpTo
<1>7. g[0] = one /\ \A k \in 1..N : g[k] = Joined(g[k - 1], content[k])
  <2>1. ASSUME NEW k \in 1..N PROVE g[k] = Joined(g[k - 1], content[k])
    <3>1. k - 1 \in 0..N /\ g[k - 1] \in S
      BY <1>2
    <3>2. QED
      BY <1>5, <1>6, <3>1 DEF RecursUpTo
  <2>2. QED
    BY <1>6, <2>1 DEF RecursUpTo
<1>8. g = Body(g)
  <2>1. \A k \in 0..N : k = 0 \/ k \in 1..N
    BY <1>2
  <2>2. QED
    BY <1>7, <2>1
<1>9. f = Body(f)
  <2> HIDE DEF Body
  <2>1. QED
    BY <1>8
<1> HIDE DEF f
<1>10. f[0] = one /\ \A k \in 1..N : f[k] = Joined(f[k - 1], content[k])
  <2>1. 0 \in 0..N /\ \A k \in 1..N : k \in 0..N /\ k # 0
    BY <1>2
  <2>2. QED
    BY <1>9, <2>1
<1> HIDE DEF Body
<1> DEFINE T == {k \in Nat : k \in 0..N => LaidOut(content, k, f[k])}
<1>11. 0 \in T
  BY <1>10, FirstLine DEF one
<1>12. ASSUME NEW k \in Nat, k \in T PROVE k + 1 \in T
  <2>1. CASE k + 1 \in 0..N
    <3> DEFINE c == k + 1
               v == f[k]
    <3>1. k \in 0..N /\ c \in 1..N /\ c - 1 = k
      BY <1>2, <2>1
    <3>2. f[c] = Joined(v, content[c]) /\ LaidOut(content, c - 1, v)
      BY <1>10, <1>12, <3>1
    <3> HIDE DEF c, v
    <3>3. LaidOut(content, c, Joined(v, content[c]))
      <4>1. c \in 1..Len(content)
        BY <3>1 DEF N
      <4>2. QED
        BY <3>2, <4>1, BreakLaidOut, BoxLaidOut
    <3>4. LaidOut(content, c, f[c])
      BY <3>2, <3>3
    <3>5. QED
      BY <3>4 DEF c
  <2>2. QED
    BY <2>1
<1> HIDE DEF T
<1>13. N \in T /\ N \in 0..N
  <2>1. Nat \subseteq T
    BY <1>11, <1>12, NatAll
  <2>2. QED
    BY <1>2, <2>1
<1>14. QED
  BY <1>1, <1>13 DEF T, N

-----------------------------------------------------------------------------
(* Texts and void tags stay without children *)

\* Texts and void tags are closed at once and are given no child.
Bare(t) ==
  \A n \in 1..Size(t) : t.items[n] \in Texts \cup VoidTags =>
    t.kids[n] = <<>> /\ ~IsOpen(t, n)

\* Each helper keeps them so: a tag that is opened is not one of them,
LEMMA PushBare ==
  ASSUME NEW t, Good(t), Bare(t), NEW name \in Names \ (Texts \cup VoidTags)
  PROVE  Bare(Push(t, name))
<1> DEFINE u == Push(t, name)
<1>1. WellTyped(t) /\ Path(t)
  BY DEF Good
<1>2. /\ Grown(t, u, name) /\ \A n \in 1..Size(t) : u.kids[n] = t.kids[n]
      /\ Len(u.open) = Len(t.open) + 1 /\ u.open[Len(u.open)] = Size(u)
      /\ \A i \in 1..Len(t.open) : u.open[i] = t.open[i]
  BY <1>1, PushFields
<1> HIDE DEF u
<1>3. /\ Size(t) \in Nat /\ Len(t.open) \in Nat /\ Size(u) = Size(t) + 1
      /\ \A n \in 1..Size(t) : u.items[n] = t.items[n]
      /\ u.items[Size(u)] = name
  BY <1>1, <1>2, OpenFacts DEF Grown
<1>4. ASSUME NEW n \in 1..Size(u), u.items[n] \in Texts \cup VoidTags
      PROVE u.kids[n] = <<>> /\ ~IsOpen(u, n)
  <2>1. n # Size(u)
    BY <1>3, <1>4
  <2>2. n \in 1..Size(t)
    BY <1>3, <2>1
  <2>3. t.kids[n] = <<>> /\ ~IsOpen(t, n)
    BY <1>3, <1>4, <2>2 DEF Bare
  <2>4. ASSUME NEW i \in 1..Len(u.open), u.open[i] = n PROVE FALSE
    <3>1. i \in 1..Len(t.open) \/ i = Len(u.open)
      BY <1>2, <1>3
    <3>2. QED
      BY <1>2, <2>1, <2>3, <2>4, <3>1 DEF IsOpen
  <2>5. QED
    BY <1>2, <2>2, <2>3, <2>4 DEF IsOpen
<1>5. QED
  BY <1>4 DEF Bare, u

\* what is put into an open tag is not put into one of them,
LEMMA LeafBare ==
  ASSUME NEW t, Good(t), Bare(t), t.open # <<>>, NEW name \in Names
  PROVE  Bare(Leaf(t, name))
<1> DEFINE u == Leaf(t, name)
           p == Top(t)
<1>1. WellTyped(t) /\ Path(t)
  BY DEF Good
<1>2. /\ Grown(t, u, name) /\ u.open = t.open
      /\ \A n \in 1..Size(t) : n # p => u.kids[n] = t.kids[n]
  BY <1>1, LeafFields
<1>3. p = t.open[Len(t.open)] /\ Len(t.open) \in 1..Len(t.open)
  BY <1>1, TopIsOpen, TypeFacts
<1>4. IsOpen(t, p)
  BY <1>3 DEF IsOpen
<1> HIDE DEF u, p
<1>5. /\ Size(t) \in Nat /\ Size(u) = Size(t) + 1 /\ u.kids[Size(u)] = <<>>
      /\ \A n \in 1..Size(t) : u.items[n] = t.items[n]
      /\ \A i \in 1..Len(t.open) : t.open[i] \in 1..Size(t)
  BY <1>1, <1>2, OpenFacts DEF Grown
<1>6. ASSUME NEW n \in 1..Size(u), u.items[n] \in Texts \cup VoidTags
      PROVE u.kids[n] = <<>> /\ ~IsOpen(u, n)
  <2>1. CASE n = Size(u)
    <3>1. n \notin 1..Size(t)
      BY <1>5, <2>1
    <3>2. QED
      BY <1>2, <1>5, <2>1, <3>1 DEF IsOpen
  <2>2. CASE n # Size(u)
    <3>1. n \in 1..Size(t)
      BY <1>5, <2>2
    <3>2. t.kids[n] = <<>> /\ ~IsOpen(t, n)
      BY <1>5, <1>6, <3>1 DEF Bare
    <3>3. QED
      BY <1>2, <1>4, <3>1, <3>2 DEF IsOpen
  <2>3. QED
    BY <2>1, <2>2
<1>7. QED
  BY <1>6 DEF Bare, u

\* closing a tag puts it into the one below it, which is open,
LEMMA PopBare ==
  ASSUME NEW t, Good(t), Bare(t), Len(t.open) > 1
  PROVE  Bare(Pop(t))
<1> DEFINE u == Pop(t)
           p == t.open[Len(t.open) - 1]
<1>1. WellTyped(t) /\ Path(t)
  BY DEF Good
<1>2. /\ u.items = t.items /\ Len(u.open) = Len(t.open) - 1
      /\ \A i \in 1..Len(u.open) : u.open[i] = t.open[i]
      /\ \A n \in 1..Size(t) : n # p => u.kids[n] = t.kids[n]
  BY <1>1, PopFields
<1>3. Len(t.open) \in Nat /\ Len(t.open) - 1 \in 1..Len(t.open)
  <2>1. Len(t.open) \in Nat
    BY <1>1, OpenFacts
  <2>2. QED
    BY <2>1
<1>4. IsOpen(t, p)
  BY <1>3 DEF IsOpen
<1> HIDE DEF u, p
<1>5. Size(u) = Size(t) /\ \A i \in 1..Len(u.open) : i \in 1..Len(t.open)
  BY <1>2, <1>3 DEF Size
<1>6. ASSUME NEW n \in 1..Size(u), u.items[n] \in Texts \cup VoidTags
      PROVE u.kids[n] = <<>> /\ ~IsOpen(u, n)
  <2>1. n \in 1..Size(t) /\ t.kids[n] = <<>> /\ ~IsOpen(t, n)
    BY <1>2, <1>5, <1>6 DEF Bare
  <2>2. QED
    BY <1>2, <1>4, <1>5, <2>1 DEF IsOpen
<1>7. QED
  BY <1>6 DEF Bare, u

\* and the tags that are implied are none of them.
LEMMA ImpliedBare ==
  ASSUME NEW t, Good(t), Bare(t), NEW name
  PROVE  Bare(Implied(t, name))
<1> DEFINE r == Rooted(t, name)
           h == IF name \in HeadTags THEN "head" ELSE "body"
<1>1. {"html", "head", "body"} \subseteq Names \ (Texts \cup VoidTags)
  BY TagsAssumption DEF Names
<1>2. Good(r) /\ Bare(r)
  <2>1. CASE t.open = <<>> /\ name # "html"
    <3>1. WellTyped(t)
      BY DEF Good
    <3>2. Size(t) = 0 /\ Len(t.open) = 0
      BY <2>1, <3>1, EmptySeq DEF WellTyped
    <3>3. ~InHead(t) /\ Size(t) # 1
      BY <3>2 DEF InHead
    <3>4. Good(Push(t, "html")) /\ Bare(Push(t, "html"))
      BY <1>1, <3>2, <3>3, PushGood, PushBare
    <3>5. QED
      BY <2>1, <3>4 DEF Rooted
  <2>2. CASE ~(t.open = <<>> /\ name # "html")
    BY <2>2 DEF Rooted
  <2>3. QED
    BY <2>1, <2>2
<1> HIDE DEF r
<1>3. CASE AtRoot(r) /\ name \notin AfterHtmlTags
  <2>1. h \in Names \ (Texts \cup VoidTags)
    BY <1>1
  <2>2. Implied(t, name) = Push(r, h)
    BY <1>3 DEF Implied, r, AtRoot, InHead
  <2> HIDE DEF h
  <2>3. QED
    BY <1>2, <2>1, <2>2, PushBare
<1>4. CASE ~(AtRoot(r) /\ name \notin AfterHtmlTags)
           /\ InHead(r) /\ name \notin HeadTags \cup {"/head"}
  <2>1. Implied(t, name) = Pop(r) /\ Len(r.open) > 1
    BY <1>4 DEF Implied, r, InHead
  <2>2. QED
    BY <1>2, <2>1, PopBare
<1>5. CASE /\ ~(AtRoot(r) /\ name \notin AfterHtmlTags)
           /\ ~(InHead(r) /\ name \notin HeadTags \cup {"/head"})
  BY <1>2, <1>5 DEF Implied, r
<1>6. QED
  BY <1>3, <1>4, <1>5

\* Of the tree that is built.
BareTree == Bare(Tree) /\ Len(items) <= MaxItems

LEMMA BareInit == Init => BareTree
<1> SUFFICES ASSUME Init PROVE BareTree
  OBVIOUS
<1>1. Size(Tree) = 0 /\ Len(items) = 0
  BY EmptySeq DEF Init, Tree, Size
<1>m. MaxItems \in Nat
  BY TagsAssumption, Zenon
<1>2. Len(items) <= MaxItems
  BY <1>1, <1>m
<1>3. Bare(Tree)
  BY <1>1 DEF Bare
<1>4. QED
  BY <1>2, <1>3 DEF BareTree

LEMMA BareBecome ==
  ASSUME NEW u, Good(u), Bare(u), Become(u)
  PROVE  BareTree'
<1>1. Tree' = u
  BY Became
<1>2. Bare(Tree)'
  BY <1>1 DEF Bare, Size, IsOpen
<1>3. Len(items') <= MaxItems
  BY DEF Become
<1>4. QED
  BY <1>1, <1>2, <1>3 DEF BareTree

\* One case for each action.
LEMMA BareStep == IInv /\ BareTree /\ [Next]_vars => BareTree'
<1> SUFFICES ASSUME IInv, BareTree, [Next]_vars PROVE BareTree'
  OBVIOUS
<1>1. Bare(Tree) /\ Len(items) <= MaxItems
  BY DEF BareTree
<1>2. phase # "done" => Good(Tree)
  BY DEF IInv, Standing
<1>3. CASE Text
  <2>1. Good(Tree) /\ phase = "parsing"
    BY <1>2, <1>3 DEF Text
  <2>2. PICK text \in Texts : Become(Leaf(Implied(Tree, ""), text))
    BY <1>3 DEF Text
  <2> DEFINE r == Implied(Tree, "")
             u == Leaf(r, text)
  <2>3. "" \notin HeadTags \cup {"/head"} /\ "" \notin AfterHtmlTags /\ "" # "html"
    BY TagsAssumption DEF AfterHtmlTags
  <2>4. Good(r) /\ Size(r) # 0 /\ Size(r) # 1 /\ ~InHead(r)
    BY <2>1, <2>3, ImpliedGood
  <2>5. Bare(r)
    BY <1>1, <2>1, ImpliedBare
  <2> HIDE DEF r
  <2>6. Size(r) >= 2 /\ r.open # <<>>
    BY <2>4, TypeFacts DEF Good, WellTyped
  <2>7. Good(u) /\ Bare(u)
    BY <2>4, <2>5, <2>6, LeafGood, LeafBare DEF Names
  <2>8. Become(u)
    BY <2>2 DEF r
  <2> HIDE DEF u
  <2>9. QED
    BY <2>7, <2>8, BareBecome
<1>4. ASSUME NEW name \in Tags, StartTag(name) PROVE BareTree'
  <2> DEFINE r == Implied(Tree, name)
             u == IF name \in VoidTags THEN Leaf(r, name) ELSE Push(r, name)
  <2>1. phase = "parsing" /\ Good(Tree) /\ Become(u)
    BY <1>2, <1>4 DEF StartTag
  <2>2. name \in Names /\ name # "/head" /\ name # "/html" /\ name \notin Texts
    BY TagsAssumption DEF Names
  <2>3. /\ Good(r)
        /\ Size(r) = 0 => name = "html"
        /\ Size(r) = 1 => name \in {"head", "body"}
        /\ InHead(r) => name \in HeadTags
    BY <2>1, <2>2, ImpliedGood DEF AfterHtmlTags
  <2>4. Bare(r)
    BY <1>1, <2>1, ImpliedBare
  <2> HIDE DEF r
  <2>5. CASE name \in VoidTags
    <3>1. Size(r) # 0 /\ Size(r) # 1
      BY <2>3, <2>5, TagsAssumption
    <3>2. Size(r) >= 2 /\ r.open # <<>>
      BY <2>3, <3>1, TypeFacts DEF Good, WellTyped
    <3>3. u = Leaf(r, name)
      BY <2>5
    <3> HIDE DEF u
    <3>4. Good(u) /\ Bare(u)
      BY <2>2, <2>3, <2>4, <2>5, <3>2, <3>3, LeafGood, LeafBare
    <3>5. QED
      BY <2>1, <3>4, BareBecome
  <2>6. CASE name \notin VoidTags
    <3>1. u = Push(r, name)
      BY <2>6
    <3> HIDE DEF u
    <3>2. Good(u) /\ Bare(u)
      BY <2>2, <2>3, <2>4, <2>6, <3>1, PushGood, PushBare
    <3>3. QED
      BY <2>1, <3>2, BareBecome
  <2>7. QED
    BY <2>5, <2>6
<1>5. ASSUME NEW name \in EndTags, EndTag(name) PROVE BareTree'
  <2> DEFINE r == Implied(Tree, name)
             u == IF AtRoot(r) THEN r ELSE Pop(r)
             l == Len(r.open)
  <2>1. phase = "parsing" /\ Good(Tree) /\ Become(u)
    BY <1>2, <1>5 DEF EndTag
  <2>2. Good(r) /\ Size(r) # 0 /\ Bare(r)
    BY <1>1, <2>1, ImpliedGood, ImpliedBare DEF EndTags
  <2> HIDE DEF r
  <2>3. l \in Nat /\ l >= 1
    <3>1. WellTyped(r) /\ Path(r)
      BY <2>2 DEF Good
    <3>2. Size(r) >= 1
      BY <2>2, <3>1, TypeFacts
    <3>3. QED
      BY <3>1, <3>2, OpenFacts
  <2>4. AtRoot(r) \/ l > 1
    <3> HIDE DEF l
    <3>1. l = 1 \/ l > 1
      BY <2>3
    <3>2. QED
      BY <3>1 DEF AtRoot, l
  <2>5. Good(u) /\ Bare(u)
    BY <2>2, <2>4, PopGood, PopBare
  <2> HIDE DEF u
  <2>6. QED
    BY <2>1, <2>5, BareBecome
<1>6. CASE NamelessTag
  BY <1>1, <1>6 DEF NamelessTag, BareTree, Bare, Tree, Size, IsOpen
<1>7. CASE EndOfInput
  <2> DEFINE r == Implied(Tree, "")
             u == IF open = <<>> THEN r ELSE Tree
  <2>1. phase = "parsing" /\ Good(Tree) /\ Become(u)
    BY <1>2, <1>7 DEF EndOfInput
  <2>2. Good(r) /\ Bare(r)
    BY <1>1, <2>1, ImpliedGood, ImpliedBare
  <2> HIDE DEF r
  <2>3. Good(u) /\ Bare(u)
    BY <1>1, <2>1, <2>2
  <2> HIDE DEF u
  <2>4. QED
    BY <2>1, <2>3, BareBecome
<1>8. CASE CloseOne
  <2> DEFINE u == Pop(Tree)
  <2>1. phase = "closing" /\ Good(Tree) /\ Become(u) /\ Len(Tree.open) > 1
    BY <1>2, <1>8 DEF CloseOne, Tree
  <2>2. Good(u) /\ Bare(u)
    BY <1>1, <2>1, PopGood, PopBare
  <2> HIDE DEF u
  <2>3. QED
    BY <2>1, <2>2, BareBecome
<1>9. CASE Finish
  <2>1. items' = items /\ kids' = kids /\ open' = <<>>
    BY <1>9 DEF Finish
  <2>2. Len(open') = 0 /\ Size(Tree)' = Size(Tree)
    BY <2>1, EmptySeq DEF Tree, Size
  <2>3. \A n : ~IsOpen(Tree, n)'
    BY <2>2 DEF IsOpen, Tree
  <2>4. QED
    BY <1>1, <2>1, <2>2, <2>3 DEF BareTree, Bare, Tree
<1>10. CASE UNCHANGED vars
  BY <1>1, <1>10 DEF vars, BareTree, Bare, Tree, Size, IsOpen
<1>11. QED
  BY <1>3, <1>4, <1>5, <1>6, <1>7, <1>8, <1>9, <1>10 DEF Next

LEMMA Bareness == Spec => [](IInv /\ BareTree)
  BY InitIInv, StepIInv, BareInit, BareStep, PTL DEF Spec

-----------------------------------------------------------------------------
(* What is below an item, child by child *)

\* Of runs that follow each other, an earlier one ends before a later one
\* begins, and every number up to the end of the last is in one.
LEMMA RunsApart ==
  ASSUME NEW p \in Nat, NEW q \in Seq(Nat), NEW e \in Seq(Nat), Runs(p, q, e)
  PROVE  LET end == IF Len(q) = 0 THEN p ELSE e[Len(q)] IN
         /\ \A i, j \in 1..Len(q) : i < j => e[i] < q[j]
         /\ \A i \in 1..Len(q) : p < q[i] /\ q[i] <= e[i] /\ e[i] <= end
         /\ \A m \in Nat : p < m /\ m <= end => \E i \in 1..Len(q) : q[i] <= m /\ m <= e[i]
<1> DEFINE k == Len(q)
           end == IF k = 0 THEN p ELSE e[k]
<1>1. /\ k \in Nat
      /\ \A i \in 1..k : /\ q[i] \in Nat /\ e[i] \in Nat /\ q[i] <= e[i]
                         /\ q[i] = IF i = 1 THEN p + 1 ELSE e[i - 1] + 1
  BY ElementOfSeq DEF Runs
<1>2. \A i \in 1..k : i = 1 \/ i - 1 \in 1..k
  BY <1>1
<1> HIDE DEF k
<1> DEFINE T == {j \in Nat : j \in 1..k => p < q[j] /\ \A i \in 1..k : i < j => e[i] < q[j]}
           U == {j \in Nat : j \in 1..k =>
                   \A m \in Nat : p < m /\ m <= e[j] => \E i \in 1..k : q[i] <= m /\ m <= e[i]}
<1>3. 0 \in T /\ 0 \in U
  OBVIOUS
<1>4. ASSUME NEW j \in Nat, j \in T, j \in U PROVE j + 1 \in T /\ j + 1 \in U
  <2>1. CASE j + 1 \notin 1..k
    BY <2>1
  <2>2. CASE j + 1 \in 1..k /\ j = 0
    <3> DEFINE c == j + 1
    <3>1. c = 1 /\ c \in 1..k
      BY <2>2
    <3> HIDE DEF c
    <3>2. q[c] = p + 1 /\ q[c] \in Nat
      BY <1>1, <3>1
    <3>3. \A m \in Nat : p < m /\ m <= e[c] => q[c] <= m
      BY <3>2
    <3>4. p < q[c] /\ \A i \in 1..k : ~(i < c)
      BY <3>1, <3>2
    <3>5. c \in T /\ c \in U
      BY <3>1, <3>3, <3>4
    <3>6. QED
      BY <3>5 DEF c
  <2>3. CASE j + 1 \in 1..k /\ j # 0
    <3> DEFINE c == j + 1
    <3>1. c \in 1..k /\ j \in 1..k /\ c # 1 /\ c - 1 = j /\ j < c /\ c \in Nat
          /\ \A i \in 1..k : i < c => i < j \/ i = j
      BY <1>1, <2>3
    <3> HIDE DEF c
    <3>2. /\ q[c] = e[j] + 1 /\ q[j] <= e[j] /\ q[c] \in Nat /\ q[j] \in Nat
          /\ e[j] \in Nat /\ e[c] \in Nat /\ q[c] <= e[c]
      BY <1>1, <3>1
    <3>3. p < q[j] /\ \A i \in 1..k : i < j => e[i] < q[j]
      BY <1>4, <3>1
    <3>4. \A m \in Nat : p < m /\ m <= e[j] => \E i \in 1..k : q[i] <= m /\ m <= e[i]
      BY <1>4, <3>1
    <3>5. p < q[c]
      BY <3>2, <3>3
    <3>6. ASSUME NEW i \in 1..k, i < c PROVE e[i] < q[c]
      <4>1. e[i] \in Nat
        BY <1>1
      <4>2. CASE i = j
        BY <3>2, <4>2
      <4>3. CASE i < j
        <5>1. e[i] < q[j]
          BY <3>3, <4>3
        <5>2. QED
          BY <3>2, <4>1, <5>1
      <4>4. QED
        BY <3>1, <3>6, <4>2, <4>3
    <3>7. ASSUME NEW m \in Nat, p < m, m <= e[c] PROVE \E i \in 1..k : q[i] <= m /\ m <= e[i]
      <4>1. CASE m <= e[j]
        BY <3>4, <3>7, <4>1
      <4>2. CASE ~(m <= e[j])
        <5>1. q[c] <= m
          BY <3>2, <4>2
        <5>2. QED
          BY <3>1, <3>7, <5>1
      <4>3. QED
        BY <4>1, <4>2
    <3>8. c \in T
      BY <3>1, <3>5, <3>6
    <3>9. c \in U
      BY <3>1, <3>7
    <3>10. QED
      BY <3>8, <3>9 DEF c
  <2>4. QED
    BY <2>1, <2>2, <2>3
<1> HIDE DEF T, U
<1>5. Nat \subseteq T \cap U
  <2> DEFINE V == T \cap U
  <2>1. 0 \in V /\ \A j \in Nat : j \in V => j + 1 \in V
    BY <1>3, <1>4
  <2> HIDE DEF V
  <2>2. Nat \subseteq V
    BY <2>1, NatAll
  <2>3. QED
    BY <2>2 DEF V
<1>6. \A j \in 1..k : p < q[j] /\ \A i \in 1..k : i < j => e[i] < q[j]
  BY <1>5 DEF T
<1>7. ASSUME NEW i \in 1..k PROVE e[i] <= end
  <2>1. k \in 1..k /\ k # 0 /\ (i < k \/ i = k)
    BY <1>1
  <2>2. e[i] \in Nat /\ e[k] \in Nat /\ q[k] \in Nat /\ q[k] <= e[k] /\ (i < k => e[i] < q[k])
    BY <1>1, <1>6, <2>1
  <2>3. QED
    BY <2>1, <2>2
<1>8. ASSUME NEW m \in Nat, p < m, m <= end PROVE \E i \in 1..k : q[i] <= m /\ m <= e[i]
  <2>1. CASE k = 0
    BY <1>8, <2>1
  <2>2. CASE k # 0
    <3>1. k \in 1..k /\ k \in U
      BY <1>1, <1>5, <2>2
    <3>2. QED
      BY <1>8, <2>2, <3>1 DEF U
  <2>3. QED
    BY <2>1, <2>2
<1>9. QED
  BY <1>1, <1>6, <1>7, <1>8 DEF k

\* The items below n: those of its first child, those of the second, and so on.
LEMMA Below ==
  ASSUME NEW N, NEW F, Numbered(N, F), NEW n \in 1..N
  PROVE  /\ \A i \in 1..Len(kids[n]) : F[kids[n][i]] <= F[n]
         /\ \A i, j \in 1..Len(kids[n]) : i < j => F[kids[n][i]] < kids[n][j]
         /\ \A m \in Nat : n < m /\ m <= F[n] =>
              \E i \in 1..Len(kids[n]) : kids[n][i] <= m /\ m <= F[kids[n][i]]
<1> DEFINE q == kids[n]
           k == Len(q)
           e == [i \in 1..k |-> F[q[i]]]
<1>1. /\ N \in Nat /\ n \in Nat /\ k \in Nat /\ q \in Seq(Nat)
      /\ \A i \in 1..k : /\ q[i] \in 1..N /\ F[q[i]] \in Nat /\ q[i] <= F[q[i]]
                         /\ q[i] = IF i = 1 THEN n + 1 ELSE F[q[i - 1]] + 1
      /\ F[n] = IF k = 0 THEN n ELSE F[q[k]]
  <2>1. N \in Nat /\ n \in Nat /\ q \in Seq(1..N) /\ k \in Nat
    BY DEF Numbered
  <2>2. \A i \in 1..k : /\ q[i] \in 1..N /\ F[q[i]] \in Nat /\ q[i] <= F[q[i]]
                        /\ q[i] = IF i = 1 THEN n + 1 ELSE F[q[i - 1]] + 1
    BY DEF Numbered
  <2>3. F[n] = IF k = 0 THEN n ELSE F[q[k]]
    BY DEF Numbered
  <2>4. q \in Seq(Nat)
    <3> HIDE DEF q
    <3>1. 1..N \subseteq Nat
      BY <2>1
    <3>2. QED
      BY <2>1, <3>1, SeqMonotonic
  <2>5. QED
    BY <2>1, <2>2, <2>3, <2>4
<1> HIDE DEF q
<1>2. e \in Seq(Nat) /\ Len(e) = k /\ \A i \in 1..k : e[i] = F[q[i]]
  <2> HIDE DEF k
  <2>1. e \in [1..k -> Nat] /\ \A i \in 1..k : e[i] = F[q[i]]
    BY <1>1
  <2> HIDE DEF e
  <2>2. e \in Seq(Nat)
    BY <1>1, <2>1, SeqDef
  <2>3. QED
    BY <1>1, <2>1, <2>2, LenProperties
<1> HIDE DEF e
<1>3. Runs(n, q, e)
  <2> HIDE DEF k
  <2>1. \A i \in 1..k : i # 1 => i - 1 \in 1..k
    BY <1>1
  <2>2. \A i \in 1..k : q[i] = (IF i = 1 THEN n + 1 ELSE e[i - 1] + 1) /\ q[i] <= e[i]
    BY <1>1, <1>2, <2>1
  <2>3. QED
    BY <1>2, <2>2 DEF Runs, k
<1>4. LET end == IF Len(q) = 0 THEN n ELSE e[Len(q)] IN
      /\ \A i, j \in 1..Len(q) : i < j => e[i] < q[j]
      /\ \A i \in 1..Len(q) : n < q[i] /\ q[i] <= e[i] /\ e[i] <= end
      /\ \A m \in Nat : n < m /\ m <= end => \E i \in 1..Len(q) : q[i] <= m /\ m <= e[i]
  BY <1>1, <1>2, <1>3, RunsApart
<1> HIDE DEF k
<1>5. F[n] = IF k = 0 THEN n ELSE e[k]
  <2>1. k # 0 => k \in 1..k
    BY <1>1
  <2>2. QED
    BY <1>1, <1>2, <2>1
<1>6. /\ \A i, j \in 1..k : i < j => e[i] < q[j]
      /\ \A i \in 1..k : e[i] <= F[n]
      /\ \A m \in Nat : n < m /\ m <= F[n] => \E i \in 1..k : q[i] <= m /\ m <= e[i]
  BY <1>4, <1>5 DEF k
<1>7. QED
  BY <1>2, <1>6 DEF k, q

\* All that is below an item is in the tree.
LEMMA InTree ==
  ASSUME NEW N, NEW F, Numbered(N, F), NEW n \in 1..N
  PROVE  n..F[n] \subseteq 1..N
<1> DEFINE T == {m \in 1..N : F[m] <= N}
<1>1. N \in Nat /\ \A m \in 1..N : F[m] \in Nat
  BY DEF Numbered
<1>2. ASSUME NEW m \in 1..N, \A c \in (m + 1)..N : c \in T PROVE m \in T
  <2> DEFINE k == Len(kids[m])
             c == kids[m][k]
  <2>1. k \in Nat /\ F[m] = (IF k = 0 THEN m ELSE F[c])
        /\ \A i \in 1..k : kids[m][i] \in 1..N /\ m < kids[m][i]
    BY DEF Numbered
  <2> HIDE DEF k
  <2>2. CASE k = 0
    BY <1>1, <2>1, <2>2
  <2>3. CASE k # 0
    <3>1. k \in 1..k
      BY <2>1, <2>3
    <3>2. c \in 1..N /\ m < c
      BY <2>1, <3>1
    <3> HIDE DEF c
    <3>3. c \in (m + 1)..N
      BY <1>1, <3>2
    <3>4. F[m] <= N
      BY <1>2, <2>1, <2>3, <3>3
    <3>5. QED
      BY <3>4
  <2>4. QED
    BY <2>2, <2>3
<1> HIDE DEF T
<1>3. n \in T
  BY <1>1, <1>2, DownInduction
<1>4. QED
  BY <1>1, <1>3 DEF T

\* A finished tree, with what no tag or text has children below.
Finished(N, F) ==
  /\ Numbered(N, F) /\ MaxItems \in Nat /\ N <= MaxItems
  /\ \A n \in 1..N : IsText(n) \/ items[n] \in {"input", "br"} => Len(kids[n]) = 0

\* There is such a tree when the parser is done.
LEMMA FinishedTree ==
  ASSUME IInv, BareTree, phase = "done"
  PROVE  \E F : Finished(Len(items), F)
<1> DEFINE N == Len(items)
<1>1. PICK F \in [1..N -> Nat] : Numbered(N, F)
  BY NumberedTree
<1>2. MaxItems \in Nat
  BY TagsAssumption, Zenon
<1>3. N <= MaxItems /\ Bare(Tree)
  BY DEF BareTree
<1>4. N = Size(Tree) /\ Tree.items = items /\ Tree.kids = kids
  BY DEF Tree, Size
<1>5. items \in Seq(Names)
  BY StandingFields, TypeFacts DEF IInv, Good
<1> HIDE DEF N
<1>6. \A n \in 1..N : items[n] \in Names
  BY <1>5, ElementOfSeq DEF N
<1>7. \A n \in 1..N : IsText(n) \/ items[n] \in {"input", "br"} => items[n] \in Texts \cup VoidTags
  BY <1>6, BoxesAssumption DEF Names, IsText
<1>8. \A n \in 1..N : items[n] \in Texts \cup VoidTags => Len(kids[n]) = 0
  BY <1>3, <1>4, EmptySeq DEF Bare
<1>9. Finished(N, F)
  BY <1>1, <1>2, <1>3, <1>7, <1>8 DEF Finished, N
<1>10. QED
  BY <1>9 DEF N

\* What a function gives for the children of an item.
LEMMA OfKids ==
  ASSUME NEW N, NEW F, Numbered(N, F), NEW n \in 1..N, NEW S, NEW u,
         \A i \in 1..Len(kids[n]) : u[kids[n][i]] \in S
  PROVE  LET r == [i \in DOMAIN kids[n] |-> u[kids[n][i]]] IN
         /\ r \in Seq(S) /\ Len(r) = Len(kids[n])
         /\ \A i \in 1..Len(kids[n]) : r[i] = u[kids[n][i]]
<1> DEFINE q == kids[n]
           k == Len(q)
           r == [i \in DOMAIN q |-> u[q[i]]]
<1>1. k \in Nat /\ q \in Seq(1..N)
  BY DEF Numbered
<1>2. DOMAIN q = 1..k
  <2> HIDE DEF q
  <2>1. QED
    BY <1>1, LenProperties
<1>3. \A i \in 1..k : u[q[i]] \in S
  OBVIOUS
<1> HIDE DEF k
<1>4. r \in [1..k -> S] /\ \A i \in 1..k : r[i] = u[q[i]]
  BY <1>2, <1>3
<1> HIDE DEF r, q
<1>5. r \in Seq(S)
  BY <1>1, <1>4, SeqDef
<1>6. Len(r) = k
  BY <1>1, <1>4, <1>5, LenProperties
<1>7. QED
  BY <1>4, <1>5, <1>6 DEF r, q, k

-----------------------------------------------------------------------------
(* What is in the lines of an item *)

ContentFrom(n, u) ==
  IF IsText(n) \/ items[n] \in {"input", "button"} THEN <<n>>
  ELSE IF items[n] = "br" THEN <<Break>>
  ELSE FlattenSeq([i \in DOMAIN kids[n] |-> u[kids[n][i]]])

\* Content is the function it looks like.
LEMMA ContentRecurs ==
  ASSUME NEW N, NEW F, Numbered(N, F)
  PROVE  \A n \in 1..N : Content[n] = ContentFrom(n, Content)
<1> DEFINE S == Seq(Nat)
           step == [q \in (1..N) \X [1..N -> S] |-> ContentFrom(q[1], q[2])]
<1>1. /\ N \in Nat /\ Items = 1..N
      /\ \A n \in 1..N : \A i \in 1..Len(kids[n]) : kids[n][i] \in (n + 1)..N
  <2>1. /\ N \in Nat /\ Items = 1..N
        /\ \A n \in 1..N : \A i \in 1..Len(kids[n]) : kids[n][i] \in 1..N /\ n < kids[n][i]
    BY DEF Numbered
  <2>2. QED
    BY <2>1
<1>2. ASSUME NEW n \in 1..N, NEW u \in [1..N -> S] PROVE ContentFrom(n, u) \in S
  <2> DEFINE r == [i \in DOMAIN kids[n] |-> u[kids[n][i]]]
  <2>1. \A i \in 1..Len(kids[n]) : kids[n][i] \in 1..N
    BY DEF Numbered
  <2>2. \A i \in 1..Len(kids[n]) : u[kids[n][i]] \in S
    BY <2>1
  <2> HIDE DEF S
  <2>3. r \in Seq(S)
    BY <2>2, OfKids
  <2> HIDE DEF r
  <2>4. FlattenSeq(r) \in S
    BY <2>3, FlattenOrdered DEF S
  <2>5. <<n>> \in S /\ <<Break>> \in S
    BY <1>1 DEF S, Break
  <2>6. QED
    BY <2>4, <2>5 DEF ContentFrom, r
<1>3. ASSUME NEW n \in 1..N, NEW u, NEW v, \A m \in (n + 1)..N : u[m] = v[m]
      PROVE ContentFrom(n, u) = ContentFrom(n, v)
  <2>1. DOMAIN kids[n] = 1..Len(kids[n])
    <3>1. kids[n] \in Seq(1..N)
      BY DEF Numbered
    <3>2. QED
      BY <3>1, LenProperties
  <2>2. \A i \in DOMAIN kids[n] : u[kids[n][i]] = v[kids[n][i]]
    BY <1>1, <1>3, <2>1
  <2>3. [i \in DOMAIN kids[n] |-> u[kids[n][i]]] = [i \in DOMAIN kids[n] |-> v[kids[n][i]]]
    BY <2>2
  <2>4. QED
    BY <2>3 DEF ContentFrom
<1> HIDE DEF S
<1>4. step \in [(1..N) \X [1..N -> S] -> S]
  BY <1>2
<1>5. \A n \in 1..N, u \in [1..N -> S] : step[<<n, u>>] = ContentFrom(n, u)
  OBVIOUS
<1> HIDE DEF step
<1>6. FromAbove(N, S, step)
  <2>1. ASSUME NEW n \in 1..N, NEW u \in [1..N -> S], NEW v \in [1..N -> S],
               \A m \in (n + 1)..N : u[m] = v[m]
        PROVE  step[<<n, u>>] = step[<<n, v>>]
    <3>1. ContentFrom(n, u) = ContentFrom(n, v)
      BY <1>3, <2>1
    <3>2. step[<<n, u>>] = ContentFrom(n, u) /\ step[<<n, v>>] = ContentFrom(n, v)
      BY <1>5
    <3>3. QED
      BY <3>1, <3>2
  <2>2. QED
    BY <2>1 DEF FromAbove
<1>7. <<>> \in S
  BY EmptySeq DEF S
<1>8. PICK u \in [1..N -> S] : RecursDown(u, N, step)
  BY <1>1, <1>4, <1>6, <1>7, DownRecursion
<1> DEFINE Solves(f) == f = [n \in Items |-> ContentFrom(n, f)]
<1>9. Solves(u)
  BY <1>1, <1>5, <1>8 DEF RecursDown
<1>10. Content = CHOOSE f : Solves(f)
  BY DEF Content, ContentFrom
<1> HIDE DEF Solves
<1>11. Solves(Content)
  BY <1>9, <1>10
<1>12. Content = [n \in 1..N |-> ContentFrom(n, Content)]
  BY <1>1, <1>11 DEF Solves
<1>13. QED
  BY <1>12

Shown(m) == IsText(m) \/ items[m] = "input"

\* Item m is item b, or is in it and b is a button.
Holds(b, m, F) == m = b \/ (items[b] = "button" /\ b <= m /\ m <= F[b])

Covered(n, F, B) ==
  \A m \in n..F[n] : Shown(m) => \E b \in B : b # Break /\ Holds(b, m, F)

\* The content of item n is of what is below it, in order, and leaves out no more
\* than what is in a button.
Contained(n, F) ==
  /\ Content[n] \in Seq(Nat) /\ Ordered(Content[n], Later)
  /\ \A b \in Elems(Content[n]) : b = Break \/ (n <= b /\ b <= F[n])
  /\ Covered(n, F, Elems(Content[n]))

LEMMA OneElem == \A x : Len(<<x>>) = 1 /\ Elems(<<x>>) = {x} /\ \A R : Ordered(<<x>>, R)
<1>1. ASSUME NEW x PROVE Len(<<x>>) = 1 /\ Elems(<<x>>) = {x} /\ \A R : Ordered(<<x>>, R)
  <2>1. Len(<<x>>) = 1 /\ <<x>>[1] = x /\ 1 \in 1..1 /\ \A i \in 1..1 : i = 1
    OBVIOUS
  <2>2. QED
    BY <2>1 DEF Elems, Ordered
<1>2. QED
  BY <1>1

\* Children one after the other: what their parts cover, the item covers, unless
\* it has to be covered itself.
LEMMA CoveredByKids ==
  ASSUME NEW N, NEW F, Numbered(N, F), NEW n \in 1..N, ~Shown(n), NEW B,
         \A i \in 1..Len(kids[n]) : \E C \in SUBSET B : Covered(kids[n][i], F, C)
  PROVE  Covered(n, F, B)
<1> SUFFICES ASSUME NEW m \in n..F[n], Shown(m)
             PROVE  \E b \in B : b # Break /\ Holds(b, m, F)
  BY DEF Covered
<1>1. n \in Nat /\ F[n] \in Nat /\ m \in Nat /\ m # n /\ N \in Nat
  BY DEF Numbered
<1>2. n < m /\ m <= F[n]
  BY <1>1
<1>3. PICK i \in 1..Len(kids[n]) : kids[n][i] <= m /\ m <= F[kids[n][i]]
  BY <1>1, <1>2, Below
<1>4. kids[n][i] \in 1..N /\ F[kids[n][i]] \in Nat
  BY DEF Numbered
<1>5. m \in kids[n][i]..F[kids[n][i]]
  BY <1>1, <1>3, <1>4
<1>6. QED
  BY <1>5 DEF Covered

\* Of an item without children there is nothing below.
LEMMA CoveredAlone ==
  ASSUME NEW N, NEW F, Finished(N, F), NEW n \in 1..N, NEW B,
         IsText(n) \/ items[n] \in {"input", "br"}, Shown(n) => n \in B
  PROVE  F[n] = n /\ Covered(n, F, B)
<1>1. Numbered(N, F) /\ Len(kids[n]) = 0
  BY DEF Finished
<1>2. F[n] = n /\ n \in Nat /\ n # 0
  BY <1>1 DEF Numbered
<1>3. \A m \in n..F[n] : m = n
  BY <1>2
<1>4. QED
  BY <1>2, <1>3 DEF Covered, Holds, Break

\* From the children to the item: what they contain, one after the other.
LEMMA ContainedStep ==
  ASSUME NEW N, NEW F, Finished(N, F), NEW n \in 1..N,
         \A i \in 1..Len(kids[n]) : Contained(kids[n][i], F)
  PROVE  Contained(n, F)
<1>1. Numbered(N, F) /\ N \in Nat /\ n \in Nat /\ F[n] \in Nat /\ n <= F[n]
  <2>1. Numbered(N, F)
    BY DEF Finished
  <2>2. QED
    BY <2>1 DEF Numbered
<1>2. Content[n] = ContentFrom(n, Content)
  BY <1>1, ContentRecurs
<1>3. CASE IsText(n) \/ items[n] \in {"input", "button"}
  <2> DEFINE s == <<n>>
  <2>1. Content[n] = s
    BY <1>2, <1>3 DEF ContentFrom
  <2>2. s \in Seq(Nat) /\ Elems(s) = {n} /\ \A R : Ordered(s, R)
    <3>1. s \in Seq(Nat)
      BY <1>1
    <3>2. QED
      BY <3>1, OneElem
  <2> HIDE DEF s
  <2>3. n <= F[n] /\ n # 0
    BY <1>1
  <2>4. Covered(n, F, {n})
    <3>1. CASE IsText(n) \/ items[n] = "input"
      <4>1. n \in {n}
        OBVIOUS
      <4>2. QED
        BY <3>1, <4>1, CoveredAlone
    <3>2. CASE items[n] = "button"
      <4>1. \A m \in n..F[n] : n <= m /\ m <= F[n]
        BY <1>1
      <4>2. QED
        BY <2>3, <3>2, <4>1 DEF Covered, Holds, Break
    <3>3. QED
      BY <1>3, <3>1, <3>2
  <2>5. QED
    BY <2>1, <2>2, <2>3, <2>4, <1>1 DEF Contained
<1>4. CASE ~IsText(n) /\ items[n] = "br"
  <2> DEFINE s == <<Break>>
  <2>1. Content[n] = s
    BY <1>2, <1>4 DEF ContentFrom
  <2>2. s \in Seq(Nat) /\ Elems(s) = {Break} /\ \A R : Ordered(s, R)
    <3>1. s \in Seq(Nat)
      BY DEF Break
    <3>2. QED
      BY <3>1, OneElem
  <2> HIDE DEF s
  <2>3. ~Shown(n)
    BY <1>4 DEF Shown
  <2>4. Covered(n, F, {Break})
    BY <1>4, <2>3, CoveredAlone
  <2>5. QED
    BY <2>1, <2>2, <2>4 DEF Contained
<1>5. CASE ~(IsText(n) \/ items[n] \in {"input", "button", "br"})
  <2> DEFINE q == kids[n]
             k == Len(q)
             r == [i \in DOMAIN q |-> Content[q[i]]]
             s == FlattenSeq(r)
  <2>1. Content[n] = s /\ ~Shown(n)
    BY <1>2, <1>5 DEF ContentFrom, Shown
  <2>2. /\ \A i \in 1..k : q[i] \in 1..N /\ n < q[i] /\ F[q[i]] \in Nat /\ F[q[i]] <= F[n]
        /\ \A i, j \in 1..k : i < j => F[q[i]] < q[j]
    <3>1. \A i \in 1..k : q[i] \in 1..N /\ n < q[i] /\ F[q[i]] \in Nat
      BY <1>1 DEF Numbered
    <3>2. QED
      BY <1>1, <3>1, Below
  <2>3. \A i \in 1..k : Contained(q[i], F)
    OBVIOUS
  <2>4. r \in Seq(Seq(Nat)) /\ Len(r) = k /\ \A i \in 1..k : r[i] = Content[q[i]]
    <3>1. \A i \in 1..k : Content[q[i]] \in Seq(Nat)
      BY <2>3 DEF Contained
    <3>2. QED
      BY <1>1, <3>1, OfKids
  <2>5. /\ s \in Seq(Nat) /\ Elems(s) = UNION {Elems(r[i]) : i \in 1..Len(r)}
        /\ \A R : (/\ \A i \in 1..Len(r) : Ordered(r[i], R)
                   /\ \A i, j \in 1..Len(r) : i < j => Between(Elems(r[i]), Elems(r[j]), R))
                 => Ordered(s, R)
    <3> HIDE DEF r
    <3>1. QED
      BY <2>4, FlattenOrdered
  <2> HIDE DEF s, r, k, q
  <2>6. ASSUME NEW i \in 1..k, NEW b \in Elems(r[i])
        PROVE  b = Break \/ (b \in Nat /\ q[i] <= b /\ b <= F[q[i]])
    <3>1. r[i] \in Seq(Nat)
      BY <2>4, ElementOfSeq
    <3>2. b \in Nat
      BY <3>1, ElementOfSeq DEF Elems
    <3>3. QED
      BY <2>3, <2>4, <3>2 DEF Contained
  <2>7. ASSUME NEW i \in 1..k, NEW j \in 1..k, i < j
        PROVE  Between(Elems(r[i]), Elems(r[j]), Later)
    <3>1. SUFFICES ASSUME NEW a \in Elems(r[i]), NEW b \in Elems(r[j])
                   PROVE  <<a, b>> \in Later
      BY DEF Between
    <3>2. F[q[i]] < q[j] /\ F[q[i]] \in Nat /\ q[j] \in Nat
      BY <1>1, <2>2, <2>7
    <3>3. /\ a = Break \/ (a \in Nat /\ a <= F[q[i]])
          /\ b = Break \/ (b \in Nat /\ q[j] <= b)
      BY <2>6
    <3>4. QED
      BY <3>2, <3>3 DEF Later, Break
  <2>8. Ordered(s, Later)
    <3>1. \A i \in 1..k : Ordered(r[i], Later)
      BY <2>3, <2>4 DEF Contained
    <3>2. QED
      BY <2>4, <2>5, <2>7, <3>1
  <2>9. \A b \in Elems(s) : b = Break \/ (n <= b /\ b <= F[n])
    <3>1. ASSUME NEW b \in Elems(s), b # Break PROVE n <= b /\ b <= F[n]
      <4>1. PICK i \in 1..k : b \in Elems(r[i])
        BY <2>4, <2>5
      <4>2. b \in Nat /\ q[i] <= b /\ b <= F[q[i]]
        BY <2>6, <3>1, <4>1
      <4>3. q[i] \in Nat /\ n < q[i] /\ F[q[i]] \in Nat /\ F[q[i]] <= F[n]
        BY <1>1, <2>2
      <4>4. QED
        BY <1>1, <4>2, <4>3
    <3>2. QED
      BY <3>1
  <2>10. Covered(n, F, Elems(s))
    <3>1. \A i \in 1..k : Elems(r[i]) \in SUBSET Elems(s) /\ Covered(q[i], F, Elems(r[i]))
      BY <2>3, <2>4, <2>5 DEF Contained
    <3>2. QED
      BY <1>1, <2>1, <3>1, CoveredByKids DEF q, k
  <2>11. QED
    BY <2>1, <2>5, <2>8, <2>9, <2>10 DEF Contained
<1>6. QED
  BY <1>3, <1>4, <1>5

\* From the last item down.
LEMMA ContentContained ==
  ASSUME NEW N, NEW F, Finished(N, F)
  PROVE  \A n \in 1..N : Contained(n, F)
<1> DEFINE T == {n \in 1..N : Contained(n, F)}
<1>1. N \in Nat
  BY DEF Finished, Numbered
<1>2. ASSUME NEW n \in 1..N, \A m \in (n + 1)..N : m \in T PROVE n \in T
  <2>1. \A i \in 1..Len(kids[n]) : kids[n][i] \in 1..N /\ n < kids[n][i]
    BY DEF Finished, Numbered
  <2>2. \A i \in 1..Len(kids[n]) : kids[n][i] \in (n + 1)..N
    BY <1>1, <2>1
  <2>3. \A i \in 1..Len(kids[n]) : Contained(kids[n][i], F)
    BY <1>2, <2>2
  <2>4. QED
    BY <2>3, ContainedStep
<1> HIDE DEF T
<1>3. 1..N \subseteq T
  BY <1>1, <1>2, DownInduction
<1>4. QED
  BY <1>3 DEF T

-----------------------------------------------------------------------------
(* The lines of an item, and heights *)

\* Different numbers up to N are at most N.
LEMMA RisingIsShort ==
  ASSUME NEW N \in Nat, NEW s \in Seq(Nat), Ordered(s, Less),
         \A x \in Elems(s) : 1 <= x /\ x <= N
  PROVE  Len(s) <= N
<1> DEFINE k == Len(s)
           T == {i \in Nat : i \in 1..k => i <= s[i]}
<1>1. k \in Nat /\ \A i \in 1..k : s[i] \in Nat /\ 1 <= s[i] /\ s[i] <= N
  BY LenProperties, ElementOfSeq DEF Elems
<1>2. \A i, j \in 1..k : i < j => s[i] < s[j]
  BY DEF Ordered, Less
<1> HIDE DEF k
<1>3. 0 \in T
  OBVIOUS
<1>4. ASSUME NEW i \in Nat, i \in T PROVE i + 1 \in T
  <2>1. CASE i + 1 \in 1..k /\ i # 0
    <3>1. i \in 1..k /\ i < i + 1
      BY <1>1, <2>1
    <3>2. i <= s[i] /\ s[i] < s[i + 1] /\ s[i] \in Nat /\ s[i + 1] \in Nat
      BY <1>1, <1>2, <1>4, <2>1, <3>1
    <3>3. i + 1 <= s[i + 1]
      BY <3>2
    <3>4. QED
      BY <3>3
  <2>2. CASE ~(i + 1 \in 1..k /\ i # 0)
    BY <1>1, <2>2
  <2>3. QED
    BY <2>1, <2>2
<1> HIDE DEF T
<1>5. Nat \subseteq T
  BY <1>3, <1>4, NatAll
<1>6. k # 0 => k \in 1..k /\ k <= s[k]
  BY <1>1, <1>5 DEF T
<1>7. k <= N
  BY <1>1, <1>6
<1>8. QED
  BY <1>7 DEF k

\* The lines of an item: its boxes in order, and fewer than the page is wide.
Lined(n, F, lines) ==
  /\ lines \in Seq(Seq(Nat)) /\ Rising(lines)
  /\ \A l \in 1..Len(lines) :
       /\ Len(lines[l]) < Width
       /\ \A x \in Elems(lines[l]) : n <= x /\ x <= F[n]
  /\ Covered(n, F, UNION {Elems(lines[l]) : l \in 1..Len(lines)})

LEMMA LinesLined ==
  ASSUME NEW N, NEW F, Finished(N, F), NEW n \in 1..N
  PROVE  Lined(n, F, LinesOf(n))
<1> DEFINE c == Content[n]
           lines == LinesOf(n)
           L == Len(lines)
           all == UNION {Elems(lines[l]) : l \in 1..L}
<1>1. /\ c \in Seq(Nat) /\ Ordered(c, Later)
      /\ \A b \in Elems(c) : b = Break \/ (n <= b /\ b <= F[n])
      /\ Covered(n, F, Elems(c))
  BY ContentContained DEF Contained
<1>2. LaidOut(c, Len(c), lines)
  BY <1>1, CutLaidOut DEF LinesOf
<1>3. /\ N \in Nat /\ MaxItems \in Nat /\ N <= MaxItems /\ n..F[n] \subseteq 1..N
      /\ n \in Nat /\ F[n] \in Nat
  <2>1. Numbered(N, F) /\ MaxItems \in Nat /\ N <= MaxItems
    BY DEF Finished
  <2>2. N \in Nat /\ n \in Nat /\ F[n] \in Nat
    BY <2>1 DEF Numbered
  <2>3. n..F[n] \subseteq 1..N
    BY <2>1, InTree
  <2>4. QED
    BY <2>1, <2>2, <2>3
<1> HIDE DEF c, lines
<1>4. /\ lines \in Seq(Seq(Nat)) /\ Rising(lines)
      /\ \A l \in 1..L : lines[l] \in Seq(Nat) /\ Ordered(lines[l], Less)
  BY <1>2, ElementOfSeq DEF LaidOut, Rising
<1>5. ASSUME NEW l \in 1..L, NEW x \in Elems(lines[l])
      PROVE  x \in Nat /\ n <= x /\ x <= F[n] /\ 1 <= x /\ x <= N
  <2>1. PICK j \in 1..Len(c) : x # Break /\ x = c[j]
    BY <1>2 DEF LaidOut
  <2>2. x \in Elems(c) /\ x \in Nat
    BY <1>1, <2>1, ElementOfSeq DEF Elems
  <2>3. n <= x /\ x <= F[n]
    BY <1>1, <2>1, <2>2
  <2>4. x \in n..F[n]
    BY <1>3, <2>2, <2>3
  <2>5. QED
    BY <1>3, <2>2, <2>3, <2>4
<1>6. \A l \in 1..L : Len(lines[l]) < Width
  <2>1. ASSUME NEW l \in 1..L PROVE Len(lines[l]) < Width
    <3> DEFINE s == lines[l]
    <3>1. s \in Seq(Nat) /\ Ordered(s, Less) /\ \A x \in Elems(s) : 1 <= x /\ x <= N
      BY <1>4, <1>5
    <3> HIDE DEF s
    <3>2. Len(s) <= N /\ Len(s) \in Nat
      BY <1>3, <3>1, RisingIsShort, LenProperties
    <3>3. Len(s) < Width
      BY <1>3, <3>2 DEF Width
    <3>4. QED
      BY <3>3 DEF s
  <2>2. QED
    BY <2>1
<1>7. Covered(n, F, all)
  <2>1. ASSUME NEW b \in Elems(c), b # Break PROVE b \in all
    <3>1. PICK j \in 1..Len(c) : b = c[j]
      BY DEF Elems
    <3>2. QED
      BY <1>2, <2>1, <3>1 DEF LaidOut
  <2> HIDE DEF all
  <2>2. QED
    BY <1>1, <2>1 DEF Covered
<1>8. QED
  BY <1>4, <1>5, <1>6, <1>7 DEF Lined, lines

LEMMA HeightsType ==
  ASSUME NEW S, NEW lines \in Seq(S)
  PROVE  /\ Heights(lines) \in Seq(Nat) /\ Len(Heights(lines)) = Len(lines)
         /\ \A k \in 1..Len(lines) : Heights(lines)[k] = LineHeight(lines[k])
<1> DEFINE k == Len(lines)
           h == Heights(lines)
<1>1. k \in Nat /\ DOMAIN lines = 1..k
  BY LenProperties
<1> HIDE DEF k
<1>2. h \in [1..k -> Nat] /\ \A i \in 1..k : h[i] = LineHeight(lines[i])
  BY <1>1 DEF Heights, LineHeight
<1> HIDE DEF h
<1>3. h \in Seq(Nat)
  BY <1>1, <1>2, SeqDef
<1>4. Len(h) = k
  BY <1>1, <1>2, <1>3, LenProperties
<1>5. QED
  BY <1>2, <1>3, <1>4 DEF h, k

HeightFrom(n, u) ==
  IF LayoutMode(n) = "block" THEN Total([i \in DOMAIN kids[n] |-> u[kids[n][i]]])
  ELSE Total(Heights(LinesOf(n)))

LEMMA HeightFromType ==
  ASSUME NEW N, NEW F, Finished(N, F), NEW n \in 1..N, NEW u,
         \A i \in 1..Len(kids[n]) : u[kids[n][i]] \in Nat
  PROVE  HeightFrom(n, u) \in Nat
<1> DEFINE r == [i \in DOMAIN kids[n] |-> u[kids[n][i]]]
           lines == LinesOf(n)
           h == Heights(lines)
<1>1. r \in Seq(Nat)
  <2>1. Numbered(N, F)
    BY DEF Finished
  <2>2. QED
    BY <2>1, OfKids
<1>2. h \in Seq(Nat)
  <2>1. lines \in Seq(Seq(Nat))
    BY LinesLined DEF Lined
  <2> HIDE DEF lines
  <2>2. QED
    BY <2>1, HeightsType
<1> HIDE DEF r, h
<1>3. Total(r) \in Nat /\ Total(h) \in Nat
  BY <1>1, <1>2, EndsRise
<1>4. QED
  BY <1>3 DEF HeightFrom, r, h

\* Height is the function it looks like.
LEMMA HeightRecurs ==
  ASSUME NEW N, NEW F, Finished(N, F)
  PROVE  \A n \in 1..N : Height[n] = HeightFrom(n, Height) /\ Height[n] \in Nat
<1> DEFINE step == [q \in (1..N) \X [1..N -> Nat] |-> HeightFrom(q[1], q[2])]
<1>1. /\ N \in Nat /\ Items = 1..N
      /\ \A n \in 1..N : \A i \in 1..Len(kids[n]) : kids[n][i] \in (n + 1)..N
      /\ \A n \in 1..N : \A i \in 1..Len(kids[n]) : kids[n][i] \in 1..N
      /\ \A n \in 1..N : DOMAIN kids[n] = 1..Len(kids[n])
  <2>1. Numbered(N, F)
    BY DEF Finished
  <2>2. /\ N \in Nat /\ Items = 1..N
        /\ \A n \in 1..N : \A i \in 1..Len(kids[n]) : kids[n][i] \in 1..N /\ n < kids[n][i]
        /\ \A n \in 1..N : kids[n] \in Seq(1..N)
    BY <2>1 DEF Numbered
  <2>3. \A n \in 1..N : DOMAIN kids[n] = 1..Len(kids[n])
    BY <2>2, LenProperties
  <2>4. \A n \in 1..N : \A i \in 1..Len(kids[n]) : kids[n][i] \in (n + 1)..N
    BY <2>2
  <2>5. QED
    BY <2>2, <2>3, <2>4
<1>2. ASSUME NEW n \in 1..N, NEW u \in [1..N -> Nat] PROVE HeightFrom(n, u) \in Nat
  <2>1. \A i \in 1..Len(kids[n]) : u[kids[n][i]] \in Nat
    BY <1>1
  <2>2. QED
    BY <2>1, HeightFromType
<1>3. ASSUME NEW n \in 1..N, NEW u, NEW v, \A m \in (n + 1)..N : u[m] = v[m]
      PROVE HeightFrom(n, u) = HeightFrom(n, v)
  <2>1. \A i \in DOMAIN kids[n] : u[kids[n][i]] = v[kids[n][i]]
    BY <1>1, <1>3
  <2>2. [i \in DOMAIN kids[n] |-> u[kids[n][i]]] = [i \in DOMAIN kids[n] |-> v[kids[n][i]]]
    BY <2>1
  <2>3. QED
    BY <2>2 DEF HeightFrom
<1>4. step \in [(1..N) \X [1..N -> Nat] -> Nat]
  BY <1>2
<1>5. \A n \in 1..N, u \in [1..N -> Nat] : step[<<n, u>>] = HeightFrom(n, u)
  OBVIOUS
<1> HIDE DEF step
<1>6. FromAbove(N, Nat, step)
  <2>1. ASSUME NEW n \in 1..N, NEW u \in [1..N -> Nat], NEW v \in [1..N -> Nat],
               \A m \in (n + 1)..N : u[m] = v[m]
        PROVE  step[<<n, u>>] = step[<<n, v>>]
    <3>1. HeightFrom(n, u) = HeightFrom(n, v)
      BY <1>3, <2>1
    <3>2. step[<<n, u>>] = HeightFrom(n, u) /\ step[<<n, v>>] = HeightFrom(n, v)
      BY <1>5
    <3>3. QED
      BY <3>1, <3>2
  <2>2. QED
    BY <2>1 DEF FromAbove
<1>7. PICK u \in [1..N -> Nat] : RecursDown(u, N, step)
  BY <1>1, <1>4, <1>6, DownRecursion
<1> DEFINE Solves(f) == f = [n \in Items |-> HeightFrom(n, f)]
<1>8. Solves(u)
  BY <1>1, <1>5, <1>7 DEF RecursDown
<1>9. Height = CHOOSE f : Solves(f)
  BY DEF Height, HeightFrom
<1> HIDE DEF Solves
<1>10. Solves(Height)
  BY <1>8, <1>9
<1>11. Height = [n \in 1..N |-> HeightFrom(n, Height)]
  BY <1>1, <1>10 DEF Solves
<1>12. \A n \in 1..N : Height[n] = HeightFrom(n, Height)
  BY <1>11
<1> DEFINE T == {n \in 1..N : Height[n] \in Nat}
<1>13. ASSUME NEW n \in 1..N, \A m \in (n + 1)..N : m \in T PROVE n \in T
  <2>1. \A i \in 1..Len(kids[n]) : Height[kids[n][i]] \in Nat
    BY <1>1, <1>13
  <2>2. HeightFrom(n, Height) \in Nat
    BY <2>1, HeightFromType
  <2>3. QED
    BY <1>12, <2>2
<1> HIDE DEF T
<1>14. 1..N \subseteq T
  BY <1>1, <1>13, DownInduction
<1>15. QED
  BY <1>12, <1>14 DEF T

-----------------------------------------------------------------------------
(* The objects of the layout *)

Obj ==
  {o \in [kind : {"block", "line", "box"}, item : Nat, left : Nat, right : Nat,
          top : Nat, bottom : Nat] :
     /\ o.kind = "line" => o.left = 0 /\ o.right = Width
     /\ o.kind = "box" => o.left < o.right /\ o.top < o.bottom}

\* What comes later in the list does not cover what comes before: a block it may,
\* but a line never up to its right end, and nothing that is below or beside it.
Clear(o, p) ==
  \/ o.kind = "block"
  \/ o.bottom <= p.top
  \/ o.kind = "box" /\ o.right <= p.left
  \/ o.kind = "line" /\ p.right < Width

Follows ==
  {pair \in Obj \X Obj :
     /\ Clear(pair[1], pair[2])
     /\ pair[1].kind = "box" /\ pair[2].kind = "box" => pair[1].item < pair[2].item}

BoxItems(B) == {o.item : o \in {b \in B : b.kind = "box"}}

LEMMA ObjectFields ==
  ASSUME NEW kind, NEW n, NEW left, NEW right, NEW top, NEW height
  PROVE  LET o == Object(kind, n, left, right, top, height) IN
         /\ o.kind = kind /\ o.item = n /\ o.left = left /\ o.right = right
         /\ o.top = top /\ o.bottom = top + height
  BY DEF Object

LEMMA ObjectType ==
  ASSUME NEW kind \in {"block", "line", "box"}, NEW n \in Nat, NEW left \in Nat,
         NEW right \in Nat, NEW top \in Nat, NEW height \in Nat,
         kind = "line" => left = 0 /\ right = Width,
         kind = "box" => left < right /\ height = 1
  PROVE  Object(kind, n, left, right, top, height) \in Obj
<1> DEFINE bottom == top + height
<1>1. bottom \in Nat /\ (kind = "box" => top < bottom)
  OBVIOUS
<1> HIDE DEF bottom
<1>2. [kind |-> kind, item |-> n, left |-> left, right |-> right, top |-> top, bottom |-> bottom]
        \in Obj
  BY <1>1 DEF Obj
<1>3. QED
  BY <1>2 DEF Object, bottom

LEMMA ObjFields ==
  ASSUME NEW o \in Obj
  PROVE  /\ o.kind \in {"block", "line", "box"} /\ o.item \in Nat /\ o.left \in Nat
         /\ o.right \in Nat /\ o.top \in Nat /\ o.bottom \in Nat
         /\ o.kind = "line" => o.left = 0 /\ o.right = Width
         /\ o.kind = "box" => o.left < o.right /\ o.top < o.bottom
  BY DEF Obj

LEMMA BoxItemsType ==
  ASSUME NEW s \in Seq(Obj)
  PROVE  \A b \in BoxItems(Elems(s)) : b \in Nat
<1>1. ASSUME NEW b \in BoxItems(Elems(s)) PROVE b \in Nat
  <2>1. PICK o \in Elems(s) : b = o.item
    BY DEF BoxItems
  <2>2. o \in Obj
    BY <2>1, ElementOfSeq DEF Elems
  <2>3. QED
    BY <2>1, <2>2, ObjFields
<1>2. QED
  BY <1>1

\* A line, then its boxes: each clear of those after it.
LEMMA LineLaid ==
  ASSUME NEW line \in Seq(Nat), Ordered(line, Less), Len(line) < Width, Width \in Nat,
         NEW y \in Nat, NEW n \in Nat
  PROVE  LET s == LineObjects(n, line, y) IN
         /\ s \in Seq(Obj) /\ Ordered(s, Follows)
         /\ \A o \in Elems(s) : /\ y <= o.top /\ o.bottom <= y + LineHeight(line)
                                /\ o.kind = "box" => o.item \in Elems(line)
         /\ Elems(line) \subseteq BoxItems(Elems(s))
<1> DEFINE k == Len(line)
           h == LineHeight(line)
           whole == Object("line", n, 0, Width, y, h)
           one == <<whole>>
           boxes == [i \in DOMAIN line |-> Object("box", line[i], i - 1, i, y, 1)]
           s == one \o boxes
<1>1. /\ k \in Nat /\ k < Width /\ DOMAIN line = 1..k /\ \A i \in 1..k : line[i] \in Nat
      /\ h \in Nat /\ (k # 0 => h = 1)
  <2>1. k \in Nat /\ DOMAIN line = 1..k /\ \A i \in 1..k : line[i] \in Nat
    BY LenProperties, ElementOfSeq
  <2>2. k # 0 => line # <<>>
    BY EmptySeq
  <2>3. QED
    BY <2>1, <2>2 DEF LineHeight
<1>2. /\ whole.kind = "line" /\ whole.top = y /\ whole.bottom = y + h
      /\ whole \in Obj
  <2> HIDE DEF h
  <2>1. whole.kind = "line" /\ whole.top = y /\ whole.bottom = y + h
    BY ObjectFields
  <2>2. whole \in Obj
    BY <1>1, ObjectType
  <2>3. QED
    BY <2>1, <2>2
<1>3. /\ one \in Seq(Obj) /\ Elems(one) = {whole} /\ Ordered(one, Follows)
  <2> HIDE DEF whole
  <2>1. one \in Seq(Obj)
    BY <1>2
  <2>2. QED
    BY <2>1, OneElem
<1> HIDE DEF k, h, whole, one
<1>4. ASSUME NEW i \in 1..k
      PROVE  /\ boxes[i] \in Obj /\ boxes[i].kind = "box" /\ boxes[i].item = line[i]
             /\ boxes[i].left = i - 1 /\ boxes[i].right = i
             /\ boxes[i].top = y /\ boxes[i].bottom = y + 1
  <2> DEFINE o == Object("box", line[i], i - 1, i, y, 1)
  <2>1. boxes[i] = o
    BY <1>1
  <2>2. line[i] \in Nat /\ i - 1 \in Nat /\ i \in Nat /\ i - 1 < i
    BY <1>1
  <2>3. o \in Obj
    BY <2>2, ObjectType
  <2>4. /\ o.kind = "box" /\ o.item = line[i] /\ o.left = i - 1 /\ o.right = i
        /\ o.top = y /\ o.bottom = y + 1
    BY ObjectFields
  <2> HIDE DEF boxes, o
  <2>5. QED
    BY <2>1, <2>3, <2>4
<1>5. boxes \in Seq(Obj) /\ Len(boxes) = k
  <2>1. boxes \in [1..k -> Obj]
    BY <1>1, <1>4
  <2> HIDE DEF boxes
  <2>2. boxes \in Seq(Obj)
    BY <1>1, <2>1, SeqDef
  <2>3. QED
    BY <1>1, <2>1, <2>2, LenProperties
<1> HIDE DEF boxes
<1>6. ASSUME NEW i \in 1..k, NEW j \in 1..k, i < j PROVE <<boxes[i], boxes[j]>> \in Follows
  <2>1. line[i] < line[j]
    BY <1>6 DEF Ordered, Less, k
  <2>2. i <= j - 1
    BY <1>1, <1>6
  <2>3. QED
    BY <1>4, <2>1, <2>2 DEF Follows, Clear
<1>7. Ordered(boxes, Follows)
  BY <1>5, <1>6 DEF Ordered
<1>8. \A b \in Elems(boxes) : \E i \in 1..k : b = boxes[i]
  BY <1>5 DEF Elems
<1>9. Between(Elems(one), Elems(boxes), Follows)
  <2>1. ASSUME NEW b \in Elems(boxes) PROVE <<whole, b>> \in Follows
    <3>1. PICK i \in 1..k : b = boxes[i]
      BY <1>8
    <3>2. b \in Obj /\ b.right < Width
      BY <1>1, <1>4, <3>1
    <3>3. QED
      BY <1>2, <3>2 DEF Follows, Clear
  <2>2. QED
    BY <1>3, <2>1 DEF Between
<1>10. /\ s \in Seq(Obj) /\ Elems(s) = Elems(one) \cup Elems(boxes) /\ Ordered(s, Follows)
  <2>1. /\ s \in Seq(Obj) /\ Elems(s) = Elems(one) \cup Elems(boxes)
        /\ \A R : Ordered(one, R) /\ Ordered(boxes, R) /\ Between(Elems(one), Elems(boxes), R)
                  => Ordered(s, R)
    BY <1>3, <1>5, ConcatOrdered
  <2>2. QED
    BY <1>3, <1>7, <1>9, <2>1
<1> HIDE DEF s
<1>11. ASSUME NEW o \in Elems(s)
       PROVE  /\ y <= o.top /\ o.bottom <= y + h
              /\ o.kind = "box" => o.item \in Elems(line)
  <2>1. CASE o = whole
    BY <1>1, <1>2, <2>1
  <2>2. CASE o \in Elems(boxes)
    <3>1. PICK i \in 1..k : o = boxes[i]
      BY <1>8, <2>2
    <3>2. h = 1
      BY <1>1, <3>1
    <3>3. line[i] \in Elems(line)
      BY DEF Elems, k
    <3>4. QED
      BY <1>4, <3>1, <3>2, <3>3
  <2>3. QED
    BY <1>3, <1>10, <2>1, <2>2
<1>12. ASSUME NEW x \in Elems(line) PROVE x \in BoxItems(Elems(s))
  <2>1. PICK i \in 1..k : x = line[i]
    BY DEF Elems, k
  <2>2. boxes[i] \in Elems(s) /\ boxes[i].kind = "box" /\ boxes[i].item = x
    BY <1>4, <1>5, <1>10, <2>1 DEF Elems
  <2>3. QED
    BY <2>2 DEF BoxItems
<1>13. LineObjects(n, line, y) = s
  BY DEF LineObjects, s, one, boxes, whole, h
<1>14. QED
  BY <1>10, <1>11, <1>12, <1>13 DEF h

\* Layouts one below the other, each within its height.
Stacked(ss, heights, y) ==
  /\ ss \in Seq(Seq(Obj)) /\ Len(ss) = Len(heights)
  /\ \A k \in 1..Len(ss) :
       /\ Ordered(ss[k], Follows)
       /\ \A o \in Elems(ss[k]) : /\ y + Ends(heights)[k - 1] <= o.top
                                  /\ o.bottom <= y + Ends(heights)[k]
  /\ \A k, l \in 1..Len(ss) : k < l =>
       \A a \in BoxItems(Elems(ss[k])), b \in BoxItems(Elems(ss[l])) : a < b

\* Stacked layouts are clear of each other.
LEMMA StackLaid ==
  ASSUME NEW y \in Nat, NEW heights \in Seq(Nat), NEW ss, Stacked(ss, heights, y)
  PROVE  LET f == FlattenSeq(ss) IN
         /\ f \in Seq(Obj) /\ Ordered(f, Follows)
         /\ Elems(f) = UNION {Elems(ss[k]) : k \in 1..Len(ss)}
         /\ \A o \in Elems(f) : y <= o.top /\ o.bottom <= y + Total(heights)
<1> DEFINE f == FlattenSeq(ss)
           N == Len(ss)
           e == Ends(heights)
<1>1. /\ ss \in Seq(Seq(Obj)) /\ N = Len(heights) /\ N \in Nat
      /\ \A k \in 1..N : ss[k] \in Seq(Obj)
  BY LenProperties, ElementOfSeq DEF Stacked
<1>2. /\ Total(heights) = e[N] /\ e[0] = 0 /\ \A j \in 0..N : e[j] \in Nat
      /\ \A j, k \in 0..N : j <= k => e[j] <= e[k]
  <2>1. e[0] = 0
    BY EndsAddUp
  <2>2. QED
    BY <1>1, <2>1, EndsRise
<1>3. /\ f \in Seq(Obj) /\ Elems(f) = UNION {Elems(ss[k]) : k \in 1..N}
      /\ \A R : (/\ \A k \in 1..N : Ordered(ss[k], R)
                 /\ \A k, l \in 1..N : k < l => Between(Elems(ss[k]), Elems(ss[l]), R))
               => Ordered(f, R)
  BY <1>1, FlattenOrdered
<1> HIDE DEF f
<1>4. \A k \in 1..N : \A o \in Elems(ss[k]) :
        o \in Obj /\ y + e[k - 1] <= o.top /\ o.bottom <= y + e[k]
  BY <1>1, ElementOfSeq DEF Stacked, Elems
<1>5. ASSUME NEW k \in 1..N, NEW l \in 1..N, k < l
      PROVE  Between(Elems(ss[k]), Elems(ss[l]), Follows)
  <2>1. SUFFICES ASSUME NEW o \in Elems(ss[k]), NEW p \in Elems(ss[l])
                 PROVE  <<o, p>> \in Follows
    BY DEF Between
  <2>2. o \in Obj /\ p \in Obj /\ o.bottom <= y + e[k] /\ y + e[l - 1] <= p.top
        /\ o.bottom \in Nat /\ p.top \in Nat
    BY <1>4, ObjFields
  <2>3. k \in 0..N /\ l - 1 \in 0..N /\ k <= l - 1
    BY <1>1, <1>5
  <2>4. e[k] <= e[l - 1] /\ e[k] \in Nat /\ e[l - 1] \in Nat
    BY <1>2, <2>3
  <2> HIDE DEF e
  <2>5. o.bottom <= p.top
    BY <2>2, <2>4
  <2>6. o.kind = "box" /\ p.kind = "box" => o.item < p.item
    BY <1>5 DEF Stacked, BoxItems
  <2>7. QED
    BY <2>2, <2>5, <2>6 DEF Follows, Clear
<1>6. Ordered(f, Follows)
  BY <1>3, <1>5 DEF Stacked
<1>7. ASSUME NEW o \in Elems(f) PROVE y <= o.top /\ o.bottom <= y + Total(heights)
  <2>1. PICK k \in 1..N : o \in Elems(ss[k])
    BY <1>3
  <2>2. /\ y + e[k - 1] <= o.top /\ o.bottom <= y + e[k] /\ o.top \in Nat /\ o.bottom \in Nat
    BY <1>4, <2>1, ObjFields
  <2>3. k - 1 \in 0..N /\ k \in 0..N /\ N \in 0..N /\ k <= N
    BY <1>1
  <2>4. e[k - 1] \in Nat /\ e[k] \in Nat /\ e[N] \in Nat /\ e[k] <= e[N]
    BY <1>2, <2>3
  <2> HIDE DEF e, N
  <2>5. QED
    BY <1>2, <2>2, <2>4
<1>8. QED
  BY <1>3, <1>6, <1>7 DEF f

\* The lines of an item are stacked, and show all that is in it.
LEMMA LinesStack ==
  ASSUME NEW N, NEW F, Finished(N, F), NEW n \in 1..N, NEW y \in Nat
  PROVE  /\ Stacked(Lines(n, y), Heights(LinesOf(n)), y)
         /\ Heights(LinesOf(n)) \in Seq(Nat)
         /\ \A k \in 1..Len(Lines(n, y)) : \A b \in BoxItems(Elems(Lines(n, y)[k])) :
              n <= b /\ b <= F[n]
         /\ Covered(n, F, BoxItems(UNION {Elems(Lines(n, y)[k]) : k \in 1..Len(Lines(n, y))}))
<1> DEFINE lines == LinesOf(n)
           L == Len(lines)
           h == Heights(lines)
           e == Ends(h)
           r == Lines(n, y)
<1>1. /\ lines \in Seq(Seq(Nat)) /\ Rising(lines)
      /\ \A l \in 1..L : /\ Len(lines[l]) < Width
                         /\ \A x \in Elems(lines[l]) : n <= x /\ x <= F[n]
      /\ Covered(n, F, UNION {Elems(lines[l]) : l \in 1..L})
  <2>1. Lined(n, F, lines)
    BY LinesLined
  <2> HIDE DEF lines
  <2>2. QED
    BY <2>1 DEF Lined
<1>2. n \in Nat /\ Width \in Nat
  <2>1. Numbered(N, F) /\ MaxItems \in Nat
    BY DEF Finished
  <2>2. QED
    BY <2>1 DEF Numbered, Width
<1> HIDE DEF lines
<1>3. /\ L \in Nat /\ DOMAIN lines = 1..L /\ \A l \in 1..L : lines[l] \in Seq(Nat)
  BY <1>1, LenProperties, ElementOfSeq
<1>4. h \in Seq(Nat) /\ Len(h) = L /\ \A k \in 1..L : h[k] = LineHeight(lines[k])
  BY <1>1, HeightsType
<1> HIDE DEF h
<1>5. /\ \A k \in 0..L : e[k] \in Nat
      /\ \A k \in 1..L : e[k] = e[k - 1] + LineHeight(lines[k])
  BY <1>4, EndsAddUp, EndsRise
<1> HIDE DEF e
<1> DEFINE part(k) == LineObjects(n, lines[k], y + e[k - 1])
<1>6. r = [k \in 1..L |-> part(k)]
  BY <1>3 DEF Lines, lines, h, e
<1>7. ASSUME NEW k \in 1..L
      PROVE  /\ part(k) \in Seq(Obj) /\ Ordered(part(k), Follows)
             /\ \A o \in Elems(part(k)) : /\ y + e[k - 1] <= o.top /\ o.bottom <= y + e[k]
                                          /\ o.kind = "box" => o.item \in Elems(lines[k])
             /\ Elems(lines[k]) \subseteq BoxItems(Elems(part(k)))
  <2> DEFINE line == lines[k]
             z == y + e[k - 1]
             s == LineObjects(n, line, z)
  <2>1. line \in Seq(Nat) /\ Ordered(line, Less) /\ Len(line) < Width
    BY <1>1, <1>3 DEF Rising
  <2>2. z \in Nat /\ z + LineHeight(line) = y + e[k]
    <3>1. k - 1 \in 0..L /\ k \in 0..L
      BY <1>3
    <3>2. e[k - 1] \in Nat /\ e[k] \in Nat /\ e[k] = e[k - 1] + LineHeight(line)
      BY <1>5, <3>1
    <3>3. LineHeight(line) \in Nat
      BY DEF LineHeight
    <3> HIDE DEF line
    <3>4. QED
      BY <3>2, <3>3
  <2> HIDE DEF line, z
  <2>3. /\ s \in Seq(Obj) /\ Ordered(s, Follows)
        /\ \A o \in Elems(s) : /\ z <= o.top /\ o.bottom <= z + LineHeight(line)
                               /\ o.kind = "box" => o.item \in Elems(line)
        /\ Elems(line) \subseteq BoxItems(Elems(s))
    BY <1>2, <2>1, <2>2, LineLaid
  <2> HIDE DEF s
  <2>4. \A o \in Elems(s) : /\ z <= o.top /\ o.bottom <= y + e[k]
                            /\ o.kind = "box" => o.item \in Elems(line)
    BY <2>2, <2>3
  <2>5. QED
    BY <2>3, <2>4 DEF s, line, z
<1> HIDE DEF part
<1>8. r \in Seq(Seq(Obj)) /\ Len(r) = L /\ \A k \in 1..L : r[k] = part(k)
  <2> DEFINE S == Seq(Obj)
  <2>1. \A k \in 1..L : part(k) \in S
    BY <1>7
  <2> HIDE DEF S, L, r
  <2>2. r \in [1..L -> S] /\ \A k \in 1..L : r[k] = part(k)
    BY <1>6, <2>1
  <2>3. r \in Seq(S)
    BY <1>3, <2>2, SeqDef
  <2>4. QED
    BY <1>3, <2>2, <2>3, LenProperties DEF S
<1> HIDE DEF r
<1>9. ASSUME NEW k \in 1..L, NEW b \in BoxItems(Elems(r[k])) PROVE b \in Elems(lines[k])
  BY <1>7, <1>8 DEF BoxItems
<1>10. ASSUME NEW k \in 1..L, NEW l \in 1..L, k < l,
              NEW a \in BoxItems(Elems(r[k])), NEW b \in BoxItems(Elems(r[l]))
       PROVE  a < b
  <2>1. a \in Elems(lines[k]) /\ b \in Elems(lines[l])
    BY <1>9
  <2>2. Between(Elems(lines[k]), Elems(lines[l]), Less)
    BY <1>1, <1>10 DEF Rising
  <2>3. QED
    BY <2>1, <2>2 DEF Between, Less
<1>11. Stacked(r, h, y)
  BY <1>4, <1>7, <1>8, <1>10 DEF Stacked, e
<1>12. Covered(n, F, BoxItems(UNION {Elems(r[k]) : k \in 1..L}))
  <2> DEFINE all == UNION {Elems(r[k]) : k \in 1..L}
  <2>1. ASSUME NEW l \in 1..L, NEW x \in Elems(lines[l]) PROVE x \in BoxItems(all)
    <3>1. x \in BoxItems(Elems(r[l]))
      BY <1>7, <1>8
    <3>2. Elems(r[l]) \subseteq all
      OBVIOUS
    <3>3. QED
      BY <3>1, <3>2 DEF BoxItems
  <2> HIDE DEF all
  <2>2. Covered(n, F, BoxItems(all))
    BY <1>1, <2>1 DEF Covered
  <2>3. QED
    BY <2>2 DEF all
<1>13. \A k \in 1..L : \A b \in BoxItems(Elems(r[k])) : n <= b /\ b <= F[n]
  BY <1>1, <1>9
<1>14. QED
  BY <1>4, <1>8, <1>11, <1>12, <1>13 DEF r, h, lines

-----------------------------------------------------------------------------
(* The layout from an item's block down *)

KidHeights(n) == [i \in DOMAIN kids[n] |-> Height[kids[n][i]]]

\* Where the block of the i-th child begins if that of item n begins at y.
KidTop(n, i, y) == y + Ends(KidHeights(n))[i - 1]

\* The layout of an item's block, from those of the blocks in it.
ObjectsFrom(n, y, blocks) ==
  <<Object("block", n, 0, Width, y, Height[n])>> \o
  FlattenSeq(IF LayoutMode(n) = "block" THEN blocks ELSE Lines(n, y))

LEMMA KidHeightsType ==
  ASSUME NEW N, NEW F, Finished(N, F), NEW n \in 1..N
  PROVE  /\ KidHeights(n) \in Seq(Nat) /\ Len(KidHeights(n)) = Len(kids[n])
         /\ DOMAIN kids[n] = 1..Len(kids[n]) /\ Len(kids[n]) \in Nat
         /\ \A i \in 1..Len(kids[n]) : KidHeights(n)[i] = Height[kids[n][i]]
         /\ \A i \in 1..Len(kids[n]), y \in Nat : KidTop(n, i, y) \in Nat
<1> DEFINE k == Len(kids[n])
           h == KidHeights(n)
<1>1. Numbered(N, F)
  BY DEF Finished
<1>2. /\ k \in Nat /\ kids[n] \in Seq(1..N) /\ \A i \in 1..k : kids[n][i] \in 1..N
  BY <1>1 DEF Numbered
<1>3. DOMAIN kids[n] = 1..k
  BY <1>2, LenProperties
<1>4. \A i \in 1..k : Height[kids[n][i]] \in Nat
  BY <1>2, HeightRecurs
<1>5. h \in Seq(Nat) /\ Len(h) = k /\ \A i \in 1..k : h[i] = Height[kids[n][i]]
  BY <1>1, <1>4, OfKids DEF KidHeights
<1> HIDE DEF h
<1>6. \A i \in 1..k, y \in Nat : KidTop(n, i, y) \in Nat
  <2>1. SUFFICES ASSUME NEW i \in 1..k, NEW y \in Nat PROVE KidTop(n, i, y) \in Nat
    OBVIOUS
  <2> DEFINE e == Ends(h)
  <2>2. i - 1 \in 0..k
    BY <1>2
  <2>3. e[i - 1] \in Nat
    BY <1>5, <2>2, EndsRise
  <2> HIDE DEF e
  <2>4. y + e[i - 1] \in Nat
    BY <2>3
  <2>5. QED
    BY <2>4 DEF KidTop, e, h
<1>7. QED
  BY <1>2, <1>3, <1>5, <1>6 DEF h

LEMMA WidthType ==
  ASSUME NEW N, NEW F, Finished(N, F), NEW n \in 1..N
  PROVE  /\ Width \in Nat /\ n \in Nat /\ 0 \in Nat /\ N \in Nat
         /\ Height[n] \in Nat /\ F[n] \in Nat
<1>1. Numbered(N, F) /\ MaxItems \in Nat
  BY DEF Finished
<1>2. n \in Nat /\ N \in Nat /\ F[n] \in Nat
  BY <1>1 DEF Numbered
<1>3. QED
  BY <1>1, <1>2, HeightRecurs DEF Width

LEMMA ObjectsFromType ==
  ASSUME NEW N, NEW F, Finished(N, F), NEW n \in 1..N, NEW y \in Nat,
         NEW blocks \in Seq(Seq(Obj))
  PROVE  ObjectsFrom(n, y, blocks) \in Seq(Obj)
<1> DEFINE whole == Object("block", n, 0, Width, y, Height[n])
           ss == IF LayoutMode(n) = "block" THEN blocks ELSE Lines(n, y)
<1>1. whole \in Obj
  <2>1. Width \in Nat /\ n \in Nat /\ 0 \in Nat /\ Height[n] \in Nat
    BY WidthType
  <2>2. QED
    BY <2>1, ObjectType
<1>2. ss \in Seq(Seq(Obj))
  BY LinesStack DEF Stacked
<1> HIDE DEF whole, ss
<1>3. FlattenSeq(ss) \in Seq(Obj)
  BY <1>2, FlattenOrdered
<1>4. <<whole>> \in Seq(Obj)
  BY <1>1
<1>5. <<whole>> \o FlattenSeq(ss) \in Seq(Obj)
  BY <1>3, <1>4, ConcatProperties
<1>6. QED
  BY <1>5 DEF ObjectsFrom, whole, ss

\* Objects is the function it looks like.
LEMMA ObjectsRecurs ==
  ASSUME NEW N, NEW F, Finished(N, F)
  PROVE  \A n \in 1..N, y \in Nat :
           Objects[<<n, y>>] =
             ObjectsFrom(n, y, [i \in DOMAIN kids[n] |-> Objects[<<kids[n][i], KidTop(n, i, y)>>]])
<1> DEFINE S == [Nat -> Seq(Obj)]
           blocks(u, n, y) == [i \in DOMAIN kids[n] |-> u[kids[n][i]][KidTop(n, i, y)]]
           step == [q \in (1..N) \X [1..N -> S] |->
                      [y \in Nat |-> ObjectsFrom(q[1], y, blocks(q[2], q[1], y))]]
<1>1. Numbered(N, F)
  BY DEF Finished
<1>2. /\ N \in Nat /\ Items = 1..N
      /\ \A n \in 1..N : \A i \in 1..Len(kids[n]) : kids[n][i] \in 1..N /\ n < kids[n][i]
  BY <1>1 DEF Numbered
<1>3. /\ \A n \in 1..N : \A i \in 1..Len(kids[n]) : kids[n][i] \in (n + 1)..N
      /\ \A n \in 1..N : /\ DOMAIN kids[n] = 1..Len(kids[n])
                         /\ \A i \in 1..Len(kids[n]), y \in Nat : KidTop(n, i, y) \in Nat
  <2>1. \A n \in 1..N : \A i \in 1..Len(kids[n]) : kids[n][i] \in (n + 1)..N
    BY <1>2
  <2>2. ASSUME NEW n \in 1..N
        PROVE  /\ DOMAIN kids[n] = 1..Len(kids[n])
               /\ \A i \in 1..Len(kids[n]), y \in Nat : KidTop(n, i, y) \in Nat
    BY KidHeightsType
  <2>3. QED
    BY <2>1, <2>2
<1>4. ASSUME NEW n \in 1..N, NEW u \in [1..N -> S], NEW y \in Nat
      PROVE  ObjectsFrom(n, y, blocks(u, n, y)) \in Seq(Obj)
  <2> DEFINE r == blocks(u, n, y)
             k == Len(kids[n])
             T == Seq(Obj)
  <2>1. \A i \in 1..k : u[kids[n][i]][KidTop(n, i, y)] \in T
    BY <1>2, <1>3
  <2>2. k \in Nat
    BY KidHeightsType
  <2> HIDE DEF T, k
  <2>3. r \in [1..k -> T]
    BY <1>3, <2>1 DEF k
  <2> HIDE DEF r
  <2>4. r \in Seq(T)
    BY <2>2, <2>3, SeqDef
  <2>5. r \in Seq(Seq(Obj))
    BY <2>4 DEF T
  <2>6. ObjectsFrom(n, y, r) \in Seq(Obj)
    BY <2>5, ObjectsFromType
  <2>7. QED
    BY <2>6 DEF r
<1>5. \A n \in 1..N, u \in [1..N -> S] :
        step[<<n, u>>] = [y \in Nat |-> ObjectsFrom(n, y, blocks(u, n, y))]
  OBVIOUS
<1> HIDE DEF blocks
<1>6. step \in [(1..N) \X [1..N -> S] -> S]
  <2>1. \A q \in (1..N) \X [1..N -> S] :
          [y \in Nat |-> ObjectsFrom(q[1], y, blocks(q[2], q[1], y))] \in S
    BY <1>4
  <2> HIDE DEF S
  <2>2. QED
    BY <2>1
<1> HIDE DEF step
<1>7. FromAbove(N, S, step)
  <2>1. ASSUME NEW n \in 1..N, NEW u \in [1..N -> S], NEW v \in [1..N -> S],
               \A m \in (n + 1)..N : u[m] = v[m]
        PROVE  step[<<n, u>>] = step[<<n, v>>]
    <3> HIDE DEF S
    <3>1. ASSUME NEW y \in Nat PROVE blocks(u, n, y) = blocks(v, n, y)
      <4>1. \A i \in DOMAIN kids[n] : u[kids[n][i]] = v[kids[n][i]]
        BY <1>3, <2>1
      <4>2. QED
        BY <4>1 DEF blocks
    <3>2. [y \in Nat |-> ObjectsFrom(n, y, blocks(u, n, y))]
            = [y \in Nat |-> ObjectsFrom(n, y, blocks(v, n, y))]
      BY <3>1
    <3>3. /\ step[<<n, u>>] = [y \in Nat |-> ObjectsFrom(n, y, blocks(u, n, y))]
          /\ step[<<n, v>>] = [y \in Nat |-> ObjectsFrom(n, y, blocks(v, n, y))]
      BY <1>5, Zenon
    <3>4. QED
      BY <3>2, <3>3, Zenon
  <2> HIDE DEF S
  <2>2. QED
    BY <2>1 DEF FromAbove
<1>8. [y \in Nat |-> <<>>] \in S
  <2>1. <<>> \in Seq(Obj)
    BY EmptySeq
  <2>2. QED
    BY <2>1
<1>9. PICK u \in [1..N -> S] : RecursDown(u, N, step)
  <2> HIDE DEF S
  <2>1. QED
    BY <1>2, <1>6, <1>7, <1>8, DownRecursion
<1> DEFINE Body(f) == [at \in Items \X Nat |->
                         ObjectsFrom(at[1], at[2], [i \in DOMAIN kids[at[1]] |->
                           f[<<kids[at[1]][i], KidTop(at[1], i, at[2])>>]])]
           Solves(f) == f = Body(f)
           f == [at \in Items \X Nat |-> u[at[1]][at[2]]]
<1>10. Solves(f)
  <2>1. ASSUME NEW n \in 1..N, NEW y \in Nat
        PROVE  u[n][y] = ObjectsFrom(n, y, [i \in DOMAIN kids[n] |-> f[<<kids[n][i], KidTop(n, i, y)>>]])
    <3>1. u[n][y] = ObjectsFrom(n, y, blocks(u, n, y))
      <4>1. u[n] = [z \in Nat |-> ObjectsFrom(n, z, blocks(u, n, z))]
        BY <1>5, <1>9 DEF RecursDown
      <4>2. QED
        BY <4>1
    <3>2. \A i \in DOMAIN kids[n] :
            f[<<kids[n][i], KidTop(n, i, y)>>] = u[kids[n][i]][KidTop(n, i, y)]
      BY <1>2, <1>3
    <3> HIDE DEF f
    <3>3. [i \in DOMAIN kids[n] |-> f[<<kids[n][i], KidTop(n, i, y)>>]] = blocks(u, n, y)
      BY <3>2 DEF blocks
    <3>4. QED
      BY <3>1, <3>3
  <2> DEFINE g(n, y) == ObjectsFrom(n, y, [i \in DOMAIN kids[n] |-> f[<<kids[n][i], KidTop(n, i, y)>>]])
  <2>2. \A at \in Items \X Nat : u[at[1]][at[2]] = g(at[1], at[2])
    <3> HIDE DEF f
    <3>1. QED
      BY <1>2, <2>1
  <2>3. f = [at \in Items \X Nat |-> g(at[1], at[2])]
    <3> HIDE DEF g
    <3>1. QED
      BY <2>2
  <2>4. QED
    BY <2>3
<1>11. Objects = CHOOSE o : Solves(o)
  BY DEF Objects, ObjectsFrom, KidTop, KidHeights
<1> HIDE DEF Solves, f
<1>12. Solves(Objects)
  BY <1>10, <1>11
<1>13. Objects = Body(Objects)
  BY <1>12 DEF Solves
<1>14. QED
  <2>1. ASSUME NEW n \in 1..N, NEW y \in Nat
        PROVE Objects[<<n, y>>] =
             ObjectsFrom(n, y, [i \in DOMAIN kids[n] |-> Objects[<<kids[n][i], KidTop(n, i, y)>>]])
    <3> DEFINE o == Objects
    <3>1. o = Body(o)
      BY <1>13
    <3> HIDE DEF o
    <3>2. <<n, y>> \in Items \X Nat
      BY <1>2
    <3>3. o[<<n, y>>] = ObjectsFrom(n, y, [i \in DOMAIN kids[n] |-> o[<<kids[n][i], KidTop(n, i, y)>>]])
      BY <3>1, <3>2
    <3>4. QED
      BY <3>3 DEF o
  <2>2. QED
    BY <2>1

\* From item n down: the objects of its block are within its height, each clear of
\* those after it, and the boxes among them are of what is below n, in its order.
Laid(n, F, y) ==
  LET s == Objects[<<n, y>>] IN
  /\ s \in Seq(Obj) /\ Ordered(s, Follows)
  /\ \A o \in Elems(s) : y <= o.top /\ o.bottom <= y + Height[n]
  /\ \A b \in BoxItems(Elems(s)) : n <= b /\ b <= F[n]
  /\ Covered(n, F, BoxItems(Elems(s)))

\* A block among the layouts below it.
LEMMA BlockLaid ==
  ASSUME NEW N, NEW F, Finished(N, F), NEW n \in 1..N, NEW y \in Nat,
         NEW f \in Seq(Obj), Ordered(f, Follows),
         \A o \in Elems(f) : y <= o.top /\ o.bottom <= y + Height[n],
         \A b \in BoxItems(Elems(f)) : n <= b /\ b <= F[n],
         Covered(n, F, BoxItems(Elems(f))),
         Objects[<<n, y>>] = <<Object("block", n, 0, Width, y, Height[n])>> \o f
  PROVE  Laid(n, F, y)
<1> DEFINE whole == Object("block", n, 0, Width, y, Height[n])
           one == <<whole>>
           s == one \o f
<1>1. /\ whole \in Obj /\ whole.kind = "block" /\ whole.top = y
      /\ whole.bottom = y + Height[n] /\ Height[n] \in Nat
  <2>1. Width \in Nat /\ n \in Nat /\ 0 \in Nat /\ Height[n] \in Nat
    BY WidthType
  <2>2. whole \in Obj
    BY <2>1, ObjectType
  <2>3. whole.kind = "block" /\ whole.top = y /\ whole.bottom = y + Height[n]
    BY ObjectFields
  <2> HIDE DEF whole
  <2>4. QED
    BY <2>1, <2>2, <2>3
<1> HIDE DEF whole
<1>2. one \in Seq(Obj) /\ Elems(one) = {whole} /\ Ordered(one, Follows)
  <2>1. one \in Seq(Obj)
    BY <1>1
  <2>2. QED
    BY <2>1, OneElem
<1> HIDE DEF one
<1>3. \A o \in Elems(f) : o \in Obj
  BY ElementOfSeq DEF Elems
<1>4. Between(Elems(one), Elems(f), Follows)
  <2>1. ASSUME NEW o \in Elems(f) PROVE <<whole, o>> \in Follows
    BY <1>1, <1>3 DEF Follows, Clear
  <2>2. QED
    BY <1>2, <2>1 DEF Between
<1>5. s \in Seq(Obj) /\ Elems(s) = {whole} \cup Elems(f) /\ Ordered(s, Follows)
  <2>1. /\ s \in Seq(Obj) /\ Elems(s) = Elems(one) \cup Elems(f)
        /\ \A R : Ordered(one, R) /\ Ordered(f, R) /\ Between(Elems(one), Elems(f), R)
                  => Ordered(s, R)
    BY <1>2, ConcatOrdered
  <2>2. QED
    BY <1>2, <1>4, <2>1
<1>6. Objects[<<n, y>>] = s
  BY DEF one, whole
<1> HIDE DEF s
<1>7. \A o \in Elems(s) : y <= o.top /\ o.bottom <= y + Height[n]
  BY <1>1, <1>5
<1>8. BoxItems(Elems(s)) = BoxItems(Elems(f))
  <2>1. {b \in Elems(s) : b.kind = "box"} = {b \in Elems(f) : b.kind = "box"}
    BY <1>1, <1>5
  <2>2. QED
    BY <2>1 DEF BoxItems
<1>9. QED
  BY <1>5, <1>6, <1>7, <1>8 DEF Laid

\* An item with lines.
LEMMA InlineLaid ==
  ASSUME NEW N, NEW F, Finished(N, F), NEW n \in 1..N, NEW y \in Nat,
         LayoutMode(n) # "block"
  PROVE  Laid(n, F, y)
<1> DEFINE ss == Lines(n, y)
           h == Heights(LinesOf(n))
           f == FlattenSeq(ss)
<1>1. /\ Stacked(ss, h, y) /\ h \in Seq(Nat)
      /\ \A k \in 1..Len(ss) : \A b \in BoxItems(Elems(ss[k])) : n <= b /\ b <= F[n]
      /\ Covered(n, F, BoxItems(UNION {Elems(ss[k]) : k \in 1..Len(ss)}))
  BY LinesStack
<1>2. Height[n] = Total(h)
  <2>1. Height[n] = HeightFrom(n, Height)
    BY HeightRecurs
  <2>2. QED
    BY <2>1 DEF HeightFrom
<1>3. Objects[<<n, y>>] = <<Object("block", n, 0, Width, y, Height[n])>> \o f
  <2>1. Objects[<<n, y>>] =
          ObjectsFrom(n, y, [i \in DOMAIN kids[n] |-> Objects[<<kids[n][i], KidTop(n, i, y)>>]])
    BY ObjectsRecurs
  <2>2. QED
    BY <2>1 DEF ObjectsFrom
<1> HIDE DEF ss, h
<1>4. /\ f \in Seq(Obj) /\ Ordered(f, Follows)
      /\ Elems(f) = UNION {Elems(ss[k]) : k \in 1..Len(ss)}
      /\ \A o \in Elems(f) : y <= o.top /\ o.bottom <= y + Total(h)
  BY <1>1, StackLaid
<1> HIDE DEF f
<1>5. \A b \in BoxItems(Elems(f)) : n <= b /\ b <= F[n]
  <2>1. ASSUME NEW b \in BoxItems(Elems(f)) PROVE n <= b /\ b <= F[n]
    <3>1. PICK o \in Elems(f) : o.kind = "box" /\ b = o.item
      BY DEF BoxItems
    <3>2. PICK k \in 1..Len(ss) : o \in Elems(ss[k])
      BY <1>4
    <3>3. b \in BoxItems(Elems(ss[k]))
      BY <3>1, <3>2 DEF BoxItems
    <3>4. QED
      BY <1>1, <3>3
  <2>2. QED
    BY <2>1
<1>6. Covered(n, F, BoxItems(Elems(f)))
  BY <1>1, <1>4
<1>7. \A o \in Elems(f) : y <= o.top /\ o.bottom <= y + Height[n]
  BY <1>2, <1>4
<1>8. QED
  BY <1>3, <1>4, <1>5, <1>6, <1>7, BlockLaid

\* An item with blocks.
LEMMA BlocksLaid ==
  ASSUME NEW N, NEW F, Finished(N, F), NEW n \in 1..N, NEW y \in Nat,
         LayoutMode(n) = "block",
         \A i \in 1..Len(kids[n]), z \in Nat : Laid(kids[n][i], F, z)
  PROVE  Laid(n, F, y)
<1> DEFINE q == kids[n]
           K == Len(q)
           h == KidHeights(n)
           ss == [i \in DOMAIN kids[n] |-> Objects[<<kids[n][i], KidTop(n, i, y)>>]]
           f == FlattenSeq(ss)
           e == Ends(h)
<1>1. /\ h \in Seq(Nat) /\ Len(h) = K /\ DOMAIN q = 1..K /\ K \in Nat
      /\ \A i \in 1..K : h[i] = Height[q[i]] /\ KidTop(n, i, y) \in Nat
  BY KidHeightsType
<1>2. Numbered(N, F)
  BY DEF Finished
<1>3. /\ \A i \in 1..K : q[i] \in 1..N /\ n < q[i] /\ F[q[i]] \in Nat /\ F[q[i]] <= F[n]
      /\ \A i, j \in 1..K : i < j => F[q[i]] < q[j]
  <2>1. \A i \in 1..K : q[i] \in 1..N /\ n < q[i] /\ F[q[i]] \in Nat
    BY <1>2 DEF Numbered
  <2>2. QED
    BY <1>2, <2>1, Below
<1>4. Height[n] = Total(h)
  <2>1. Height[n] = HeightFrom(n, Height)
    BY HeightRecurs
  <2>2. QED
    BY <2>1 DEF HeightFrom, KidHeights
<1>5. Objects[<<n, y>>] = <<Object("block", n, 0, Width, y, Height[n])>> \o f
  <2>1. Objects[<<n, y>>] = ObjectsFrom(n, y, ss)
    BY ObjectsRecurs
  <2>2. QED
    BY <2>1 DEF ObjectsFrom
<1>6. n \in Nat /\ F[n] \in Nat /\ N \in Nat
  BY WidthType
<1>7. ~Shown(n)
  <2>1. SUFFICES ASSUME Shown(n) PROVE FALSE
    OBVIOUS
  <2>2. IsText(n) \/ items[n] = "input"
    BY <2>1 DEF Shown
  <2>3. K = 0
    BY <2>2 DEF Finished
  <2>4. DOMAIN kids[n] = {}
    BY <1>1, <2>3
  <2>5. LayoutMode(n) = "inline"
    BY <2>2, <2>4 DEF LayoutMode
  <2>6. QED
    BY <2>5
<1>8. \A i \in 1..K : KidTop(n, i, y) = y + e[i - 1]
  BY DEF KidTop
<1>9. ASSUME NEW i \in 1..K
      PROVE  /\ ss[i] \in Seq(Obj) /\ Ordered(ss[i], Follows)
             /\ \A o \in Elems(ss[i]) : y + e[i - 1] <= o.top /\ o.bottom <= y + e[i]
             /\ \A b \in BoxItems(Elems(ss[i])) : q[i] <= b /\ b <= F[q[i]]
             /\ Covered(q[i], F, BoxItems(Elems(ss[i])))
  <2> DEFINE s == Objects[<<q[i], KidTop(n, i, y)>>]
  <2>1. ss[i] = s
    BY <1>1
  <2>2. Laid(q[i], F, KidTop(n, i, y))
    BY <1>1
  <2>3. /\ s \in Seq(Obj) /\ Ordered(s, Follows)
        /\ \A o \in Elems(s) : KidTop(n, i, y) <= o.top /\ o.bottom <= KidTop(n, i, y) + Height[q[i]]
        /\ \A b \in BoxItems(Elems(s)) : q[i] <= b /\ b <= F[q[i]]
        /\ Covered(q[i], F, BoxItems(Elems(s)))
    BY <2>2 DEF Laid
  <2> HIDE DEF s, ss, h
  <2>4. KidTop(n, i, y) + Height[q[i]] = y + e[i]
    <3>1. e[i] = e[i - 1] + h[i] /\ e[i - 1] \in Nat /\ h[i] \in Nat /\ e[i] \in Nat
      <4>1. i - 1 \in 0..K /\ i \in 0..K
        BY <1>1
      <4>2. QED
        BY <1>1, <4>1, EndsAddUp, EndsRise, ElementOfSeq
    <3>2. h[i] = Height[q[i]] /\ KidTop(n, i, y) = y + e[i - 1]
      BY <1>1, <1>8
    <3> HIDE DEF e
    <3>3. QED
      BY <3>1, <3>2
  <2>5. \A o \in Elems(s) : y + e[i - 1] <= o.top /\ o.bottom <= y + e[i]
    BY <1>8, <2>3, <2>4
  <2>6. QED
    BY <2>1, <2>3, <2>5
<1>10. ss \in Seq(Seq(Obj)) /\ Len(ss) = K
  <2> DEFINE S == Seq(Obj)
  <2>1. \A i \in 1..K : ss[i] \in S
    BY <1>9
  <2>2. DOMAIN ss = 1..K /\ ss = [i \in DOMAIN ss |-> ss[i]]
    BY <1>1
  <2> HIDE DEF S, ss, K
  <2>3. ss \in [1..K -> S]
    BY <2>1, <2>2
  <2>4. ss \in Seq(S)
    BY <1>1, <2>3, SeqDef
  <2>5. QED
    BY <1>1, <2>3, <2>4, LenProperties DEF S
<1> HIDE DEF ss, h
<1>11. ASSUME NEW i \in 1..K, NEW j \in 1..K, i < j,
              NEW a \in BoxItems(Elems(ss[i])), NEW b \in BoxItems(Elems(ss[j]))
       PROVE  a < b
  <2>1. /\ q[i] <= a /\ a <= F[q[i]] /\ q[j] <= b /\ b <= F[q[j]] /\ F[q[i]] < q[j]
    BY <1>3, <1>9, <1>11
  <2>2. a \in Nat /\ b \in Nat
    BY <1>9, BoxItemsType
  <2>3. F[q[i]] \in Nat /\ q[j] \in Nat
    BY <1>3, <1>6
  <2>4. QED
    BY <2>1, <2>2, <2>3
<1>12. Stacked(ss, h, y)
  BY <1>1, <1>9, <1>10, <1>11 DEF Stacked
<1>13. /\ f \in Seq(Obj) /\ Ordered(f, Follows)
       /\ Elems(f) = UNION {Elems(ss[k]) : k \in 1..Len(ss)}
       /\ \A o \in Elems(f) : y <= o.top /\ o.bottom <= y + Total(h)
  BY <1>1, <1>12, StackLaid
<1> HIDE DEF f, K, e
<1>14. \A b \in BoxItems(Elems(f)) : n <= b /\ b <= F[n]
  <2>1. ASSUME NEW b \in BoxItems(Elems(f)) PROVE n <= b /\ b <= F[n]
    <3>1. PICK o \in Elems(f) : o.kind = "box" /\ b = o.item
      BY DEF BoxItems
    <3>2. PICK k \in 1..K : o \in Elems(ss[k])
      BY <1>10, <1>13
    <3>3. b \in BoxItems(Elems(ss[k]))
      BY <3>1, <3>2 DEF BoxItems
    <3>4. q[k] <= b /\ b <= F[q[k]]
      BY <1>9, <3>3
    <3>5. b \in Nat /\ q[k] \in Nat /\ F[q[k]] \in Nat /\ n < q[k] /\ F[q[k]] <= F[n]
      <4>1. b \in Nat
        BY <1>13, BoxItemsType
      <4>2. QED
        BY <1>3, <1>6, <4>1
    <3>6. QED
      BY <1>6, <3>4, <3>5
  <2>2. QED
    BY <2>1
<1>15. Covered(n, F, BoxItems(Elems(f)))
  <2>1. \A i \in 1..K : /\ BoxItems(Elems(ss[i])) \in SUBSET BoxItems(Elems(f))
                        /\ Covered(q[i], F, BoxItems(Elems(ss[i])))
    <3>1. ASSUME NEW i \in 1..K PROVE BoxItems(Elems(ss[i])) \subseteq BoxItems(Elems(f))
      <4>1. Elems(ss[i]) \subseteq Elems(f)
        BY <1>10, <1>13
      <4>2. QED
        BY <4>1 DEF BoxItems
    <3>2. QED
      BY <1>9, <3>1
  <2>2. QED
    BY <1>2, <1>7, <2>1, CoveredByKids DEF q, K
<1>16. \A o \in Elems(f) : y <= o.top /\ o.bottom <= y + Height[n]
  BY <1>4, <1>13
<1>17. QED
  BY <1>5, <1>13, <1>14, <1>15, <1>16, BlockLaid

\* From the last item down, wherever its block begins.
LEMMA AllLaid ==
  ASSUME NEW N, NEW F, Finished(N, F)
  PROVE  \A n \in 1..N, y \in Nat : Laid(n, F, y)
<1> DEFINE T == {n \in 1..N : \A y \in Nat : Laid(n, F, y)}
<1>1. /\ N \in Nat
      /\ \A n \in 1..N : \A i \in 1..Len(kids[n]) : kids[n][i] \in 1..N /\ n < kids[n][i]
  <2>1. Numbered(N, F)
    BY DEF Finished
  <2>2. QED
    BY <2>1 DEF Numbered
<1>2. ASSUME NEW n \in 1..N, \A m \in (n + 1)..N : m \in T PROVE n \in T
  <2>1. \A i \in 1..Len(kids[n]) : kids[n][i] \in (n + 1)..N
    BY <1>1
  <2>2. \A i \in 1..Len(kids[n]), z \in Nat : Laid(kids[n][i], F, z)
    BY <1>2, <2>1
  <2>3. ASSUME NEW y \in Nat PROVE Laid(n, F, y)
    BY <2>2, InlineLaid, BlocksLaid
  <2>4. QED
    BY <2>3
<1> HIDE DEF T
<1>3. 1..N \subseteq T
  BY <1>1, <1>2, DownInduction
<1>4. QED
  BY <1>3 DEF T

-----------------------------------------------------------------------------
(* The layout of the document, and what is clicked in it *)

\* All of it: the root's block.
LEMMA LayoutLaid ==
  ASSUME NEW N, NEW F, Finished(N, F)
  PROVE  LET s == Layout IN
         /\ s \in Seq(Obj) /\ Ordered(s, Follows)
         /\ \A b \in BoxItems(Elems(s)) : b \in 1..N
         /\ \A n \in 1..N : Shown(n) =>
              \E b \in BoxItems(Elems(s)) : Holds(b, n, F)
<1> DEFINE s == Layout
<1>1. N \in Nat /\ Root \in 1..N /\ Root = 1 /\ F[Root] = N
  <2>1. Numbered(N, F)
    BY DEF Finished
  <2>2. QED
    BY <2>1 DEF Numbered, Root
<1>2. Laid(Root, F, 0)
  BY <1>1, AllLaid
<1>3. /\ s \in Seq(Obj) /\ Ordered(s, Follows)
      /\ \A b \in BoxItems(Elems(s)) : Root <= b /\ b <= F[Root]
      /\ Covered(Root, F, BoxItems(Elems(s)))
  BY <1>2 DEF Laid, Layout
<1> HIDE DEF s
<1>4. \A b \in BoxItems(Elems(s)) : b \in 1..N
  BY <1>1, <1>3, BoxItemsType
<1>5. \A n \in 1..N : Shown(n) => \E b \in BoxItems(Elems(s)) : Holds(b, n, F)
  BY <1>1, <1>3 DEF Covered
<1>6. QED
  BY <1>3, <1>4, <1>5 DEF s

\* The boxes stand in the order of their items; what none of them is, is in a button.
LEMMA ShowsAll == IInv /\ BareTree => NothingLost
<1> SUFFICES ASSUME IInv, BareTree, phase = "done" PROVE NothingLost
  BY DEF NothingLost
<1> DEFINE N == Len(items)
           s == Layout
           L == Len(s)
<1>1. PICK F : Finished(N, F)
  BY FinishedTree
<1> HIDE DEF N
<1>2. /\ s \in Seq(Obj) /\ Ordered(s, Follows)
      /\ \A b \in BoxItems(Elems(s)) : b \in 1..N
      /\ \A n \in 1..N : Shown(n) => \E b \in BoxItems(Elems(s)) : Holds(b, n, F)
  BY <1>1, LayoutLaid
<1> HIDE DEF s
<1>3. DOMAIN s = 1..L
  BY <1>2, LenProperties
<1>4. ASSUME NEW i \in 1..L, NEW j \in 1..L, s[i].kind = "box", s[j].kind = "box", i < j
      PROVE  s[i].item < s[j].item
  <2>1. <<s[i], s[j]>> \in Follows
    BY <1>2, <1>4 DEF Ordered
  <2>2. QED
    BY <1>4, <2>1 DEF Follows
<1>5. /\ Items = 1..N /\ N \in Nat
      /\ \A n \in 1..N : /\ n \in Nat /\ F[n] \in Nat /\ n <= F[n]
                         /\ ListOf[n] = Run(n, F[n])
  <2>1. Numbered(N, F)
    BY <1>1 DEF Finished
  <2>2. QED
    BY <2>1 DEF Numbered
<1>6. ASSUME NEW b \in 1..N, NEW m \in 1..N, b <= m, m <= F[b]
      PROVE  m \in ToSet(ListOf[b])
  <2> DEFINE r == Run(b, F[b])
             i == m - b + 1
             k == F[b] - b + 1
  <2>1. b \in Nat /\ m \in Nat /\ F[b] \in Nat /\ b <= F[b] + 1 /\ i \in 1..k /\ b + i - 1 = m
    BY <1>5, <1>6
  <2>2. r \in Seq(Nat) /\ Len(r) = k /\ \A j \in 1..k : r[j] = b + j - 1
    BY <2>1, RunType
  <2> HIDE DEF r, i, k
  <2>3. r[i] = m /\ i \in 1..Len(r)
    BY <2>1, <2>2
  <2>4. i \in DOMAIN r
    BY <2>2, <2>3, LenProperties
  <2>5. m \in ToSet(r)
    BY <2>3, <2>4 DEF ToSet
  <2>6. QED
    BY <1>5, <2>5 DEF r
<1>7. ASSUME NEW n \in 1..N, IsText(n) \/ items[n] = "input"
      PROVE  \E i \in 1..L : /\ s[i].kind = "box"
                             /\ \/ s[i].item = n
                                \/ items[s[i].item] = "button" /\ n \in ToSet(ListOf[s[i].item])
  <2>1. PICK b \in BoxItems(Elems(s)) : Holds(b, n, F)
    BY <1>2, <1>7 DEF Shown
  <2>2. PICK i \in 1..L : s[i].kind = "box" /\ s[i].item = b
    BY DEF BoxItems, Elems
  <2>3. b \in 1..N
    BY <1>2
  <2>4. n = b \/ (items[b] = "button" /\ n \in ToSet(ListOf[b]))
    BY <1>6, <2>1, <2>3 DEF Holds
  <2>5. QED
    BY <2>2, <2>4
<1> DEFINE boxes == {i \in DOMAIN s : s[i].kind = "box"}
<1>8. \A i, j \in boxes : i < j => s[i].item < s[j].item
  BY <1>3, <1>4
<1>9. \A n \in Items : IsText(n) \/ items[n] = "input" =>
        \E i \in boxes : \/ s[i].item = n
                         \/ items[s[i].item] = "button" /\ n \in ToSet(ListOf[s[i].item])
  BY <1>3, <1>5, <1>7
<1> HIDE DEF boxes
<1>10. QED
  BY <1>8, <1>9 DEF NothingLost, boxes, s

\* What is clicked is what has the point if nothing after it has.
LEMMA LastHit ==
  ASSUME NEW s \in Seq(Obj), NEW i \in 1..Len(s), NEW x, NEW y, Has(s[i], x, y),
         \A j \in 1..Len(s) : i < j => ~Has(s[j], x, y)
  PROVE  Clicked(s, x, y) = s[i].item
<1> DEFINE hits == {j \in DOMAIN s : Has(s[j], x, y)}
<1>1. DOMAIN s = 1..Len(s) /\ Len(s) \in Nat
  BY LenProperties
<1>2. i \in hits /\ \A j \in hits : j \in Nat /\ ~(i < j)
  BY <1>1
<1> HIDE DEF hits
<1>3. i \in hits /\ (\A j \in hits : i >= j) /\ i \in Nat
  BY <1>2
<1>4. \A k \in hits : (\A j \in hits : k >= j) => k = i
  BY <1>2, <1>3
<1>5. Max(hits) = i
  BY <1>3, <1>4 DEF Max
<1>6. QED
  BY <1>2, <1>5 DEF Clicked, hits

\* What comes after an object is clear of it, so it is the last one that has its corner.
LEMMA ClicksFind == IInv /\ BareTree => ClickFindsBox
<1> SUFFICES ASSUME IInv, BareTree, phase = "done" PROVE ClickFindsBox
  BY DEF ClickFindsBox
<1> DEFINE N == Len(items)
           s == Layout
           L == Len(s)
<1>1. PICK F : Finished(N, F)
  BY FinishedTree
<1> HIDE DEF N
<1>2. s \in Seq(Obj) /\ Ordered(s, Follows)
  BY <1>1, LayoutLaid
<1>3. Width \in Nat /\ 0 < Width
  <2>1. MaxItems \in Nat
    BY <1>1 DEF Finished
  <2>2. QED
    BY <2>1 DEF Width
<1> HIDE DEF s
<1>4. DOMAIN s = 1..L /\ \A i \in 1..L : s[i] \in Obj
  BY <1>2, LenProperties, ElementOfSeq
<1>5. ASSUME NEW i \in 1..L, NEW j \in 1..L, i < j PROVE Clear(s[i], s[j])
  <2>1. <<s[i], s[j]>> \in Follows
    BY <1>2, <1>5 DEF Ordered
  <2>2. QED
    BY <2>1 DEF Follows
<1>6. ASSUME NEW i \in 1..L, s[i].kind = "box"
      PROVE  Clicked(s, s[i].left, s[i].top) = s[i].item
  <2> DEFINE o == s[i]
  <2>1. /\ o.left \in Nat /\ o.right \in Nat /\ o.top \in Nat /\ o.bottom \in Nat
        /\ o.left < o.right /\ o.top < o.bottom
    BY <1>4, <1>6, ObjFields
  <2>2. Has(o, o.left, o.top)
    BY <2>1 DEF Has
  <2>3. ASSUME NEW j \in 1..L, i < j PROVE ~Has(s[j], o.left, o.top)
    <3> DEFINE p == s[j]
    <3>1. p.left \in Nat /\ p.right \in Nat /\ p.top \in Nat /\ p.bottom \in Nat
      BY <1>4, ObjFields
    <3>2. o.bottom <= p.top \/ o.right <= p.left
      BY <1>5, <1>6, <2>3 DEF Clear
    <3> HIDE DEF o, p
    <3>3. ~Has(p, o.left, o.top)
      BY <2>1, <3>1, <3>2 DEF Has
    <3>4. QED
      BY <3>3 DEF p
  <2>4. QED
    BY <1>2, <2>2, <2>3, LastHit
<1>7. ASSUME NEW i \in 1..L, s[i].kind = "line", s[i].top < s[i].bottom
      PROVE  Clicked(s, Width - 1, s[i].top) = s[i].item
  <2> DEFINE o == s[i]
             x == Width - 1
  <2>1. /\ o.left = 0 /\ o.right = Width /\ o.top \in Nat /\ o.bottom \in Nat
        /\ o.top < o.bottom
    BY <1>4, <1>7, ObjFields
  <2>2. x \in Nat /\ x < Width /\ 0 <= x
    BY <1>3
  <2>3. Has(o, x, o.top)
    <3> HIDE DEF x, o
    <3>1. QED
      BY <2>1, <2>2 DEF Has
  <2>4. ASSUME NEW j \in 1..L, i < j PROVE ~Has(s[j], x, o.top)
    <3> DEFINE p == s[j]
    <3>1. p.left \in Nat /\ p.right \in Nat /\ p.top \in Nat /\ p.bottom \in Nat
      BY <1>4, ObjFields
    <3>2. o.bottom <= p.top \/ p.right < Width
      BY <1>5, <1>7, <2>4 DEF Clear
    <3> HIDE DEF o, p
    <3>3. ~Has(p, x, o.top)
      BY <1>3, <2>1, <3>1, <3>2 DEF Has
    <3>4. QED
      BY <3>3 DEF p
  <2> HIDE DEF x
  <2>5. Clicked(s, x, o.top) = o.item
    BY <1>2, <2>3, <2>4, LastHit
  <2>6. QED
    BY <2>5 DEF x
<1>8. QED
  BY <1>4, <1>6, <1>7 DEF ClickFindsBox, s

-----------------------------------------------------------------------------
(* The theorems *)

LEMMA Invariance == Spec => []IInv
  BY InitIInv, StepIInv, PTL DEF Spec

\* HTMLParser::add_tag, add_text, implcit_tag and finish: for every document the
\* stack is a path and every item that is not on it stands once below its parent.
THEOREM SoundTree == Spec => []TreeSound
  BY Invariance, TreeIsSound, PTL

\* The head holds head tags only.
THEOREM CleanHead == Spec => []HeadHoldsHeadTags
  BY Invariance, HeadIsClean, PTL

\* The finished tree begins as innerHTML_set expects.
THEOREM ShapedRoot == Spec => []RootShape
  BY Invariance, RootIsShaped, PTL

\* tree_to_list, which runs the scripts and finds what is clicked, gives every
\* item of a document once and in its order, however tags were left out, left
\* open or closed by another's end tag.
THEOREM DocumentOrder == Spec => []SourceOrder
  BY Invariance, ListedInOrder, PTL

\* BlockLayout and InlineLayout: blocks among texts, texts outside of any block,
\* lines that br cuts, buttons: of every document every text and input is shown
\* once and in its order.
THEOREM EverythingShown == Spec => []NothingLost
  BY Bareness, ShowsAll, PTL

\* Tab::click: of every document's layout, the last object of the list at a point is
\* the box there, or the line if there is none.
THEOREM ClicksFindBoxes == Spec => []ClickFindsBox
  BY Bareness, ClicksFind, PTL
=============================================================================
