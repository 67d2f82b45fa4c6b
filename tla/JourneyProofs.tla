---------------------------- MODULE JourneyProofs -----------------------------
(***************************************************************************)
(* Proofs about Journey.tla for any names, addresses, links and keys: what *)
(* parsing and resolving make of a text of any length.                     *)
(***************************************************************************)
EXTENDS Journey, Induction, FiniteSetTheorems

-----------------------------------------------------------------------------
(* Finding *)

\* A part of a sequence.
LEMMA PartOf ==
  ASSUME NEW S, NEW s \in Seq(S), NEW m \in Nat \ {0}, NEW n \in Nat, n <= Len(s)
  PROVE  /\ SubSeq(s, m, n) \in Seq(S)
         /\ Len(SubSeq(s, m, n)) = IF m <= n THEN n - m + 1 ELSE 0
         /\ \A i \in 1..(n - m + 1) : SubSeq(s, m, n)[i] = s[m + i - 1]
<1>1. \A i \in m..n : i \in 1..Len(s)
  OBVIOUS
<1>2. \A i \in m..n : s[i] \in S
  BY <1>1, ElementOfSeq
<1>3. m \in Int /\ n \in Int
  OBVIOUS
<1>4. QED
  BY <1>2, <1>3, SubSeqProperties

LEMMA Same ==
  ASSUME NEW S, NEW s \in Seq(S), NEW t \in Seq(S), Len(s) = Len(t),
         \A i \in 1..Len(s) : s[i] = t[i]
  PROVE  s = t
BY SeqEqual

LEMMA Joined ==
  ASSUME NEW S, NEW s \in Seq(S), NEW t \in Seq(S)
  PROVE  /\ s \o t \in Seq(S) /\ Len(s \o t) = Len(s) + Len(t)
         /\ \A i \in 1..Len(s) : (s \o t)[i] = s[i]
         /\ \A i \in 1..Len(t) : (s \o t)[Len(s) + i] = t[i]
<1>1. Len(s) \in Nat /\ Len(t) \in Nat
  OBVIOUS
<1>2. \A i \in 1..Len(t) : Len(s) + i \in 1..(Len(s) + Len(t)) /\ ~(Len(s) + i <= Len(s))
                            /\ Len(s) + i - Len(s) = i
  BY <1>1
<1>3. \A i \in 1..Len(s) : i \in 1..(Len(s) + Len(t)) /\ i <= Len(s)
  BY <1>1
<1>4. /\ s \o t \in Seq(S) /\ Len(s \o t) = Len(s) + Len(t)
      /\ \A i \in 1..(Len(s) + Len(t)) :
           (s \o t)[i] = IF i <= Len(s) THEN s[i] ELSE t[i - Len(s)]
  BY ConcatProperties
<1>5. QED
  BY <1>2, <1>3, <1>4

LEMMA Regrouped ==
  ASSUME NEW S, NEW t \in Seq(S), NEW u \in Seq(S), NEW v \in Seq(S)
  PROVE  (t \o u) \o v = t \o (u \o v)
BY ConcatAssociative

LEMMA BytesRegrouped ==
  \A t, u, v \in Seq(Bytes) : (t \o u) \o v = t \o (u \o v)
BY Regrouped

LEMMA LexemesRegrouped ==
  \A t, u, v \in Seq(Lexemes) : (t \o u) \o v = t \o (u \o v)
BY Regrouped

LEMMA OneOf ==
  ASSUME NEW S, NEW s \in Seq(S), NEW i \in 1..Len(s)
  PROVE  SubSeq(s, i, i) = <<s[i]>> /\ s[i] \in S
<1> DEFINE p == SubSeq(s, i, i)
           q == <<s[i]>>
<1>1. s[i] \in S /\ i \in Nat \ {0} /\ i <= Len(s) /\ i - i + 1 = 1 /\ i + 1 - 1 = i
  BY ElementOfSeq
<1>2. p \in Seq(S) /\ Len(p) = 1 /\ \A k \in 1..1 : p[k] = s[i + k - 1]
  BY <1>1, PartOf
<1>3. q \in Seq(S) /\ Len(q) = 1 /\ q[1] = s[i]
  BY <1>1
<1>4. \A k \in 1..1 : k = 1
  OBVIOUS
<1>5. 1 \in 1..1
  OBVIOUS
<1> HIDE DEF p, q
<1>6. p[1] = s[i]
  BY <1>1, <1>2, <1>5
<1>7. \A k \in 1..Len(p) : p[k] = q[k]
  BY <1>2, <1>3, <1>4, <1>6
<1>8. p = q
  BY <1>2, <1>3, <1>7, Same
<1>9. QED
  BY <1>1, <1>8 DEF p, q

\* A pattern, sign by sign.
LEMMA AtIs ==
  ASSUME NEW S, NEW s \in Seq(S), NEW p \in Seq(S), NEW i \in Nat \ {0}
  PROVE  At(s, i, p) <=> /\ i + Len(p) <= Len(s) + 1
                         /\ \A k \in 1..Len(p) : s[i + k - 1] = p[k]
<1> DEFINE n == i + Len(p) - 1
           q == SubSeq(s, i, n)
<1>1. Len(s) \in Nat /\ Len(p) \in Nat /\ n \in Nat /\ n - i + 1 = Len(p)
  OBVIOUS
<1>2. At(s, i, p) <=> n <= Len(s) /\ q = p
  BY <1>1 DEF At
<1>3. ASSUME n <= Len(s)
      PROVE  /\ q \in Seq(S) /\ Len(q) = Len(p)
             /\ \A k \in 1..Len(p) : q[k] = s[i + k - 1]
  <2>1. /\ q \in Seq(S) /\ Len(q) = IF i <= n THEN n - i + 1 ELSE 0
        /\ \A k \in 1..(n - i + 1) : q[k] = s[i + k - 1]
    BY <1>1, <1>3, PartOf
  <2> HIDE DEF q
  <2>2. QED
    BY <1>1, <2>1
<1> HIDE DEF q
<1>4. ASSUME n <= Len(s) PROVE q = p <=> \A k \in 1..Len(p) : s[i + k - 1] = p[k]
  <2>1. (\A k \in 1..Len(p) : q[k] = p[k]) => q = p
    BY <1>3, <1>4, Same
  <2>2. QED
    BY <1>3, <1>4, <2>1
<1>5. QED
  BY <1>1, <1>2, <1>4

\* A pattern of one sign.
LEMMA AtSign ==
  ASSUME NEW S, NEW s \in Seq(S), NEW c \in S, NEW i \in Nat \ {0}
  PROVE  At(s, i, <<c>>) <=> i <= Len(s) /\ s[i] = c
<1> DEFINE p == <<c>>
<1>1. p \in Seq(S) /\ Len(p) = 1 /\ p[1] = c /\ Len(s) \in Nat
  OBVIOUS
<1>2. (\A k \in 1..1 : s[i + k - 1] = p[k]) <=> s[i] = c
  <2>1. \A k \in 1..1 : k = 1 /\ i + k - 1 = i
    OBVIOUS
  <2>2. 1 \in 1..1
    OBVIOUS
  <2> HIDE DEF p
  <2>3. QED
    BY <1>1, <2>1, <2>2
<1> HIDE DEF p
<1>3. p \in Seq(S)
  BY <1>1
<1>4. At(s, i, p) <=> /\ i + Len(p) <= Len(s) + 1
                      /\ \A k \in 1..Len(p) : s[i + k - 1] = p[k]
  <2>1. i \in Nat \ {0} /\ s \in Seq(S) /\ p \in Seq(S)
    BY <1>3
  <2>2. QED
    BY <2>1, AtIs
<1>5. At(s, i, p) <=> i <= Len(s) /\ s[i] = c
  BY <1>1, <1>2, <1>4
<1>6. QED
  BY <1>5 DEF p

\* What Find returns: the first place, or None.
LEMMA Finding ==
  ASSUME NEW S, NEW s \in Seq(S), NEW p \in Seq(S), NEW start \in Nat
  PROVE  \/ /\ Find(s, p, start) = None
            /\ \A i \in Nat : i >= start => ~At(s, i, p)
         \/ /\ Find(s, p, start) \in Nat /\ Find(s, p, start) # None
            /\ Find(s, p, start) >= start /\ At(s, Find(s, p, start), p)
            /\ \A i \in Nat : start <= i /\ i < Find(s, p, start) => ~At(s, i, p)
<1> DEFINE found == {i \in start..(Len(s) + 1 - Len(p)) : At(s, i, p)}
<1>1. Len(s) \in Nat /\ Len(p) \in Nat
  OBVIOUS
<1>2. \A i \in Nat : i >= start /\ At(s, i, p) => i \in found
  BY <1>1 DEF At
<1>3. \A i \in found : i \in Nat /\ i >= start /\ At(s, i, p)
  BY <1>1
<1>4. Find(s, p, start) = IF found = {} THEN None ELSE CHOOSE i \in found : \A j \in found : i <= j
  BY DEF Find
<1> HIDE DEF found
<1>5. CASE found = {}
  BY <1>2, <1>4, <1>5
<1>6. CASE found # {}
  <2>1. found \subseteq Nat
    BY <1>3
  <2>2. \E m \in found : \A k \in found : m <= k
    BY <2>1, <1>6, NatMin
  <2> DEFINE m == CHOOSE i \in found : \A j \in found : i <= j
  <2>3. m \in found /\ \A k \in found : m <= k
    BY <2>2
  <2>4. Find(s, p, start) = m
    BY <1>4, <1>6
  <2> HIDE DEF m
  <2>5. m \in Nat /\ m >= start /\ At(s, m, p)
    BY <1>3, <2>3
  <2>6. m # None
    BY <2>5, NoneAssumption
  <2>7. \A i \in Nat : start <= i /\ i < m => ~At(s, i, p)
    BY <1>2, <2>3, <2>5
  <2>8. QED
    BY <2>4, <2>5, <2>6, <2>7
<1>7. QED
  BY <1>5, <1>6

LEMMA FoundAt ==
  ASSUME NEW S, NEW s \in Seq(S), NEW p \in Seq(S), NEW start \in Nat, NEW m \in Nat,
         m >= start, At(s, m, p), \A i \in Nat : start <= i /\ i < m => ~At(s, i, p)
  PROVE  Find(s, p, start) = m
<1>1. \/ Find(s, p, start) = None /\ ~At(s, m, p)
      \/ /\ Find(s, p, start) \in Nat /\ Find(s, p, start) >= start
         /\ At(s, Find(s, p, start), p)
         /\ m < Find(s, p, start) => ~At(s, m, p)
  BY Finding
<1>2. QED
  BY <1>1

\* One sign.
LEMMA FindingSign ==
  ASSUME NEW S, NEW s \in Seq(S), NEW c \in S, NEW start \in Nat \ {0}
  PROVE  \/ /\ Find(s, <<c>>, start) = None
            /\ \A i \in start..Len(s) : s[i] # c
         \/ /\ Find(s, <<c>>, start) \in start..Len(s) /\ Find(s, <<c>>, start) # None
            /\ s[Find(s, <<c>>, start)] = c
            /\ \A i \in start..(Find(s, <<c>>, start) - 1) : s[i] # c
<1> DEFINE p == <<c>>
<1>1. p \in Seq(S) /\ Len(s) \in Nat
  OBVIOUS
<1>2. \A i \in Nat \ {0} : At(s, i, p) <=> i <= Len(s) /\ s[i] = c
  BY AtSign
<1> HIDE DEF p
<1>3. \/ /\ Find(s, p, start) = None
         /\ \A i \in Nat : i >= start => ~At(s, i, p)
      \/ /\ Find(s, p, start) \in Nat /\ Find(s, p, start) # None
         /\ Find(s, p, start) >= start /\ At(s, Find(s, p, start), p)
         /\ \A i \in Nat : start <= i /\ i < Find(s, p, start) => ~At(s, i, p)
  BY <1>1, Finding
<1>4. CASE Find(s, p, start) = None /\ \A i \in Nat : i >= start => ~At(s, i, p)
  <2>1. \A i \in start..Len(s) : i \in Nat \ {0} /\ i >= start /\ i <= Len(s)
    BY <1>1
  <2>2. QED
    BY <1>2, <1>4, <2>1 DEF p
<1>5. CASE /\ Find(s, p, start) \in Nat /\ Find(s, p, start) # None
           /\ Find(s, p, start) >= start /\ At(s, Find(s, p, start), p)
           /\ \A i \in Nat : start <= i /\ i < Find(s, p, start) => ~At(s, i, p)
  <2> DEFINE m == Find(s, p, start)
  <2>1. m \in Nat \ {0} /\ m >= start /\ m <= Len(s) /\ s[m] = c
    BY <1>2, <1>5
  <2>2. \A i \in start..(m - 1) : i \in Nat \ {0} /\ start <= i /\ i < m /\ i <= Len(s)
    BY <2>1, <1>1
  <2>3. \A i \in start..(m - 1) : s[i] # c
    BY <1>2, <1>5, <2>2
  <2> HIDE DEF m
  <2>4. m \in start..Len(s)
    BY <2>1, <1>1
  <2>5. QED
    BY <1>5, <2>1, <2>3, <2>4 DEF p, m
<1>6. QED
  BY <1>3, <1>4, <1>5

LEMMA FoundSign ==
  ASSUME NEW S, NEW s \in Seq(S), NEW c \in S, NEW start \in Nat \ {0}, NEW m \in start..Len(s),
         s[m] = c, \A i \in start..(m - 1) : s[i] # c
  PROVE  Find(s, <<c>>, start) = m
<1> DEFINE f == Find(s, <<c>>, start)
<1>1. \/ /\ f = None /\ \A i \in start..Len(s) : s[i] # c
      \/ /\ f \in start..Len(s) /\ f # None /\ s[f] = c
         /\ \A i \in start..(f - 1) : s[i] # c
  BY FindingSign
<1> HIDE DEF f
<1>2. f \in start..Len(s) /\ s[f] = c /\ \A i \in start..(f - 1) : s[i] # c
  BY <1>1
<1>3. Len(s) \in Nat
  OBVIOUS
<1>4. ~(m < f)
  BY <1>2, <1>3
<1>5. ~(f < m)
  BY <1>2, <1>3
<1>6. QED
  BY <1>2, <1>3, <1>4, <1>5 DEF f

LEMMA NoSign ==
  ASSUME NEW S, NEW s \in Seq(S), NEW c \in S, NEW start \in Nat \ {0},
         \A i \in start..Len(s) : s[i] # c
  PROVE  Find(s, <<c>>, start) = None
<1>1. QED
  BY FindingSign

\* The last place of a sign.
LEMMA FoundLast ==
  ASSUME NEW S, NEW s \in Seq(S), NEW c, NEW m \in 1..Len(s), s[m] = c,
         \A i \in (m + 1)..Len(s) : s[i] # c
  PROVE  FindLast(s, c) = m
<1> DEFINE found == {i \in DOMAIN s : s[i] = c}
<1>1. Len(s) \in Nat /\ DOMAIN s = 1..Len(s)
  OBVIOUS
<1>2. m \in found /\ \A j \in found : j \in 1..Len(s) /\ j <= m
  BY <1>1
<1>3. FindLast(s, c) = IF found = {} THEN None ELSE CHOOSE i \in found : \A j \in found : j <= i
  BY DEF FindLast
<1> HIDE DEF found
<1> DEFINE f == CHOOSE i \in found : \A j \in found : j <= i
<1>4. f \in found /\ \A j \in found : j <= f
  BY <1>2
<1>5. FindLast(s, c) = f
  BY <1>2, <1>3
<1> HIDE DEF f
<1>6. f <= m /\ m <= f /\ f \in 1..Len(s)
  BY <1>2, <1>4
<1>7. QED
  BY <1>1, <1>5, <1>6

-----------------------------------------------------------------------------
(* Addresses *)

Texts == Seq(Lexemes)

Clear(s) == \A i \in 1..Len(s) : s[i] # "/"

Rooted(path) == path \in Texts /\ Len(path) > 0 /\ path[1] = "/"

Base(scheme, authority) == <<scheme>> \o Marker \o authority

LEMMA LexemesAre ==
  /\ ":" \in Lexemes /\ "/" \in Lexemes /\ ".." \in Lexemes /\ "80" \in Lexemes
  /\ "443" \in Lexemes /\ "http" \in Lexemes /\ "https" \in Lexemes
  /\ "add" \in Lexemes /\ "comment.js" \in Lexemes
BY TextsAssumption DEF Lexemes

LEMMA MarkerIs ==
  /\ Marker \in Texts /\ Len(Marker) = 3
  /\ Marker[1] = ":" /\ Marker[2] = "/" /\ Marker[3] = "/"
BY LexemesAre DEF Marker, Texts

\* What an address means.
Reading(scheme, authority, path) ==
  LET colon == Find(authority, <<":">>, 1)
      default == IF scheme = "http" THEN <<"80">> ELSE <<"443">>
      port == IF colon = None THEN default ELSE From(authority, colon + 1)
  IN [text |-> Base(scheme, authority) \o path, scheme |-> <<scheme>>,
      host |-> Before(authority, colon), port |-> port, path |-> path,
      tls |-> scheme # "http" /\ port # <<"80">>]

LEMMA BaseIs ==
  ASSUME NEW scheme \in Lexemes, NEW authority \in Texts
  PROVE  /\ Base(scheme, authority) \in Texts
         /\ Len(Base(scheme, authority)) = 4 + Len(authority)
         /\ Base(scheme, authority)[1] = scheme /\ Base(scheme, authority)[2] = ":"
         /\ Base(scheme, authority)[3] = "/" /\ Base(scheme, authority)[4] = "/"
         /\ \A k \in 1..Len(authority) : Base(scheme, authority)[4 + k] = authority[k]
<1> DEFINE one == <<scheme>>
           first == one \o Marker
<1>1. one \in Texts /\ Len(one) = 1 /\ one[1] = scheme
  BY DEF Texts
<1> HIDE DEF one
<1>2. /\ first \in Texts /\ Len(first) = 1 + 3
      /\ \A i \in 1..1 : first[i] = one[i]
      /\ \A i \in 1..3 : first[1 + i] = Marker[i]
  <2>1. one \in Seq(Lexemes) /\ Marker \in Seq(Lexemes)
    BY <1>1, MarkerIs DEF Texts
  <2>2. /\ first \in Seq(Lexemes) /\ Len(first) = Len(one) + Len(Marker)
        /\ \A i \in 1..Len(one) : first[i] = one[i]
        /\ \A i \in 1..Len(Marker) : first[Len(one) + i] = Marker[i]
    BY <2>1, Joined
  <2> HIDE DEF first
  <2>3. QED
    BY <1>1, <2>2, MarkerIs DEF Texts
<1> HIDE DEF first
<1>3. /\ first \in Texts /\ Len(first) = 4
      /\ first[1] = scheme /\ first[2] = ":" /\ first[3] = "/" /\ first[4] = "/"
  <2>1. 1 \in 1..1 /\ 1 \in 1..3 /\ 2 \in 1..3 /\ 3 \in 1..3
    OBVIOUS
  <2>2. first[1] = one[1] /\ first[1 + 1] = Marker[1] /\ first[1 + 2] = Marker[2]
        /\ first[1 + 3] = Marker[3]
    BY <1>2, <2>1
  <2>3. QED
    BY <1>1, <1>2, <2>2, MarkerIs
<1> DEFINE b == first \o authority
<1>4. /\ b \in Texts /\ Len(b) = 4 + Len(authority)
      /\ \A i \in 1..4 : b[i] = first[i]
      /\ \A i \in 1..Len(authority) : b[4 + i] = authority[i]
  <2>1. first \in Seq(Lexemes) /\ authority \in Seq(Lexemes)
    BY <1>3 DEF Texts
  <2>2. /\ b \in Seq(Lexemes) /\ Len(b) = Len(first) + Len(authority)
        /\ \A i \in 1..Len(first) : b[i] = first[i]
        /\ \A i \in 1..Len(authority) : b[Len(first) + i] = authority[i]
    BY <2>1, Joined
  <2> HIDE DEF b
  <2>3. QED
    BY <1>3, <2>2 DEF Texts
<1>5. Base(scheme, authority) = b
  BY DEF Base, first, one
<1> HIDE DEF b
<1>6. 1 \in 1..4 /\ 2 \in 1..4 /\ 3 \in 1..4 /\ 4 \in 1..4
  OBVIOUS
<1>7. QED
  BY <1>3, <1>4, <1>5, <1>6

\* A text that begins like an address, up to where its host starts.
LEMMA SchemeEnds ==
  ASSUME NEW text \in Texts, NEW scheme \in {"http", "https"}, Len(text) >= 4,
         text[1] = scheme, text[2] = ":", text[3] = "/", text[4] = "/"
  PROVE  Find(text, Marker, 1) = 2 /\ Before(text, 2) = <<scheme>>
<1>1. text \in Seq(Lexemes) /\ Len(text) \in Nat
  BY DEF Texts
<1>2. /\ Marker \in Seq(Lexemes) /\ Len(Marker) = 3
      /\ Marker[1] = ":" /\ Marker[2] = "/" /\ Marker[3] = "/"
  BY MarkerIs DEF Texts
<1>3. At(text, 2, Marker)
  <2>1. \A k \in 1..Len(Marker) : k = 1 \/ k = 2 \/ k = 3
    BY <1>2
  <2>2. \A k \in 1..Len(Marker) : text[2 + k - 1] = Marker[k]
    BY <1>2, <2>1
  <2>3. 2 \in Nat \ {0} /\ 2 + Len(Marker) <= Len(text) + 1
    BY <1>1, <1>2
  <2>4. QED
    BY <1>1, <1>2, <2>2, <2>3, AtIs
<1>4. ~At(text, 1, Marker)
  <2>1. 1 \in Nat \ {0} /\ 1 \in 1..Len(Marker) /\ 1 + 1 - 1 = 1
    BY <1>2
  <2>2. text[1 + 1 - 1] # Marker[1]
    BY <1>2, <2>1
  <2>3. At(text, 1, Marker) <=> /\ 1 + Len(Marker) <= Len(text) + 1
                                /\ \A k \in 1..Len(Marker) : text[1 + k - 1] = Marker[k]
    <3>1. text \in Seq(Lexemes) /\ Marker \in Seq(Lexemes) /\ 1 \in Nat \ {0}
      BY <1>1, <1>2
    <3>2. QED
      BY <3>1, AtIs
  <2>4. QED
    BY <2>1, <2>2, <2>3
<1>5. \A i \in Nat : 1 <= i /\ i < 2 => i = 1
  OBVIOUS
<1>6. Find(text, Marker, 1) = 2
  BY <1>1, <1>2, <1>3, <1>4, <1>5, FoundAt
<1>7. 2 # None
  BY NoneAssumption
<1>8. Before(text, 2) = SubSeq(text, 1, 1)
  BY <1>7 DEF Before
<1>9. SubSeq(text, 1, 1) = <<text[1]>>
  BY <1>1, OneOf
<1>10. QED
  BY <1>6, <1>8, <1>9

Schemed == {"http", "https"}

\* What Parse does behind the scheme of a text.
LEMMA ParsingIs ==
  ASSUME NEW text \in Texts, NEW scheme \in Schemed, Len(text) >= 4,
         text[1] = scheme, text[2] = ":", text[3] = "/", text[4] = "/"
  PROVE  LET slash == Find(text, <<"/">>, 5)
             authority == IF slash = None THEN From(text, 5) ELSE SubSeq(text, 5, slash - 1)
             colon == Find(authority, <<":">>, 1)
             default == IF scheme = "http" THEN <<"80">> ELSE <<"443">>
             port == IF colon = None THEN default ELSE From(authority, colon + 1)
         IN Parse(text) =
              [text |-> IF slash = None THEN Append(text, "/") ELSE text,
               scheme |-> <<scheme>>,
               host |-> Before(authority, colon),
               port |-> port,
               path |-> IF slash = None THEN <<"/">> ELSE From(text, slash),
               tls |-> scheme # "http" /\ port # <<"80">>]
<1>1. Find(text, Marker, 1) = 2 /\ Before(text, 2) = <<scheme>>
  BY SchemeEnds DEF Schemed
<1>2. 2 # None /\ 2 + 3 = 5
  BY NoneAssumption
<1>3. <<scheme>> \in Schemes
  BY DEF Schemes, Schemed
<1>4. <<scheme>> = <<"http">> <=> scheme = "http"
  OBVIOUS
<1>5. QED
  BY <1>1, <1>2, <1>3, <1>4 DEF Parse

\* An address is its scheme, its authority and its path.
LEMMA ParseWhole ==
  ASSUME NEW scheme \in Schemed, NEW authority \in Texts, Clear(authority), NEW path, Rooted(path)
  PROVE  /\ Base(scheme, authority) \o path \in Texts
         /\ Parse(Base(scheme, authority) \o path) = Reading(scheme, authority, path)
<1> DEFINE base == Base(scheme, authority)
           text == base \o path
           n == Len(authority)
<1>1. /\ base \in Seq(Lexemes) /\ Len(base) = 4 + n
      /\ base[1] = scheme /\ base[2] = ":" /\ base[3] = "/" /\ base[4] = "/"
      /\ \A k \in 1..n : base[4 + k] = authority[k]
  <2>1. scheme \in Lexemes
    BY LexemesAre DEF Schemed
  <2>2. QED
    BY <2>1, BaseIs DEF Texts
<1>2. path \in Seq(Lexemes) /\ Len(path) \in Nat /\ Len(path) > 0 /\ path[1] = "/"
      /\ authority \in Seq(Lexemes) /\ n \in Nat /\ 4 \in Nat
  BY DEF Rooted, Texts
<1>3. /\ text \in Seq(Lexemes) /\ Len(text) = Len(base) + Len(path)
      /\ \A i \in 1..Len(base) : text[i] = base[i]
      /\ \A i \in 1..Len(path) : text[Len(base) + i] = path[i]
  <2>1. base \in Seq(Lexemes) /\ path \in Seq(Lexemes)
    BY <1>1, <1>2
  <2> HIDE DEF base
  <2>2. QED
    BY <2>1, Joined
<1> HIDE DEF text, base, n
<1>4. /\ text[1] = scheme /\ text[2] = ":" /\ text[3] = "/" /\ text[4] = "/"
      /\ \A k \in 1..n : text[4 + k] = authority[k]
      /\ Len(text) >= 4
  <2>1. 1 \in 1..Len(base) /\ 2 \in 1..Len(base) /\ 3 \in 1..Len(base) /\ 4 \in 1..Len(base)
        /\ \A k \in 1..n : 4 + k \in 1..Len(base)
    BY <1>1, <1>2
  <2>2. QED
    BY <1>1, <1>2, <1>3, <2>1
<1>5. Find(text, <<"/">>, 5) = 5 + n
  <2> DEFINE m == 5 + n
  <2>1. m \in 5..Len(text) /\ 1 \in 1..Len(path) /\ Len(base) + 1 = m /\ m - 5 = n
    BY <1>1, <1>2, <1>3
  <2>2. text[Len(base) + 1] = path[1]
    BY <1>3, <2>1
  <2> HIDE DEF m
  <2>3. ASSUME NEW i \in 5..(m - 1) PROVE text[i] # "/"
    <3>1. i - 4 \in 1..n /\ 4 + (i - 4) = i
      BY <1>2, <2>1
    <3>2. text[i] = authority[i - 4]
      BY <1>4, <3>1
    <3>3. QED
      BY <3>1, <3>2 DEF Clear, n
  <2>4. text[m] = "/"
    BY <1>2, <2>1, <2>2
  <2>5. 5 \in Nat \ {0} /\ text \in Seq(Lexemes) /\ "/" \in Lexemes /\ m \in 5..Len(text)
    BY <1>3, <2>1, LexemesAre
  <2>6. Find(text, <<"/">>, 5) = m
    BY <2>3, <2>4, <2>5, FoundSign
  <2>7. QED
    BY <2>6 DEF m
<1>6. SubSeq(text, 5, 5 + n - 1) = authority
  <2> DEFINE q == SubSeq(text, 5, 5 + n - 1)
  <2>1. 5 \in Nat \ {0} /\ 5 + n - 1 \in Nat /\ 5 + n - 1 <= Len(text) /\ (5 + n - 1) - 5 + 1 = n
        /\ (5 <= 5 + n - 1 <=> n # 0)
    BY <1>1, <1>2, <1>3
  <2>2. /\ q \in Seq(Lexemes)
        /\ Len(q) = IF 5 <= 5 + n - 1 THEN (5 + n - 1) - 5 + 1 ELSE 0
        /\ \A i \in 1..((5 + n - 1) - 5 + 1) : q[i] = text[5 + i - 1]
    BY <1>3, <2>1, PartOf
  <2> HIDE DEF q
  <2>3. Len(q) = n
    BY <1>2, <2>1, <2>2
  <2>4. \A i \in 1..n : 5 + i - 1 = 4 + i
    BY <1>2
  <2>5. \A i \in 1..Len(q) : q[i] = authority[i]
    BY <1>4, <2>1, <2>2, <2>3, <2>4
  <2>6. QED
    BY <1>2, <2>2, <2>3, <2>5, Same DEF q, n
<1>7. From(text, 5 + n) = path
  <2> DEFINE q == SubSeq(text, 5 + n, Len(text))
  <2>1. 5 + n \in Nat \ {0} /\ Len(text) \in Nat /\ Len(text) <= Len(text) /\ 5 + n <= Len(text)
        /\ Len(text) - (5 + n) + 1 = Len(path)
    BY <1>1, <1>2, <1>3
  <2>2. /\ q \in Seq(Lexemes)
        /\ Len(q) = IF 5 + n <= Len(text) THEN Len(text) - (5 + n) + 1 ELSE 0
        /\ \A i \in 1..(Len(text) - (5 + n) + 1) : q[i] = text[(5 + n) + i - 1]
    BY <1>3, <2>1, PartOf
  <2> HIDE DEF q
  <2>3. Len(q) = Len(path)
    BY <2>1, <2>2
  <2>4. \A i \in 1..Len(path) : (5 + n) + i - 1 = Len(base) + i
    BY <1>1, <1>2
  <2>5. \A i \in 1..Len(q) : q[i] = path[i]
    BY <1>3, <2>1, <2>2, <2>3, <2>4
  <2>6. q = path
    BY <1>2, <2>2, <2>3, <2>5, Same
  <2>7. QED
    BY <2>6 DEF q, From
<1>8. 5 + n # None
  BY <1>2, NoneAssumption
<1>9. text \in Texts
  BY <1>3 DEF Texts
<1>10. Parse(text) = Reading(scheme, authority, path)
  <2> DEFINE slash == Find(text, <<"/">>, 5)
             body == IF slash = None THEN From(text, 5) ELSE SubSeq(text, 5, slash - 1)
             colon == Find(body, <<":">>, 1)
             default == IF scheme = "http" THEN <<"80">> ELSE <<"443">>
             port == IF colon = None THEN default ELSE From(body, colon + 1)
  <2>1. Parse(text) = [text |-> IF slash = None THEN Append(text, "/") ELSE text,
               scheme |-> <<scheme>>,
               host |-> Before(body, colon),
               port |-> port,
               path |-> IF slash = None THEN <<"/">> ELSE From(text, slash),
               tls |-> scheme # "http" /\ port # <<"80">>]
    BY <1>4, <1>9, ParsingIs
  <2>2. slash = 5 + n
    BY <1>5
  <2> HIDE DEF slash
  <2>a. slash # None
    BY <1>8, <2>2
  <2>b. body = SubSeq(text, 5, slash - 1)
    BY <2>a
  <2> HIDE DEF body
  <2>c. SubSeq(text, 5, slash - 1) = SubSeq(text, 5, 5 + n - 1)
    <3>1. slash - 1 = 5 + n - 1
      BY <1>2, <2>2
    <3>2. QED
      BY <3>1, Zenon
  <2>d. From(text, slash) = From(text, 5 + n)
    BY <2>2
  <2>3. body = authority /\ slash # None /\ From(text, slash) = path
    BY <1>6, <1>7, <2>a, <2>b, <2>c, <2>d
  <2>4. QED
    BY <2>1, <2>3 DEF Reading, text, base
<1>11. QED
  BY <1>9, <1>10 DEF text, base

\* Without a path.
LEMMA ParseBare ==
  ASSUME NEW scheme \in Schemed, NEW authority \in Texts, Clear(authority)
  PROVE  Parse(Base(scheme, authority)) = Reading(scheme, authority, <<"/">>)
<1> DEFINE text == Base(scheme, authority)
           n == Len(authority)
<1>1. /\ text \in Texts /\ text \in Seq(Lexemes) /\ Len(text) = 4 + n
      /\ text[1] = scheme /\ text[2] = ":" /\ text[3] = "/" /\ text[4] = "/"
      /\ \A k \in 1..n : text[4 + k] = authority[k]
  <2>1. scheme \in Lexemes
    BY LexemesAre DEF Schemed
  <2>2. QED
    BY <2>1, BaseIs DEF Texts
<1>2. authority \in Seq(Lexemes) /\ n \in Nat
  BY DEF Texts
<1> HIDE DEF text, n
<1>3. Find(text, <<"/">>, 5) = None
  <2>1. ASSUME NEW i \in 5..Len(text) PROVE text[i] # "/"
    <3>1. i - 4 \in 1..n /\ 4 + (i - 4) = i
      BY <1>1, <1>2
    <3>2. text[i] = authority[i - 4]
      BY <1>1, <3>1
    <3>3. QED
      BY <3>1, <3>2 DEF Clear, n
  <2>2. 5 \in Nat \ {0}
    OBVIOUS
  <2>3. QED
    BY <1>1, <2>1, <2>2, NoSign, LexemesAre
<1>4. From(text, 5) = authority
  <2> DEFINE q == SubSeq(text, 5, Len(text))
  <2>1. 5 \in Nat \ {0} /\ Len(text) \in Nat /\ Len(text) <= Len(text) /\ Len(text) - 5 + 1 = n
        /\ (5 <= Len(text) <=> n # 0)
    BY <1>1, <1>2
  <2>2. /\ q \in Seq(Lexemes)
        /\ Len(q) = IF 5 <= Len(text) THEN Len(text) - 5 + 1 ELSE 0
        /\ \A i \in 1..(Len(text) - 5 + 1) : q[i] = text[5 + i - 1]
    BY <1>1, <2>1, PartOf
  <2> HIDE DEF q
  <2>3. Len(q) = n
    BY <1>2, <2>1, <2>2
  <2>4. \A i \in 1..n : 5 + i - 1 = 4 + i
    BY <1>2
  <2>5. \A i \in 1..Len(q) : q[i] = authority[i]
    BY <1>1, <2>1, <2>2, <2>3, <2>4
  <2>6. q = authority
    BY <1>2, <2>2, <2>3, <2>5, Same DEF n
  <2>7. QED
    BY <2>6 DEF q, From
<1>5. Append(text, "/") = text \o <<"/">>
  BY <1>1, LexemesAre, AppendIsConcat
<1>6. Len(text) >= 4
  BY <1>1, <1>2
<1>7. QED
  BY <1>1, <1>3, <1>4, <1>5, <1>6, ParsingIs DEF Reading, text

\* What parses begins like an address.
LEMMA ParseBegins ==
  ASSUME NEW text \in Texts, Parse(text) # None
  PROVE  /\ Len(text) >= 4 /\ text[1] \in Schemed
         /\ text[2] = ":" /\ text[3] = "/" /\ text[4] = "/"
<1> DEFINE m == Find(text, Marker, 1)
<1>1. m # None /\ Before(text, m) \in Schemes
  BY DEF Parse
<1>2. text \in Seq(Lexemes) /\ Marker \in Seq(Lexemes) /\ 1 \in Nat /\ Len(text) \in Nat
  BY MarkerIs DEF Texts
<1>3. m \in Nat /\ m >= 1 /\ At(text, m, Marker)
  <2>1. \/ Find(text, Marker, 1) = None
        \/ /\ Find(text, Marker, 1) \in Nat /\ Find(text, Marker, 1) >= 1
           /\ At(text, Find(text, Marker, 1), Marker)
    BY <1>2, Finding
  <2>2. QED
    BY <1>1, <2>1
<1>4. Before(text, m) = SubSeq(text, 1, m - 1)
  BY <1>1 DEF Before
<1> HIDE DEF m
<1>5. m + 3 <= Len(text) + 1 /\ \A k \in 1..3 : text[m + k - 1] = Marker[k]
  <2>1. m \in Nat \ {0} /\ text \in Seq(Lexemes) /\ Marker \in Seq(Lexemes)
    BY <1>2, <1>3
  <2>2. At(text, m, Marker) <=> /\ m + Len(Marker) <= Len(text) + 1
                                /\ \A k \in 1..Len(Marker) : text[m + k - 1] = Marker[k]
    BY <2>1, AtIs
  <2>3. QED
    BY <1>3, <2>2, MarkerIs
<1>6. Len(SubSeq(text, 1, m - 1)) = m - 1
  <2>1. 1 \in Nat \ {0} /\ m - 1 \in Nat /\ m - 1 <= Len(text) /\ (m - 1) - 1 + 1 = m - 1
        /\ (1 <= m - 1 \/ m - 1 = 0)
    BY <1>2, <1>3, <1>5
  <2>2. Len(SubSeq(text, 1, m - 1)) = IF 1 <= m - 1 THEN (m - 1) - 1 + 1 ELSE 0
    BY <1>2, <2>1, PartOf
  <2>3. QED
    BY <2>1, <2>2
<1>7. Len(SubSeq(text, 1, m - 1)) = 1
  <2>1. \A x \in Schemes : Len(x) = 1
    BY DEF Schemes
  <2>2. QED
    BY <1>1, <1>4, <2>1
<1>8. m = 2
  BY <1>3, <1>6, <1>7
<1>9. Len(text) >= 4 /\ 1 \in 1..Len(text)
  BY <1>2, <1>5, <1>8
<1>10. SubSeq(text, 1, 1) = <<text[1]>>
  BY <1>2, <1>9, OneOf
<1>11. <<text[1]>> \in Schemes
  <2>1. m - 1 = 1
    BY <1>8
  <2>2. QED
    BY <1>1, <1>4, <1>10, <2>1
<1>12. text[1] \in Schemed
  <2>1. <<text[1]>> = <<"http">> \/ <<text[1]>> = <<"https">>
    BY <1>11 DEF Schemes
  <2>2. QED
    BY <2>1 DEF Schemed
<1>13. text[2 + 1 - 1] = Marker[1] /\ text[2 + 2 - 1] = Marker[2] /\ text[2 + 3 - 1] = Marker[3]
  BY <1>5, <1>8
<1>14. QED
  BY <1>9, <1>12, <1>13, MarkerIs

\* What parses is an address.
LEMMA ParseOnly ==
  ASSUME NEW text \in Texts, Parse(text) # None
  PROVE  \E scheme \in Schemed, authority \in Texts, path \in Texts :
           /\ Clear(authority) /\ Rooted(path)
           /\ Parse(text) = Reading(scheme, authority, path)
<1> DEFINE scheme == text[1]
           slash == Find(text, <<"/">>, 5)
<1>1. /\ Len(text) >= 4 /\ scheme \in Schemed
      /\ text[2] = ":" /\ text[3] = "/" /\ text[4] = "/"
  BY ParseBegins
<1>2. text \in Seq(Lexemes) /\ Len(text) \in Nat /\ 5 \in Nat \ {0} /\ "/" \in Lexemes
      /\ scheme \in Lexemes
  BY <1>1, LexemesAre DEF Texts, Schemed
<1>3. \/ slash = None /\ \A i \in 5..Len(text) : text[i] # "/"
      \/ /\ slash \in 5..Len(text) /\ text[slash] = "/"
         /\ \A i \in 5..(slash - 1) : text[i] # "/"
  BY <1>2, FindingSign
<1> HIDE DEF slash, scheme
<1>4. ASSUME NEW to \in Nat, 4 <= to, to <= Len(text), \A i \in 5..to : text[i] # "/"
      PROVE  /\ SubSeq(text, 5, to) \in Texts /\ Clear(SubSeq(text, 5, to))
             /\ Base(scheme, SubSeq(text, 5, to)) = SubSeq(text, 1, to)
  <2> DEFINE a == SubSeq(text, 5, to)
             b == SubSeq(text, 1, to)
  <2>1. /\ 1 \in Nat \ {0} /\ to - 5 + 1 \in Nat /\ to - 1 + 1 = to /\ 1 <= to
        /\ (5 <= to <=> to - 5 + 1 # 0) /\ to - 5 + 1 = to - 4
    BY <1>4
  <2>2. /\ a \in Seq(Lexemes) /\ Len(a) = IF 5 <= to THEN to - 5 + 1 ELSE 0
        /\ \A i \in 1..(to - 5 + 1) : a[i] = text[5 + i - 1]
    BY <1>2, <1>4, PartOf
  <2>3. /\ b \in Seq(Lexemes) /\ Len(b) = IF 1 <= to THEN to - 1 + 1 ELSE 0
        /\ \A i \in 1..(to - 1 + 1) : b[i] = text[1 + i - 1]
    BY <1>2, <1>4, <2>1, PartOf
  <2> HIDE DEF a, b
  <2>4. Len(a) = to - 4 /\ Len(b) = to
    BY <1>4, <2>1, <2>2, <2>3
  <2>5. \A i \in 1..Len(a) : i \in 1..(to - 5 + 1) /\ 5 + i - 1 = 4 + i /\ 4 + i \in 5..to
    BY <1>4, <2>1, <2>4
  <2>6. \A i \in 1..Len(a) : a[i] = text[4 + i] /\ a[i] # "/"
    BY <1>4, <2>2, <2>5
  <2>7. \A i \in 1..to : 1 + i - 1 = i
    BY <1>4
  <2>8. \A i \in 1..to : b[i] = text[i]
    BY <2>1, <2>3, <2>7
  <2>9. a \in Texts /\ Clear(a)
    BY <2>2, <2>6 DEF Texts, Clear
  <2> DEFINE c == Base(scheme, a)
  <2>10. /\ c \in Texts /\ Len(c) = 4 + Len(a)
         /\ c[1] = scheme /\ c[2] = ":" /\ c[3] = "/" /\ c[4] = "/"
         /\ \A k \in 1..Len(a) : c[4 + k] = a[k]
    BY <1>2, <2>9, BaseIs
  <2> HIDE DEF c
  <2>11. \A i \in 1..to : i = 1 \/ i = 2 \/ i = 3 \/ i = 4 \/ (i - 4 \in 1..Len(a) /\ 4 + (i - 4) = i)
    BY <1>4, <2>4
  <2>12. \A i \in 1..to : c[i] = text[i]
    BY <1>1, <2>6, <2>10, <2>11 DEF scheme
  <2>13. Len(c) = to
    BY <1>4, <2>4, <2>10
  <2>14. c = b
    BY <2>3, <2>4, <2>8, <2>10, <2>12, <2>13, Same DEF Texts
  <2>15. QED
    BY <2>9, <2>14 DEF a, b, c
<1>5. CASE slash = None /\ \A i \in 5..Len(text) : text[i] # "/"
  <2> DEFINE a == SubSeq(text, 5, Len(text))
  <2>1. a \in Texts /\ Clear(a) /\ Base(scheme, a) = SubSeq(text, 1, Len(text))
    BY <1>1, <1>2, <1>4, <1>5
  <2>2. SubSeq(text, 1, Len(text)) = text
    BY <1>2, SubSeqFull
  <2> HIDE DEF a
  <2>3. Parse(Base(scheme, a)) = Reading(scheme, a, <<"/">>)
    BY <1>1, <2>1, ParseBare
  <2>4. Parse(text) = Reading(scheme, a, <<"/">>)
    BY <2>1, <2>2, <2>3
  <2>5. Rooted(<<"/">>) /\ <<"/">> \in Texts
    BY LexemesAre DEF Rooted, Texts
  <2>6. QED
    BY <1>1, <2>1, <2>4, <2>5
<1>6. CASE /\ slash \in 5..Len(text) /\ text[slash] = "/"
           /\ \A i \in 5..(slash - 1) : text[i] # "/"
  <2> DEFINE to == slash - 1
             a == SubSeq(text, 5, to)
             path == SubSeq(text, to + 1, Len(text))
  <2>1. to \in Nat /\ 4 <= to /\ to <= Len(text) /\ to + 1 = slash /\ to + 1 \in Nat \ {0}
        /\ to + 1 <= Len(text)
    BY <1>2, <1>6
  <2>2. a \in Texts /\ Clear(a) /\ Base(scheme, a) = SubSeq(text, 1, to)
    BY <1>4, <1>6, <2>1
  <2> HIDE DEF to, a
  <2>3. SubSeq(text, 1, to) \o path = SubSeq(text, 1, Len(text))
    <3>1. 1 \in 1..(Len(text) + 1) /\ to \in (1 - 1)..Len(text) /\ Len(text) \in to..Len(text)
      BY <1>2, <2>1
    <3>2. QED
      BY <1>2, <3>1, ConcatAdjacentSubSeq
  <2>4. SubSeq(text, 1, Len(text)) = text
    BY <1>2, SubSeqFull
  <2>5. /\ path \in Seq(Lexemes)
        /\ Len(path) = IF to + 1 <= Len(text) THEN Len(text) - (to + 1) + 1 ELSE 0
        /\ \A i \in 1..(Len(text) - (to + 1) + 1) : path[i] = text[(to + 1) + i - 1]
    BY <1>2, <2>1, PartOf
  <2> HIDE DEF path
  <2>6. Len(path) > 0 /\ path[1] = "/"
    <3>1. 1 \in 1..(Len(text) - (to + 1) + 1) /\ (to + 1) + 1 - 1 = slash
          /\ Len(text) - (to + 1) + 1 > 0
      BY <1>2, <2>1
    <3>2. path[1] = text[(to + 1) + 1 - 1]
      BY <2>5, <3>1
    <3>3. QED
      BY <1>6, <2>1, <2>5, <3>1, <3>2
  <2>7. Rooted(path) /\ path \in Texts
    BY <2>5, <2>6 DEF Rooted, Texts
  <2>8. Parse(Base(scheme, a) \o path) = Reading(scheme, a, path)
    BY <1>1, <2>2, <2>7, ParseWhole
  <2>9. Base(scheme, a) \o path = text
    BY <2>2, <2>3, <2>4
  <2>10. QED
    BY <1>1, <2>2, <2>7, <2>8, <2>9
<1>7. QED
  BY <1>3, <1>5, <1>6

\* The end of a text.
LEMMA EndOf ==
  ASSUME NEW S, NEW s \in Seq(S), NEW i \in Nat \ {0}, i <= Len(s) + 1
  PROVE  /\ From(s, i) \in Seq(S) /\ Len(From(s, i)) = Len(s) + 1 - i
         /\ \A k \in 1..(Len(s) + 1 - i) : From(s, i)[k] = s[i + k - 1]
<1> DEFINE q == SubSeq(s, i, Len(s))
<1>1. Len(s) \in Nat /\ Len(s) - i + 1 = Len(s) + 1 - i /\ (i <= Len(s) \/ Len(s) + 1 - i = 0)
      /\ Len(s) <= Len(s)
  OBVIOUS
<1>2. /\ q \in Seq(S) /\ Len(q) = IF i <= Len(s) THEN Len(s) - i + 1 ELSE 0
      /\ \A k \in 1..(Len(s) - i + 1) : q[k] = s[i + k - 1]
  BY <1>1, PartOf
<1>3. From(s, i) = q
  BY DEF From
<1> HIDE DEF q
<1>4. Len(q) = Len(s) + 1 - i
  BY <1>1, <1>2
<1>5. QED
  BY <1>1, <1>2, <1>3, <1>4

LEMMA BeginOf ==
  ASSUME NEW S, NEW s \in Seq(S), NEW i \in Nat \ {0}, i <= Len(s) + 1
  PROVE  /\ Before(s, i) \in Seq(S) /\ Len(Before(s, i)) = i - 1
         /\ \A k \in 1..(i - 1) : Before(s, i)[k] = s[k]
<1> DEFINE q == SubSeq(s, 1, i - 1)
<1>1. Len(s) \in Nat /\ i - 1 \in Nat /\ i - 1 <= Len(s) /\ (i - 1) - 1 + 1 = i - 1
      /\ (1 <= i - 1 \/ i - 1 = 0) /\ 1 \in Nat \ {0}
  OBVIOUS
<1>2. /\ q \in Seq(S) /\ Len(q) = IF 1 <= i - 1 THEN (i - 1) - 1 + 1 ELSE 0
      /\ \A k \in 1..((i - 1) - 1 + 1) : q[k] = s[1 + k - 1]
  BY <1>1, PartOf
<1>3. i # None
  BY NoneAssumption
<1>4. Before(s, i) = q
  BY <1>3 DEF Before
<1> HIDE DEF q
<1>5. Len(q) = i - 1
  BY <1>1, <1>2
<1>6. \A k \in 1..(i - 1) : 1 + k - 1 = k
  OBVIOUS
<1>7. QED
  BY <1>1, <1>2, <1>4, <1>5, <1>6

\* The host and the port of an address.
LEMMA HostPort ==
  ASSUME NEW scheme \in Schemed, NEW authority \in Texts, Clear(authority), NEW path \in Texts
  PROVE  LET u == Reading(scheme, authority, path) IN
         /\ u.host \in Texts /\ Clear(u.host) /\ \A i \in 1..Len(u.host) : u.host[i] # ":"
         /\ u.port \in Texts /\ Clear(u.port)
         /\ u.scheme = <<scheme>> /\ u.path = path
         /\ u.text = Base(scheme, authority) \o path
         /\ u.tls = (scheme # "http" /\ u.port # <<"80">>)
<1> DEFINE colon == Find(authority, <<":">>, 1)
           default == IF scheme = "http" THEN <<"80">> ELSE <<"443">>
           port == IF colon = None THEN default ELSE From(authority, colon + 1)
           host == Before(authority, colon)
           u == Reading(scheme, authority, path)
<1>1. /\ u.host = host /\ u.port = port
      /\ u.scheme = <<scheme>> /\ u.path = path
      /\ u.text = Base(scheme, authority) \o path
      /\ u.tls = (scheme # "http" /\ port # <<"80">>)
  BY DEF Reading
<1>2. authority \in Seq(Lexemes) /\ ":" \in Lexemes /\ 1 \in Nat \ {0} /\ Len(authority) \in Nat
  BY LexemesAre DEF Texts
<1>3. \/ colon = None /\ \A i \in 1..Len(authority) : authority[i] # ":"
      \/ /\ colon \in 1..Len(authority) /\ colon # None
         /\ \A i \in 1..(colon - 1) : authority[i] # ":"
  BY <1>2, FindingSign
<1> HIDE DEF colon
<1>4. /\ host \in Texts /\ Clear(host) /\ \A i \in 1..Len(host) : host[i] # ":"
      /\ port \in Texts /\ Clear(port)
  <2>1. CASE colon = None /\ \A i \in 1..Len(authority) : authority[i] # ":"
    <3>1. host = authority /\ port = default
      BY <2>1 DEF Before
    <3>2. default \in Texts /\ Clear(default)
      <4>1. /\ <<"80">> \in Texts /\ Len(<<"80">>) = 1 /\ <<"80">>[1] # "/"
            /\ <<"443">> \in Texts /\ Len(<<"443">>) = 1 /\ <<"443">>[1] # "/"
        BY LexemesAre DEF Texts
      <4>2. \A i \in 1..1 : i = 1
        OBVIOUS
      <4>3. Clear(<<"80">>) /\ Clear(<<"443">>)
        BY <4>1, <4>2 DEF Clear
      <4>4. QED
        BY <4>1, <4>3
    <3> HIDE DEF host, port, default
    <3>3. QED
      BY <2>1, <3>1, <3>2
  <2>2. CASE /\ colon \in 1..Len(authority) /\ colon # None
             /\ \A i \in 1..(colon - 1) : authority[i] # ":"
    <3>1. colon \in Nat \ {0} /\ colon <= Len(authority) + 1
          /\ colon + 1 \in Nat \ {0} /\ colon + 1 <= Len(authority) + 1
      BY <1>2, <2>2
    <3>2. /\ host \in Seq(Lexemes) /\ Len(host) = colon - 1
          /\ \A k \in 1..(colon - 1) : host[k] = authority[k]
      BY <1>2, <3>1, BeginOf
    <3> DEFINE after == From(authority, colon + 1)
    <3>3. port = after
      BY <2>2
    <3>4. /\ after \in Seq(Lexemes) /\ Len(after) = Len(authority) + 1 - (colon + 1)
          /\ \A k \in 1..(Len(authority) + 1 - (colon + 1)) : after[k] = authority[(colon + 1) + k - 1]
      BY <1>2, <3>1, EndOf
    <3> HIDE DEF host, port, after
    <3>5. \A k \in 1..(colon - 1) : k \in 1..Len(authority)
      BY <1>2, <3>1
    <3>6. \A k \in 1..(Len(authority) + 1 - (colon + 1)) : (colon + 1) + k - 1 \in 1..Len(authority)
      BY <1>2, <3>1
    <3>7. Clear(host) /\ \A i \in 1..Len(host) : host[i] # ":"
      BY <2>2, <3>2, <3>5 DEF Clear
    <3>8. Clear(after)
      BY <3>4, <3>6 DEF Clear
    <3>9. QED
      BY <3>2, <3>3, <3>4, <3>7, <3>8 DEF Texts
  <2>3. QED
    BY <1>3, <2>1, <2>2
<1> HIDE DEF host, port, u
<1>5. QED
  BY <1>1, <1>4 DEF u

LEMMA NotNone ==
  ASSUME NEW scheme \in Schemed, NEW authority \in Texts, Clear(authority), NEW path \in Texts
  PROVE  Reading(scheme, authority, path) # None
<1> DEFINE u == Reading(scheme, authority, path)
           base == Base(scheme, authority)
<1>1. /\ u.host \in Texts /\ u.port \in Texts /\ u.scheme = <<scheme>> /\ u.path = path
      /\ u.text = base \o path /\ u.tls \in BOOLEAN
  BY HostPort
<1>2. scheme \in Lexemes
  BY LexemesAre DEF Schemed
<1>3. base \in Texts
  BY <1>2, BaseIs
<1>4. base \o path \in Texts
  <2> HIDE DEF base
  <2>1. base \in Seq(Lexemes) /\ path \in Seq(Lexemes)
    BY <1>3 DEF Texts
  <2>2. QED
    BY <2>1, Joined DEF Texts
<1>5. <<scheme>> \in Texts
  BY <1>2 DEF Texts
<1>6. u = [text |-> u.text, scheme |-> u.scheme, host |-> u.host, port |-> u.port,
           path |-> u.path, tls |-> u.tls]
  BY DEF Reading
<1> HIDE DEF u, base
<1>7. u.text \in Texts /\ u.scheme \in Texts /\ u.path \in Texts
  BY <1>1, <1>4, <1>5
<1>8. u \in [text : Texts, scheme : Texts, host : Texts, port : Texts, path : Texts, tls : BOOLEAN]
  BY <1>1, <1>6, <1>7
<1>9. u # None
  BY <1>8, NoAddressAssumption DEF Texts
<1>10. QED
  BY <1>9 DEF u

\* A link that names a path on the site.
LEMMA ResolveRooted ==
  ASSUME NEW scheme \in Schemed, NEW authority \in Texts, Clear(authority), NEW path \in Texts,
         NEW link, Rooted(link)
  PROVE  LET u == Reading(scheme, authority, path)
             v == Parse(u.scheme \o Marker \o u.host \o <<":">> \o u.port \o link)
         IN /\ u.scheme \o Marker \o u.host \o <<":">> \o u.port \o link \in Texts
            /\ v # None /\ v.tls = u.tls /\ Origin(v) = Origin(u) /\ v.path = link
<1> DEFINE u == Reading(scheme, authority, path)
           host == u.host
           port == u.port
           sign == <<":">>
           site == host \o sign \o port
           first == <<scheme>> \o Marker
<1>1. /\ host \in Texts /\ Clear(host) /\ \A i \in 1..Len(host) : host[i] # ":"
      /\ port \in Texts /\ Clear(port) /\ u.scheme = <<scheme>>
      /\ u.tls = (scheme # "http" /\ port # <<"80">>)
  BY HostPort
<1> HIDE DEF u, host, port
<1>2. /\ sign \in Seq(Lexemes) /\ Len(sign) = 1 /\ sign[1] = ":"
      /\ link \in Seq(Lexemes) /\ Marker \in Seq(Lexemes) /\ <<scheme>> \in Seq(Lexemes)
  BY LexemesAre, MarkerIs DEF Rooted, Schemed, Texts
<1> HIDE DEF sign
<1> DEFINE hs == host \o sign
<1>3. /\ hs \in Seq(Lexemes) /\ Len(hs) = Len(host) + Len(sign)
      /\ \A i \in 1..Len(host) : hs[i] = host[i]
      /\ \A i \in 1..Len(sign) : hs[Len(host) + i] = sign[i]
  <2>1. host \in Seq(Lexemes) /\ sign \in Seq(Lexemes)
    BY <1>1, <1>2 DEF Texts
  <2>2. QED
    BY <2>1, Joined
<1> HIDE DEF hs
<1>4. /\ site \in Seq(Lexemes) /\ Len(site) = Len(hs) + Len(port)
      /\ \A i \in 1..Len(hs) : site[i] = hs[i]
      /\ \A i \in 1..Len(port) : site[Len(hs) + i] = port[i]
  <2>1. site = hs \o port
    BY DEF hs
  <2>2. hs \in Seq(Lexemes) /\ port \in Seq(Lexemes)
    BY <1>1, <1>3 DEF Texts
  <2> HIDE DEF site
  <2>3. QED
    BY <2>1, <2>2, Joined
<1> HIDE DEF site
<1> DEFINE n == Len(host)
<1>5. n \in Nat /\ Len(port) \in Nat /\ Len(hs) = n + 1
  BY <1>1, <1>2, <1>3 DEF Texts
<1>6. /\ \A i \in 1..n : site[i] = host[i]
      /\ site[n + 1] = ":"
      /\ \A i \in 1..Len(port) : site[(n + 1) + i] = port[i]
      /\ Len(site) = n + 1 + Len(port)
  <2>1. /\ \A i \in 1..n : i \in 1..Len(hs)
        /\ n + 1 \in 1..Len(hs) /\ 1 \in 1..Len(sign)
    BY <1>2, <1>5
  <2>2. hs[Len(host) + 1] = sign[1]
    BY <1>3, <2>1
  <2>3. QED
    BY <1>2, <1>3, <1>4, <1>5, <2>1, <2>2
<1> HIDE DEF n
<1>7. Clear(site)
  <2>1. \A i \in 1..Len(site) : i \in 1..n \/ i = n + 1 \/ (i - (n + 1) \in 1..Len(port)
                                                           /\ (n + 1) + (i - (n + 1)) = i)
    BY <1>5, <1>6
  <2>2. \A i \in 1..n : host[i] # "/"
    BY <1>1 DEF Clear, n
  <2>3. \A i \in 1..Len(port) : port[i] # "/"
    BY <1>1 DEF Clear
  <2>4. ASSUME NEW i \in 1..Len(site) PROVE site[i] # "/"
    <3>1. CASE i \in 1..n
      BY <1>6, <2>2, <3>1
    <3>2. CASE i = n + 1
      BY <1>6, <3>2
    <3>3. CASE i - (n + 1) \in 1..Len(port) /\ (n + 1) + (i - (n + 1)) = i
      BY <1>6, <2>3, <3>3
    <3>4. QED
      BY <2>1, <3>1, <3>2, <3>3
  <2>5. QED
    BY <2>4 DEF Clear
<1>8. Find(site, <<":">>, 1) = n + 1
  <2> DEFINE m == n + 1
  <2>1. /\ m \in 1..Len(site) /\ site[m] = ":" /\ 1 \in Nat \ {0} /\ ":" \in Lexemes
    BY <1>5, <1>6, LexemesAre
  <2>2. \A i \in 1..(m - 1) : site[i] # ":"
    BY <1>1, <1>5, <1>6 DEF n
  <2> HIDE DEF m
  <2>3. Find(site, <<":">>, 1) = m
    BY <1>4, <2>1, <2>2, FoundSign
  <2>4. QED
    BY <2>3 DEF m
<1>9. Before(site, n + 1) = host /\ From(site, n + 1 + 1) = port
  <2> DEFINE b == Before(site, n + 1)
             f == From(site, n + 1 + 1)
  <2> DEFINE c == n + 1
             d == n + 1 + 1
  <2>1. c \in Nat \ {0} /\ c <= Len(site) + 1 /\ d \in Nat \ {0} /\ d <= Len(site) + 1
        /\ c - 1 = n /\ Len(site) + 1 - d = Len(port)
        /\ \A k \in 1..Len(port) : d + k - 1 = (n + 1) + k
    BY <1>5, <1>6
  <2> HIDE DEF c, d
  <2>2. /\ Before(site, c) \in Seq(Lexemes) /\ Len(Before(site, c)) = c - 1
        /\ \A k \in 1..(c - 1) : Before(site, c)[k] = site[k]
    BY <1>4, <2>1, BeginOf
  <2>3. /\ From(site, d) \in Seq(Lexemes) /\ Len(From(site, d)) = Len(site) + 1 - d
        /\ \A k \in 1..(Len(site) + 1 - d) : From(site, d)[k] = site[d + k - 1]
    <3>1. site \in Seq(Lexemes) /\ d \in Nat \ {0} /\ d <= Len(site) + 1
      BY <1>4, <2>1
    <3>2. QED
      BY <3>1, EndOf
  <2>4. b = Before(site, c) /\ f = From(site, d)
    BY DEF c, d
  <2> HIDE DEF b, f
  <2>5. b = host
    <3>1. Len(b) = Len(host) /\ \A k \in 1..Len(b) : b[k] = host[k]
      BY <1>6, <2>1, <2>2, <2>4 DEF n
    <3>2. QED
      BY <1>1, <2>2, <2>4, <3>1, Same DEF Texts
  <2>6. f = port
    <3>1. Len(f) = Len(port) /\ \A k \in 1..Len(port) : f[k] = site[d + k - 1]
      BY <2>1, <2>3, <2>4
    <3>2. \A k \in 1..Len(f) : f[k] = port[k]
      BY <1>6, <2>1, <3>1
    <3>3. QED
      BY <1>1, <2>3, <2>4, <3>1, <3>2, Same DEF Texts
  <2>7. QED
    BY <2>5, <2>6 DEF b, f
<1> DEFINE v == Reading(scheme, site, link)
<1>10. /\ v.host = host /\ v.port = port /\ v.scheme = <<scheme>> /\ v.path = link
       /\ v.tls = (scheme # "http" /\ port # <<"80">>)
  <2>1. n + 1 # None
    BY <1>5, NoneAssumption
  <2>2. QED
    BY <1>8, <1>9, <2>1 DEF Reading
<1>11. Parse(Base(scheme, site) \o link) = v /\ Base(scheme, site) \o link \in Texts /\ v # None
  <2>1. site \in Texts /\ link \in Texts
    BY <1>2, <1>4 DEF Texts
  <2>2. QED
    BY <1>7, <2>1, ParseWhole, NotNone
<1>12. u.scheme \o Marker \o host \o <<":">> \o port \o link = Base(scheme, site) \o link
  <2>1. first \in Seq(Lexemes)
    BY <1>2, ConcatProperties
  <2>2. first \o host \o sign \o port = first \o site
    <3>1. host \in Seq(Lexemes) /\ port \in Seq(Lexemes)
      BY <1>1 DEF Texts
    <3> HIDE DEF first
    <3>2. first \o host \o sign = first \o hs
      <4>1. first \in Seq(Lexemes) /\ host \in Seq(Lexemes) /\ sign \in Seq(Lexemes)
        BY <1>2, <2>1, <3>1
      <4>2. QED
        BY <4>1, LexemesRegrouped, Zenon DEF hs
    <3>3. first \o hs \o port = first \o (hs \o port)
      <4>1. first \in Seq(Lexemes) /\ hs \in Seq(Lexemes) /\ port \in Seq(Lexemes)
        BY <1>3, <2>1, <3>1
      <4>2. QED
        BY <4>1, ConcatAssociative
    <3>4. hs \o port = site
      BY DEF site, hs
    <3>5. QED
      BY <3>2, <3>3, <3>4
  <2>3. QED
    BY <1>1, <2>2 DEF Base, sign
<1>13. Origin(v) = Origin(u)
  BY <1>1, <1>10 DEF Origin, host, port
<1> HIDE DEF v
<1>14. QED
  BY <1>1, <1>10, <1>11, <1>12, <1>13 DEF u, host, port

\* A directory ends in front of the last slash.
LEMMA DirectoryIs ==
  ASSUME NEW t \in Texts, NEW m \in 1..Len(t), t[m] = "/", \A i \in (m + 1)..Len(t) : t[i] # "/"
  PROVE  Directory(t) = SubSeq(t, 1, m - 1)
<1>1. t \in Seq(Lexemes)
  BY DEF Texts
<1>2. FindLast(t, "/") = m
  BY <1>1, FoundLast
<1>3. m \in Nat
  BY <1>1
<1>4. m # None
  BY <1>3, NoneAssumption
<1>5. QED
  BY <1>2, <1>4 DEF Directory, Before

LEMMA DirectoryType ==
  ASSUME NEW t \in Texts
  PROVE  Directory(t) \in Texts
<1> DEFINE found == {i \in DOMAIN t : t[i] = "/"}
<1>1. t \in Seq(Lexemes) /\ DOMAIN t = 1..Len(t) /\ Len(t) \in Nat
  BY DEF Texts
<1>2. FindLast(t, "/") = IF found = {} THEN None ELSE CHOOSE i \in found : \A j \in found : j <= i
  BY DEF FindLast
<1>3. found \subseteq Nat /\ \A i \in found : i <= Len(t) /\ i \in 1..Len(t)
  BY <1>1
<1> HIDE DEF found
<1>4. CASE found = {}
  BY <1>2, <1>4 DEF Directory, Before
<1>5. CASE found # {}
  <2>1. \E m \in found : \A k \in found : k <= m
    BY <1>1, <1>3, <1>5, NatMax
  <2> DEFINE m == CHOOSE i \in found : \A j \in found : j <= i
  <2>2. m \in found
    BY <2>1
  <2>3. FindLast(t, "/") = m
    BY <1>2, <1>5
  <2> HIDE DEF m
  <2>4. m \in Nat \ {0} /\ m <= Len(t) + 1
    BY <1>1, <1>3, <2>2
  <2>5. Before(t, m) \in Seq(Lexemes)
    BY <1>1, <2>4, BeginOf
  <2>6. QED
    BY <2>3, <2>5 DEF Directory, Texts
<1>6. QED
  BY <1>4, <1>5

LEMMA ClimbIs ==
  ASSUME NEW dir \in Texts
  PROVE  /\ Climb(dir, 0) = dir
         /\ \A n \in Nat : Climb(dir, n) \in Texts /\ Climb(dir, n + 1) = Directory(Climb(dir, n))
<1> DEFINE Climbs(u) == [n \in Nat |-> IF n = 0 THEN dir ELSE Directory(u[n - 1])]
           f == CHOOSE u : u = Climbs(u)
           step == [q \in Nat \X Texts |-> Directory(q[2])]
<1>1. \A n : Climb(dir, n) = f[n]
  BY DEF Climb
<1>2. step \in [Nat \X Texts -> Texts]
  BY DirectoryType
<1>3. PICK g \in [Nat -> Texts] : Recurs(g, dir, step)
  BY <1>2, Recursion
<1>4. \A n \in Nat : g[n + 1] = Directory(g[n])
  <2>1. ASSUME NEW n \in Nat PROVE g[n + 1] = Directory(g[n])
    <3> DEFINE q == <<n, g[n]>>
    <3>1. q \in Nat \X Texts /\ q[2] = g[n]
      BY <1>3
    <3>2. g[n + 1] = step[q]
      BY <1>3 DEF Recurs
    <3> HIDE DEF q
    <3>3. step[q] = Directory(q[2])
      BY <3>1
    <3>4. QED
      BY <3>1, <3>2, <3>3
  <2>2. QED
    BY <2>1
<1>5. g[0] = dir
  BY <1>3 DEF Recurs
<1>6. g = Climbs(g)
  <2>1. ASSUME NEW n \in Nat PROVE g[n] = Climbs(g)[n]
    <3>1. CASE n = 0
      BY <1>5, <3>1
    <3>2. CASE n # 0
      <4>1. n - 1 \in Nat /\ (n - 1) + 1 = n
        BY <3>2
      <4>2. g[n] = Directory(g[n - 1])
        BY <1>4, <4>1
      <4>3. QED
        BY <3>2, <4>2
    <3>3. QED
      BY <3>1, <3>2
  <2>2. QED
    BY <2>1, <1>3
<1>7. f = Climbs(f)
  <2> HIDE DEF Climbs
  <2>1. QED
    BY <1>6
<1> HIDE DEF f
<1> DEFINE T == {n \in Nat : f[n] = g[n]}
<1>8. 0 \in T
  BY <1>5, <1>7
<1>9. ASSUME NEW n \in Nat, n \in T PROVE n + 1 \in T
  <2>1. n + 1 \in Nat /\ n + 1 # 0 /\ (n + 1) - 1 = n
    OBVIOUS
  <2>2. f[n + 1] = Directory(f[n])
    BY <1>7, <2>1
  <2>3. QED
    BY <1>4, <1>9, <2>2
<1> HIDE DEF T
<1>10. Nat \subseteq T
  BY <1>8, <1>9, NatAll
<1>11. \A n \in Nat : f[n] = g[n]
  BY <1>10 DEF T
<1>12. QED
  BY <1>1, <1>3, <1>4, <1>5, <1>11

\* The slashes of a path behind one of them.
SlashesBehind(path, i) == {j \in DOMAIN path : j > i /\ path[j] = "/"}

\* Climbing over n levels ends in front of the slash that has n behind it.
LEMMA Climbing ==
  ASSUME NEW scheme \in Schemed, NEW authority \in Texts, NEW path \in Texts,
         NEW text, text = Base(scheme, authority) \o path
  PROVE  \A n \in Nat : \A i \in 1..Len(path) :
           path[i] = "/" /\ Cardinality(SlashesBehind(path, i)) = n
             => Climb(Directory(text), n) = SubSeq(text, 1, 4 + Len(authority) + i - 1)
<1> DEFINE base == Base(scheme, authority)
           p == 4 + Len(authority)
           L == Len(path)
<1>1. /\ base \in Seq(Lexemes) /\ Len(base) = p
  <2>1. scheme \in Lexemes
    BY LexemesAre DEF Schemed
  <2>2. QED
    BY <2>1, BaseIs DEF Texts
<1>2. path \in Seq(Lexemes) /\ L \in Nat /\ p \in Nat /\ DOMAIN path = 1..L
  BY DEF Texts
<1>3. /\ text \in Seq(Lexemes) /\ Len(text) = p + L
      /\ \A i \in 1..L : text[p + i] = path[i]
  <2> HIDE DEF base, p
  <2>1. /\ base \o path \in Seq(Lexemes) /\ Len(base \o path) = Len(base) + Len(path)
        /\ \A i \in 1..Len(path) : (base \o path)[Len(base) + i] = path[i]
    <3>1. base \in Seq(Lexemes) /\ path \in Seq(Lexemes)
      BY <1>1, <1>2
    <3>2. QED
      BY <3>1, Joined
  <2>2. text = base \o path
    BY DEF base
  <2>3. QED
    BY <1>1, <2>1, <2>2
<1>4. text \in Texts
  BY <1>3 DEF Texts
<1>5. Directory(text) \in Texts
  BY <1>4, DirectoryType
<1>6. /\ Climb(Directory(text), 0) = Directory(text)
      /\ \A n \in Nat : Climb(Directory(text), n + 1) = Directory(Climb(Directory(text), n))
  BY <1>5, ClimbIs
<1>7. \A i : IsFiniteSet(SlashesBehind(path, i)) /\ \A j \in SlashesBehind(path, i) : j \in 1..L
  <2>1. IsFiniteSet(1..L)
    BY <1>2, FS_Interval
  <2>2. \A i : SlashesBehind(path, i) \subseteq 1..L
    BY <1>2 DEF SlashesBehind
  <2>3. QED
    BY <2>1, <2>2, FS_Subset
<1> DEFINE climb(n) == Climb(Directory(text), n)
           Ends(n, i) == path[i] = "/" /\ Cardinality(SlashesBehind(path, i)) = n
                           => climb(n) = SubSeq(text, 1, p + i - 1)
           T == {n \in Nat : \A i \in 1..L : Ends(n, i)}
<1> HIDE DEF base, p, L
\* From a text that ends behind a slash, to that slash.
<1>8. ASSUME NEW i \in 1..L, NEW to \in Nat, p + i <= to, to <= p + L, path[i] = "/",
             \A j \in 1..L : i < j /\ p + j <= to => path[j] # "/"
      PROVE  Directory(SubSeq(text, 1, to)) = SubSeq(text, 1, p + i - 1)
  <2> DEFINE t == SubSeq(text, 1, to)
             m == p + i
  <2>1. /\ 1 \in Nat \ {0} /\ to <= Len(text) /\ 1 <= to /\ to - 1 + 1 = to
        /\ m \in 1..to /\ m \in Nat
        /\ \A k \in 1..to : 1 + k - 1 = k
    BY <1>2, <1>3, <1>8
  <2>2. /\ t \in Seq(Lexemes) /\ Len(t) = IF 1 <= to THEN to - 1 + 1 ELSE 0
        /\ \A k \in 1..(to - 1 + 1) : t[k] = text[1 + k - 1]
    BY <1>3, <2>1, PartOf
  <2>3. text[p + i] = path[i]
    BY <1>3, <1>8
  <2> HIDE DEF t, m
  <2>4. Len(t) = to /\ \A k \in 1..to : t[k] = text[k]
    BY <2>1, <2>2
  <2>5. t[m] = "/"
    BY <1>8, <2>1, <2>3, <2>4 DEF m
  <2>6. ASSUME NEW k \in (m + 1)..Len(t) PROVE t[k] # "/"
    <3>1. k - p \in 1..L /\ i < k - p /\ p + (k - p) = k /\ k <= to /\ k \in 1..to
      BY <1>2, <1>8, <2>4 DEF m
    <3>2. path[k - p] # "/"
      BY <1>8, <3>1
    <3>3. text[k] = path[k - p]
      BY <1>3, <3>1
    <3>4. QED
      BY <2>4, <3>1, <3>2, <3>3
  <2>7. t \in Texts /\ m \in 1..Len(t)
    BY <2>1, <2>2, <2>4 DEF Texts
  <2>8. Directory(t) = SubSeq(t, 1, m - 1)
    BY <2>5, <2>6, <2>7, DirectoryIs
  <2>9. SubSeq(t, 1, m - 1) = SubSeq(text, 1, m - 1)
    <3> DEFINE a == SubSeq(t, 1, m - 1)
               b == SubSeq(text, 1, m - 1)
    <3>1. m - 1 \in Nat /\ m - 1 <= Len(t) /\ m - 1 <= Len(text)
          /\ (m - 1) - 1 + 1 = m - 1 /\ (1 <= m - 1 \/ m - 1 = 0)
          /\ \A k \in 1..(m - 1) : k \in 1..to
      BY <2>1, <2>4
    <3>2. /\ a \in Seq(Lexemes) /\ Len(a) = IF 1 <= m - 1 THEN (m - 1) - 1 + 1 ELSE 0
          /\ \A k \in 1..((m - 1) - 1 + 1) : a[k] = t[1 + k - 1]
      BY <2>1, <2>2, <3>1, PartOf
    <3>3. /\ b \in Seq(Lexemes) /\ Len(b) = IF 1 <= m - 1 THEN (m - 1) - 1 + 1 ELSE 0
          /\ \A k \in 1..((m - 1) - 1 + 1) : b[k] = text[1 + k - 1]
      BY <1>3, <2>1, <3>1, PartOf
    <3> HIDE DEF a, b
    <3>4. Len(a) = Len(b) /\ \A k \in 1..Len(a) : a[k] = b[k]
      BY <2>1, <2>4, <3>1, <3>2, <3>3
    <3>5. a = b
      BY <3>2, <3>3, <3>4, Same
    <3>6. QED
      BY <3>5 DEF a, b
  <2>10. Directory(t) = SubSeq(text, 1, m - 1)
    BY <2>8, <2>9
  <2>11. m - 1 = p + i - 1
    BY <1>2, <2>1 DEF m
  <2>12. Directory(t) = SubSeq(text, 1, p + i - 1)
    BY <2>10, <2>11
  <2>13. QED
    BY <2>12 DEF t
<1>9. 0 \in T
  <2>1. ASSUME NEW i \in 1..L, path[i] = "/", Cardinality(SlashesBehind(path, i)) = 0
        PROVE climb(0) = SubSeq(text, 1, p + i - 1)
    <3>1. SlashesBehind(path, i) = {}
      BY <1>7, <2>1, FS_EmptySet
    <3>2. \A j \in 1..L : i < j => path[j] # "/"
      BY <1>2, <3>1 DEF SlashesBehind
    <3> DEFINE to == p + L
    <3>3. to \in Nat /\ p + i <= to /\ to <= p + L
      BY <1>2
    <3> HIDE DEF to
    <3>4. Directory(SubSeq(text, 1, to)) = SubSeq(text, 1, p + i - 1)
      BY <1>8, <2>1, <3>2, <3>3
    <3>5. SubSeq(text, 1, Len(text)) = text
      BY <1>3, SubSeqFull
    <3>6. QED
      BY <1>3, <1>6, <3>4, <3>5 DEF to
  <2>2. QED
    BY <2>1
<1>10. ASSUME NEW n \in Nat, n \in T PROVE n + 1 \in T
  <2>1. ASSUME NEW i \in 1..L, path[i] = "/", Cardinality(SlashesBehind(path, i)) = n + 1
        PROVE climb(n + 1) = SubSeq(text, 1, p + i - 1)
    <3> DEFINE B == SlashesBehind(path, i)
    <3>1. IsFiniteSet(B) /\ B \subseteq Nat /\ B # {}
      <4>1. B # {}
        <5>1. Cardinality({}) = 0 /\ n + 1 # 0
          BY FS_EmptySet
        <5>2. QED
          BY <2>1, <5>1
      <4>2. QED
        BY <1>2, <1>7, <4>1
    <3>2. PICK k \in B : \A j \in B : k <= j
      <4> HIDE DEF B
      <4>1. QED
        BY <3>1, NatMin
    <3>3. k \in 1..L /\ k > i /\ path[k] = "/" /\ \A j \in 1..L : i < j /\ j < k => path[j] # "/"
      <4>1. k \in 1..L /\ k > i /\ path[k] = "/"
        BY <1>2, <3>2 DEF SlashesBehind
      <4>2. ASSUME NEW j \in 1..L, i < j, j < k PROVE path[j] # "/"
        <5>1. ~(k <= j)
          BY <4>1, <4>2
        <5>2. j \notin B
          BY <3>2, <5>1
        <5>3. QED
          BY <1>2, <4>2, <5>2 DEF SlashesBehind
      <4>3. QED
        BY <4>1, <4>2
    <3>4. SlashesBehind(path, k) = B \ {k}
      <4>1. ASSUME NEW j \in 1..L PROVE j > k /\ path[j] = "/" <=> j > i /\ path[j] = "/" /\ j # k
        BY <1>2, <3>3
      <4>2. QED
        BY <1>2, <4>1 DEF SlashesBehind
    <3>5. Cardinality(B \ {k}) = n
      <4>1. Cardinality(B \ {k}) = Cardinality(B) - 1
        <5> HIDE DEF B
        <5>1. QED
          BY <3>1, <3>2, FS_RemoveElement
      <4>2. QED
        BY <2>1, <4>1
    <3>6. climb(n) = SubSeq(text, 1, p + k - 1)
      <4>1. Ends(n, k)
        BY <1>10, <3>3
      <4>2. QED
        BY <3>3, <3>4, <3>5, <4>1
    <3>7. p + k - 1 \in Nat /\ p + i <= p + k - 1 /\ p + k - 1 <= p + L
          /\ \A j \in 1..L : i < j /\ p + j <= p + k - 1 => j < k
      BY <1>2, <3>3
    <3>8. Directory(SubSeq(text, 1, p + k - 1)) = SubSeq(text, 1, p + i - 1)
      BY <1>8, <2>1, <3>3, <3>7
    <3>9. QED
      BY <1>6, <3>6, <3>8
  <2>2. n + 1 \in Nat
    OBVIOUS
  <2>3. \A i \in 1..L : Ends(n + 1, i)
    BY <2>1
  <2>4. QED
    BY <2>2, <2>3
<1> HIDE DEF T
<1>11. Nat \subseteq T
  BY <1>9, <1>10, NatAll
<1>12. QED
  BY <1>11 DEF T, p, L

\* The levels a link climbs are all in front of what it names.
LEMMA LevelsAre ==
  ASSUME NEW link \in Texts
  PROVE  /\ Levels(link) \in Nat /\ 2 * Levels(link) <= Len(link)
         /\ ~At(link, 2 * Levels(link) + 1, Up)
<1> DEFINE Good(n) == /\ \A i \in 1..n : At(link, 2 * i - 1, Up)
                      /\ ~At(link, 2 * n + 1, Up)
           F == {n \in Nat : ~At(link, 2 * n + 1, Up)}
<1>1. Len(link) \in Nat /\ Len(Up) = 2
  BY DEF Texts, Up
<1>2. \A n \in Nat : At(link, n, Up) => n + 2 <= Len(link) + 1
  BY <1>1 DEF At
<1>3. Len(link) \in F
  <2>1. 2 * Len(link) + 1 \in Nat /\ ~(2 * Len(link) + 1 + 2 <= Len(link) + 1)
    BY <1>1
  <2>2. QED
    BY <1>1, <1>2, <2>1
<1>4. PICK m \in F : \A k \in F : m <= k
  <2>1. F \subseteq Nat /\ F # {}
    BY <1>3
  <2> HIDE DEF F
  <2>2. QED
    BY <2>1, NatMin
<1>5. m \in 0..Len(link)
  BY <1>1, <1>3, <1>4
<1>6. Good(m)
  <2>1. ASSUME NEW i \in 1..m PROVE At(link, 2 * i - 1, Up)
    <3>1. i - 1 \in Nat /\ ~(m <= i - 1)
      BY <1>5, <2>1
    <3>2. i - 1 \notin F
      BY <1>4, <3>1
    <3>3. At(link, 2 * (i - 1) + 1, Up)
      BY <3>1, <3>2
    <3>4. 2 * (i - 1) + 1 = 2 * i - 1
      BY <1>5, <2>1
    <3>5. QED
      BY <3>3, <3>4
  <2>2. QED
    BY <1>4, <2>1
<1> DEFINE l == CHOOSE n \in 0..Len(link) : Good(n)
<1>7. l \in 0..Len(link) /\ Good(l)
  <2> HIDE DEF Good
  <2>1. QED
    BY <1>5, <1>6
<1>8. Levels(link) = l
  BY DEF Levels
<1> HIDE DEF l
<1>9. l \in Nat
  BY <1>1, <1>7
<1>10. 2 * l <= Len(link)
  <2>1. CASE l = 0
    BY <1>1, <2>1
  <2>2. CASE l # 0
    <3>1. l \in 1..l /\ 2 * l - 1 \in Nat
      BY <1>9, <2>2
    <3>2. At(link, 2 * l - 1, Up)
      BY <1>7, <3>1
    <3>3. (2 * l - 1) + 2 <= Len(link) + 1
      BY <1>2, <3>1, <3>2
    <3>4. QED
      BY <1>1, <1>9, <3>3
  <2>3. QED
    BY <2>1, <2>2
<1>11. QED
  BY <1>7, <1>8, <1>9, <1>10

IsAddress(u) ==
  \E scheme \in Schemed, authority \in Texts, path \in Texts :
    Clear(authority) /\ Rooted(path) /\ u = Reading(scheme, authority, path)

\* What parses, or is resolved, is an address; and an address parses to itself.
LEMMA ParseType ==
  ASSUME NEW text \in Texts
  PROVE  Parse(text) = None \/ IsAddress(Parse(text))
BY ParseOnly DEF IsAddress

LEMMA ParseAgain ==
  ASSUME NEW u, IsAddress(u)
  PROVE  /\ Parse(u.text) = u /\ u.text \in Texts
         /\ u.scheme \in Texts /\ u.host \in Texts /\ u.port \in Texts /\ u.path \in Texts
<1>1. PICK scheme \in Schemed, authority \in Texts, path \in Texts :
        Clear(authority) /\ Rooted(path) /\ u = Reading(scheme, authority, path)
  BY DEF IsAddress
<1>2. /\ u.text = Base(scheme, authority) \o path /\ u.scheme = <<scheme>> /\ u.path = path
      /\ u.host \in Texts /\ u.port \in Texts
  BY <1>1, HostPort
<1>3. /\ Base(scheme, authority) \o path \in Texts
      /\ Parse(Base(scheme, authority) \o path) = Reading(scheme, authority, path)
  BY <1>1, ParseWhole
<1>4. <<scheme>> \in Texts
  BY LexemesAre DEF Schemed, Texts
<1>5. QED
  BY <1>1, <1>2, <1>3, <1>4

LEMMA Join ==
  ASSUME NEW s \in Texts, NEW t \in Texts
  PROVE  s \o t \in Texts
BY ConcatProperties DEF Texts

LEMMA ResolveType ==
  ASSUME NEW u, IsAddress(u), NEW link \in Texts
  PROVE  Resolve(u, link) = None \/ IsAddress(Resolve(u, link))
<1>1. /\ u.text \in Texts /\ u.scheme \in Texts /\ u.host \in Texts /\ u.port \in Texts
      /\ <<":">> \in Texts /\ <<"/">> \in Texts /\ Marker \in Texts
  BY ParseAgain, LexemesAre, MarkerIs DEF Texts
<1>2. CASE Find(link, Marker, 1) # None
  <2>1. Resolve(u, link) = Parse(link)
    BY <1>2 DEF Resolve
  <2>2. QED
    BY <2>1, ParseType
<1>3. CASE Find(link, Marker, 1) = None /\ At(link, 1, <<"/", "/">>)
  <2> DEFINE joined == u.scheme \o <<":">> \o link
  <2>1. joined \in Texts
    BY <1>1, Join
  <2>2. Resolve(u, link) = Parse(joined)
    BY <1>3 DEF Resolve
  <2> HIDE DEF joined
  <2>3. QED
    BY <2>1, <2>2, ParseType
<1>4. CASE Find(link, Marker, 1) = None /\ At(link, 1, <<"/">>) /\ ~At(link, 1, <<"/", "/">>)
  <2> DEFINE joined == u.scheme \o Marker \o u.host \o <<":">> \o u.port \o link
  <2>1. joined \in Texts
    <3>1. u.scheme \o Marker \in Texts
      BY <1>1, Join
    <3>2. u.scheme \o Marker \o u.host \in Texts
      BY <1>1, <3>1, Join
    <3>3. u.scheme \o Marker \o u.host \o <<":">> \in Texts
      BY <1>1, <3>2, Join
    <3>4. u.scheme \o Marker \o u.host \o <<":">> \o u.port \in Texts
      BY <1>1, <3>3, Join
    <3>5. QED
      BY <3>4, Join
  <2>2. Resolve(u, link) = Parse(joined)
    BY <1>4 DEF Resolve
  <2> HIDE DEF joined
  <2>3. QED
    BY <2>1, <2>2, ParseType
<1>5. CASE Find(link, Marker, 1) = None /\ ~At(link, 1, <<"/">>) /\ ~At(link, 1, <<"/", "/">>)
  <2> DEFINE n == Levels(link)
             dir == Climb(Directory(u.text), n)
             rest == From(link, 2 * n + 1)
             joined == dir \o <<"/">> \o rest
  <2>1. n \in Nat /\ 2 * n + 1 \in Nat \ {0} /\ 2 * n + 1 <= Len(link) + 1 /\ link \in Seq(Lexemes)
    <3>1. n \in Nat /\ 2 * n <= Len(link) /\ Len(link) \in Nat
      BY LevelsAre DEF Texts
    <3> HIDE DEF n
    <3>2. QED
      BY <3>1 DEF Texts
  <2>2. Resolve(u, link) = Parse(joined)
    BY <1>5 DEF Resolve
  <2> HIDE DEF n
  <2>3. dir \in Texts
    BY <1>1, <2>1, DirectoryType, ClimbIs
  <2>4. rest \in Texts
    BY <2>1, EndOf DEF Texts
  <2> HIDE DEF dir, rest
  <2>5. joined \in Texts
    <3>1. dir \o <<"/">> \in Texts
      BY <1>1, <2>3, Join
    <3>2. QED
      BY <2>4, <3>1, Join
  <2> HIDE DEF joined
  <2>6. QED
    BY <2>2, <2>5, ParseType
<1>6. \/ Find(link, Marker, 1) # None
      \/ Find(link, Marker, 1) = None /\ At(link, 1, <<"/", "/">>)
      \/ Find(link, Marker, 1) = None /\ At(link, 1, <<"/">>) /\ ~At(link, 1, <<"/", "/">>)
      \/ Find(link, Marker, 1) = None /\ ~At(link, 1, <<"/">>) /\ ~At(link, 1, <<"/", "/">>)
  OBVIOUS
<1>7. QED
  BY <1>2, <1>3, <1>4, <1>5, <1>6

\* A link that climbs from an address replaces what is behind the slash it climbs to.
LEMMA ResolveClimbing ==
  ASSUME NEW scheme \in Schemed, NEW authority \in Texts, Clear(authority), NEW path \in Texts,
         Rooted(path), NEW link \in Texts, Find(link, Marker, 1) = None, ~At(link, 1, <<"/">>),
         NEW i \in 1..Len(path), path[i] = "/",
         Cardinality(SlashesBehind(path, i)) = Levels(link)
  PROVE  LET kept == SubSeq(path, 1, i) \o From(link, 2 * Levels(link) + 1)
         IN /\ Resolve(Reading(scheme, authority, path), link) = Reading(scheme, authority, kept)
            /\ Rooted(kept)
<1> DEFINE u == Reading(scheme, authority, path)
           base == Base(scheme, authority)
           n == Levels(link)
           rest == From(link, 2 * n + 1)
           front == SubSeq(path, 1, i)
           before == SubSeq(path, 1, i - 1)
           slash == <<"/">>
           p == 4 + Len(authority)
           text == base \o path
<1>1. u.text = text /\ u.text \in Texts /\ text \in Seq(Lexemes)
  <2>1. text \in Texts
    BY ParseWhole
  <2>2. QED
    BY <2>1, HostPort DEF Texts
<1>2. n \in Nat /\ 2 * n + 1 \in Nat \ {0} /\ 2 * n + 1 <= Len(link) + 1 /\ link \in Seq(Lexemes)
  <2>1. n \in Nat /\ 2 * n <= Len(link) /\ Len(link) \in Nat
    BY LevelsAre DEF Texts
  <2> HIDE DEF n
  <2>2. QED
    BY <2>1 DEF Texts
<1>3. Climb(Directory(text), n) = SubSeq(text, 1, p + i - 1)
  <2>1. \A k \in Nat : \A j \in 1..Len(path) :
          path[j] = "/" /\ Cardinality(SlashesBehind(path, j)) = k
            => Climb(Directory(text), k) = SubSeq(text, 1, 4 + Len(authority) + j - 1)
    <3>1. \A t : t = Base(scheme, authority) \o path =>
            \A k \in Nat : \A j \in 1..Len(path) :
              path[j] = "/" /\ Cardinality(SlashesBehind(path, j)) = k
                => Climb(Directory(t), k) = SubSeq(t, 1, 4 + Len(authority) + j - 1)
      BY Climbing
    <3>2. text = Base(scheme, authority) \o path
      OBVIOUS
    <3> HIDE DEF text
    <3>3. QED
      BY <3>1, <3>2, Zenon
  <2>2. n \in Nat /\ Cardinality(SlashesBehind(path, i)) = n
    BY <1>2
  <2> HIDE DEF n, text
  <2>3. QED
    BY <2>1, <2>2
<1>4. ~At(link, 1, <<"/", "/">>)
  <2>1. link \in Seq(Lexemes) /\ "/" \in Lexemes /\ 1 \in Nat \ {0} /\ Len(link) \in Nat
    BY <1>2, LexemesAre
  <2>2. ~(1 <= Len(link) /\ link[1] = "/")
    BY <2>1, AtSign
  <2> DEFINE two == <<"/", "/">>
  <2>3. two \in Seq(Lexemes) /\ Len(two) = 2 /\ two[1] = "/"
    BY <2>1
  <2> HIDE DEF two
  <2>4. At(link, 1, two) <=> /\ 1 + Len(two) <= Len(link) + 1
                             /\ \A k \in 1..Len(two) : link[1 + k - 1] = two[k]
    <3>1. link \in Seq(Lexemes) /\ two \in Seq(Lexemes) /\ 1 \in Nat \ {0}
      BY <2>1, <2>3
    <3>2. QED
      BY <3>1, AtIs
  <2>5. 1 \in 1..Len(two) /\ 1 + 1 - 1 = 1
    BY <2>3
  <2>6. QED
    BY <2>1, <2>2, <2>3, <2>4, <2>5 DEF two
<1>5. Resolve(u, link) = Parse(Climb(Directory(u.text), n) \o slash \o rest)
  BY <1>4 DEF Resolve
<1>6. /\ base \in Seq(Lexemes) /\ Len(base) = p /\ path \in Seq(Lexemes) /\ Len(path) \in Nat
      /\ p \in Nat /\ authority \in Seq(Lexemes)
  <2>1. scheme \in Lexemes
    BY LexemesAre DEF Schemed
  <2>2. QED
    BY <2>1, BaseIs DEF Texts
<1>7. rest \in Seq(Lexemes) /\ slash \in Seq(Lexemes)
  <2>1. slash \in Seq(Lexemes)
    BY LexemesAre
  <2> HIDE DEF n, slash
  <2>2. QED
    BY <1>2, <2>1, EndOf
<1> HIDE DEF u, base, n, rest, slash, p
<1>8. /\ text \in Seq(Lexemes) /\ Len(text) = p + Len(path)
      /\ \A k \in 1..p : text[k] = base[k]
      /\ \A k \in 1..Len(path) : text[p + k] = path[k]
  <2>1. base \in Seq(Lexemes) /\ path \in Seq(Lexemes)
    BY <1>6
  <2>2. /\ text \in Seq(Lexemes) /\ Len(text) = Len(base) + Len(path)
        /\ \A k \in 1..Len(base) : text[k] = base[k]
        /\ \A k \in 1..Len(path) : text[Len(base) + k] = path[k]
    BY <2>1, Joined
  <2> HIDE DEF text
  <2>3. QED
    BY <1>6, <2>2
<1> HIDE DEF text
<1>9. SubSeq(text, 1, p + i - 1) = base \o before
  <2> DEFINE a == SubSeq(text, 1, p + i - 1)
             b == base \o before
  <2>1. /\ 1 \in Nat \ {0} /\ p + i - 1 \in Nat /\ p + i - 1 <= Len(text)
        /\ (p + i - 1) - 1 + 1 = p + i - 1 /\ (1 <= p + i - 1 \/ p + i - 1 = 0)
        /\ i - 1 \in Nat /\ i - 1 <= Len(path) /\ (i - 1) - 1 + 1 = i - 1
        /\ (1 <= i - 1 \/ i - 1 = 0)
    BY <1>6, <1>8
  <2>2. /\ a \in Seq(Lexemes) /\ Len(a) = IF 1 <= p + i - 1 THEN (p + i - 1) - 1 + 1 ELSE 0
        /\ \A k \in 1..((p + i - 1) - 1 + 1) : a[k] = text[1 + k - 1]
    BY <1>8, <2>1, PartOf
  <2>3. /\ before \in Seq(Lexemes) /\ Len(before) = IF 1 <= i - 1 THEN (i - 1) - 1 + 1 ELSE 0
        /\ \A k \in 1..((i - 1) - 1 + 1) : before[k] = path[1 + k - 1]
    BY <1>6, <2>1, PartOf
  <2> HIDE DEF a, before
  <2>4. Len(before) = i - 1 /\ \A k \in 1..(i - 1) : before[k] = path[k]
    BY <2>1, <2>3
  <2>5. /\ b \in Seq(Lexemes) /\ Len(b) = Len(base) + Len(before)
        /\ \A k \in 1..Len(base) : b[k] = base[k]
        /\ \A k \in 1..Len(before) : b[Len(base) + k] = before[k]
    <3>1. base \in Seq(Lexemes) /\ before \in Seq(Lexemes)
      BY <1>6, <2>3
    <3>2. QED
      BY <3>1, Joined
  <2> HIDE DEF b
  <2>6. Len(a) = p + i - 1 /\ Len(b) = p + (i - 1) /\ \A k \in 1..(p + i - 1) : a[k] = text[k]
    BY <1>6, <2>1, <2>2, <2>4, <2>5
  <2>7. ASSUME NEW k \in 1..Len(a) PROVE a[k] = b[k]
    <3>1. CASE k <= p
      <4>1. k \in 1..p
        BY <1>6, <2>1, <2>6, <3>1
      <4>2. b[k] = base[k] /\ text[k] = base[k]
        BY <1>6, <1>8, <2>5, <4>1
      <4>3. QED
        BY <2>6, <2>7, <4>2
    <3>2. CASE ~(k <= p)
      <4>1. k - p \in 1..(i - 1) /\ p + (k - p) = k /\ k - p \in 1..Len(path)
        BY <1>6, <2>1, <2>6, <3>2
      <4>2. b[p + (k - p)] = before[k - p] /\ text[p + (k - p)] = path[k - p]
        BY <1>6, <1>8, <2>4, <2>5, <4>1
      <4>3. before[k - p] = path[k - p]
        BY <2>4, <4>1
      <4>4. QED
        BY <2>6, <2>7, <4>1, <4>2, <4>3
    <3>3. QED
      BY <3>1, <3>2
  <2>8. Len(a) = Len(b)
    BY <1>6, <2>1, <2>6
  <2>9. a = b
    BY <2>2, <2>5, <2>7, <2>8, Same
  <2>10. QED
    BY <2>9 DEF a, b
<1>10. before \o slash = front
  <2>1. SubSeq(path, i, i) = slash /\ i \in Nat \ {0} /\ i <= Len(path)
    BY <1>6, OneOf DEF slash
  <2>2. SubSeq(path, 1, i - 1) \o SubSeq(path, (i - 1) + 1, i) = SubSeq(path, 1, i)
    <3>1. 1 \in 1..(Len(path) + 1) /\ i - 1 \in (1 - 1)..Len(path) /\ i \in (i - 1)..Len(path)
      BY <1>6
    <3>2. QED
      BY <1>6, <3>1, ConcatAdjacentSubSeq
  <2>3. (i - 1) + 1 = i
    BY <2>1
  <2>4. QED
    BY <2>1, <2>2, <2>3
<1>11. front \in Seq(Lexemes) /\ Len(front) = i /\ front[1] = "/"
  <2>1. 1 \in Nat \ {0} /\ i \in Nat /\ i <= Len(path) /\ 1 <= i /\ i - 1 + 1 = i /\ 1 \in 1..i
        /\ 1 + 1 - 1 = 1
    BY <1>6
  <2>2. /\ front \in Seq(Lexemes) /\ Len(front) = IF 1 <= i THEN i - 1 + 1 ELSE 0
        /\ \A k \in 1..(i - 1 + 1) : front[k] = path[1 + k - 1]
    BY <1>6, <2>1, PartOf
  <2> HIDE DEF front
  <2>3. QED
    BY <2>1, <2>2 DEF Rooted
<1>12. before \in Seq(Lexemes)
  <2>1. 1 \in Nat \ {0} /\ i - 1 \in Nat /\ i - 1 <= Len(path)
    BY <1>6
  <2>2. QED
    BY <1>6, <2>1, PartOf
<1> HIDE DEF before, front
<1> DEFINE kept == front \o rest
<1>13. /\ kept \in Seq(Lexemes) /\ Len(kept) = i + Len(rest) /\ Len(rest) \in Nat /\ i \in Nat \ {0}
       /\ \A k \in 1..Len(front) : kept[k] = front[k]
  <2>1. front \in Seq(Lexemes) /\ rest \in Seq(Lexemes)
    BY <1>7, <1>11
  <2>2. /\ kept \in Seq(Lexemes) /\ Len(kept) = Len(front) + Len(rest)
        /\ \A k \in 1..Len(front) : kept[k] = front[k]
    BY <2>1, Joined
  <2> HIDE DEF kept
  <2>3. QED
    BY <1>6, <1>7, <1>11, <2>2
<1> HIDE DEF kept
<1>14. Rooted(kept)
  <2>1. 1 \in 1..Len(front) /\ Len(kept) > 0
    BY <1>11, <1>13
  <2>2. kept[1] = "/"
    BY <1>11, <1>13, <2>1
  <2>3. QED
    BY <1>13, <2>1, <2>2 DEF Rooted, Texts
<1>15. base \o before \o slash \o rest = base \o kept
  <2>a. base \in Seq(Lexemes) /\ before \in Seq(Lexemes) /\ slash \in Seq(Lexemes)
        /\ front \in Seq(Lexemes) /\ rest \in Seq(Lexemes)
    BY <1>6, <1>7, <1>11, <1>12
  <2>1. base \o before \o slash = base \o (before \o slash)
    <3>1. base \in Seq(Lexemes) /\ before \in Seq(Lexemes) /\ slash \in Seq(Lexemes)
      BY <2>a
    <3> HIDE DEF base, before, slash
    <3>2. QED
      BY <3>1, LexemesRegrouped, Zenon
  <2>2. base \o front \o rest = base \o (front \o rest)
    <3>1. base \in Seq(Lexemes) /\ front \in Seq(Lexemes) /\ rest \in Seq(Lexemes)
      BY <2>a
    <3> HIDE DEF base, front, rest
    <3>2. QED
      BY <3>1, LexemesRegrouped, Zenon
  <2>3. QED
    BY <1>10, <2>1, <2>2 DEF kept
<1>16. Resolve(u, link) = Parse(base \o kept)
  BY <1>1, <1>3, <1>5, <1>9, <1>15
<1>17. Parse(base \o kept) = Reading(scheme, authority, kept)
  BY <1>14, ParseWhole DEF base
<1>18. QED
  BY <1>14, <1>16, <1>17 DEF kept, front, rest, u, n

-----------------------------------------------------------------------------
(* Links *)

LEMMA LinksFrom ==
  ASSUME IsAddress(here)
  PROVE  LinksStay
<1>1. PICK scheme \in Schemed, authority \in Texts, path \in Texts :
        Clear(authority) /\ Rooted(path) /\ here = Reading(scheme, authority, path)
  BY DEF IsAddress
<1>2. Parse(here.text) = here /\ here.path = path
  BY <1>1, ParseAgain, HostPort
<1>3. ASSUME NEW link \in Links, Find(link, Marker, 1) = None,
             At(link, 1, <<"/">>), ~At(link, 1, <<"/", "/">>)
      PROVE  /\ Resolve(here, link) # None /\ Resolve(here, link).tls = here.tls
             /\ Origin(Resolve(here, link)) = Origin(here)
             /\ Resolve(here, link).path = link
  <2>1. link \in Texts /\ link \in Seq(Lexemes)
    BY TextsAssumption DEF Texts
  <2>2. Rooted(link)
    <3>1. "/" \in Lexemes /\ 1 \in Nat \ {0} /\ Len(link) \in Nat
      BY <2>1, LexemesAre
    <3>2. 1 <= Len(link) /\ link[1] = "/"
      BY <1>3, <2>1, <3>1, AtSign
    <3>3. QED
      BY <2>1, <3>1, <3>2 DEF Rooted
  <2> DEFINE to == here.scheme \o Marker \o here.host \o <<":">> \o here.port \o link
  <2>3. Resolve(here, link) = Parse(to)
    BY <1>3 DEF Resolve
  <2>4. /\ Parse(to) # None /\ Parse(to).tls = here.tls
        /\ Origin(Parse(to)) = Origin(here) /\ Parse(to).path = link
    BY <1>1, <2>2, ResolveRooted
  <2> HIDE DEF to
  <2>5. QED
    BY <2>3, <2>4
<1>4. ASSUME NEW link \in Links, Find(link, Marker, 1) = None, ~At(link, 1, <<"/">>),
             NEW i \in DOMAIN path, path[i] = "/",
             Cardinality(SlashesBehind(path, i)) = Levels(link)
      PROVE  LET kept == SubSeq(path, 1, i) \o From(link, 2 * Levels(link) + 1)
             IN /\ Resolve(here, link) # None /\ Resolve(here, link).tls = here.tls
                /\ Origin(Resolve(here, link)) = Origin(here)
                /\ Resolve(here, link).path = kept
  <2> DEFINE kept == SubSeq(path, 1, i) \o From(link, 2 * Levels(link) + 1)
             v == Reading(scheme, authority, kept)
  <2>1. link \in Texts /\ i \in 1..Len(path)
    BY TextsAssumption, <1>4 DEF Texts
  <2>2. Resolve(here, link) = v /\ Rooted(kept)
    BY <1>1, <1>4, <2>1, ResolveClimbing
  <2> HIDE DEF kept
  <2>3. kept \in Texts
    BY <2>2 DEF Rooted
  <2>4. v # None /\ v.path = kept
    BY <1>1, <2>3, NotNone, HostPort
  <2>5. v.tls = here.tls /\ Origin(v) = Origin(here)
    BY <1>1 DEF Reading, Origin
  <2> HIDE DEF v
  <2>6. QED
    BY <2>2, <2>4, <2>5 DEF kept
<1>5. QED
  BY <1>2, <1>3, <1>4 DEF LinksStay, SlashesBehind

\* The history holds addresses, and a tab without one shows nothing.
Addressed ==
  \/ here = None /\ page = <<>> /\ phase \in {"user", "gone"}
  \/ IsAddress(here)

\* Tab::load keeps what was parsed.
LEMMA LoadAddressed ==
  ASSUME NEW u, u = None \/ IsAddress(u), NEW post, Load(u, post), page' = page, Addressed
  PROVE  Addressed'
<1>1. (here' = here /\ phase' = "gone") \/ (here' = u /\ u # None)
  BY DEF Load
<1>2. IsAddress(u) /\ here' = u => IsAddress(here')
  BY DEF IsAddress
<1>3. CASE here' = here /\ phase' = "gone"
  BY <1>3 DEF Addressed, IsAddress
<1>4. CASE here' = u /\ u # None
  BY <1>2, <1>4 DEF Addressed, IsAddress
<1>5. QED
  BY <1>1, <1>3, <1>4

LEMMA StepAddressed == Addressed /\ [Next]_vars => Addressed'
<1> SUFFICES ASSUME Addressed, [Next]_vars PROVE Addressed'
  OBVIOUS
<1>1. CASE Visit
  <2>1. PICK text \in Typed : Load(Parse(text), None)
    BY <1>1 DEF Visit
  <2>2. text \in Texts /\ page' = page
    BY TextsAssumption, <1>1 DEF Texts, Visit
  <2>3. QED
    BY <2>1, <2>2, ParseType, LoadAddressed
<1>2. CASE Follow
  <2>1. PICK link \in Links : Load(Resolve(here, link), None)
    BY <1>2 DEF Follow
  <2>2. link \in Texts /\ IsAddress(here) /\ page' = page
    BY TextsAssumption, <1>2 DEF Texts, Addressed, Follow
  <2>3. QED
    BY <2>1, <2>2, ResolveType, LoadAddressed
<1>3. CASE Submit /\ (checked => allow)
  <2>1. Load(Resolve(here, <<"add">>), FormData) /\ page' = page
    BY <1>3 DEF Submit
  <2>2. <<"add">> \in Texts
    BY LexemesAre DEF Texts
  <2>3. IsAddress(here)
    <3>1. page # <<>>
      BY <1>3 DEF Submit, CanType, Shows
    <3>2. QED
      BY <3>1 DEF Addressed
  <2>4. QED
    BY <2>1, <2>2, <2>3, ResolveType, LoadAddressed
<1>4. CASE \E k \in 0..Len(answer) : ReadPage(k) \/ ReadScript(k)
  <2>1. here' = here /\ IsAddress(here)
    BY <1>4 DEF ReadPage, ReadScript, Addressed
  <2>2. QED
    BY <2>1 DEF Addressed, IsAddress
<1>5. CASE UNCHANGED <<here, page, phase>>
  BY <1>5 DEF Addressed, IsAddress
<1>6. CASE Submit /\ ~(checked => allow)
  BY <1>5, <1>6 DEF Submit
<1>7. CASE ClickField \/ ClickBeside \/ PressKey \/ Type \/ Backspace \/ UNCHANGED vars
  BY <1>5, <1>7 DEF ClickField, ClickBeside, PressKey, Type, Backspace, vars
<1>8. QED
  BY <1>1, <1>2, <1>3, <1>4, <1>6, <1>7 DEF Next

\* A link within the site stays on the site and names the place its levels count
\* to, whatever addresses are typed and whatever links are followed, and what the
\* history keeps parses to itself (URL::resolve, URL::parse).
THEOREM LinksKeepToTheSite == Spec => []LinksStay
<1>1. Init => Addressed
  BY DEF Init, Addressed
<1>2. Addressed => LinksStay
  BY LinksFrom DEF Addressed, LinksStay
<1>3. QED
  BY <1>1, <1>2, StepAddressed, PTL DEF Spec

-----------------------------------------------------------------------------
(* Scanning *)

\* What a page is cut into.
Items == {[kind |-> "text", text |-> w] : w \in Seq(Bytes)} \cup {Tag(w)[1] : w \in Seq(Bytes)}

States == [inTag : BOOLEAN, word : Seq(Bytes), skip : Nat, items : Seq(Items)]

AState(inTag, word, skip, items) ==
  [inTag |-> inTag, word |-> word, skip |-> skip, items |-> items]

LEMMA ItemsRegrouped ==
  \A t, u, v \in Seq(Items) : (t \o u) \o v = t \o (u \o v)
BY Regrouped

LEMMA StateIs ==
  ASSUME NEW s \in States
  PROVE  /\ s = AState(s.inTag, s.word, s.skip, s.items)
         /\ s.inTag \in BOOLEAN /\ s.word \in Seq(Bytes) /\ s.skip \in Nat /\ s.items \in Seq(Items)
BY DEF States, AState

LEMMA AStateIs ==
  ASSUME NEW inTag \in BOOLEAN, NEW word \in Seq(Bytes), NEW skip \in Nat, NEW items \in Seq(Items)
  PROVE  /\ AState(inTag, word, skip, items) \in States
         /\ AState(inTag, word, skip, items).inTag = inTag
         /\ AState(inTag, word, skip, items).word = word
         /\ AState(inTag, word, skip, items).skip = skip
         /\ AState(inTag, word, skip, items).items = items
BY DEF States, AState

LEMMA TagType ==
  ASSUME NEW w \in Seq(Bytes)
  PROVE  Tag(w) \in Seq(Items) /\ (Tag(w) = <<>> \/ Len(Tag(w)) = 1)
<1> DEFINE r == GetAttributes(w)
<1>1. Tag(w) = <<>> \/ \E x : Tag(w) = <<x>>
  <2>1. ItemOf(r) = <<>> \/ \E x : ItemOf(r) = <<x>>
    <3> HIDE DEF r
    <3>1. CASE r.name = None
      BY <3>1 DEF ItemOf
    <3>2. CASE r.name # None /\ At(r.name, 1, <<Bang>>)
      BY <3>2 DEF ItemOf
    <3>3. CASE ~(r.name = None) /\ ~(r.name # None /\ At(r.name, 1, <<Bang>>))
      BY <3>3 DEF ItemOf
    <3>4. QED
      BY <3>1, <3>2, <3>3
  <2>2. QED
    BY <2>1 DEF Tag
<1>2. Tag(w)[1] \in Items
  BY DEF Items
<1>3. ASSUME NEW x, Tag(w) = <<x>> PROVE Tag(w) \in Seq(Items) /\ Len(Tag(w)) = 1
  <2>1. x \in Items
    BY <1>2, <1>3
  <2>2. <<x>> \in Seq(Items) /\ Len(<<x>>) = 1
    BY <2>1
  <2>3. QED
    BY <1>3, <2>2
<1>4. <<>> \in Seq(Items)
  OBVIOUS
<1>5. QED
  BY <1>1, <1>3, <1>4

LEMMA TextType ==
  ASSUME NEW w \in Seq(Bytes)
  PROVE  Text(w) \in Seq(Items) /\ (Text(w) = <<>> \/ Len(Text(w)) = 1)
<1>1. [kind |-> "text", text |-> w] \in Items
  BY DEF Items
<1>2. QED
  BY <1>1 DEF Text

LEMMA SignsAre ==
  /\ Lt \in Bytes /\ Gt \in Bytes /\ Lt # Gt /\ Amp \in Bytes /\ Amp # Lt /\ Amp # Gt
  /\ EntityLt \in Seq(Bytes) /\ EntityGt \in Seq(Bytes) /\ Len(EntityLt) = 4 /\ Len(EntityGt) = 4
  /\ EntityLt = <<38, 108, 116, 59>> /\ EntityGt = <<38, 103, 116, 59>>
<1>1. {38, 60, 62, 59, 103, 108, 116} \subseteq Bytes
  BY DEF Bytes
<1>2. QED
  BY <1>1 DEF Lt, Gt, Amp, EntityLt, EntityGt

\* One turn of the loop.
LEMMA TurnIs ==
  ASSUME NEW body \in Seq(Bytes), NEW i \in 1..Len(body), NEW s \in States
  PROVE  /\ Turn(body, s, i) \in States
         /\ s.skip > 0 => Turn(body, s, i) = AState(s.inTag, s.word, s.skip - 1, s.items)
         /\ s.skip = 0 /\ body[i] = Lt
              => Turn(body, s, i) = AState(TRUE, <<>>, 0, s.items \o Text(s.word))
         /\ s.skip = 0 /\ body[i] = Gt
              => Turn(body, s, i) = AState(FALSE, <<>>, 0, s.items \o Tag(s.word))
         /\ s.skip = 0 /\ ~s.inTag /\ At(body, i, EntityLt)
              => Turn(body, s, i) = AState(s.inTag, Append(s.word, Lt), 3, s.items)
         /\ s.skip = 0 /\ ~s.inTag /\ At(body, i, EntityGt)
              => Turn(body, s, i) = AState(s.inTag, Append(s.word, Gt), 3, s.items)
         /\ s.skip = 0 /\ body[i] \notin {Lt, Gt}
            /\ (s.inTag \/ (~At(body, i, EntityLt) /\ ~At(body, i, EntityGt)))
              => Turn(body, s, i) = AState(s.inTag, Append(s.word, body[i]), 0, s.items)
<1> DEFINE t == Turn(body, s, i)
           entity(name) == ~s.inTag /\ At(body, i, name)
           add(c, skip) == [s EXCEPT !.word = Append(@, c), !.skip = skip]
<1>1. /\ s = AState(s.inTag, s.word, s.skip, s.items)
      /\ s.inTag \in BOOLEAN /\ s.word \in Seq(Bytes) /\ s.skip \in Nat /\ s.items \in Seq(Items)
  BY StateIs
<1>2. body[i] \in Bytes /\ Lt \in Bytes /\ Gt \in Bytes /\ Lt # Gt
  BY SignsAre, ElementOfSeq
<1>3. \A name \in {EntityLt, EntityGt} : At(body, i, name) => body[i] = 38
  <2>1. ASSUME NEW name \in {EntityLt, EntityGt}, At(body, i, name) PROVE body[i] = 38
    <3>0. EntityLt[1] = 38 /\ EntityGt[1] = 38
      BY SignsAre
    <3>1. name \in Seq(Bytes) /\ Len(name) = 4 /\ name[1] = 38
      BY <3>0, SignsAre
    <3>2. i \in Nat \ {0} /\ body \in Seq(Bytes) /\ name \in Seq(Bytes)
          /\ 1 \in 1..Len(name) /\ i + 1 - 1 = i
      BY <3>1
    <3>3. At(body, i, name) <=> /\ i + Len(name) <= Len(body) + 1
                                /\ \A k \in 1..Len(name) : body[i + k - 1] = name[k]
      <4>1. i \in Nat \ {0} /\ body \in Seq(Bytes) /\ name \in Seq(Bytes)
        BY <3>2
      <4>2. QED
        BY <4>1, AtIs
    <3>4. QED
      BY <2>1, <3>1, <3>2, <3>3
  <2>2. QED
    BY <2>1
<1>4. ~(At(body, i, EntityLt) /\ At(body, i, EntityGt))
  <2>1. SUFFICES ASSUME At(body, i, EntityLt), At(body, i, EntityGt) PROVE FALSE
    OBVIOUS
  <2>2. SubSeq(body, i, i + 4 - 1) = EntityLt /\ SubSeq(body, i, i + 4 - 1) = EntityGt
    BY <2>1, SignsAre DEF At
  <2>3. EntityLt[2] = 108 /\ EntityGt[2] = 103
    BY SignsAre
  <2>4. QED
    BY <2>2, <2>3
<1> DEFINE turned(b, more) == [s EXCEPT !.inTag = b, !.word = <<>>, !.items = @ \o more]
           skipped == [s EXCEPT !.skip = @ - 1]
<1>5. t = CASE s.skip > 0 -> skipped
            [] s.skip = 0 /\ body[i] = Lt -> turned(TRUE, Text(s.word))
            [] s.skip = 0 /\ body[i] = Gt -> turned(FALSE, Tag(s.word))
            [] s.skip = 0 /\ entity(EntityLt) -> add(Lt, 3)
            [] s.skip = 0 /\ entity(EntityGt) -> add(Gt, 3)
            [] OTHER -> add(body[i], 0)
  BY DEF Turn
<1> HIDE DEF t, entity
<1>6. /\ skipped = AState(s.inTag, s.word, s.skip - 1, s.items)
      /\ \A c \in Bytes, k \in Nat : add(c, k) = AState(s.inTag, Append(s.word, c), k, s.items)
      /\ \A b \in BOOLEAN, more \in Seq(Items) :
           turned(b, more) = AState(b, <<>>, s.skip, s.items \o more)
  <2>1. s \in [inTag : BOOLEAN, word : Seq(Bytes), skip : Nat, items : Seq(Items)]
    BY DEF States
  <2>2. skipped = AState(s.inTag, s.word, s.skip - 1, s.items)
    BY <2>1 DEF AState
  <2>3. ASSUME NEW c \in Bytes, NEW k \in Nat
        PROVE  add(c, k) = AState(s.inTag, Append(s.word, c), k, s.items)
    <3>1. add(c, k) = [s EXCEPT !.word = Append(s.word, c), !.skip = k]
      BY <2>1
    <3> DEFINE w == Append(s.word, c)
    <3> HIDE DEF w, add
    <3>2. [s EXCEPT !.word = w, !.skip = k] = AState(s.inTag, w, k, s.items)
      <4>1. [AState(s.inTag, s.word, s.skip, s.items) EXCEPT !.word = w]
              = AState(s.inTag, w, s.skip, s.items)
        BY DEF AState
      <4>2. [AState(s.inTag, w, s.skip, s.items) EXCEPT !.skip = k] = AState(s.inTag, w, k, s.items)
        BY DEF AState
      <4>3. QED
        BY <1>1, <4>1, <4>2, Zenon
    <3>3. QED
      BY <3>1, <3>2 DEF w
  <2>4. ASSUME NEW b \in BOOLEAN, NEW more \in Seq(Items)
        PROVE  turned(b, more) = AState(b, <<>>, s.skip, s.items \o more)
    <3>1. turned(b, more) = [s EXCEPT !.inTag = b, !.word = <<>>, !.items = s.items \o more]
      BY <2>1
    <3> DEFINE w == s.items \o more
    <3> HIDE DEF w, turned
    <3>2. [s EXCEPT !.inTag = b, !.word = <<>>, !.items = w] = AState(b, <<>>, s.skip, w)
      <4>1. [AState(s.inTag, s.word, s.skip, s.items) EXCEPT !.inTag = b]
              = AState(b, s.word, s.skip, s.items)
        BY DEF AState
      <4>2. [AState(b, s.word, s.skip, s.items) EXCEPT !.word = <<>>]
              = AState(b, <<>>, s.skip, s.items)
        BY DEF AState
      <4>3. [AState(b, <<>>, s.skip, s.items) EXCEPT !.items = w] = AState(b, <<>>, s.skip, w)
        BY DEF AState
      <4>4. QED
        BY <1>1, <4>1, <4>2, <4>3, Zenon
    <3>3. QED
      BY <3>1, <3>2 DEF w
  <2>5. QED
    BY <2>2, <2>3, <2>4
<1> HIDE DEF turned, skipped
<1> HIDE DEF add
<1>7. /\ Text(s.word) \in Seq(Items) /\ Tag(s.word) \in Seq(Items)
      /\ s.items \o Text(s.word) \in Seq(Items) /\ s.items \o Tag(s.word) \in Seq(Items)
  <2>1. Text(s.word) \in Seq(Items) /\ Tag(s.word) \in Seq(Items)
    BY <1>1, TextType, TagType
  <2>2. QED
    BY <1>1, <2>1, ConcatProperties
<1>8. CASE s.skip > 0
  <2>0. s.skip # 0
    BY <1>1, <1>8
  <2>1. t = skipped
    BY <1>5, <1>8, <2>0
  <2>2. t = AState(s.inTag, s.word, s.skip - 1, s.items) /\ s.skip - 1 \in Nat
    BY <1>1, <1>6, <1>8, <2>1
  <2>3. AState(s.inTag, s.word, s.skip - 1, s.items) \in States
    BY <1>1, <2>2, AStateIs
  <2>4. QED
    BY <1>8, <2>0, <2>2, <2>3 DEF t
<1>9. CASE s.skip = 0 /\ body[i] = Lt
  <2>0. ~(s.skip > 0) /\ body[i] # Gt /\ ~At(body, i, EntityLt) /\ ~At(body, i, EntityGt)
    BY <1>2, <1>3, <1>9 DEF Lt
  <2>1. t = turned(TRUE, Text(s.word))
    BY <1>5, <1>9, <2>0 DEF entity
  <2>2. t = AState(TRUE, <<>>, 0, s.items \o Text(s.word))
    BY <1>6, <1>7, <1>9, <2>1
  <2>3. <<>> \in Seq(Bytes)
    OBVIOUS
  <2>4. AState(TRUE, <<>>, 0, s.items \o Text(s.word)) \in States
    BY <1>7, <2>3, AStateIs
  <2>5. QED
    BY <1>9, <2>0, <2>2, <2>4 DEF t
<1>10. CASE s.skip = 0 /\ body[i] = Gt
  <2>0. ~(s.skip > 0) /\ body[i] # Lt /\ ~At(body, i, EntityLt) /\ ~At(body, i, EntityGt)
    BY <1>2, <1>3, <1>10 DEF Gt
  <2>1. t = turned(FALSE, Tag(s.word))
    BY <1>5, <1>10, <2>0 DEF entity
  <2>2. t = AState(FALSE, <<>>, 0, s.items \o Tag(s.word))
    BY <1>6, <1>7, <1>10, <2>1
  <2>3. <<>> \in Seq(Bytes)
    OBVIOUS
  <2>4. AState(FALSE, <<>>, 0, s.items \o Tag(s.word)) \in States
    BY <1>7, <2>3, AStateIs
  <2>5. QED
    BY <1>10, <2>0, <2>2, <2>4 DEF t
<1>11. CASE s.skip = 0 /\ body[i] \notin {Lt, Gt}
  <2>0. ~(s.skip > 0) /\ \A c \in Bytes : Append(s.word, c) \in Seq(Bytes)
    BY <1>1, <1>11
  <2>1. CASE ~s.inTag /\ At(body, i, EntityLt)
    <3>1. t = add(Lt, 3)
      BY <1>4, <1>5, <1>11, <2>0, <2>1 DEF entity
    <3>2. t = AState(s.inTag, Append(s.word, Lt), 3, s.items)
      BY <1>2, <1>6, <3>1
    <3>3. AState(s.inTag, Append(s.word, Lt), 3, s.items) \in States
      BY <1>1, <1>2, <2>0, AStateIs
    <3>4. QED
      BY <1>4, <1>11, <2>0, <2>1, <3>2, <3>3 DEF t
  <2>2. CASE ~s.inTag /\ At(body, i, EntityGt)
    <3>1. t = add(Gt, 3)
      BY <1>4, <1>5, <1>11, <2>0, <2>2 DEF entity
    <3>2. t = AState(s.inTag, Append(s.word, Gt), 3, s.items)
      BY <1>2, <1>6, <3>1
    <3>3. AState(s.inTag, Append(s.word, Gt), 3, s.items) \in States
      BY <1>1, <1>2, <2>0, AStateIs
    <3>4. QED
      BY <1>4, <1>11, <2>0, <2>2, <3>2, <3>3 DEF t
  <2>3. CASE s.inTag \/ (~At(body, i, EntityLt) /\ ~At(body, i, EntityGt))
    <3>1. t = add(body[i], 0)
      BY <1>5, <1>11, <2>0, <2>3 DEF entity
    <3>2. t = AState(s.inTag, Append(s.word, body[i]), 0, s.items)
      BY <1>2, <1>6, <3>1
    <3>3. AState(s.inTag, Append(s.word, body[i]), 0, s.items) \in States
      BY <1>1, <1>2, <2>0, AStateIs
    <3>4. QED
      BY <1>1, <1>11, <2>0, <2>3, <3>2, <3>3 DEF t
  <2>4. QED
    BY <1>1, <2>1, <2>2, <2>3
<1>12. s.skip > 0 \/ s.skip = 0
  BY <1>1
<1>13. QED
  BY <1>8, <1>9, <1>10, <1>11, <1>12

ScanBegin == AState(FALSE, <<>>, 0, <<>>)

\* f goes through the states of the loop.
Scans(f, body) ==
  /\ f \in [0..Len(body) -> States]
  /\ f[0] = ScanBegin
  /\ \A n \in 1..Len(body) : f[n] = Turn(body, f[n - 1], n)

LEMMA ScanIs ==
  ASSUME NEW body \in Seq(Bytes)
  PROVE  \E f : /\ Scans(f, body)
                /\ Scan(body) = f[Len(body)].items \o Text(f[Len(body)].word)
<1> DEFINE N == Len(body)
           Solution(u) == [n \in 0..N |-> IF n = 0 THEN ScanBegin ELSE Turn(body, u[n - 1], n)]
           f == CHOOSE u : u = Solution(u)
           step == [q \in Nat \X States |-> IF q[1] \in 1..N THEN Turn(body, q[2], q[1]) ELSE q[2]]
<1>1. Scan(body) = f[N].items \o Text(f[N].word)
  BY DEF Scan, ScanBegin, AState
<1>2. N \in Nat /\ ScanBegin \in States
  <2>1. <<>> \in Seq(Bytes) /\ <<>> \in Seq(Items) /\ 0 \in Nat /\ FALSE \in BOOLEAN
    OBVIOUS
  <2>2. AState(FALSE, <<>>, 0, <<>>) \in States
    BY <2>1, AStateIs
  <2>3. N \in Nat
    OBVIOUS
  <2>4. QED
    BY <2>2, <2>3 DEF ScanBegin
<1>3. \A i \in 1..N, s \in States : Turn(body, s, i) \in States
  BY TurnIs
<1>4. step \in [Nat \X States -> States]
  BY <1>3
<1>5. PICK g \in [0..N -> States] : RecursUpTo(g, N, ScanBegin, step)
  BY <1>2, <1>4, RecursionUpTo
<1>6. \A n \in 1..N : g[n] = Turn(body, g[n - 1], n)
  <2>1. ASSUME NEW n \in 1..N PROVE g[n] = Turn(body, g[n - 1], n)
    <3>1. n - 1 \in 0..N /\ n \in Nat
      OBVIOUS
    <3>2. g[n] = step[<<n, g[n - 1]>>]
      BY <1>5 DEF RecursUpTo
    <3>3. <<n, g[n - 1]>> \in Nat \X States
      BY <1>5, <3>1
    <3>4. step[<<n, g[n - 1]>>] = Turn(body, g[n - 1], n)
      BY <3>3
    <3>5. QED
      BY <3>2, <3>4
  <2>2. QED
    BY <2>1
<1>7. g[0] = ScanBegin
  BY <1>5 DEF RecursUpTo
<1>8. g = Solution(g)
  <2>1. \A n \in 0..N : n = 0 \/ n \in 1..N
    BY <1>2
  <2>2. \A n \in 0..N : g[n] = IF n = 0 THEN ScanBegin ELSE Turn(body, g[n - 1], n)
    BY <1>6, <1>7, <2>1
  <2>3. QED
    BY <1>5, <2>2
<1>9. f = Solution(f)
  <2> HIDE DEF Solution
  <2>1. QED
    BY <1>8
<1> HIDE DEF f, step
<1> DEFINE T == {n \in Nat : n <= N => f[n] = g[n]}
<1>10. 0 \in T
  BY <1>2, <1>7, <1>9
<1>11. ASSUME NEW n \in Nat, n \in T PROVE n + 1 \in T
  <2>1. CASE n + 1 <= N
    <3>1. n + 1 \in 0..N /\ n + 1 # 0 /\ (n + 1) - 1 = n /\ n + 1 \in 1..N /\ n <= N
      BY <1>2, <2>1
    <3>2. f[n + 1] = Turn(body, f[n], n + 1)
      BY <1>9, <3>1
    <3>3. g[n + 1] = Turn(body, g[n], n + 1)
      BY <1>6, <3>1
    <3>4. QED
      BY <1>11, <3>1, <3>2, <3>3
  <2>2. QED
    BY <2>1
<1> HIDE DEF T
<1>12. Nat \subseteq T
  BY <1>10, <1>11, NatAll
<1>13. f[N] = g[N]
  <2>1. N \in T
    BY <1>2, <1>12
  <2>2. QED
    BY <1>2, <2>1 DEF T
<1>14. Scans(g, body)
  BY <1>5, <1>6, <1>7 DEF Scans
<1>15. QED
  BY <1>1, <1>13, <1>14

\* Whatever a turn does with the items, it does at their end.
LEMMA TurnItems ==
  ASSUME NEW body \in Seq(Bytes), NEW i \in 1..Len(body), NEW s \in States
  PROVE  /\ \E more \in Seq(Items) : Turn(body, s, i).items = s.items \o more
         /\ body[i] \notin {Lt, Gt} => Turn(body, s, i).items = s.items
<1> DEFINE t == Turn(body, s, i)
<1>1. /\ s.inTag \in BOOLEAN /\ s.word \in Seq(Bytes) /\ s.skip \in Nat /\ s.items \in Seq(Items)
  BY StateIs
<1>2. \A a, b, c, d : AState(a, b, c, d).items = d
  BY DEF AState
<1>3. t.items = s.items \/ ((t.items = s.items \o Text(s.word) \/ t.items = s.items \o Tag(s.word))
                            /\ body[i] \in {Lt, Gt})
  <2>1. /\ s.skip > 0 => t = AState(s.inTag, s.word, s.skip - 1, s.items)
        /\ s.skip = 0 /\ body[i] = Lt => t = AState(TRUE, <<>>, 0, s.items \o Text(s.word))
        /\ s.skip = 0 /\ body[i] = Gt => t = AState(FALSE, <<>>, 0, s.items \o Tag(s.word))
        /\ s.skip = 0 /\ ~s.inTag /\ At(body, i, EntityLt)
             => t = AState(s.inTag, Append(s.word, Lt), 3, s.items)
        /\ s.skip = 0 /\ ~s.inTag /\ At(body, i, EntityGt)
             => t = AState(s.inTag, Append(s.word, Gt), 3, s.items)
        /\ s.skip = 0 /\ body[i] \notin {Lt, Gt}
           /\ (s.inTag \/ (~At(body, i, EntityLt) /\ ~At(body, i, EntityGt)))
             => t = AState(s.inTag, Append(s.word, body[i]), 0, s.items)
    BY TurnIs
  <2> HIDE DEF t
  <2>2. s.skip > 0 => t.items = s.items
    BY <1>2, <2>1
  <2>0. \A d : AState(TRUE, <<>>, 0, d).items = d /\ AState(FALSE, <<>>, 0, d).items = d
    BY DEF AState
  <2>3. s.skip = 0 /\ body[i] = Lt => t.items = s.items \o Text(s.word)
    BY <2>0, <2>1, Zenon
  <2>4. s.skip = 0 /\ body[i] = Gt => t.items = s.items \o Tag(s.word)
    BY <2>0, <2>1, Zenon
  <2>5. s.skip = 0 /\ body[i] \notin {Lt, Gt} => t.items = s.items
    <3>1. CASE ~s.inTag /\ At(body, i, EntityLt)
      BY <1>2, <2>1, <3>1
    <3>2. CASE ~s.inTag /\ At(body, i, EntityGt)
      BY <1>2, <2>1, <3>2
    <3>3. CASE s.inTag \/ (~At(body, i, EntityLt) /\ ~At(body, i, EntityGt))
      <4>1. s.skip = 0 /\ body[i] \notin {Lt, Gt}
              => t = AState(s.inTag, Append(s.word, body[i]), 0, s.items)
        BY <2>1, <3>3, Zenon
      <4>2. AState(s.inTag, Append(s.word, body[i]), 0, s.items).items = s.items
        BY DEF AState
      <4>3. QED
        BY <4>1, <4>2
    <3>4. QED
      BY <1>1, <3>1, <3>2, <3>3
  <2>6. s.skip > 0 \/ s.skip = 0
    BY <1>1
  <2>7. QED
    BY <2>2, <2>3, <2>4, <2>5, <2>6
<1>4. /\ Text(s.word) \in Seq(Items) /\ Tag(s.word) \in Seq(Items)
      /\ <<>> \in Seq(Items) /\ s.items = s.items \o <<>>
  <2>1. Text(s.word) \in Seq(Items) /\ Tag(s.word) \in Seq(Items)
    BY <1>1, TextType, TagType
  <2>2. QED
    BY <1>1, <2>1, ConcatEmptySeq
<1> HIDE DEF t
<1>5. \E more \in Seq(Items) : t.items = s.items \o more
  BY <1>3, <1>4
<1>6. QED
  BY <1>3, <1>5 DEF t

\* A sequence that is the beginning of another.
LEMMA BeginningIs ==
  ASSUME NEW S, NEW s \in Seq(S), NEW t \in Seq(S)
  PROVE  IsPrefix(s, s \o t)
<1> DEFINE u == s \o t
           a == SubSeq(s, 1, Len(s))
           b == SubSeq(u, 1, Len(s))
<1>1. /\ u \in Seq(S) /\ Len(u) = Len(s) + Len(t) /\ Len(s) \in Nat /\ Len(t) \in Nat
      /\ \A i \in 1..Len(s) : u[i] = s[i]
  BY Joined
<1> HIDE DEF u
<1>2. 1 \in Nat \ {0} /\ Len(s) \in Nat /\ Len(s) <= Len(s) /\ Len(s) <= Len(u)
  BY <1>1
<1>3. /\ a \in Seq(S) /\ Len(a) = (IF 1 <= Len(s) THEN Len(s) - 1 + 1 ELSE 0)
      /\ \A i \in 1..(Len(s) - 1 + 1) : a[i] = s[1 + i - 1]
  BY <1>2, PartOf
<1>4. /\ b \in Seq(S) /\ Len(b) = (IF 1 <= Len(s) THEN Len(s) - 1 + 1 ELSE 0)
      /\ \A i \in 1..(Len(s) - 1 + 1) : b[i] = u[1 + i - 1]
  BY <1>1, <1>2, PartOf
<1>5. Len(s) - 1 + 1 = Len(s) /\ (IF 1 <= Len(s) THEN Len(s) - 1 + 1 ELSE 0) = Len(s)
      /\ \A i \in 1..Len(s) : 1 + i - 1 = i
  BY <1>1
<1> HIDE DEF a, b
<1>6. Len(a) = Len(s) /\ Len(b) = Len(a) /\ \A i \in 1..Len(a) : a[i] = b[i]
  BY <1>1, <1>3, <1>4, <1>5
<1>7. a = b
  BY <1>3, <1>4, <1>6, Same
<1>8. QED
  BY <1>2, <1>7 DEF IsPrefix, a, b, u

LEMMA FrontIs ==
  ASSUME NEW S, NEW s \in Seq(S), s # <<>>
  PROVE  /\ Front(s) \in Seq(S) /\ <<s[Len(s)]>> \in Seq(S)
         /\ s = Front(s) \o <<s[Len(s)]>>
<1> DEFINE f == Front(s)
           n == Len(s)
           l == <<s[n]>>
           u == f \o l
<1>1. n \in Nat /\ n > 0 /\ s[n] \in S /\ n - 1 \in Nat /\ n - 1 <= n /\ n \in 1..n
  BY EmptySeq, ElementOfSeq
<1>2. l \in Seq(S) /\ Len(l) = 1 /\ l[1] = s[n]
  BY <1>1
<1>3. /\ f \in Seq(S) /\ Len(f) = (IF 1 <= n - 1 THEN n - 1 - 1 + 1 ELSE 0)
      /\ \A i \in 1..(n - 1 - 1 + 1) : f[i] = s[1 + i - 1]
  <2>1. 1 \in Nat \ {0} /\ n - 1 \in Nat /\ n - 1 <= Len(s)
    BY <1>1
  <2>2. QED
    BY <2>1, PartOf DEF Front
<1> HIDE DEF f, l
<1>4. Len(f) = n - 1 /\ \A i \in 1..(n - 1) : f[i] = s[i]
  <2>1. n - 1 - 1 + 1 = n - 1 /\ \A i \in 1..(n - 1) : 1 + i - 1 = i
    BY <1>1
  <2>2. Len(f) = n - 1
    <3>1. CASE n = 1
      BY <1>3, <3>1
    <3>2. CASE n # 1
      <4>0. n \in Nat /\ n > 0 /\ n # 1
        BY <1>1, <3>2
      <4>1. 1 <= n - 1 /\ n - 1 - 1 + 1 = n - 1
        <5> HIDE DEF n
        <5>1. QED
          BY <4>0
      <4>2. QED
        BY <1>3, <4>1
    <3>3. QED
      BY <3>1, <3>2
  <2>3. \A i \in 1..(n - 1) : f[i] = s[i]
    BY <1>3, <2>1
  <2>4. QED
    BY <2>2, <2>3
<1>5. /\ u \in Seq(S) /\ Len(u) = Len(f) + Len(l)
      /\ \A i \in 1..Len(f) : u[i] = f[i]
      /\ \A i \in 1..Len(l) : u[Len(f) + i] = l[i]
  <2>1. f \in Seq(S) /\ l \in Seq(S)
    BY <1>2, <1>3
  <2>2. QED
    BY <2>1, Joined
<1> HIDE DEF u
<1>6. Len(u) = n /\ \A i \in 1..n : u[i] = s[i]
  <2>1. Len(u) = n
    BY <1>1, <1>2, <1>4, <1>5
  <2>2. \A i \in 1..n : i \in 1..(n - 1) \/ i = (n - 1) + 1
    BY <1>1
  <2>3. \A i \in 1..(n - 1) : u[i] = s[i]
    BY <1>4, <1>5
  <2>4. u[(n - 1) + 1] = s[n] /\ (n - 1) + 1 = n
    <3>1. 1 \in 1..Len(l)
      BY <1>2
    <3>2. QED
      BY <1>1, <1>2, <1>4, <1>5, <3>1
  <2>5. QED
    BY <2>1, <2>2, <2>3, <2>4
<1>7. s = u
  BY <1>5, <1>6, Same
<1>8. QED
  BY <1>2, <1>3, <1>7 DEF f, l, u

\* Items once read stay.
LEMMA ItemsStay ==
  ASSUME NEW body \in Seq(Bytes), NEW f, Scans(f, body), NEW m \in 0..Len(body),
         NEW n \in 0..Len(body), m <= n
  PROVE  \E more \in Seq(Items) : f[n].items = f[m].items \o more
<1> DEFINE N == Len(body)
           T == {k \in Nat : m <= k /\ k <= N =>
                    \E more \in Seq(Items) : f[k].items = f[m].items \o more}
<1>1. N \in Nat /\ f \in [0..N -> States] /\ \A k \in 1..N : f[k] = Turn(body, f[k - 1], k)
  BY DEF Scans
<1>2. \A k \in 0..N : f[k].items \in Seq(Items)
  BY <1>1, StateIs
<1> HIDE DEF N
<1>3. \E more \in Seq(Items) : f[m].items = f[m].items \o more
  <2>1. <<>> \in Seq(Items) /\ f[m].items \in Seq(Items)
    BY <1>2 DEF N
  <2>2. f[m].items = f[m].items \o <<>>
    BY <2>1, ConcatEmptySeq
  <2>3. QED
    BY <2>1, <2>2
<1>4. 0 \in T
  <2>1. m <= 0 => m = 0
    OBVIOUS
  <2>2. QED
    BY <1>3, <2>1
<1>5. ASSUME NEW k \in Nat, k \in T PROVE k + 1 \in T
  <2>1. SUFFICES ASSUME m <= k + 1, k + 1 <= N
                 PROVE  \E more \in Seq(Items) : f[k + 1].items = f[m].items \o more
    OBVIOUS
  <2>2. CASE m = k + 1
    BY <1>3, <2>2
  <2>3. CASE m # k + 1
    <3>1. m <= k /\ k <= N /\ k \in 0..N /\ k + 1 \in 1..N /\ (k + 1) - 1 = k /\ m \in 0..N
      BY <1>1, <2>1, <2>3
    <3>2. PICK a \in Seq(Items) : f[k].items = f[m].items \o a
      BY <1>5, <3>1
    <3>3. f[k] \in States /\ f[k + 1] = Turn(body, f[k], k + 1)
      BY <1>1, <3>1
    <3>4. PICK b \in Seq(Items) : f[k + 1].items = f[k].items \o b
      <4>1. body \in Seq(Bytes) /\ k + 1 \in 1..Len(body) /\ f[k] \in States
        BY <3>1, <3>3 DEF N
      <4>2. \E more \in Seq(Items) : Turn(body, f[k], k + 1).items = f[k].items \o more
        BY <4>1, TurnItems
      <4>3. QED
        BY <3>3, <4>2
    <3>5. (f[m].items \o a) \o b = f[m].items \o (a \o b) /\ a \o b \in Seq(Items)
      <4>1. f[m].items \in Seq(Items) /\ a \in Seq(Items) /\ b \in Seq(Items)
        BY <1>2, <3>1
      <4> DEFINE x == f[m].items
      <4>2. x \in Seq(Items)
        BY <4>1
      <4> HIDE DEF x
      <4>3. (x \o a) \o b = x \o (a \o b)
        BY <4>2, ConcatAssociative
      <4>4. a \o b \in Seq(Items)
        BY <4>1, ConcatProperties
      <4>5. QED
        BY <4>3, <4>4 DEF x
    <3>6. QED
      BY <3>2, <3>4, <3>5
  <2>4. QED
    BY <2>2, <2>3
<1> HIDE DEF T
<1>6. n \in T
  BY <1>4, <1>5, NatAll
<1>7. QED
  BY <1>6 DEF T, N

LEMMA SameTurn ==
  ASSUME NEW b, NEW p, NEW i, NEW s, p[i] = b[i],
         \A e \in {EntityLt, EntityGt} : At(p, i, e) <=> At(b, i, e)
  PROVE  Turn(p, s, i) = Turn(b, s, i)
<1> DEFINE c == b[i]
           l == At(b, i, EntityLt)
           g == At(b, i, EntityGt)
<1>1. (At(p, i, EntityLt) <=> l) /\ (At(p, i, EntityGt) <=> g) /\ p[i] = c
  OBVIOUS
<1>2. Turn(b, s, i) =
        CASE s.skip > 0 -> [s EXCEPT !.skip = @ - 1]
          [] s.skip = 0 /\ c = Lt ->
               [s EXCEPT !.inTag = TRUE, !.word = <<>>, !.items = @ \o Text(s.word)]
          [] s.skip = 0 /\ c = Gt ->
               [s EXCEPT !.inTag = FALSE, !.word = <<>>, !.items = @ \o Tag(s.word)]
          [] s.skip = 0 /\ ~s.inTag /\ l -> [s EXCEPT !.word = Append(@, Lt), !.skip = 3]
          [] s.skip = 0 /\ ~s.inTag /\ g -> [s EXCEPT !.word = Append(@, Gt), !.skip = 3]
          [] OTHER -> [s EXCEPT !.word = Append(@, c), !.skip = 0]
  BY DEF Turn
<1>3. QED
  BY <1>1, <1>2 DEF Turn

\* The byte after which a page is cut.
LEMMA CutAt ==
  ASSUME NEW b \in Seq(Bytes), NEW k \in 1..Len(b), NEW p \in Seq(Bytes), Len(p) = k,
         \A j \in 1..k : p[j] = b[j], NEW i \in 1..k, NEW e \in {EntityLt, EntityGt}
  PROVE  \/ At(p, i, e) <=> At(b, i, e)
         \/ \A j \in i..k : p[j] \notin {Lt, Gt}
<1>1. e \in Seq(Bytes) /\ Len(e) = 4 /\ Len(b) \in Nat /\ k \in Nat /\ k <= Len(b)
  <2>1. Len(b) \in Nat /\ k \in Nat /\ k <= Len(b)
    OBVIOUS
  <2>2. CASE e = EntityLt
    BY <2>1, <2>2, SignsAre
  <2>3. CASE e = EntityGt
    BY <2>1, <2>3, SignsAre
  <2>4. QED
    BY <2>2, <2>3
<1>2. \A q \in 1..4 : e[q] \notin {Lt, Gt}
  <2>1. \A q \in 1..4 : q = 1 \/ q = 2 \/ q = 3 \/ q = 4
    OBVIOUS
  <2>2. {e[1], e[2], e[3], e[4]} \subseteq {38, 108, 103, 116, 59}
    <3>1. CASE e = EntityLt
      BY <3>1, SignsAre
    <3>2. CASE e = EntityGt
      BY <3>2, SignsAre
    <3>3. QED
      BY <3>1, <3>2
  <2>3. \A c \in {38, 108, 103, 116, 59} : c # Lt /\ c # Gt
    BY DEF Lt, Gt
  <2>4. QED
    BY <2>1, <2>2, <2>3
<1>3. At(b, i, e) <=> i + Len(e) <= Len(b) + 1 /\ \A q \in 1..Len(e) : b[i + q - 1] = e[q]
  <2>1. i \in Nat \ {0} /\ b \in Seq(Bytes) /\ e \in Seq(Bytes)
    BY <1>1
  <2>2. QED
    BY <2>1, AtIs
<1>4. At(p, i, e) <=> i + Len(e) <= Len(p) + 1 /\ \A q \in 1..Len(e) : p[i + q - 1] = e[q]
  <2>1. i \in Nat \ {0} /\ p \in Seq(Bytes) /\ e \in Seq(Bytes)
    BY <1>1
  <2>2. QED
    BY <2>1, AtIs
<1>5. CASE i + 4 <= k + 1
  <2>1. \A q \in 1..4 : i + q - 1 \in 1..k
    BY <1>1, <1>5
  <2>2. \A q \in 1..4 : p[i + q - 1] = b[i + q - 1]
    BY <2>1
  <2>3. i + 4 <= Len(b) + 1
    BY <1>1, <1>5
  <2>4. QED
    BY <1>1, <1>3, <1>4, <1>5, <2>2, <2>3
<1>6. CASE ~(i + 4 <= k + 1)
  <2>1. ~At(p, i, e)
    BY <1>1, <1>4, <1>6
  <2>2. ASSUME At(b, i, e), NEW j \in i..k PROVE p[j] \notin {Lt, Gt}
    <3>1. j - i + 1 \in 1..4 /\ i + (j - i + 1) - 1 = j /\ j \in 1..k
      BY <1>1, <1>6
    <3>2. b[j] = e[j - i + 1]
      BY <1>1, <1>3, <2>2, <3>1
    <3>3. QED
      BY <1>2, <3>1, <3>2
  <2>3. QED
    BY <2>1, <2>2
<1>7. QED
  BY <1>5, <1>6

\* What has been read of the beginning of a page was read of the page.
LEMMA CutItems ==
  ASSUME NEW b \in Seq(Bytes), NEW k \in 1..Len(b), NEW p \in Seq(Bytes), Len(p) = k,
         \A j \in 1..k : p[j] = b[j], NEW f, Scans(f, b), NEW g, Scans(g, p)
  PROVE  \E m \in 0..k : g[k].items = f[m].items
<1> DEFINE Off(n) == /\ \E m \in 0..k : g[n].items = f[m].items
                     /\ \A j \in (n + 1)..k : p[j] \notin {Lt, Gt}
           T == {n \in Nat : n <= k => g[n] = f[n] \/ Off(n)}
<1>1. /\ Len(b) \in Nat /\ k \in Nat /\ k <= Len(b)
      /\ f \in [0..Len(b) -> States] /\ g \in [0..k -> States]
      /\ f[0] = ScanBegin /\ g[0] = ScanBegin
      /\ \A n \in 1..Len(b) : f[n] = Turn(b, f[n - 1], n)
      /\ \A n \in 1..k : g[n] = Turn(p, g[n - 1], n)
  BY DEF Scans
<1>2. 0 \in T
  BY <1>1
<1>3. ASSUME NEW n \in Nat, n \in T PROVE n + 1 \in T
  <2> DEFINE i == n + 1
  <2>1. SUFFICES ASSUME i <= k PROVE g[i] = f[i] \/ Off(i)
    OBVIOUS
  <2>2. n <= k /\ n \in 0..k /\ n \in 0..Len(b) /\ i \in 1..k /\ i \in 1..Len(b) /\ i - 1 = n
    BY <1>1, <2>1
  <2>3. g[i] = Turn(p, g[n], i) /\ f[i] = Turn(b, f[n], i) /\ g[n] \in States
    BY <1>1, <2>2
  <2>4. p[i] \notin {Lt, Gt} => g[i].items = g[n].items
    <3>1. p \in Seq(Bytes) /\ i \in 1..Len(p) /\ g[n] \in States
      BY <2>2, <2>3
    <3> HIDE DEF i
    <3>2. p[i] \notin {Lt, Gt} => Turn(p, g[n], i).items = g[n].items
      BY <3>1, TurnItems
    <3>3. QED
      BY <2>3, <3>2
  <2>5. \A j \in (i + 1)..k : j \in (n + 1)..k
    BY <2>2
  <2>6. i \in (n + 1)..k
    BY <2>2
  <2> HIDE DEF i
  <2>7. CASE Off(n)
    BY <2>4, <2>5, <2>6, <2>7
  <2>8. CASE g[n] = f[n] /\ \A e \in {EntityLt, EntityGt} : At(p, i, e) <=> At(b, i, e)
    <3>1. p[i] = b[i]
      BY <2>2
    <3>2. Turn(p, g[n], i) = Turn(b, g[n], i)
      BY <2>8, <3>1, SameTurn
    <3>3. QED
      BY <2>3, <2>8, <3>2
  <2>9. CASE g[n] = f[n] /\ ~\A e \in {EntityLt, EntityGt} : At(p, i, e) <=> At(b, i, e)
    <3>1. PICK e \in {EntityLt, EntityGt} : ~(At(p, i, e) <=> At(b, i, e))
      BY <2>9
    <3>2. \A j \in i..k : p[j] \notin {Lt, Gt}
      BY <2>2, <3>1, CutAt
    <3>3. i \in i..k /\ \A j \in (i + 1)..k : j \in i..k
      BY <2>2
    <3>4. g[i].items = f[n].items
      BY <2>4, <2>9, <3>2, <3>3
    <3>5. QED
      BY <2>2, <3>2, <3>3, <3>4
  <2>10. QED
    BY <1>3, <2>2, <2>7, <2>8, <2>9
<1> HIDE DEF T, Off
<1>4. k \in T
  BY <1>1, <1>2, <1>3, NatAll
<1>5. g[k] = f[k] \/ Off(k)
  BY <1>1, <1>4 DEF T
<1>6. k \in 0..k
  BY <1>1
<1>7. QED
  BY <1>5, <1>6 DEF Off

\* The tab shows the beginning of a page that is cut, the last item in part.
LEMMA CutShown ==
  ASSUME NEW b \in Seq(Bytes), NEW k \in 1..Len(b), NEW p \in Seq(Bytes), Len(p) = k,
         \A j \in 1..k : p[j] = b[j], Scan(p) # <<>>
  PROVE  IsPrefix(Front(Scan(p)), Scan(b))
<1> DEFINE N == Len(b)
<1>1. PICK f : Scans(f, b) /\ Scan(b) = f[N].items \o Text(f[N].word)
  BY ScanIs
<1>2. PICK g : Scans(g, p) /\ Scan(p) = g[k].items \o Text(g[k].word)
  BY ScanIs
<1>3. N \in Nat /\ k \in Nat /\ k <= N /\ 0..k \subseteq 0..N /\ k \in 0..k /\ N \in 0..N
  OBVIOUS
<1>4. PICK m \in 0..k : g[k].items = f[m].items
  BY <1>1, <1>2, CutItems
<1>5. f[N] \in States /\ f[m] \in States /\ g[k] \in States
  BY <1>1, <1>2, <1>3 DEF Scans
<1>6. /\ f[N].items \in Seq(Items) /\ f[m].items \in Seq(Items)
      /\ Text(f[N].word) \in Seq(Items) /\ Text(g[k].word) \in Seq(Items)
      /\ (Text(g[k].word) = <<>> \/ Len(Text(g[k].word)) = 1)
  <2>1. /\ f[N].items \in Seq(Items) /\ f[m].items \in Seq(Items)
        /\ f[N].word \in Seq(Bytes) /\ g[k].word \in Seq(Bytes)
    BY <1>5, StateIs
  <2>2. QED
    BY <2>1, TextType
<1>7. PICK more \in Seq(Items) : f[N].items = f[m].items \o more
  <2>1. m \in 0..Len(b) /\ N \in 0..Len(b) /\ m <= N
    BY <1>3
  <2>2. QED
    BY <1>1, <2>1, ItemsStay
<1> DEFINE x == f[m].items
           y == Text(f[N].word)
           z == Text(g[k].word)
           rest == more \o y
<1>8. x \in Seq(Items) /\ y \in Seq(Items) /\ z \in Seq(Items) /\ (z = <<>> \/ Len(z) = 1)
      /\ Scan(b) = (x \o more) \o y /\ Scan(p) = x \o z
  BY <1>1, <1>2, <1>4, <1>6, <1>7
<1> HIDE DEF x, y, z
<1>9. rest \in Seq(Items) /\ Scan(b) = x \o rest
  <2>1. (x \o more) \o y = x \o (more \o y)
    <3>1. x \in Seq(Items) /\ more \in Seq(Items) /\ y \in Seq(Items)
      BY <1>7, <1>8
    <3>2. QED
      BY <3>1, ItemsRegrouped, Zenon
  <2>2. more \o y \in Seq(Items)
    BY <1>8, ConcatProperties
  <2>3. QED
    BY <1>8, <2>1, <2>2
<1> HIDE DEF rest
<1>10. CASE z = <<>>
  <2>1. Scan(p) = x /\ x # <<>>
    BY <1>8, <1>10, ConcatEmptySeq
  <2> DEFINE h == Front(x)
             l == <<x[Len(x)]>>
  <2>2. h \in Seq(Items) /\ l \in Seq(Items) /\ x = h \o l
    BY <1>8, <2>1, FrontIs
  <2> HIDE DEF h, l
  <2>3. (h \o l) \o rest = h \o (l \o rest) /\ l \o rest \in Seq(Items)
    <3>1. l \o rest \in Seq(Items)
      BY <1>9, <2>2, ConcatProperties
    <3>2. (h \o l) \o rest = h \o (l \o rest)
      <4>1. h \in Seq(Items) /\ l \in Seq(Items) /\ rest \in Seq(Items)
        BY <1>9, <2>2
      <4>2. QED
        BY <4>1, ItemsRegrouped, Zenon
    <3>3. QED
      BY <3>1, <3>2
  <2> DEFINE r == l \o rest
  <2>4. r \in Seq(Items) /\ Scan(b) = h \o r
    BY <1>9, <2>2, <2>3
  <2> HIDE DEF r
  <2>5. IsPrefix(h, h \o r)
    BY <2>2, <2>4, BeginningIs
  <2>6. QED
    BY <2>1, <2>4, <2>5 DEF h
<1>11. CASE Len(z) = 1
  <2> DEFINE u == x \o z
             h == Front(u)
  <2>1. u \in Seq(Items) /\ Len(u) = Len(x) + 1 /\ Len(x) \in Nat
        /\ \A i \in 1..Len(x) : u[i] = x[i]
    <3>1. u \in Seq(Items) /\ Len(u) = Len(x) + Len(z) /\ \A i \in 1..Len(x) : u[i] = x[i]
      BY <1>8, Joined
    <3>2. Len(x) \in Nat
      BY <1>8
    <3> HIDE DEF u
    <3>3. QED
      BY <1>11, <3>1, <3>2
  <2> HIDE DEF u
  <2>2. h = x
    <3> DEFINE n == Len(x)
    <3>1. n \in Nat /\ Len(u) = n + 1 /\ Len(u) - 1 = n
      BY <2>1
    <3>2. h = SubSeq(u, 1, n)
      BY <3>1 DEF Front
    <3>3. 1 \in Nat \ {0} /\ n \in Nat /\ n <= Len(u)
      BY <3>1
    <3>4. /\ h \in Seq(Items) /\ Len(h) = (IF 1 <= n THEN n - 1 + 1 ELSE 0)
          /\ \A i \in 1..(n - 1 + 1) : h[i] = u[1 + i - 1]
      <4> HIDE DEF h, n
      <4>1. /\ SubSeq(u, 1, n) \in Seq(Items)
            /\ Len(SubSeq(u, 1, n)) = (IF 1 <= n THEN n - 1 + 1 ELSE 0)
            /\ \A i \in 1..(n - 1 + 1) : SubSeq(u, 1, n)[i] = u[1 + i - 1]
        BY <2>1, <3>3, PartOf
      <4>2. QED
        BY <3>2, <4>1
    <3> HIDE DEF h
    <3>5. Len(h) = n
      <4> HIDE DEF n
      <4>1. QED
        BY <3>1, <3>4
    <3>6. \A i \in 1..n : i \in 1..(n - 1 + 1) /\ 1 + i - 1 = i
      <4> HIDE DEF n
      <4>1. QED
        BY <3>1
    <3>7. \A i \in 1..Len(h) : h[i] = x[i]
      BY <2>1, <3>4, <3>5, <3>6
    <3>8. QED
      BY <1>8, <3>4, <3>5, <3>7, Same
  <2>3. IsPrefix(x, x \o rest)
    BY <1>8, <1>9, BeginningIs
  <2>4. QED
    BY <1>8, <1>9, <2>2, <2>3 DEF u
<1>12. QED
  BY <1>8, <1>10, <1>11

-----------------------------------------------------------------------------
(* Splitting *)

\* The parts of a text from a place on.
Splits(from, s, d) ==
  \A n \in 1..(Len(s) + 1) :
    /\ Find(s, d, n) = None => from[n] = <<From(s, n)>>
    /\ Find(s, d, n) # None =>
         from[n] = <<SubSeq(s, n, Find(s, d, n) - 1)>> \o from[Find(s, d, n) + Len(d)]

LEMMA SplitIs ==
  ASSUME NEW S, NEW s \in Seq(S), NEW d \in Seq(S), Len(d) > 0
  PROVE  \E from \in [1..(Len(s) + 1) -> Seq(Seq(S)) \ {<<>>}] :
           Splits(from, s, d) /\ Split(s, d) = from[1]
<1> DEFINE N == Len(s) + 1
           V == Seq(Seq(S)) \ {<<>>}
           end(n) == Find(s, d, n)
           next(n) == end(n) + Len(d)
           Rest(n, u) == IF end(n) = None THEN <<From(s, n)>>
                         ELSE <<SubSeq(s, n, end(n) - 1)>> \o u[next(n)]
           Solution(u) == [n \in 1..N |-> Rest(n, u)]
           f == CHOOSE u : u = Solution(u)
           step == [q \in (1..N) \X [1..N -> V] |-> Rest(q[1], q[2])]
<1>1. Split(s, d) = f[1]
  BY DEF Split
<1>2. Len(s) \in Nat /\ Len(d) \in Nat /\ N \in Nat /\ N >= 1
  OBVIOUS
<1>3. ASSUME NEW n \in 1..N, end(n) # None
      PROVE  end(n) \in n..N /\ next(n) \in (n + 1)..N /\ next(n) \in 1..N
  <2>1. n \in Nat /\ s \in Seq(S) /\ d \in Seq(S)
    OBVIOUS
  <2>2. end(n) \in Nat /\ end(n) >= n /\ At(s, end(n), d)
    BY <1>3, <2>1, Finding
  <2>3. end(n) + Len(d) <= Len(s) + 1
    BY <2>2 DEF At
  <2> HIDE DEF end
  <2>4. QED
    BY <1>2, <2>2, <2>3
<1>4. ASSUME NEW n \in 1..N
      PROVE  From(s, n) \in Seq(S) /\ (end(n) # None => SubSeq(s, n, end(n) - 1) \in Seq(S))
  <2>1. n \in Nat \ {0} /\ Len(s) \in Nat /\ Len(s) <= Len(s)
    BY <1>2
  <2>2. SubSeq(s, n, Len(s)) \in Seq(S)
    BY <2>1, PartOf
  <2>3. ASSUME end(n) # None PROVE SubSeq(s, n, end(n) - 1) \in Seq(S)
    <3>1. end(n) \in n..N
      BY <1>3, <2>3
    <3> HIDE DEF end
    <3>2. n \in Nat \ {0} /\ end(n) - 1 \in Nat /\ end(n) - 1 <= Len(s)
      BY <1>2, <3>1
    <3>3. QED
      BY <3>2, PartOf
  <2>4. QED
    BY <2>2, <2>3 DEF From
<1>5. ASSUME NEW n \in 1..N, NEW u \in [1..N -> V] PROVE Rest(n, u) \in V
  <2>1. CASE end(n) = None
    <3>1. From(s, n) \in Seq(S)
      BY <1>4
    <3>2. <<From(s, n)>> \in Seq(Seq(S)) /\ <<From(s, n)>> # <<>>
      BY <3>1
    <3> HIDE DEF end
    <3>3. QED
      BY <2>1, <3>2
  <2>2. CASE end(n) # None
    <3> DEFINE w == SubSeq(s, n, end(n) - 1)
               v == u[next(n)]
    <3>1. w \in Seq(S) /\ v \in Seq(Seq(S))
      BY <1>3, <1>4, <2>2
    <3> HIDE DEF w, v
    <3>2. <<w>> \o v \in Seq(Seq(S)) /\ <<w>> \o v # <<>>
      <4>1. <<w>> \in Seq(Seq(S)) /\ Len(<<w>>) = 1 /\ Len(v) \in Nat
        BY <3>1
      <4>2. <<w>> \o v \in Seq(Seq(S)) /\ Len(<<w>> \o v) = Len(<<w>>) + Len(v)
        BY <3>1, <4>1, Joined
      <4>3. Len(<<w>> \o v) # 0
        BY <4>1, <4>2
      <4>4. QED
        BY <4>2, <4>3, EmptySeq
    <3>3. Rest(n, u) = <<w>> \o v
      BY <2>2 DEF w, v
    <3> HIDE DEF Rest
    <3>4. QED
      BY <3>2, <3>3
  <2>3. QED
    BY <2>1, <2>2
<1>6. step \in [(1..N) \X [1..N -> V] -> V]
  <2> HIDE DEF Rest, V
  <2>1. QED
    BY <1>5
<1>7. \A n \in 1..N, u \in [1..N -> V] : step[<<n, u>>] = Rest(n, u)
  <2> HIDE DEF Rest, V
  <2>1. QED
    OBVIOUS
<1>8. FromAbove(N, V, step)
  <2>1. ASSUME NEW n \in 1..N, NEW u \in [1..N -> V], NEW v \in [1..N -> V],
               \A m \in (n + 1)..N : u[m] = v[m]
        PROVE  step[<<n, u>>] = step[<<n, v>>]
    <3>1. end(n) # None => u[next(n)] = v[next(n)]
      <4> HIDE DEF next, end
      <4>1. QED
        BY <1>3, <2>1
    <3>2. Rest(n, u) = Rest(n, v)
      <4> HIDE DEF next, end
      <4>1. QED
        BY <3>1
    <3> HIDE DEF step, Rest, V
    <3>3. QED
      BY <1>7, <3>2
  <2> HIDE DEF step, V
  <2>2. QED
    BY <2>1 DEF FromAbove
<1>9. <<<<>>>> \in V
  OBVIOUS
<1>10. PICK g \in [1..N -> V] : RecursDown(g, N, step)
  <2> HIDE DEF step, V, N
  <2>1. QED
    BY <1>2, <1>6, <1>8, <1>9, DownRecursion
<1>11. g = Solution(g)
  <2> HIDE DEF step, Rest, V
  <2>1. \A n \in 1..N : g[n] = Rest(n, g)
    BY <1>7, <1>10 DEF RecursDown
  <2>2. QED
    BY <1>10, <2>1
<1>12. f = Solution(f)
  <2> HIDE DEF Solution
  <2>1. QED
    BY <1>11
<1>13. f = g
  <2> DEFINE T == {n \in 1..N : f[n] = g[n]}
  <2>1. ASSUME NEW n \in 1..N, \A m \in (n + 1)..N : m \in T PROVE n \in T
    <3>1. end(n) # None => f[next(n)] = g[next(n)]
      <4> HIDE DEF next, end
      <4>1. QED
        BY <1>3, <2>1
    <3>2. Rest(n, f) = Rest(n, g)
      <4> HIDE DEF next, end, f
      <4>1. QED
        BY <3>1
    <3> HIDE DEF Rest, f
    <3>3. f[n] = Rest(n, f) /\ g[n] = Rest(n, g)
      BY <1>11, <1>12
    <3>4. QED
      BY <3>2, <3>3
  <2> HIDE DEF T
  <2>2. 1..N \subseteq T
    <3> HIDE DEF N
    <3>1. QED
      BY <1>2, <2>1, DownInduction
  <2> HIDE DEF Rest, f
  <2>3. \A n \in 1..N : f[n] = g[n]
    BY <2>2 DEF T
  <2>4. f = [n \in 1..N |-> f[n]]
    BY <1>12
  <2>5. g = [n \in 1..N |-> g[n]]
    BY <1>10
  <2>6. QED
    BY <2>3, <2>4, <2>5
<1>14. Splits(g, s, d)
  <2>1. \A n \in 1..N : g[n] = Rest(n, g)
    <3> HIDE DEF Rest
    <3>1. QED
      BY <1>11
  <2>2. QED
    BY <2>1 DEF Splits
<1>15. QED
  BY <1>1, <1>10, <1>13, <1>14

-----------------------------------------------------------------------------
(* Reading an answer *)

LEMMA JoinedIs ==
  ASSUME NEW S, NEW s \in Seq(S), NEW t \in Seq(S), NEW u \in Seq(S),
         Len(u) = Len(s) + Len(t), \A i \in 1..Len(s) : u[i] = s[i],
         \A i \in 1..Len(t) : u[Len(s) + i] = t[i]
  PROVE  s \o t = u
<1> DEFINE v == s \o t
<1>1. /\ v \in Seq(S) /\ Len(v) = Len(s) + Len(t) /\ Len(s) \in Nat /\ Len(t) \in Nat
      /\ \A i \in 1..Len(s) : v[i] = s[i]
      /\ \A i \in 1..Len(t) : v[Len(s) + i] = t[i]
  BY Joined
<1> HIDE DEF v
<1>2. ASSUME NEW i \in 1..Len(v) PROVE v[i] = u[i]
  <2>1. CASE i <= Len(s)
    <3>1. i \in 1..Len(s)
      BY <1>1, <2>1
    <3>2. QED
      BY <1>1, <3>1
  <2>2. CASE ~(i <= Len(s))
    <3>1. i - Len(s) \in 1..Len(t) /\ Len(s) + (i - Len(s)) = i
      BY <1>1, <2>2
    <3>2. v[Len(s) + (i - Len(s))] = t[i - Len(s)] /\ u[Len(s) + (i - Len(s))] = t[i - Len(s)]
      BY <1>1, <3>1
    <3>3. QED
      BY <3>1, <3>2
  <2>3. QED
    BY <2>1, <2>2
<1>3. v = u
  BY <1>1, <1>2, Same
<1>4. QED
  BY <1>3 DEF v

LEMMA HeadIs ==
  /\ HeadOf = <<72, 32, 50, 32, 79, 13, 10, 67, 58, 49, 13, 10, 13, 10>>
  /\ HeadOf \in Seq(Bytes) /\ Len(HeadOf) = 14
<1> DEFINE a == <<72, 32, 50, 32, 79>>
           b == <<67, 58, 49>>
           c == <<72, 32, 50, 32, 79, 13, 10>>
           d == <<72, 32, 50, 32, 79, 13, 10, 67, 58, 49>>
           e == <<72, 32, 50, 32, 79, 13, 10, 67, 58, 49, 13, 10>>
           h == <<72, 32, 50, 32, 79, 13, 10, 67, 58, 49, 13, 10, 13, 10>>
<1>0. {72, 32, 50, 79, 13, 10, 67, 58, 49} \subseteq Bytes /\ CRLF = <<13, 10>>
  BY DEF Bytes, CRLF
<1>1. a \o CRLF = c
  <2>1. a \in Seq(Bytes) /\ CRLF \in Seq(Bytes) /\ c \in Seq(Bytes)
        /\ Len(a) = 5 /\ Len(CRLF) = 2 /\ Len(c) = 7 /\ 5 + 2 = 7
    BY <1>0
  <2>2. /\ \A i \in 1..5 : i = 1 \/ i = 2 \/ i = 3 \/ i = 4 \/ i = 5
        /\ \A i \in 1..2 : i = 1 \/ i = 2
    OBVIOUS
  <2>3. c[1] = a[1] /\ c[2] = a[2] /\ c[3] = a[3] /\ c[4] = a[4] /\ c[5] = a[5]
    BY <1>0
  <2>4. c[5 + 1] = CRLF[1] /\ c[5 + 2] = CRLF[2]
    BY <1>0
  <2> HIDE DEF a, b, c, d, e, h
  <2>5. /\ \A i \in 1..Len(a) : c[i] = a[i]
        /\ \A i \in 1..Len(CRLF) : c[Len(a) + i] = CRLF[i]
    BY <2>1, <2>2, <2>3, <2>4
  <2>6. Len(c) = Len(a) + Len(CRLF)
    BY <2>1
  <2>7. QED
    BY <2>1, <2>5, <2>6, JoinedIs
<1>2. c \o b = d
  <2>1. c \in Seq(Bytes) /\ b \in Seq(Bytes) /\ d \in Seq(Bytes)
        /\ Len(c) = 7 /\ Len(b) = 3 /\ Len(d) = 10 /\ 7 + 3 = 10
    BY <1>0
  <2>2. /\ \A i \in 1..7 : i = 1 \/ i = 2 \/ i = 3 \/ i = 4 \/ i = 5 \/ i = 6 \/ i = 7
        /\ \A i \in 1..3 : i = 1 \/ i = 2 \/ i = 3
    OBVIOUS
  <2>3. d[1] = c[1] /\ d[2] = c[2] /\ d[3] = c[3] /\ d[4] = c[4] /\ d[5] = c[5] /\ d[6] = c[6]
          /\ d[7] = c[7]
    BY <1>0
  <2>4. d[7 + 1] = b[1] /\ d[7 + 2] = b[2] /\ d[7 + 3] = b[3]
    BY <1>0
  <2> HIDE DEF a, b, c, d, e, h
  <2>5. /\ \A i \in 1..Len(c) : d[i] = c[i]
        /\ \A i \in 1..Len(b) : d[Len(c) + i] = b[i]
    BY <2>1, <2>2, <2>3, <2>4
  <2>6. Len(d) = Len(c) + Len(b)
    BY <2>1
  <2>7. QED
    BY <2>1, <2>5, <2>6, JoinedIs
<1>3. d \o CRLF = e
  <2>1. d \in Seq(Bytes) /\ CRLF \in Seq(Bytes) /\ e \in Seq(Bytes)
        /\ Len(d) = 10 /\ Len(CRLF) = 2 /\ Len(e) = 12 /\ 10 + 2 = 12
    BY <1>0
  <2>2. /\ \A i \in 1..10 : i = 1 \/ i = 2 \/ i = 3 \/ i = 4 \/ i = 5 \/ i = 6 \/ i = 7
          \/ i = 8 \/ i = 9 \/ i = 10
        /\ \A i \in 1..2 : i = 1 \/ i = 2
    OBVIOUS
  <2>3. e[1] = d[1] /\ e[2] = d[2] /\ e[3] = d[3] /\ e[4] = d[4] /\ e[5] = d[5] /\ e[6] = d[6]
          /\ e[7] = d[7] /\ e[8] = d[8] /\ e[9] = d[9] /\ e[10] = d[10]
    BY <1>0
  <2>4. e[10 + 1] = CRLF[1] /\ e[10 + 2] = CRLF[2]
    BY <1>0
  <2> HIDE DEF a, b, c, d, e, h
  <2>5. /\ \A i \in 1..Len(d) : e[i] = d[i]
        /\ \A i \in 1..Len(CRLF) : e[Len(d) + i] = CRLF[i]
    BY <2>1, <2>2, <2>3, <2>4
  <2>6. Len(e) = Len(d) + Len(CRLF)
    BY <2>1
  <2>7. QED
    BY <2>1, <2>5, <2>6, JoinedIs
<1>4. e \o CRLF = h
  <2>1. e \in Seq(Bytes) /\ CRLF \in Seq(Bytes) /\ h \in Seq(Bytes)
        /\ Len(e) = 12 /\ Len(CRLF) = 2 /\ Len(h) = 14 /\ 12 + 2 = 14
    BY <1>0
  <2>2. /\ \A i \in 1..12 : i = 1 \/ i = 2 \/ i = 3 \/ i = 4 \/ i = 5 \/ i = 6 \/ i = 7
          \/ i = 8 \/ i = 9 \/ i = 10 \/ i = 11 \/ i = 12
        /\ \A i \in 1..2 : i = 1 \/ i = 2
    OBVIOUS
  <2>3. h[1] = e[1] /\ h[2] = e[2] /\ h[3] = e[3] /\ h[4] = e[4] /\ h[5] = e[5] /\ h[6] = e[6]
          /\ h[7] = e[7] /\ h[8] = e[8] /\ h[9] = e[9] /\ h[10] = e[10] /\ h[11] = e[11]
          /\ h[12] = e[12]
    BY <1>0
  <2>4. h[12 + 1] = CRLF[1] /\ h[12 + 2] = CRLF[2]
    BY <1>0
  <2> HIDE DEF a, b, c, d, e, h
  <2>5. /\ \A i \in 1..Len(e) : h[i] = e[i]
        /\ \A i \in 1..Len(CRLF) : h[Len(e) + i] = CRLF[i]
    BY <2>1, <2>2, <2>3, <2>4
  <2>6. Len(h) = Len(e) + Len(CRLF)
    BY <2>1
  <2>7. QED
    BY <2>1, <2>5, <2>6, JoinedIs
<1>5. HeadOf = (((a \o CRLF) \o b) \o CRLF) \o CRLF
  BY DEF HeadOf
<1>6. HeadOf = h
  <2> HIDE DEF a, b, c, d, e, h
  <2>1. QED
    BY <1>1, <1>2, <1>3, <1>4, <1>5
<1>8. h \in Seq(Bytes) /\ Len(h) = 14
  BY <1>0
<1>9. QED
  BY <1>6, <1>8

\* What has been read of an answer begins like its head.
LikeHead(r) == r \in Seq(Bytes) /\ \A j \in 1..Len(r) : j <= 14 => r[j] = HeadOf[j]

LEMMA LinesEnd ==
  ASSUME NEW r, LikeHead(r)
  PROVE  /\ \A i \in 1..5 : ~At(r, i, CRLF)
         /\ At(r, 6, CRLF) <=> Len(r) >= 7
         /\ \A i \in 8..10 : ~At(r, i, CRLF)
         /\ At(r, 11, CRLF) <=> Len(r) >= 12
         /\ At(r, 13, CRLF) <=> Len(r) >= 14
<1>1. CRLF \in Seq(Bytes) /\ Len(CRLF) = 2 /\ CRLF[1] = 13 /\ CRLF[2] = 10
  <2>1. {10, 13} \subseteq Bytes
    BY DEF Bytes
  <2>2. QED
    BY <2>1 DEF CRLF
<1>2. ASSUME NEW i \in Nat \ {0}
      PROVE  At(r, i, CRLF) <=> /\ i + 2 <= Len(r) + 1 /\ r[i] = 13 /\ r[i + 1] = 10
  <2>1. r \in Seq(Bytes) /\ CRLF \in Seq(Bytes) /\ i \in Nat \ {0}
    BY <1>1 DEF LikeHead
  <2>2. At(r, i, CRLF) <=> /\ i + Len(CRLF) <= Len(r) + 1
                           /\ \A q \in 1..Len(CRLF) : r[i + q - 1] = CRLF[q]
    BY <2>1, AtIs
  <2>3. (\A q \in 1..2 : r[i + q - 1] = CRLF[q]) <=> r[i] = 13 /\ r[i + 1] = 10
    <3>1. i + 1 - 1 = i /\ i + 2 - 1 = i + 1 /\ 1 \in 1..2 /\ 2 \in 1..2
          /\ \A q \in 1..2 : q = 1 \/ q = 2
      OBVIOUS
    <3>2. QED
      BY <1>1, <3>1
  <2>4. QED
    BY <1>1, <2>2, <2>3
<1>3. Len(r) \in Nat
  BY DEF LikeHead
<1>4. ASSUME NEW j \in 1..14, j <= Len(r) PROVE r[j] = HeadOf[j]
  <2>1. j \in 1..Len(r) /\ j <= 14
    BY <1>3, <1>4
  <2>2. QED
    BY <2>1 DEF LikeHead
<1>5. /\ HeadOf[6] = 13 /\ HeadOf[7] = 10 /\ HeadOf[11] = 13 /\ HeadOf[12] = 10
      /\ HeadOf[13] = 13 /\ HeadOf[14] = 10
      /\ HeadOf[1] # 13 /\ HeadOf[2] # 13 /\ HeadOf[3] # 13 /\ HeadOf[4] # 13 /\ HeadOf[5] # 13
      /\ HeadOf[8] # 13 /\ HeadOf[9] # 13 /\ HeadOf[10] # 13
  BY HeadIs
<1>6. \A i \in (1..5) \cup (8..10) : HeadOf[i] # 13 /\ i \in 1..14 /\ i \in Nat \ {0}
  <2>1. \A i \in (1..5) \cup (8..10) : i = 1 \/ i = 2 \/ i = 3 \/ i = 4 \/ i = 5 \/ i = 8
          \/ i = 9 \/ i = 10
    OBVIOUS
  <2>2. \A i \in (1..5) \cup (8..10) : HeadOf[i] # 13
    BY <1>5, <2>1
  <2>3. QED
    BY <2>2
<1>7. ASSUME NEW i \in (1..5) \cup (8..10) PROVE ~At(r, i, CRLF)
  <2>1. i + 2 <= Len(r) + 1 => i <= Len(r)
    BY <1>3, <1>6
  <2>2. QED
    BY <1>2, <1>4, <1>6, <2>1
<1>8. /\ At(r, 6, CRLF) <=> 6 + 2 <= Len(r) + 1 /\ r[6] = 13 /\ r[6 + 1] = 10
      /\ At(r, 11, CRLF) <=> 11 + 2 <= Len(r) + 1 /\ r[11] = 13 /\ r[11 + 1] = 10
      /\ At(r, 13, CRLF) <=> 13 + 2 <= Len(r) + 1 /\ r[13] = 13 /\ r[13 + 1] = 10
  <2>1. 6 \in Nat \ {0} /\ 11 \in Nat \ {0} /\ 13 \in Nat \ {0}
    OBVIOUS
  <2>2. QED
    BY <1>2, <2>1
<1>9. /\ Len(r) >= 7 => r[6] = 13 /\ r[7] = 10
      /\ Len(r) >= 12 => r[11] = 13 /\ r[12] = 10
      /\ Len(r) >= 14 => r[13] = 13 /\ r[14] = 10
  <2>1. /\ 6 \in 1..14 /\ 7 \in 1..14 /\ 11 \in 1..14 /\ 12 \in 1..14 /\ 13 \in 1..14 /\ 14 \in 1..14
        /\ Len(r) >= 7 => 6 <= Len(r) /\ 7 <= Len(r)
        /\ Len(r) >= 12 => 11 <= Len(r) /\ 12 <= Len(r)
        /\ Len(r) >= 14 => 13 <= Len(r) /\ 14 <= Len(r)
    BY <1>3
  <2>2. QED
    BY <1>4, <1>5, <2>1
<1>10. QED
  BY <1>3, <1>7, <1>8, <1>9

\* Where only the last line may be empty there is no body.
LEMMA NoBody ==
  ASSUME NEW r, Split(r, CRLF) \in Seq(Seq(Bytes)),
         \A i \in 2..(Len(Split(r, CRLF)) - 1) : Split(r, CRLF)[i] # <<>>
  PROVE  Read(r) = None
<1> DEFINE lines == Split(r, CRLF)
           index == BehindHead(lines)
           ends == {i \in 2..Len(lines) : lines[i] = <<>>}
           stop == CHOOSE i \in ends : \A j \in ends : i <= j
<1>1. index = None \/ (ends # {} /\ index = stop + 1)
  BY DEF BehindHead
<1>2. Len(lines) \in Nat
  OBVIOUS
<1>3. ASSUME ends # {} PROVE stop = Len(lines)
  <2>1. ends \subseteq Nat
    BY <1>2
  <2>2. \E i \in ends : \A j \in ends : i <= j
    <3> HIDE DEF ends
    <3>1. QED
      BY <1>3, <2>1, NatMin
  <2>3. stop \in ends
    <3> HIDE DEF ends
    <3>1. QED
      BY <2>2
  <2> HIDE DEF stop
  <2>4. stop \in 2..Len(lines) /\ stop \notin 2..(Len(lines) - 1)
    BY <2>3
  <2> HIDE DEF lines
  <2>5. QED
    BY <1>2, <2>4
<1>4. index = None \/ index > Len(lines)
  <2> HIDE DEF lines, index, ends, stop
  <2>1. QED
    BY <1>1, <1>2, <1>3
<1>5. QED
  BY <1>4 DEF Read

LEMMA LineFound ==
  ASSUME NEW r, LikeHead(r), NEW start \in Nat \ {0}, NEW end \in Nat, end >= start,
         \A i \in start..(end - 1) : ~At(r, i, CRLF), At(r, end, CRLF) <=> Len(r) >= end + 1
  PROVE  /\ Len(r) >= end + 1 => Find(r, CRLF, start) = end /\ end # None
         /\ Len(r) < end + 1 => Find(r, CRLF, start) = None
<1>1. r \in Seq(Bytes) /\ CRLF \in Seq(Bytes) /\ start \in Nat /\ Len(r) \in Nat /\ Len(CRLF) = 2
  <2>1. {10, 13} \subseteq Bytes
    BY DEF Bytes
  <2>2. QED
    BY <2>1 DEF CRLF, LikeHead
<1>2. CASE Len(r) >= end + 1
  <2>1. \A i \in Nat : start <= i /\ i < end => i \in start..(end - 1)
    OBVIOUS
  <2>2. \A i \in Nat : start <= i /\ i < end => ~At(r, i, CRLF)
    BY <2>1
  <2>3. Find(r, CRLF, start) = end
    BY <1>1, <1>2, <2>2, FoundAt
  <2>4. end # None
    BY NoneAssumption
  <2>5. QED
    BY <1>1, <1>2, <2>3, <2>4
<1>3. CASE Len(r) < end + 1
  <2> DEFINE m == Find(r, CRLF, start)
  <2>1. \/ m = None
        \/ m \in Nat /\ m >= start /\ At(r, m, CRLF)
    BY <1>1, Finding
  <2> HIDE DEF m
  <2>2. ASSUME m \in Nat, m >= start, At(r, m, CRLF) PROVE FALSE
    <3>1. m + 2 <= Len(r) + 1
      BY <1>1, <2>2 DEF At
    <3>2. m \in start..(end - 1)
      BY <1>1, <1>3, <2>2, <3>1
    <3>3. QED
      BY <2>2, <3>2
  <2>3. QED
    BY <1>1, <1>3, <2>1, <2>2 DEF m
<1>4. QED
  BY <1>1, <1>2, <1>3

LEMMA LinesOf ==
  ASSUME NEW r, LikeHead(r)
  PROVE  /\ Len(r) < 7 => Split(r, CRLF) = <<From(r, 1)>>
         /\ Len(r) \in 7..11 => Split(r, CRLF) = <<SubSeq(r, 1, 5)>> \o <<From(r, 8)>>
         /\ Len(r) \in 12..13 =>
              Split(r, CRLF) = <<SubSeq(r, 1, 5)>> \o (<<SubSeq(r, 8, 10)>> \o <<From(r, 13)>>)
         /\ Len(r) >= 14 =>
              \E rest \in Seq(Seq(Bytes)) \ {<<>>} :
                Split(r, CRLF) =
                  <<SubSeq(r, 1, 5)>> \o (<<SubSeq(r, 8, 10)>> \o (<<SubSeq(r, 13, 12)>> \o rest))
<1>1. r \in Seq(Bytes) /\ CRLF \in Seq(Bytes) /\ Len(CRLF) = 2 /\ Len(r) \in Nat
  <2>1. {10, 13} \subseteq Bytes
    BY DEF Bytes
  <2>2. QED
    BY <2>1 DEF CRLF, LikeHead
<1>2. PICK from \in [1..(Len(r) + 1) -> Seq(Seq(Bytes)) \ {<<>>}] :
        Splits(from, r, CRLF) /\ Split(r, CRLF) = from[1]
  BY <1>1, SplitIs
<1>3. /\ Len(r) >= 7 => Find(r, CRLF, 1) = 6 /\ 6 # None
      /\ Len(r) < 7 => Find(r, CRLF, 1) = None
  <2>1. (1 \in Nat \ {0}) /\ 6 \in Nat /\ 6 >= 1 /\ 6 - 1 = 5 /\ 6 + 1 = 7
    OBVIOUS
  <2>2. \A i \in 1..(6 - 1) : ~At(r, i, CRLF)
    BY <2>1, LinesEnd
  <2>3. At(r, 6, CRLF) <=> Len(r) >= 6 + 1
    BY <2>1, LinesEnd
  <2>4. /\ Len(r) >= 6 + 1 => Find(r, CRLF, 1) = 6 /\ 6 # None
        /\ Len(r) < 6 + 1 => Find(r, CRLF, 1) = None
    BY <2>1, <2>2, <2>3, LineFound
  <2>5. QED
    BY <2>1, <2>4
<1>4. /\ Len(r) >= 12 => Find(r, CRLF, 8) = 11 /\ 11 # None
      /\ Len(r) < 12 => Find(r, CRLF, 8) = None
  <2>1. (8 \in Nat \ {0}) /\ 11 \in Nat /\ 11 >= 8 /\ 11 - 1 = 10 /\ 11 + 1 = 12
    OBVIOUS
  <2>2. \A i \in 8..(11 - 1) : ~At(r, i, CRLF)
    BY <2>1, LinesEnd
  <2>3. At(r, 11, CRLF) <=> Len(r) >= 11 + 1
    BY <2>1, LinesEnd
  <2>4. /\ Len(r) >= 11 + 1 => Find(r, CRLF, 8) = 11 /\ 11 # None
        /\ Len(r) < 11 + 1 => Find(r, CRLF, 8) = None
    BY <2>1, <2>2, <2>3, LineFound
  <2>5. QED
    BY <2>1, <2>4
<1>5. /\ Len(r) >= 14 => Find(r, CRLF, 13) = 13 /\ 13 # None
      /\ Len(r) < 14 => Find(r, CRLF, 13) = None
  <2>1. (13 \in Nat \ {0}) /\ 13 \in Nat /\ 13 >= 13 /\ 13 + 1 = 14 /\ \A i : i \notin 13..(13 - 1)
    OBVIOUS
  <2>2. \A i \in 13..(13 - 1) : ~At(r, i, CRLF)
    BY <2>1
  <2>3. At(r, 13, CRLF) <=> Len(r) >= 13 + 1
    BY <2>1, LinesEnd
  <2>4. /\ Len(r) >= 13 + 1 => Find(r, CRLF, 13) = 13 /\ 13 # None
        /\ Len(r) < 13 + 1 => Find(r, CRLF, 13) = None
    BY <2>1, <2>2, <2>3, LineFound
  <2>5. QED
    BY <2>1, <2>4
<1>6. ASSUME NEW n \in 1..(Len(r) + 1)
      PROVE  /\ Find(r, CRLF, n) = None => from[n] = <<From(r, n)>>
             /\ Find(r, CRLF, n) # None =>
                  from[n] = <<SubSeq(r, n, Find(r, CRLF, n) - 1)>> \o from[Find(r, CRLF, n) + 2]
  BY <1>1, <1>2 DEF Splits
<1>7. /\ Len(r) < 7 => from[1] = <<From(r, 1)>>
      /\ Len(r) >= 7 => from[1] = <<SubSeq(r, 1, 5)>> \o from[8]
  <2>1. 1 \in 1..(Len(r) + 1) /\ 6 - 1 = 5 /\ 6 + 2 = 8
    BY <1>1
  <2>2. QED
    BY <1>3, <1>6, <2>1
<1>8. /\ Len(r) \in 7..11 => from[8] = <<From(r, 8)>>
      /\ Len(r) >= 12 => from[8] = <<SubSeq(r, 8, 10)>> \o from[13]
  <2>1. 11 - 1 = 10 /\ 11 + 2 = 13 /\ (Len(r) \in 7..11 => Len(r) < 12)
        /\ (Len(r) \in 7..11 \/ Len(r) >= 12 => 8 \in 1..(Len(r) + 1))
    <3> DEFINE N == Len(r)
    <3>1. N \in Nat
      BY <1>1
    <3> HIDE DEF N
    <3>2. 11 - 1 = 10 /\ 11 + 2 = 13 /\ (N \in 7..11 => N < 12)
          /\ (N \in 7..11 \/ N >= 12 => 8 \in 1..(N + 1))
      BY <3>1
    <3>3. QED
      BY <3>2 DEF N
  <2>2. QED
    BY <1>4, <1>6, <2>1
<1>9. /\ Len(r) \in 12..13 => from[13] = <<From(r, 13)>>
      /\ Len(r) >= 14 => from[13] = <<SubSeq(r, 13, 12)>> \o from[15]
  <2>1. 13 - 1 = 12 /\ 13 + 2 = 15 /\ (Len(r) \in 12..13 => Len(r) < 14)
        /\ (Len(r) \in 12..13 \/ Len(r) >= 14 => 13 \in 1..(Len(r) + 1))
    <3> DEFINE N == Len(r)
    <3>1. N \in Nat
      BY <1>1
    <3> HIDE DEF N
    <3>2. 13 - 1 = 12 /\ 13 + 2 = 15 /\ (N \in 12..13 => N < 14)
          /\ (N \in 12..13 \/ N >= 14 => 13 \in 1..(N + 1))
      BY <3>1
    <3>3. QED
      BY <3>2 DEF N
  <2>2. QED
    BY <1>5, <1>6, <2>1
<1>10. /\ Len(r) \in 7..11 => Len(r) >= 7
       /\ Len(r) \in 12..13 => Len(r) >= 7 /\ Len(r) >= 12
       /\ Len(r) >= 14 => Len(r) >= 7 /\ Len(r) >= 12 /\ 15 \in 1..(Len(r) + 1)
  <2> DEFINE N == Len(r)
  <2>1. N \in Nat
    BY <1>1
  <2> HIDE DEF N
  <2>2. /\ N \in 7..11 => N >= 7
        /\ N \in 12..13 => N >= 7 /\ N >= 12
        /\ N >= 14 => N >= 7 /\ N >= 12 /\ 15 \in 1..(N + 1)
    BY <2>1
  <2>3. QED
    BY <2>2 DEF N
<1>11. Len(r) >= 14 => from[15] \in Seq(Seq(Bytes)) \ {<<>>}
  BY <1>2, <1>10
<1>12. QED
  BY <1>2, <1>7, <1>8, <1>9, <1>10, <1>11

LEMMA FirstOf ==
  ASSUME NEW S, NEW x \in S, NEW t \in Seq(S)
  PROVE  /\ <<x>> \o t \in Seq(S) /\ Len(<<x>> \o t) = Len(t) + 1 /\ (<<x>> \o t)[1] = x
         /\ \A i \in 1..Len(t) : (<<x>> \o t)[i + 1] = t[i]
<1> DEFINE s == <<x>>
           u == s \o t
<1>1. s \in Seq(S) /\ Len(s) = 1 /\ s[1] = x /\ Len(t) \in Nat /\ 1 \in 1..1
  OBVIOUS
<1> HIDE DEF s
<1>2. /\ u \in Seq(S) /\ Len(u) = Len(s) + Len(t)
      /\ \A i \in 1..Len(s) : u[i] = s[i]
      /\ \A i \in 1..Len(t) : u[Len(s) + i] = t[i]
  <2>1. s \in Seq(S) /\ t \in Seq(S)
    BY <1>1
  <2>2. QED
    BY <2>1, Joined
<1> HIDE DEF u
<1>3. u \in Seq(S) /\ Len(u) = Len(t) + 1 /\ u[1] = x
  BY <1>1, <1>2
<1>4. \A i \in 1..Len(t) : u[i + 1] = t[i]
  <2>1. \A i \in 1..Len(t) : 1 + i = i + 1
    BY <1>1
  <2>2. QED
    BY <1>1, <1>2, <2>1
<1>5. QED
  BY <1>3, <1>4 DEF s, u

\* Without the whole of its head an answer is not read.
LEMMA ReadCut ==
  ASSUME NEW r, LikeHead(r), Len(r) < 14
  PROVE  Read(r) = None
<1> DEFINE N == Len(r)
           lines == Split(r, CRLF)
           S == Seq(Bytes)
<1>1. r \in Seq(Bytes) /\ N \in Nat /\ N < 14
  BY DEF LikeHead
<1>2. /\ N < 7 => lines = <<From(r, 1)>>
      /\ N \in 7..11 => lines = <<SubSeq(r, 1, 5)>> \o <<From(r, 8)>>
      /\ N \in 12..13 => lines = <<SubSeq(r, 1, 5)>> \o (<<SubSeq(r, 8, 10)>> \o <<From(r, 13)>>)
  BY LinesOf
<1>3. \A n \in Nat \ {0} : From(r, n) \in S
  <2>1. N \in Nat /\ N <= N
    BY <1>1
  <2>2. \A n \in Nat \ {0} : SubSeq(r, n, N) \in S
    BY <1>1, <2>1, PartOf
  <2>3. QED
    BY <2>2 DEF From
<1>4. \A n \in Nat \ {0}, m \in Nat :
        m <= N => /\ SubSeq(r, n, m) \in S
                  /\ Len(SubSeq(r, n, m)) = IF n <= m THEN m - n + 1 ELSE 0
  BY <1>1, PartOf
<1> DEFINE a == SubSeq(r, 1, 5)
           b == SubSeq(r, 8, 10)
<1>5. (N >= 7 => a \in S) /\ (N >= 12 => b \in S /\ b # <<>>)
  <2>1. /\ 1 \in Nat \ {0} /\ 8 \in Nat \ {0} /\ 5 \in Nat /\ 10 \in Nat
        /\ 8 <= 10 /\ 10 - 8 + 1 = 3
    OBVIOUS
  <2>2. N >= 7 => 5 <= N
    <3> HIDE DEF N
    <3>1. QED
      BY <1>1
  <2>3. N >= 12 => 10 <= N
    <3> HIDE DEF N
    <3>1. QED
      BY <1>1
  <2>4. N >= 7 => a \in S
    BY <1>4, <2>1, <2>2
  <2>5. N >= 12 => b \in S /\ Len(b) = 3
    BY <1>4, <2>1, <2>3
  <2> HIDE DEF a, b
  <2>6. Len(b) = 3 => b # <<>>
    OBVIOUS
  <2> HIDE DEF N, S
  <2>7. QED
    BY <2>4, <2>5, <2>6
<1> HIDE DEF a, b
<1>6. CASE N < 7
  <2>1. From(r, 1) \in S
    BY <1>3
  <2> DEFINE x == From(r, 1)
  <2> HIDE DEF x
  <2>2. lines = <<x>> /\ x \in S
    BY <1>2, <1>6, <2>1 DEF x
  <2> HIDE DEF lines, S
  <2>3. lines \in Seq(S) /\ Len(lines) = 1 /\ \A i : i \notin 2..(1 - 1)
    BY <2>2
  <2>4. QED
    BY <2>3, NoBody DEF lines, S
<1>7. CASE N \in 7..11
  <2> DEFINE x == From(r, 8)
             t == <<x>>
  <2>1. x \in S /\ a \in S /\ lines = <<a>> \o t
    <3>1. 8 \in Nat \ {0} /\ (N \in 7..11 => N >= 7)
      <4> HIDE DEF N
      <4>1. QED
        BY <1>1
    <3>2. x \in S /\ a \in S
      BY <1>3, <1>5, <1>7, <3>1
    <3>3. QED
      BY <1>2, <1>7, <3>2 DEF a
  <2> HIDE DEF lines, S, x
  <2>2. t \in Seq(S) /\ Len(t) = 1
    BY <2>1
  <2> HIDE DEF t
  <2>3. lines \in Seq(S) /\ Len(lines) = Len(t) + 1
    BY <2>1, <2>2, FirstOf
  <2>4. \A i : i \notin 2..(Len(lines) - 1)
    BY <2>2, <2>3
  <2>5. QED
    BY <2>3, <2>4, NoBody DEF lines, S
<1>8. CASE N \in 12..13
  <2> DEFINE x == From(r, 13)
             t == <<x>>
             u == <<b>> \o t
  <2>1. x \in S /\ a \in S /\ b \in S /\ b # <<>> /\ lines = <<a>> \o u
    <3>1. 13 \in Nat \ {0} /\ (N \in 12..13 => N >= 7 /\ N >= 12)
      <4> HIDE DEF N
      <4>1. QED
        BY <1>1
    <3>2. x \in S /\ a \in S /\ b \in S /\ b # <<>>
      BY <1>3, <1>5, <1>8, <3>1
    <3>3. QED
      BY <1>2, <1>8, <3>2 DEF a, b
  <2> HIDE DEF lines, S, x
  <2>2. t \in Seq(S) /\ Len(t) = 1
    BY <2>1
  <2> HIDE DEF t
  <2>3. u \in Seq(S) /\ Len(u) = Len(t) + 1 /\ u[1] = b
    BY <2>1, <2>2, FirstOf
  <2> HIDE DEF u
  <2>4. lines \in Seq(S) /\ Len(lines) = Len(u) + 1 /\ \A i \in 1..Len(u) : lines[i + 1] = u[i]
    BY <2>1, <2>3, FirstOf
  <2>5. Len(u) = 2 /\ Len(lines) = 3 /\ lines[1 + 1] = b
    <3>1. Len(u) = 2 /\ Len(lines) = 3
      BY <2>2, <2>3, <2>4
    <3>2. 1 \in 1..Len(u)
      BY <3>1
    <3>3. QED
      BY <2>3, <2>4, <3>1, <3>2
  <2>6. \A i \in 2..(Len(lines) - 1) : i = 1 + 1
    BY <2>5
  <2>7. \A i \in 2..(Len(lines) - 1) : lines[i] # <<>>
    BY <2>1, <2>5, <2>6
  <2>8. QED
    BY <2>4, <2>7, NoBody DEF lines, S
<1>9. N < 7 \/ N \in 7..11 \/ N \in 12..13
  <2> HIDE DEF N
  <2>1. QED
    BY <1>1
<1>10. QED
  BY <1>6, <1>7, <1>8, <1>9

\* The status line is one.
IsStatus(s) == Len(s) = 5 /\ s[1] = 72 /\ s[2] = 32 /\ s[3] = 50 /\ s[4] = 32 /\ s[5] = 79

LEMMA StatusRead ==
  ASSUME NEW s \in Seq(Bytes), IsStatus(s)
  PROVE  StatusLineRead(s)
<1> DEFINE d == <<Blank>>
<1>1. Blank \in Bytes /\ Blank = 32
  BY DEF Blank, Bytes
<1>2. d \in Seq(Bytes) /\ Len(d) = 1 /\ Len(d) > 0
  BY <1>1
<1>3. /\ (2 \in 1..Len(s)) /\ 4 \in 3..Len(s) /\ 1 \in Nat \ {0} /\ 3 \in Nat \ {0}
      /\ \A i \in 1..(2 - 1) : i = 1
      /\ \A i \in 3..(4 - 1) : i = 3
      /\ Len(s) + 1 = 6 /\ 2 + 1 = 3 /\ 4 + 1 = 5 /\ 1 \in 1..6 /\ 3 \in 1..6 /\ 5 \in 1..6
  BY DEF IsStatus
<1>4. Find(s, d, 1) = 2
  <2>1. s[2] = Blank /\ \A i \in 1..(2 - 1) : s[i] # Blank
    BY <1>1, <1>3 DEF IsStatus
  <2>2. s \in Seq(Bytes) /\ Blank \in Bytes /\ 1 \in Nat \ {0} /\ 2 \in 1..Len(s)
    BY <1>1, <1>3
  <2>3. QED
    BY <2>1, <2>2, FoundSign
<1>5. Find(s, d, 3) = 4
  <2>1. s[4] = Blank /\ \A i \in 3..(4 - 1) : s[i] # Blank
    BY <1>1, <1>3 DEF IsStatus
  <2>2. s \in Seq(Bytes) /\ Blank \in Bytes /\ 3 \in Nat \ {0} /\ 4 \in 3..Len(s)
    BY <1>1, <1>3
  <2>3. QED
    BY <2>1, <2>2, FoundSign
<1> HIDE DEF d
<1>6. PICK from \in [1..(Len(s) + 1) -> Seq(Seq(Bytes)) \ {<<>>}] :
        Splits(from, s, d) /\ Split(s, d) = from[1]
  <2>1. s \in Seq(Bytes) /\ d \in Seq(Bytes) /\ Len(d) > 0
    BY <1>2
  <2>2. QED
    BY <2>1, SplitIs
<1>7. 2 # None /\ 4 # None
  <2>1. 2 \in Nat /\ 4 \in Nat
    OBVIOUS
  <2>2. QED
    BY <2>1, NoneAssumption
<1>8. from[1] = <<SubSeq(s, 1, 2 - 1)>> \o from[3] /\ from[3] = <<SubSeq(s, 3, 4 - 1)>> \o from[5]
  <2>1. \A n \in 1..(Len(s) + 1) :
          Find(s, d, n) # None =>
            from[n] = <<SubSeq(s, n, Find(s, d, n) - 1)>> \o from[Find(s, d, n) + Len(d)]
    BY <1>6 DEF Splits
  <2>2. 1 \in 1..(Len(s) + 1) /\ 3 \in 1..(Len(s) + 1)
    BY DEF IsStatus
  <2>3. Find(s, d, 1) + Len(d) = 3 /\ Find(s, d, 3) + Len(d) = 5
    BY <1>2, <1>4, <1>5
  <2>4. QED
    BY <1>4, <1>5, <1>7, <2>1, <2>2, <2>3
<1>9. from[5] \in Seq(Seq(Bytes)) /\ from[5] # <<>> /\ from[3] \in Seq(Seq(Bytes))
  BY <1>3, <1>6
<1>10. SubSeq(s, 1, 2 - 1) \in Seq(Bytes) /\ SubSeq(s, 3, 4 - 1) \in Seq(Bytes)
  <2>1. 1 \in Nat \ {0} /\ 3 \in Nat \ {0} /\ 2 - 1 \in Nat /\ 4 - 1 \in Nat
        /\ 2 - 1 <= Len(s) /\ 4 - 1 <= Len(s)
    BY DEF IsStatus
  <2>2. QED
    BY <2>1, PartOf
<1> DEFINE t == from[5]
<1>11. t \in Seq(Seq(Bytes)) /\ Len(t) > 0 /\ Len(t) \in Nat
  <2> HIDE DEF t
  <2>1. t \in Seq(Seq(Bytes)) /\ t # <<>>
    BY <1>9 DEF t
  <2>2. QED
    BY <2>1, EmptySeq
<1>12. Len(from[3]) = Len(t) + 1
  BY <1>8, <1>9, <1>10, FirstOf
<1>13. Len(from[1]) = Len(from[3]) + 1
  BY <1>8, <1>9, <1>10, FirstOf
<1>14. Len(Split(s, d)) >= 3
  <2> DEFINE n == Len(t)
  <2>1. n \in Nat /\ n > 0 /\ Len(Split(s, d)) = (n + 1) + 1
    BY <1>6, <1>11, <1>12, <1>13
  <2> HIDE DEF n
  <2>2. QED
    BY <2>1
<1>15. QED
  BY <1>14 DEF StatusLineRead, d

\* The lines of an answer whose head is whole.
HasHead(lines) ==
  /\ lines \in Seq(Seq(Bytes)) /\ Len(lines) >= 4
  /\ IsStatus(lines[1]) /\ Len(lines[2]) = 3 /\ lines[2][2] = Colon /\ lines[3] = <<>>

LEMMA HeadLines ==
  ASSUME NEW r, LikeHead(r), Len(r) >= 14
  PROVE  HasHead(Split(r, CRLF))
<1> DEFINE N == Len(r)
           S == Seq(Bytes)
           a == SubSeq(r, 1, 5)
           b == SubSeq(r, 8, 10)
           e == SubSeq(r, 13, 12)
<1>1. r \in Seq(Bytes) /\ N \in Nat /\ N >= 14
  BY DEF LikeHead
<1>2. PICK rest \in Seq(S) \ {<<>>} : Split(r, CRLF) = <<a>> \o (<<b>> \o (<<e>> \o rest))
  BY LinesOf
<1>3. /\ a \in S /\ Len(a) = 5 /\ \A i \in 1..5 : a[i] = r[1 + i - 1]
      /\ b \in S /\ Len(b) = 3 /\ \A i \in 1..3 : b[i] = r[8 + i - 1]
      /\ e \in S /\ Len(e) = 0
  <2>1. \A n \in Nat \ {0}, m \in Nat :
          m <= N => /\ SubSeq(r, n, m) \in S
                    /\ Len(SubSeq(r, n, m)) = (IF n <= m THEN m - n + 1 ELSE 0)
                    /\ \A i \in 1..(m - n + 1) : SubSeq(r, n, m)[i] = r[n + i - 1]
    BY <1>1, PartOf
  <2>2. /\ 1 \in Nat \ {0} /\ 8 \in Nat \ {0} /\ 13 \in Nat \ {0} /\ 5 \in Nat /\ 10 \in Nat
          /\ 12 \in Nat
        /\ 5 - 1 + 1 = 5 /\ 10 - 8 + 1 = 3 /\ 1 <= 5 /\ 8 <= 10 /\ ~(13 <= 12)
    OBVIOUS
  <2>3. 5 <= N /\ 10 <= N /\ 12 <= N
    <3> HIDE DEF N
    <3>1. QED
      BY <1>1
  <2> HIDE DEF N, S
  <2>4. a \in S /\ Len(a) = 5 /\ \A i \in 1..5 : a[i] = r[1 + i - 1]
    BY <2>1, <2>2, <2>3
  <2>5. b \in S /\ Len(b) = 3 /\ \A i \in 1..3 : b[i] = r[8 + i - 1]
    BY <2>1, <2>2, <2>3
  <2>6. e \in S /\ Len(e) = 0
    BY <2>1, <2>2, <2>3
  <2>7. QED
    BY <2>4, <2>5, <2>6
<1> HIDE DEF a, b, e
<1>4. r[1] = 72 /\ r[2] = 32 /\ r[3] = 50 /\ r[4] = 32 /\ r[5] = 79 /\ r[9] = 58
  <2>1. \A j \in 1..14 : r[j] = HeadOf[j]
    <3>1. \A j \in 1..14 : j \in 1..N /\ j <= 14
      <4> HIDE DEF N
      <4>1. QED
        BY <1>1
    <3>2. QED
      BY <3>1 DEF LikeHead
  <2>2. /\ 1 \in 1..14 /\ 2 \in 1..14 /\ 3 \in 1..14 /\ 4 \in 1..14 /\ 5 \in 1..14
        /\ 9 \in 1..14
    OBVIOUS
  <2>3. /\ HeadOf[1] = 72 /\ HeadOf[2] = 32 /\ HeadOf[3] = 50 /\ HeadOf[4] = 32 /\ HeadOf[5] = 79
        /\ HeadOf[9] = 58
    BY HeadIs
  <2>4. /\ r[1] = HeadOf[1] /\ r[2] = HeadOf[2] /\ r[3] = HeadOf[3] /\ r[4] = HeadOf[4]
        /\ r[5] = HeadOf[5] /\ r[9] = HeadOf[9]
    BY <2>1, <2>2
  <2>5. QED
    BY <2>3, <2>4
<1>5. IsStatus(a)
  <2>1. /\ 1 + 1 - 1 = 1 /\ 1 + 2 - 1 = 2 /\ 1 + 3 - 1 = 3 /\ 1 + 4 - 1 = 4 /\ 1 + 5 - 1 = 5
        /\ {1, 2, 3, 4, 5} \subseteq 1..5
    OBVIOUS
  <2>2. a[1] = r[1] /\ a[2] = r[2] /\ a[3] = r[3] /\ a[4] = r[4] /\ a[5] = r[5]
    BY <1>3, <2>1
  <2>3. QED
    BY <1>3, <1>4, <2>2 DEF IsStatus
<1>6. b[2] = Colon
  <2>1. 8 + 2 - 1 = 9 /\ 2 \in 1..3
    OBVIOUS
  <2>2. b[2] = r[9]
    BY <1>3, <2>1
  <2>3. QED
    BY <1>4, <2>2 DEF Colon
<1>7. e = <<>>
  BY <1>3, EmptySeq
<1> DEFINE lines == Split(r, CRLF)
           u == <<e>> \o rest
           v == <<b>> \o u
<1>8. rest \in Seq(S) /\ Len(rest) \in Nat /\ Len(rest) > 0 /\ a \in S /\ b \in S /\ e \in S
  <2>1. rest \in Seq(S) /\ rest # <<>>
    BY <1>2
  <2> HIDE DEF S
  <2>2. Len(rest) \in Nat /\ Len(rest) > 0
    BY <2>1, EmptySeq
  <2>3. QED
    BY <1>3, <2>1, <2>2
<1>9. lines = <<a>> \o v
  BY <1>2
<1> HIDE DEF S, lines
<1>10. u \in Seq(S) /\ Len(u) = Len(rest) + 1 /\ u[1] = e
  BY <1>8, FirstOf
<1> HIDE DEF u
<1>11. v \in Seq(S) /\ Len(v) = Len(u) + 1 /\ v[1] = b /\ \A i \in 1..Len(u) : v[i + 1] = u[i]
  BY <1>8, <1>10, FirstOf
<1> HIDE DEF v
<1>12. lines \in Seq(S) /\ Len(lines) = Len(v) + 1 /\ lines[1] = a
       /\ \A i \in 1..Len(v) : lines[i + 1] = v[i]
  BY <1>8, <1>9, <1>11, FirstOf
<1>13. Len(lines) >= 4 /\ 1 \in 1..Len(u) /\ 1 \in 1..Len(v) /\ 2 \in 1..Len(v)
       /\ 1 + 1 = 2 /\ 2 + 1 = 3
  <2> DEFINE n == Len(rest)
  <2>1. n \in Nat /\ n > 0 /\ Len(u) = n + 1 /\ Len(v) = (n + 1) + 1 /\ Len(lines) = ((n + 1) + 1) + 1
    BY <1>8, <1>10, <1>11, <1>12
  <2> HIDE DEF n
  <2>2. QED
    BY <2>1
<1>14. v[2] = e
  BY <1>10, <1>11, <1>13
<1>15. lines[2] = b /\ lines[3] = e
  BY <1>11, <1>12, <1>13, <1>14
<1>16. QED
  BY <1>3, <1>5, <1>6, <1>7, <1>12, <1>13, <1>15 DEF HasHead, S, lines

LEMMA FourthLine ==
  ASSUME NEW lines, HasHead(lines)
  PROVE  StatusLineRead(lines[1]) /\ BehindHead(lines) = 4 /\ 4 # None
<1>1. lines \in Seq(Seq(Bytes)) /\ Len(lines) \in Nat /\ Len(lines) >= 4
  BY DEF HasHead
<1>2. lines[1] \in Seq(Bytes) /\ lines[2] \in Seq(Bytes)
  <2>1. 1 \in 1..Len(lines) /\ 2 \in 1..Len(lines)
    BY <1>1
  <2>2. QED
    BY <1>1, <2>1, ElementOfSeq
<1>3. StatusLineRead(lines[1])
  BY <1>2, StatusRead DEF HasHead
<1> DEFINE ends == {i \in 2..Len(lines) : lines[i] = <<>>}
           stop == CHOOSE i \in ends : \A j \in ends : i <= j
<1>4. 3 \in ends /\ \A j \in ends : 3 <= j
  <2>1. 3 \in 2..Len(lines)
    BY <1>1
  <2>2. 2 \notin ends
    <3>1. Len(lines[2]) = 3
      BY DEF HasHead
    <3>2. Len(<<>>) = 0
      OBVIOUS
    <3>3. lines[2] # <<>>
      BY <3>1, <3>2
    <3>4. QED
      BY <3>3
  <2>3. 3 \in ends
    BY <2>1 DEF HasHead
  <2>4. \A j \in ends : j \in 2..Len(lines)
    OBVIOUS
  <2> HIDE DEF ends
  <2>5. \A j \in 2..Len(lines) : j = 2 \/ 3 <= j
    BY <1>1
  <2>6. QED
    BY <2>2, <2>3, <2>4, <2>5
<1>5. \A j \in ends : j \in Nat
  BY <1>1
<1>6. stop = 3
  <2> HIDE DEF ends
  <2>1. stop \in ends /\ \A j \in ends : stop <= j
    BY <1>4
  <2> HIDE DEF stop
  <2>2. stop <= 3 /\ 3 <= stop /\ stop \in Nat
    BY <1>4, <1>5, <2>1
  <2>3. QED
    BY <2>2
<1>7. Find(lines[2], <<Colon>>, 1) # None
  <2> DEFINE l == lines[2]
  <2>1. l \in Seq(Bytes) /\ Len(l) = 3 /\ l[2] = Colon /\ Colon \in Bytes /\ 1 \in Nat \ {0}
    BY <1>2 DEF HasHead, Colon, Bytes
  <2> HIDE DEF l
  <2>2. \/ /\ Find(l, <<Colon>>, 1) = None
           /\ \A i \in 1..Len(l) : l[i] # Colon
        \/ Find(l, <<Colon>>, 1) # None
    BY <2>1, FindingSign
  <2>3. 2 \in 1..Len(l)
    BY <2>1
  <2>4. QED
    BY <2>1, <2>2, <2>3 DEF l
<1>8. ends # {} /\ \A i \in 2..(stop - 1) : Find(lines[i], <<Colon>>, 1) # None
  <2>1. \A i \in 2..(3 - 1) : i = 2
    OBVIOUS
  <2> HIDE DEF ends, stop
  <2>2. QED
    BY <1>4, <1>6, <1>7, <2>1
<1>9. BehindHead(lines) = stop + 1
  BY <1>8 DEF BehindHead
<1>10. 3 + 1 = 4 /\ 4 \in Nat
  OBVIOUS
<1>11. 4 # None
  BY <1>10, NoneAssumption
<1>12. QED
  BY <1>3, <1>6, <1>9, <1>10, <1>11

LEMMA BehindLines ==
  ASSUME NEW lines, HasHead(lines)
  PROVE  Len(FlattenSeq([i \in 1..(4 - 1) |-> lines[i] \o CRLF])) = 14
<1> DEFINE ss == [i \in 1..(4 - 1) |-> lines[i] \o CRLF]
<1>1. CRLF \in Seq(Bytes) /\ Len(CRLF) = 2
  <2>1. {10, 13} \subseteq Bytes
    BY DEF Bytes
  <2>2. QED
    BY <2>1 DEF CRLF
<1>2. \A i \in 1..3 : lines[i] \in Seq(Bytes)
  <2>1. lines \in Seq(Seq(Bytes)) /\ Len(lines) >= 4 /\ Len(lines) \in Nat
    BY DEF HasHead
  <2>2. \A i \in 1..3 : i \in 1..Len(lines)
    BY <2>1
  <2>3. QED
    BY <2>1, <2>2, ElementOfSeq
<1>3. Len(lines[1]) = 5 /\ Len(lines[2]) = 3 /\ Len(lines[3]) = 0
  BY DEF HasHead, IsStatus
<1>4. \A i \in 1..3 : lines[i] \o CRLF \in Seq(Bytes) /\ Len(lines[i] \o CRLF) = Len(lines[i]) + 2
  <2>1. \A i \in 1..3 : /\ lines[i] \o CRLF \in Seq(Bytes)
                        /\ Len(lines[i] \o CRLF) = Len(lines[i]) + Len(CRLF)
    BY <1>1, <1>2, Joined
  <2>2. QED
    BY <1>1, <2>1
<1>5. 4 - 1 = 3 /\ 3 \in Nat
  OBVIOUS
<1>6. ss \in Seq(Seq(Bytes)) /\ Len(ss) = 3 /\ \A i \in 1..3 : ss[i] = lines[i] \o CRLF
  <2> DEFINE S == Seq(Bytes)
             line(i) == lines[i] \o CRLF
             tt == [i \in 1..3 |-> line(i)]
  <2>1. ss = tt /\ \A i \in 1..3 : line(i) \in S
    BY <1>4, <1>5
  <2> HIDE DEF S, line, ss
  <2>2. tt \in Seq(S) /\ Len(tt) = 3 /\ \A i \in 1..3 : tt[i] = line(i)
    BY <2>1
  <2>3. QED
    BY <2>1, <2>2 DEF S, line
<1> HIDE DEF ss
<1>7. PICK g \in [1..Len(ss) -> Seq(Bytes)] : Flattens(g, ss)
  <2>1. ss \in Seq(Seq(Bytes)) /\ Len(ss) # 0
    BY <1>6
  <2>2. QED
    BY <2>1, Flattening
<1>8. 1 \in 1..3 /\ 2 \in 1..3 /\ 3 \in 1..3 /\ 2 \in 2..3 /\ 3 \in 2..3 /\ 2 - 1 = 1 /\ 3 - 1 = 2
  OBVIOUS
<1>9. /\ g[1] = ss[1] /\ g[2] = g[1] \o ss[2] /\ g[3] = g[2] \o ss[3] /\ FlattenSeq(ss) = g[3]
      /\ g[1] \in Seq(Bytes) /\ g[2] \in Seq(Bytes)
  <2>1. \A n \in 2..3 : g[n] = g[n - 1] \o ss[n]
    BY <1>6, <1>7 DEF Flattens
  <2>2. g[1] = ss[1] /\ FlattenSeq(ss) = g[3]
    BY <1>6, <1>7 DEF Flattens
  <2>3. g[1] \in Seq(Bytes) /\ g[2] \in Seq(Bytes)
    BY <1>6, <1>7, <1>8
  <2>4. QED
    BY <1>8, <2>1, <2>2, <2>3
<1>10. /\ Len(ss[1]) = 7 /\ Len(ss[2]) = 5 /\ Len(ss[3]) = 2
       /\ ss[1] \in Seq(Bytes) /\ ss[2] \in Seq(Bytes) /\ ss[3] \in Seq(Bytes)
  <2>1. /\ ss[1] = lines[1] \o CRLF /\ ss[2] = lines[2] \o CRLF /\ ss[3] = lines[3] \o CRLF
    BY <1>6, <1>8
  <2>2. /\ Len(lines[1] \o CRLF) = Len(lines[1]) + 2 /\ Len(lines[2] \o CRLF) = Len(lines[2]) + 2
        /\ Len(lines[3] \o CRLF) = Len(lines[3]) + 2
    BY <1>4, <1>8
  <2>3. Len(ss[1]) = 5 + 2 /\ Len(ss[2]) = 3 + 2 /\ Len(ss[3]) = 0 + 2
    BY <1>3, <2>1, <2>2
  <2>4. ss[1] \in Seq(Bytes) /\ ss[2] \in Seq(Bytes) /\ ss[3] \in Seq(Bytes)
    BY <1>4, <1>8, <2>1
  <2>5. 5 + 2 = 7 /\ 3 + 2 = 5 /\ 0 + 2 = 2
    OBVIOUS
  <2>6. QED
    BY <2>3, <2>4, <2>5
<1>11. Len(g[1] \o ss[2]) = Len(g[1]) + Len(ss[2]) /\ Len(g[2] \o ss[3]) = Len(g[2]) + Len(ss[3])
  <2>1. g[1] \in Seq(Bytes) /\ g[2] \in Seq(Bytes) /\ ss[2] \in Seq(Bytes) /\ ss[3] \in Seq(Bytes)
    BY <1>9, <1>10
  <2>2. \A s, t \in Seq(Bytes) : Len(s \o t) = Len(s) + Len(t)
    BY Joined
  <2>3. QED
    BY <2>1, <2>2
<1>12. Len(g[1]) = 7 /\ Len(g[2]) = 7 + 5 /\ Len(g[3]) = (7 + 5) + 2
  BY <1>9, <1>10, <1>11
<1>13. Len(FlattenSeq(ss)) = 14
  BY <1>9, <1>12
<1>14. QED
  BY <1>13 DEF ss

\* With its head, what is behind it is the page; with nothing else, the head is.
LEMMA ReadWhole ==
  ASSUME NEW r, LikeHead(r), Len(r) >= 14
  PROVE  /\ Len(r) = 14 => Read(r) = r
         /\ Len(r) > 14 /\ r[15] = Lt => Read(r) = SubSeq(r, 15, Len(r))
<1> DEFINE N == Len(r)
           lines == Split(r, CRLF)
           text == SubSeq(r, 15, N)
<1>1. r \in Seq(Bytes) /\ N \in Nat /\ N >= 14
  BY DEF LikeHead
<1>2. HasHead(lines)
  BY HeadLines
<1>3. StatusLineRead(lines[1]) /\ BehindHead(lines) = 4 /\ 4 # None
  BY <1>2, FourthLine
<1>4. ~(4 > Len(lines))
  <2>1. lines \in Seq(Seq(Bytes)) /\ Len(lines) >= 4
    BY <1>2 DEF HasHead
  <2> HIDE DEF lines
  <2>2. Len(lines) \in Nat
    BY <2>1
  <2>3. QED
    BY <2>1, <2>2
<1>5. Read(r) = Body(r, lines, 4)
  <2> HIDE DEF lines
  <2>1. Read(r) = IF ~StatusLineRead(lines[1]) \/ BehindHead(lines) = None THEN None
                  ELSE IF BehindHead(lines) > Len(lines) THEN None
                       ELSE Body(r, lines, BehindHead(lines))
    BY DEF Read, lines
  <2>2. QED
    BY <1>3, <1>4, <2>1
<1>6. Body(r, lines, 4) = From(r, Find(r, From(r, 14 + 1), 1))
  <2>1. Len(FlattenSeq([i \in 1..(4 - 1) |-> lines[i] \o CRLF])) = 14
    BY <1>2, BehindLines
  <2> HIDE DEF lines
  <2>2. QED
    BY <2>1 DEF Body
<1>7. Read(r) = From(r, Find(r, text, 1))
  <2>1. From(r, 14 + 1) = text
    <3>1. 14 + 1 = 15
      OBVIOUS
    <3>2. QED
      BY <3>1 DEF From
  <2>2. QED
    BY <1>5, <1>6, <2>1
<1>8. /\ text \in Seq(Bytes) /\ Len(text) = (IF 15 <= N THEN N - 15 + 1 ELSE 0)
      /\ \A i \in 1..(N - 15 + 1) : text[i] = r[15 + i - 1]
  <2>1. 15 \in Nat \ {0} /\ N \in Nat /\ N <= N
    <3> HIDE DEF N
    <3>1. QED
      BY <1>1
  <2>2. QED
    BY <1>1, <2>1, PartOf
<1> HIDE DEF text, lines
<1>9. ASSUME NEW i \in Nat \ {0}
      PROVE  At(r, i, text) <=> /\ i + Len(text) <= N + 1
                                /\ \A q \in 1..Len(text) : r[i + q - 1] = text[q]
  <2>1. r \in Seq(Bytes) /\ text \in Seq(Bytes) /\ i \in Nat \ {0}
    BY <1>1, <1>8
  <2>2. QED
    BY <2>1, AtIs
<1>10. ASSUME NEW m \in Nat, m >= 1, At(r, m, text), \A i \in Nat : 1 <= i /\ i < m => ~At(r, i, text)
       PROVE  Find(r, text, 1) = m
  <2>1. r \in Seq(Bytes) /\ text \in Seq(Bytes) /\ 1 \in Nat
    BY <1>1, <1>8
  <2>2. QED
    BY <1>10, <2>1, FoundAt
<1>11. CASE N = 14
  <2>1. Len(text) = 0
    <3>1. ~(15 <= N)
      BY <1>11
    <3>2. QED
      BY <1>8, <3>1
  <2>2. At(r, 1, text)
    <3>1. (1 \in Nat \ {0}) /\ 1 + 0 <= N + 1 /\ \A q : q \notin 1..0
      BY <1>11
    <3>2. QED
      BY <1>9, <2>1, <3>1
  <2>3. Find(r, text, 1) = 1
    <3>1. \A i \in Nat : ~(1 <= i /\ i < 1)
      OBVIOUS
    <3>2. 1 \in Nat /\ 1 >= 1
      OBVIOUS
    <3>3. QED
      BY <1>10, <2>2, <3>1, <3>2
  <2>4. From(r, 1) = r
    BY <1>1 DEF From
  <2>5. QED
    BY <1>7, <1>11, <2>3, <2>4
<1>12. CASE N > 14 /\ r[15] = Lt
  <2>1. 15 <= N /\ Len(text) = N - 14 /\ 1 \in 1..Len(text) /\ 15 + Len(text) <= N + 1
        /\ N - 15 + 1 = N - 14
    <3>1. 15 <= N /\ N - 15 + 1 = N - 14 /\ 1 \in 1..(N - 14) /\ 15 + (N - 14) <= N + 1
      <4> HIDE DEF N
      <4>1. QED
        BY <1>1, <1>12
    <3>2. Len(text) = N - 14
      BY <1>8, <3>1
    <3>3. QED
      BY <3>1, <3>2
  <2>2. \A q \in 1..Len(text) : text[q] = r[15 + q - 1]
    BY <1>8, <2>1
  <2>3. At(r, 15, text)
    <3>1. 15 \in Nat \ {0}
      OBVIOUS
    <3>2. QED
      BY <1>9, <2>1, <2>2, <3>1
  <2>4. text[1] = Lt
    <3>1. 15 + 1 - 1 = 15
      OBVIOUS
    <3>2. QED
      BY <1>12, <2>1, <2>2, <3>1
  <2>5. ASSUME NEW i \in Nat, 1 <= i, i < 15 PROVE ~At(r, i, text)
    <3>1. i \in Nat \ {0} /\ i + 1 - 1 = i /\ i \in 1..14
      BY <2>5
    <3>2. At(r, i, text) => r[i + 1 - 1] = Lt
      BY <1>9, <2>1, <2>4, <3>1
    <3>3. r[i] = HeadOf[i]
      <4>1. i \in 1..N /\ i <= 14
        <5> HIDE DEF N
        <5>1. QED
          BY <1>1, <3>1
      <4>2. QED
        BY <4>1 DEF LikeHead
    <3>4. HeadOf[i] # Lt
      <4>1. i = 1 \/ i = 2 \/ i = 3 \/ i = 4 \/ i = 5 \/ i = 6 \/ i = 7 \/ i = 8 \/ i = 9 \/ i = 10
            \/ i = 11 \/ i = 12 \/ i = 13 \/ i = 14
        BY <3>1
      <4>2. HeadOf[i] # 60
        BY <4>1, HeadIs
      <4>3. QED
        BY <4>2 DEF Lt
    <3>5. QED
      BY <3>1, <3>2, <3>3, <3>4
  <2>6. Find(r, text, 1) = 15
    <3>1. 15 \in Nat /\ 15 >= 1
      OBVIOUS
    <3>2. QED
      BY <1>10, <2>3, <2>5, <3>1
  <2>7. Read(r) = SubSeq(r, 15, N) /\ N # 14
    <3>1. N # 14
      <4> HIDE DEF N
      <4>1. QED
        BY <1>1, <1>12
    <3>2. QED
      BY <1>7, <2>6, <3>1 DEF From
  <2>8. QED
    BY <2>7
<1>13. CASE N > 14 /\ r[15] # Lt
  <2>1. N # 14
    <3> HIDE DEF N
    <3>1. QED
      BY <1>1, <1>13
  <2>2. QED
    BY <1>13, <2>1
<1>14. N = 14 \/ N > 14
  <2> HIDE DEF N
  <2>1. QED
    BY <1>1
<1>15. QED
  BY <1>11, <1>12, <1>13, <1>14

\* A page, and an answer with one.
IsPage(html) == html \in Seq(Bytes) /\ Len(html) > 0 /\ html[1] = Lt

\* What is read of an answer up to k.
ReadsUpTo(a, k) ==
  LET all == Scan(SubSeq(a, Len(HeadOf) + 1, Len(a)))
      html == Read(SubSeq(a, 1, k))
      body == SubSeq(a, Len(HeadOf) + 1, k)
      shown == Scan(html)
  IN /\ (html = None) = (k < Len(HeadOf))
     /\ (k = Len(HeadOf) => html = HeadOf)
     /\ (k > Len(HeadOf) =>
           html = body /\ (shown # <<>> => IsPrefix(Front(shown), all)))

LEMMA NotNoneBytes ==
  ASSUME NEW s \in Seq(Bytes)
  PROVE  s # None
<1>1. Bytes \subseteq Nat
  BY DEF Bytes
<1>2. s \in Seq(Nat)
  <2> DEFINE h(i) == s[i]
             u == [i \in 1..Len(s) |-> h(i)]
  <2>1. s = u /\ Len(s) \in Nat
    OBVIOUS
  <2>2. \A i \in 1..Len(s) : h(i) \in Nat
    BY <1>1, ElementOfSeq
  <2> HIDE DEF h
  <2>3. u \in Seq(Nat)
    BY <2>1, <2>2
  <2> HIDE DEF u
  <2>4. QED
    BY <2>1, <2>3
<1>3. QED
  BY <1>2, NoneAssumption

LEMMA CutRead ==
  ASSUME NEW html, IsPage(html), NEW k \in 0..Len(HeadOf \o html)
  PROVE  ReadsUpTo(HeadOf \o html, k)
<1> DEFINE a == HeadOf \o html
           N == Len(a)
           r == SubSeq(a, 1, k)
           behind == SubSeq(a, 15, N)
           body == SubSeq(a, 15, k)
<1>1. /\ a \in Seq(Bytes) /\ N \in Nat /\ N > 14 /\ a[15] = Lt /\ Len(HeadOf) = 14
      /\ \A j \in 1..14 : a[j] = HeadOf[j]
  <2>1. html \in Seq(Bytes) /\ Len(html) \in Nat /\ Len(html) > 0 /\ html[1] = Lt
    BY DEF IsPage
  <2>2. HeadOf \in Seq(Bytes) /\ Len(HeadOf) = 14
    BY HeadIs
  <2>3. /\ a \in Seq(Bytes) /\ Len(a) = 14 + Len(html)
        /\ \A j \in 1..14 : a[j] = HeadOf[j]
        /\ \A j \in 1..Len(html) : a[14 + j] = html[j]
    <3> DEFINE h == HeadOf
    <3>1. h \in Seq(Bytes) /\ html \in Seq(Bytes) /\ Len(h) = 14
      BY <2>1, <2>2
    <3> HIDE DEF h
    <3>2. /\ h \o html \in Seq(Bytes) /\ Len(h \o html) = Len(h) + Len(html)
          /\ \A j \in 1..Len(h) : (h \o html)[j] = h[j]
          /\ \A j \in 1..Len(html) : (h \o html)[Len(h) + j] = html[j]
      <4>1. \A s, u \in Seq(Bytes) :
              /\ s \o u \in Seq(Bytes) /\ Len(s \o u) = Len(s) + Len(u)
              /\ \A j \in 1..Len(s) : (s \o u)[j] = s[j]
              /\ \A j \in 1..Len(u) : (s \o u)[Len(s) + j] = u[j]
        BY Joined
      <4>2. QED
        BY <3>1, <4>1, Zenon
    <3>3. QED
      BY <3>1, <3>2 DEF h
  <2>4. 1 \in 1..Len(html) /\ 14 + 1 = 15
    BY <2>1
  <2>5. a[15] = Lt
    BY <2>1, <2>3, <2>4
  <2>6. N \in Nat /\ N > 14
    <3> DEFINE n == Len(html)
    <3>1. n \in Nat /\ n > 0 /\ N = 14 + n
      BY <2>1, <2>3
    <3> HIDE DEF n, N
    <3>2. QED
      BY <3>1
  <2>7. QED
    BY <2>2, <2>3, <2>5, <2>6
<1> HIDE DEF a
<1>2. k \in Nat /\ k <= N
  <2>1. N \in Nat /\ k \in 0..N
    BY <1>1 DEF a
  <2> HIDE DEF N
  <2>2. QED
    BY <2>1
<1>3. /\ r \in Seq(Bytes) /\ Len(r) = k /\ \A j \in 1..k : r[j] = a[j]
  <2>1. /\ r \in Seq(Bytes) /\ Len(r) = (IF 1 <= k THEN k - 1 + 1 ELSE 0)
        /\ \A j \in 1..(k - 1 + 1) : r[j] = a[1 + j - 1]
    <3>1. 1 \in Nat \ {0} /\ k \in Nat /\ k <= Len(a)
      BY <1>2
    <3>2. QED
      BY <1>1, <3>1, PartOf
  <2> HIDE DEF r
  <2>2. k - 1 + 1 = k /\ (1 <= k \/ k = 0) /\ \A j \in 1..k : 1 + j - 1 = j
    BY <1>2
  <2>3. Len(r) = k
    BY <1>2, <2>1, <2>2
  <2>4. QED
    BY <2>1, <2>2, <2>3
<1> HIDE DEF r
<1>4. LikeHead(r)
  <2>1. \A j \in 1..k : j <= 14 => j \in 1..14
    BY <1>2
  <2>2. QED
    BY <1>1, <1>3, <2>1 DEF LikeHead
<1> DEFINE read == Read(r)
           shown == Scan(read)
<1>9. ReadsUpTo(a, k) <=> /\ (read = None) = (k < 14)
                          /\ k = 14 => read = HeadOf
                          /\ k > 14 => /\ read = body
                                       /\ shown # <<>> => IsPrefix(Front(shown), Scan(behind))
  <2>1. Len(HeadOf) + 1 = 15
    BY <1>1
  <2>2. QED
    BY <1>1, <2>1 DEF ReadsUpTo, r
<1> HIDE DEF read, body, behind
<1>5. ASSUME k < 14 PROVE ReadsUpTo(a, k)
  <2>1. read = None
    BY <1>3, <1>4, <1>5, ReadCut DEF read
  <2>2. ~(k = 14) /\ ~(k > 14)
    BY <1>2, <1>5
  <2>3. QED
    BY <1>5, <1>9, <2>1, <2>2
<1>6. ASSUME k = 14 PROVE ReadsUpTo(a, k)
  <2>1. read = r
    <3>1. Len(r) >= 14
      BY <1>3, <1>6
    <3>2. QED
      BY <1>3, <1>4, <1>6, <3>1, ReadWhole DEF read
  <2>2. r = HeadOf
    <3>1. \A j \in 1..Len(r) : r[j] = HeadOf[j]
      BY <1>1, <1>3, <1>6
    <3>2. QED
      BY <1>1, <1>3, <1>6, <3>1, HeadIs, Same
  <2>3. r # None
    BY <1>3, NotNoneBytes
  <2>4. ~(k < 14) /\ ~(k > 14)
    BY <1>6
  <2>5. QED
    BY <1>6, <1>9, <2>1, <2>2, <2>3, <2>4
<1>7. ASSUME k > 14 PROVE ReadsUpTo(a, k)
  <2>1. /\ 15 \in Nat \ {0} /\ 15 <= k /\ 15 <= N /\ k - 14 \in 1..(N - 14)
        /\ k - 15 + 1 = k - 14 /\ N - 15 + 1 = N - 14 /\ N - 14 \in Nat /\ k - 14 \in Nat
    <3> HIDE DEF N
    <3>1. QED
      BY <1>1, <1>2, <1>7
  <2>2. /\ body \in Seq(Bytes) /\ Len(body) = k - 14
        /\ \A j \in 1..(k - 14) : body[j] = a[15 + j - 1]
    <3> USE DEF body
    <3>1. /\ body \in Seq(Bytes) /\ Len(body) = (IF 15 <= k THEN k - 15 + 1 ELSE 0)
          /\ \A j \in 1..(k - 15 + 1) : body[j] = a[15 + j - 1]
      <4>1. 15 \in Nat \ {0} /\ k \in Nat /\ k <= Len(a)
        BY <1>2, <2>1
      <4>2. QED
        BY <1>1, <4>1, PartOf
    <3> HIDE DEF body
    <3>2. QED
      BY <2>1, <3>1
  <2>3. /\ behind \in Seq(Bytes) /\ Len(behind) = N - 14
        /\ \A j \in 1..(N - 14) : behind[j] = a[15 + j - 1]
    <3> USE DEF behind
    <3>1. /\ behind \in Seq(Bytes) /\ Len(behind) = (IF 15 <= N THEN N - 15 + 1 ELSE 0)
          /\ \A j \in 1..(N - 15 + 1) : behind[j] = a[15 + j - 1]
      <4>1. 15 \in Nat \ {0} /\ N \in Nat /\ N <= Len(a)
        <5>1. N \in Nat /\ N = Len(a)
          BY <1>1
        <5> HIDE DEF N
        <5>2. QED
          BY <2>1, <5>1
      <4>2. QED
        BY <1>1, <4>1, PartOf
    <3> HIDE DEF behind, N
    <3>2. QED
      BY <2>1, <3>1
  <2>4. SubSeq(r, 15, k) = body
    <3> DEFINE q == SubSeq(r, 15, k)
    <3>1. /\ q \in Seq(Bytes) /\ Len(q) = (IF 15 <= k THEN k - 15 + 1 ELSE 0)
          /\ \A j \in 1..(k - 15 + 1) : q[j] = r[15 + j - 1]
      <4>1. 15 \in Nat \ {0} /\ k \in Nat /\ k <= Len(r)
        BY <1>2, <1>3, <2>1
      <4>2. QED
        BY <1>3, <4>1, PartOf
    <3> HIDE DEF q, body
    <3>2. \A j \in 1..(k - 14) : 15 + j - 1 \in 1..k
      BY <1>2, <1>7
    <3>3. Len(q) = k - 14 /\ \A j \in 1..(k - 14) : q[j] = r[15 + j - 1]
      BY <2>1, <3>1
    <3>4. \A j \in 1..(k - 14) : q[j] = body[j]
      BY <1>3, <2>2, <3>2, <3>3
    <3>5. q = body
      BY <2>2, <3>1, <3>3, <3>4, Same
    <3>6. QED
      BY <3>5 DEF q
  <2>5. read = body
    <3>1. Len(r) >= 14 /\ Len(r) > 14
      BY <1>2, <1>3, <1>7
    <3>2. r[15] = Lt
      <4>1. 15 \in 1..k
        BY <1>2, <1>7
      <4>2. QED
        BY <1>1, <1>3, <4>1
    <3>3. Read(r) = SubSeq(r, 15, Len(r))
      BY <1>4, <3>1, <3>2, ReadWhole
    <3>4. QED
      BY <1>3, <2>4, <3>3 DEF read
  <2>6. Scan(body) # <<>> => IsPrefix(Front(Scan(body)), Scan(behind))
    <3> DEFINE m == k - 14
    <3>1. m \in 1..Len(behind) /\ Len(body) = m
      BY <2>1, <2>2, <2>3
    <3>2. \A j \in 1..m : body[j] = behind[j]
      <4>1. \A j \in 1..m : j \in 1..(N - 14)
        <5> HIDE DEF N
        <5>1. QED
          BY <1>2, <2>1
      <4>2. QED
        BY <2>2, <2>3, <4>1
    <3> HIDE DEF m, body, behind
    <3>3. QED
      BY <2>2, <2>3, <3>1, <3>2, CutShown
  <2>7. body # None
    BY <2>2, NotNoneBytes
  <2>8. ~(k < 14) /\ ~(k = 14) /\ 14 + 1 = 15
    BY <1>2, <1>7
  <2>9. QED
    BY <1>7, <1>9, <2>5, <2>6, <2>7, <2>8
<1>8. k < 14 \/ k = 14 \/ k > 14
  BY <1>2
<1>10. ReadsUpTo(a, k)
  BY <1>5, <1>6, <1>7, <1>8
<1>11. QED
  BY <1>10 DEF a

\* What is flattened.
LEMMA FlattenType ==
  ASSUME NEW S, NEW n \in Nat, NEW f, f \in [1..n -> Seq(S)]
  PROVE  f \in Seq(Seq(S)) /\ Len(f) = n /\ FlattenSeq(f) \in Seq(S)
<1> DEFINE T == Seq(S)
           g == [i \in 1..n |-> f[i]]
<1>1. f = g /\ \A i \in 1..n : f[i] \in T
  OBVIOUS
<1> HIDE DEF T
<1>2. g \in Seq(T) /\ Len(g) = n
  BY <1>1
<1> HIDE DEF g
<1>3. f \in Seq(Seq(S)) /\ Len(f) = n
  BY <1>1, <1>2 DEF T
<1>4. FlattenSeq(f) \in Seq(S)
  BY <1>3, FlattenOrdered
<1>5. QED
  BY <1>3, <1>4

SeqJoin(S) == \A s, t \in Seq(S) : s \o t \in Seq(S)

LEMMA JoinType ==
  ASSUME NEW S
  PROVE  SeqJoin(S)
BY ConcatProperties DEF SeqJoin

LEMMA PageJoined ==
  ASSUME NEW s, IsPage(s), NEW t \in Seq(Bytes)
  PROVE  IsPage(s \o t)
<1>1. s \in Seq(Bytes) /\ Len(s) > 0 /\ s[1] = Lt /\ Len(s) \in Nat /\ Len(t) \in Nat
  BY DEF IsPage
<1> DEFINE u == s \o t
<1>2. u \in Seq(Bytes) /\ Len(u) = Len(s) + Len(t) /\ \A i \in 1..Len(s) : u[i] = s[i]
  BY <1>1, Joined
<1> HIDE DEF u
<1>3. 1 \in 1..Len(s) /\ Len(u) > 0
  BY <1>1, <1>2
<1>4. QED
  BY <1>1, <1>2, <1>3 DEF IsPage, u

\* A tag that is written.
Forms == {"bare", "plain", "single", "quoted"}

Writable(attributes) ==
  \A i \in 1..Len(attributes) :
    /\ attributes[i].key \in Seq(Bytes) /\ attributes[i].value \in Seq(Bytes)
    /\ attributes[i].form \in Forms

LEMMA AttributeType ==
  ASSUME NEW a, a.key \in Seq(Bytes), a.value \in Seq(Bytes), a.form \in Forms
  PROVE  WriteAttribute(a) \in Seq(Bytes)
<1>1. {EqualSign, Quote, Apostrophe} \subseteq Bytes
  BY DEF EqualSign, Quote, Apostrophe, Bytes
<1>2. /\ <<>> \in Seq(Bytes) /\ <<EqualSign>> \in Seq(Bytes) /\ <<EqualSign, Apostrophe>> \in Seq(Bytes)
      /\ <<EqualSign, Quote>> \in Seq(Bytes) /\ <<Apostrophe>> \in Seq(Bytes)
              /\ <<Quote>> \in Seq(Bytes)
  BY <1>1
<1>3. \A s, t \in Seq(Bytes) : s \o t \in Seq(Bytes)
  BY JoinType DEF SeqJoin
<1> DEFINE k == a.key
           v == a.value
           f == a.form
           w == CASE f = "bare" -> <<>>
                  [] f = "plain" -> <<EqualSign>> \o v
                  [] f = "single" -> <<EqualSign, Apostrophe>> \o v \o <<Apostrophe>>
                  [] f = "quoted" -> <<EqualSign, Quote>> \o v \o <<Quote>>
<1>4. k \in Seq(Bytes) /\ v \in Seq(Bytes) /\ WriteAttribute(a) = k \o w /\ f \in Forms
  BY DEF WriteAttribute
<1> HIDE DEF k, v, f
<1>5. w \in Seq(Bytes)
  <2>1. CASE f = "bare"
    BY <1>2, <2>1
  <2>2. CASE f = "plain"
    BY <1>2, <1>3, <1>4, <2>2
  <2>3. CASE f = "single"
    <3>1. (<<EqualSign, Apostrophe>> \o v) \o <<Apostrophe>> \in Seq(Bytes)
      BY <1>2, <1>3, <1>4
    <3>2. QED
      BY <2>3, <3>1
  <2>4. CASE f = "quoted"
    <3>1. (<<EqualSign, Quote>> \o v) \o <<Quote>> \in Seq(Bytes)
      BY <1>2, <1>3, <1>4
    <3>2. QED
      BY <2>4, <3>1
  <2>5. QED
    BY <1>4, <2>1, <2>2, <2>3, <2>4 DEF Forms
<1> HIDE DEF w
<1>6. QED
  BY <1>3, <1>4, <1>5

\* What stands behind the name.
Written(attributes) ==
  FlattenSeq([i \in DOMAIN attributes |-> <<Space>> \o WriteAttribute(attributes[i])])

LEMMA WrittenType ==
  ASSUME NEW A, NEW attributes \in Seq(A), Writable(attributes)
  PROVE  Written(attributes) \in Seq(Bytes)
<1> DEFINE n == Len(attributes)
           one(i) == <<Space>> \o WriteAttribute(attributes[i])
           f == [i \in 1..n |-> one(i)]
<1>1. n \in Nat /\ DOMAIN attributes = 1..n
  OBVIOUS
<1>2. Space \in Bytes
  BY DEF Space, Bytes
<1>3. \A i \in 1..n : one(i) \in Seq(Bytes)
  <2>1. ASSUME NEW i \in 1..n PROVE one(i) \in Seq(Bytes)
    <3>1. WriteAttribute(attributes[i]) \in Seq(Bytes)
      BY AttributeType DEF Writable
    <3>2. <<Space>> \in Seq(Bytes)
      BY <1>2
    <3> DEFINE w == WriteAttribute(attributes[i])
    <3> HIDE DEF w
    <3>3. <<Space>> \o w \in Seq(Bytes)
      BY <3>1, <3>2, JoinType DEF SeqJoin, w
    <3>4. QED
      BY <3>3 DEF w
  <2>2. QED
    BY <2>1
<1>4. Written(attributes) = FlattenSeq(f)
  BY <1>1 DEF Written
<1> HIDE DEF one, n
<1>5. f \in [1..n -> Seq(Bytes)]
  BY <1>3
<1> HIDE DEF f
<1>6. QED
  BY <1>1, <1>4, <1>5, FlattenType

LEMMA TagWritten ==
  ASSUME NEW t, NEW A, t.name \in Seq(Bytes), t.attributes \in Seq(A), Writable(t.attributes)
  PROVE  WriteTag(t) = ((<<Lt>> \o t.name) \o Written(t.attributes)) \o <<Gt>> /\ IsPage(WriteTag(t))
<1> DEFINE n == t.name
           w == Written(t.attributes)
<1>1. WriteTag(t) = ((<<Lt>> \o n) \o w) \o <<Gt>>
  BY DEF WriteTag, Written
<1>2. n \in Seq(Bytes) /\ w \in Seq(Bytes)
  BY WrittenType
<1>3. <<Lt>> \in Seq(Bytes) /\ <<Gt>> \in Seq(Bytes) /\ IsPage(<<Lt>>)
  BY SignsAre DEF IsPage
<1> HIDE DEF n, w
<1>4. IsPage(<<Lt>> \o n)
  BY <1>2, <1>3, PageJoined
<1>5. IsPage((<<Lt>> \o n) \o w)
  BY <1>2, <1>4, PageJoined
<1>6. IsPage(((<<Lt>> \o n) \o w) \o <<Gt>>)
  BY <1>3, <1>5, PageJoined
<1>7. QED
  BY <1>1, <1>6 DEF n, w

LEMMA TagsWritable ==
  ASSUME NEW t \in Tags
  PROVE  /\ t.name \in Seq(Bytes) /\ Writable(t.attributes)
         /\ t.attributes \in Seq([key : Seq(Bytes), form : STRING, value : Seq(Bytes)])
<1>1. /\ t.name \in Seq(Bytes \ ({Lt, Gt} \cup 65..90))
      /\ t.attributes \in Seq([key : Seq(Bytes), form : STRING, value : Seq(Bytes)])
      /\ \A i \in DOMAIN t.attributes : IsAttribute(t.attributes[i])
  BY TagsAssumption
<1>2. t.name \in Seq(Bytes)
  <2> DEFINE n == t.name
             h(i) == n[i]
             u == [i \in 1..Len(n) |-> h(i)]
             S == Bytes \ ({Lt, Gt} \cup 65..90)
  <2>1. n \in Seq(S) /\ n = u /\ Len(n) \in Nat
    <3>1. n \in Seq(S)
      BY <1>1
    <3> HIDE DEF n, S
    <3>2. n = u /\ Len(n) \in Nat
      BY <3>1
    <3>3. QED
      BY <3>1, <3>2
  <2>2. \A i \in 1..Len(n) : h(i) \in S
    <3> HIDE DEF S, n
    <3>1. QED
      BY <2>1, ElementOfSeq
  <2>3. \A i \in 1..Len(n) : h(i) \in Bytes
    BY <2>2
  <2> HIDE DEF h, n
  <2>4. u \in Seq(Bytes)
    BY <2>1, <2>3
  <2> HIDE DEF u
  <2>5. QED
    BY <2>1, <2>4 DEF n
<1>3. ASSUME NEW i \in 1..Len(t.attributes)
      PROVE  /\ t.attributes[i].key \in Seq(Bytes) /\ t.attributes[i].value \in Seq(Bytes)
             /\ t.attributes[i].form \in Forms
  <2> DEFINE R == [key : Seq(Bytes), form : STRING, value : Seq(Bytes)]
             l == t.attributes
             a == l[i]
  <2>1. l \in Seq(R) /\ i \in DOMAIN l
    BY <1>1
  <2> HIDE DEF R, l
  <2>2. a \in R
    BY <2>1, ElementOfSeq DEF l
  <2>3. IsAttribute(a)
    BY <1>1, <2>1 DEF l
  <2> HIDE DEF a
  <2>4. a.key \in Seq(Bytes) /\ a.value \in Seq(Bytes)
    BY <2>2 DEF R
  <2>5. a.form \in Forms
    BY <2>3 DEF IsAttribute, Forms
  <2>6. QED
    BY <2>4, <2>5 DEF a, l
<1>4. QED
  BY <1>1, <1>2, <1>3 DEF Writable

LEMMA BytesAre ==
  /\ \A b \in {ScriptTag, InputTag, FormTag, 47, 112, 104, 117, Space} : b \in Bytes
  /\ \A s \in {GuestName, NonceName, Nonce, NameKey, ValueKey} : s \in Seq(Bytes)
<1>1. /\ ScriptTag = 115 /\ InputTag = 105 /\ FormTag = 98 /\ Space = 32
      /\ GuestName = <<103>> /\ NonceName = <<97>> /\ Nonce = <<55>> /\ NameKey = <<110>>
      /\ ValueKey = <<118>>
  BY DEF ScriptTag, InputTag, FormTag, GuestName, NonceName, Nonce, NameKey, ValueKey, Space
<1>2. \A b \in {115, 105, 98, 47, 112, 104, 117, 32, 103, 97, 55, 110, 118} : b \in Bytes
  BY DEF Bytes
<1>3. \A b \in {ScriptTag, InputTag, FormTag, 47, 112, 104, 117, Space} : b \in Bytes
  BY <1>1, <1>2
<1>4. \A b \in Bytes : <<b>> \in Seq(Bytes)
  OBVIOUS
<1>5. /\ <<103>> \in Seq(Bytes) /\ <<97>> \in Seq(Bytes) /\ <<55>> \in Seq(Bytes)
      /\ <<110>> \in Seq(Bytes) /\ <<118>> \in Seq(Bytes)
  BY <1>2, <1>4
<1>6. QED
  BY <1>1, <1>3, <1>5

\* The inputs of the book's form.
LEMMA InputsWritten ==
  /\ IsPage(Input(<<Plain(NameKey, GuestName)>>))
  /\ IsPage(Input(<<Plain(NameKey, NonceName), Plain(ValueKey, Nonce)>>))
<1> DEFINE A == [key : Seq(Bytes), form : Forms, value : Seq(Bytes)]
<1>1. ASSUME NEW attributes \in Seq(A) PROVE IsPage(Input(attributes))
  <2> DEFINE t == [name |-> <<InputTag>>, attributes |-> attributes]
  <2>1. t.name \in Seq(Bytes) /\ t.attributes = attributes
    <3>1. InputTag \in Bytes
      BY BytesAre
    <3>2. QED
      BY <3>1
  <2>2. Writable(attributes)
    <3>1. \A i \in 1..Len(attributes) : attributes[i] \in A
      <4> HIDE DEF A
      <4>1. QED
        BY ElementOfSeq
    <3>2. QED
      BY <3>1 DEF Writable
  <2>3. Input(attributes) = WriteTag(t)
    BY DEF Input
  <2> HIDE DEF t, A
  <2>4. t.attributes \in Seq(A) /\ Writable(t.attributes)
    BY <2>1, <2>2
  <2>5. IsPage(WriteTag(t))
    BY <2>1, <2>4, TagWritten
  <2>6. QED
    BY <2>3, <2>5
<1>2. \A k, v \in Seq(Bytes) : Plain(k, v) \in A
  BY DEF Plain, Forms
<1>3. Plain(NameKey, GuestName) \in A /\ Plain(NameKey, NonceName) \in A /\ Plain(ValueKey, Nonce) \in A
  <2> HIDE DEF A
  <2>1. QED
    BY <1>2, BytesAre
<1> HIDE DEF A
<1>4. /\ <<Plain(NameKey, GuestName)>> \in Seq(A)
      /\ <<Plain(NameKey, NonceName), Plain(ValueKey, Nonce)>> \in Seq(A)
  BY <1>3
<1>5. QED
  BY <1>1, <1>4

LEMMA EscapeType ==
  ASSUME NEW s \in Seq(Bytes)
  PROVE  HtmlEscape(s) \in Seq(Bytes)
<1> DEFINE n == Len(s)
           one(i) == CASE s[i] = Lt -> AmpLt \o <<Lt>>
                       [] s[i] = Gt -> AmpGt \o <<Gt>>
                       [] OTHER -> <<s[i]>>
           f == [i \in 1..n |-> one(i)]
<1>1. n \in Nat /\ DOMAIN s = 1..n
  OBVIOUS
<1>2. \A i \in 1..n : one(i) \in Seq(Bytes)
  <2>1. {38, 103, 108, 116} \subseteq Bytes
    BY DEF Bytes
  <2>2. AmpLt \in Seq(Bytes) /\ AmpGt \in Seq(Bytes) /\ <<Lt>> \in Seq(Bytes) /\ <<Gt>> \in Seq(Bytes)
    BY <2>1, SignsAre DEF AmpLt, AmpGt
  <2>3. AmpLt \o <<Lt>> \in Seq(Bytes) /\ AmpGt \o <<Gt>> \in Seq(Bytes)
    BY <2>2, JoinType DEF SeqJoin
  <2>4. \A i \in 1..n : <<s[i]>> \in Seq(Bytes)
    <3>1. \A i \in 1..n : s[i] \in Bytes
      BY ElementOfSeq
    <3>2. \A b \in Bytes : <<b>> \in Seq(Bytes)
      OBVIOUS
    <3>3. QED
      BY <3>1, <3>2
  <2>5. ASSUME NEW i \in 1..n PROVE one(i) \in Seq(Bytes)
    <3>1. CASE s[i] = Lt
      BY <2>3, <3>1
    <3>2. CASE s[i] # Lt /\ s[i] = Gt
      BY <2>3, <3>2
    <3>3. CASE s[i] # Lt /\ s[i] # Gt
      BY <2>4, <3>3
    <3>4. QED
      BY <3>1, <3>2, <3>3
  <2> HIDE DEF one
  <2>6. QED
    BY <2>5
<1>3. HtmlEscape(s) = FlattenSeq(f)
  BY <1>1 DEF HtmlEscape
<1> HIDE DEF one, n
<1>4. f \in [1..n -> Seq(Bytes)]
  BY <1>2
<1> HIDE DEF f
<1>5. QED
  BY <1>1, <1>3, <1>4, FlattenType

\* Every page of a server begins with a tag.
LEMMA PagesAre ==
  ASSUME NEW u, entry \in Earlier, NEW html \in PagesFor(u, None)
  PROVE  IsPage(html)
<1>1. \A b \in Bytes : IsPage(TagOf(b))
  <2>1. ASSUME NEW b \in Bytes PROVE IsPage(TagOf(b))
    <3>1. Lt \in Bytes /\ Gt \in Bytes
      BY SignsAre
    <3>2. <<Lt, b, Gt>> \in Seq(Bytes) /\ Len(<<Lt, b, Gt>>) = 3 /\ <<Lt, b, Gt>>[1] = Lt
      BY <3>1
    <3>3. QED
      BY <3>2 DEF TagOf, IsPage
  <2>2. QED
    BY <2>1
<1>2. \A s, t : IsPage(s) /\ IsPage(t) => IsPage(s \o t)
  BY PageJoined DEF IsPage
<1>3. \A t \in Tags : IsPage(WriteTag(t))
  BY TagsWritable, TagWritten
<1>4. IsPage(<<Lt, Gt>>)
  <2>1. Lt \in Bytes /\ Gt \in Bytes
    BY SignsAre
  <2>2. <<Lt, Gt>> \in Seq(Bytes) /\ Len(<<Lt, Gt>>) = 2 /\ <<Lt, Gt>>[1] = Lt
    BY <2>1
  <2>3. QED
    BY <2>2 DEF IsPage
<1>5. IsPage(NotFound)
  <2> DEFINE a == TagOf(104)
             b == TagOf(105)
  <2>1. 104 \in Bytes /\ 105 \in Bytes /\ CRLF \in Seq(Bytes)
    <3>1. {10, 13, 104, 105} \subseteq Bytes
      BY DEF Bytes
    <3>2. QED
      BY <3>1 DEF CRLF
  <2>2. IsPage(a) /\ IsPage(b)
    BY <1>1, <2>1
  <2> HIDE DEF a, b
  <2>3. IsPage(a \o CRLF)
    BY <2>1, <2>2, PageJoined
  <2>4. IsPage((a \o CRLF) \o b)
    BY <1>2, <2>2, <2>3
  <2>5. QED
    BY <2>4 DEF NotFound, a, b
<1>6. IsPage(BookPage(entry))
  <2> DEFINE a == TagOf(ScriptTag)
             b == Input(<<Plain(NameKey, GuestName)>>)
             c == Input(<<Plain(NameKey, NonceName), Plain(ValueKey, Nonce)>>)
             d == TagOf(FormTag)
             p == TagOf(112)
             e == HtmlEscape(Signed(entry))
             q == <<Lt, 47, 112, Gt>>
             last == IF entry = None THEN <<>> ELSE (p \o e) \o q
  <2>1. IsPage(a) /\ IsPage(b) /\ IsPage(c) /\ IsPage(d) /\ IsPage(p)
    BY <1>1, BytesAre, InputsWritten
  <2>2. q \in Seq(Bytes)
    <3>1. Lt \in Bytes /\ Gt \in Bytes /\ 47 \in Bytes /\ 112 \in Bytes
      BY SignsAre, BytesAre
    <3>2. QED
      BY <3>1
  <2>3. entry # None => e \in Seq(Bytes)
    <3>1. <<Space, 117>> \in Seq(Bytes)
      <4>1. Space \in Bytes /\ 117 \in Bytes
        BY BytesAre
      <4>2. QED
        BY <4>1
    <3>2. entry # None => entry \in Seq(Bytes)
      BY TextsAssumption
    <3>3. entry # None => Signed(entry) \in Seq(Bytes)
      BY <3>1, <3>2, JoinType DEF Signed, SeqJoin
    <3>4. QED
      BY <3>3, EscapeType
  <2> HIDE DEF a, b, c, d, p, e, q
  <2>4. last \in Seq(Bytes)
    <3>1. p \in Seq(Bytes) /\ <<>> \in Seq(Bytes)
      BY <2>1 DEF IsPage
    <3>2. entry # None => (p \o e) \o q \in Seq(Bytes)
      BY <2>2, <2>3, <3>1, JoinType DEF SeqJoin
    <3>3. QED
      BY <3>1, <3>2
  <2>5. BookPage(entry) = (((a \o b) \o c) \o d) \o last
    BY DEF BookPage, a, b, c, d, p, e, q
  <2> HIDE DEF last
  <2>6. IsPage(a \o b)
    BY <1>2, <2>1
  <2>7. IsPage((a \o b) \o c)
    BY <1>2, <2>1, <2>6
  <2>8. IsPage(((a \o b) \o c) \o d)
    BY <1>2, <2>1, <2>7
  <2>9. QED
    BY <2>4, <2>5, <2>8, PageJoined
<1>7. EntryAfter(u, None) = entry
  BY DEF EntryAfter, Adds
<1>8. QED
  BY <1>3, <1>4, <1>5, <1>6, <1>7 DEF PagesFor

-----------------------------------------------------------------------------
(* Pages that are cut *)

\* Until something is sent, the newest entry is an earlier one, and what is read
\* is an answer.
Fresh ==
  sent = <<>> =>
    /\ entry \in Earlier
    /\ phase = "page" => \E html : IsPage(html) /\ answer = HeadOf \o html

LEMMA LoadFresh ==
  ASSUME Fresh, NEW u, Load(u, None), sent' = sent
  PROVE  Fresh'
<1> SUFFICES ASSUME sent = <<>>
             PROVE  /\ entry' \in Earlier
                    /\ phase' = "page" => \E html : IsPage(html) /\ answer' = HeadOf \o html
  BY DEF Fresh
<1>1. entry \in Earlier
  BY DEF Fresh
<1>2. \/ phase' = "gone" /\ entry' = entry
      \/ /\ entry' = EntryAfter(u, None)
         /\ \E html \in PagesFor(u, None) : answer' = HeadOf \o html
  BY DEF Load
<1>3. EntryAfter(u, None) = entry
  BY DEF EntryAfter, Adds
<1>4. QED
  BY <1>1, <1>2, <1>3, PagesAre

LEMMA StepFresh == Fresh /\ [Next]_vars => Fresh'
<1> SUFFICES ASSUME Fresh, [Next]_vars PROVE Fresh'
  OBVIOUS
<1>1. CASE Visit
  BY <1>1, LoadFresh DEF Visit
<1>2. CASE Follow
  BY <1>2, LoadFresh DEF Follow
<1>3. CASE Submit /\ (checked => allow)
  <2>1. PICK comment : sent' = <<comment>>
    BY <1>3 DEF Submit
  <2>2. <<comment>> # <<>>
    OBVIOUS
  <2>3. QED
    BY <2>1, <2>2 DEF Fresh
<1>4. CASE \E k \in 0..Len(answer) : ReadPage(k) \/ ReadScript(k)
  <2>1. phase' # "page" /\ entry' = entry /\ sent' = sent
    BY <1>4 DEF ReadPage, ReadScript
  <2>2. QED
    BY <2>1 DEF Fresh
<1>5. CASE UNCHANGED <<sent, entry, phase, answer>>
  BY <1>5 DEF Fresh, IsPage
<1>6. CASE Submit /\ ~(checked => allow)
  BY <1>5, <1>6 DEF Submit
<1>7. CASE ClickField \/ ClickBeside \/ PressKey \/ Type \/ Backspace \/ UNCHANGED vars
  BY <1>5, <1>7 DEF ClickField, ClickBeside, PressKey, Type, Backspace, vars
<1>8. QED
  BY <1>1, <1>2, <1>3, <1>4, <1>6, <1>7 DEF Next

\* However early the server ends, the tab shows the beginning of the page, the
\* head, or nothing that is defined (URL::request, parse_response, Tab::load).
THEOREM CutPagesBegin == Spec => []CutExplained
<1>1. Init => Fresh
  BY DEF Init, Fresh
<1>2. Fresh => CutExplained
  <2>1. SUFFICES ASSUME Fresh, phase = "page", sent = <<>>, NEW k \in 0..Len(answer)
                 PROVE  ReadsUpTo(answer, k)
    BY DEF CutExplained, ReadsUpTo
  <2>2. PICK html : IsPage(html) /\ answer = HeadOf \o html
    BY <2>1 DEF Fresh
  <2>3. QED
    BY <2>1, <2>2, CutRead
<1>3. QED
  BY <1>1, <1>2, StepFresh, PTL DEF Spec

-----------------------------------------------------------------------------
(* Reading a tag *)

\* Behind is what its name says.
LEMMA BehindIs ==
  ASSUME NEW s \in Seq(Bytes), NEW i \in 1..(Len(s) + 1), NEW bytes
  PROVE  LET j == Behind(s, i, bytes) IN
         /\ j \in i..(Len(s) + 1) /\ (j <= Len(s) => s[j] \notin bytes)
         /\ \A k \in i..(j - 1) : s[k] \in bytes
<1> DEFINE n == Len(s)
           T == {j \in i..(n + 1) : j <= n => s[j] \notin bytes}
<1>1. n \in Nat /\ i \in Nat /\ i >= 1 /\ i <= n + 1
  OBVIOUS
<1> HIDE DEF n
<1>2. T \subseteq Nat /\ T # {}
  <2>1. n + 1 \in T
    BY <1>1
  <2>2. T \subseteq Nat
    BY <1>1
  <2> HIDE DEF T
  <2>3. QED
    BY <2>1, <2>2
<1>3. PICK m \in T : \A k \in T : m <= k
  <2> HIDE DEF T
  <2>1. QED
    BY <1>2, NatMin
<1>4. \A k \in i..(m - 1) : s[k] \in bytes
  <2>1. ASSUME NEW k \in i..(m - 1), s[k] \notin bytes PROVE FALSE
    <3>1. k \in T
      BY <1>1, <2>1
    <3>2. QED
      BY <1>1, <1>3, <2>1, <3>1
  <2>2. QED
    BY <2>1
<1>5. \E j \in i..(n + 1) : /\ j <= n => s[j] \notin bytes
                            /\ \A k \in i..(j - 1) : s[k] \in bytes
  BY <1>3, <1>4
<1>6. QED
  BY <1>5 DEF Behind, n

LEMMA BehindAt ==
  ASSUME NEW s \in Seq(Bytes), NEW i \in 1..(Len(s) + 1), NEW bytes, NEW m \in i..(Len(s) + 1),
         m <= Len(s) => s[m] \notin bytes, \A k \in i..(m - 1) : s[k] \in bytes
  PROVE  Behind(s, i, bytes) = m
<1> DEFINE n == Len(s)
           j == Behind(s, i, bytes)
<1>1. n \in Nat /\ i \in Nat /\ i >= 1 /\ i <= n + 1 /\ m \in Nat /\ i <= m /\ m <= n + 1
  OBVIOUS
<1>2. j \in i..(n + 1) /\ (j <= n => s[j] \notin bytes) /\ \A k \in i..(j - 1) : s[k] \in bytes
  BY BehindIs
<1>3. (m <= n => s[m] \notin bytes) /\ \A k \in i..(m - 1) : s[k] \in bytes
  OBVIOUS
<1> HIDE DEF n, j
<1>4. ~(j < m)
  <2>1. SUFFICES ASSUME j < m PROVE FALSE
    OBVIOUS
  <2>2. j \in i..(m - 1) /\ j <= n
    BY <1>1, <1>2, <2>1
  <2>3. QED
    BY <1>2, <1>3, <2>2
<1>5. ~(m < j)
  <2>1. SUFFICES ASSUME m < j PROVE FALSE
    OBVIOUS
  <2>2. m \in i..(j - 1) /\ m <= n
    BY <1>1, <1>2, <2>1
  <2>3. QED
    BY <1>2, <1>3, <2>2
<1>6. j \in Int /\ m \in Int
  BY <1>1, <1>2
<1>7. QED
  BY <1>4, <1>5, <1>6 DEF j

\* Where a word may not go on.
Ends(inQuotes) == {EqualSign, Quote} \cup (IF inQuotes THEN {} ELSE White)

LEMMA WordEndIs ==
  ASSUME NEW s \in Seq(Bytes), NEW i \in 1..(Len(s) + 1), NEW inQuotes \in BOOLEAN
  PROVE  /\ WordEnd(s, i, inQuotes) \in i..(Len(s) + 1)
         /\ i <= Len(s) => WordEnd(s, i, inQuotes) > i
         /\ i <= Len(s) /\ s[i] \in Ends(inQuotes) => WordEnd(s, i, inQuotes) = i + 1
         /\ \A m \in (i + 1)..(Len(s) + 1) :
              /\ m <= Len(s) => s[m] \in Ends(inQuotes)
              /\ \A k \in i..(m - 1) : s[k] \notin Ends(inQuotes)
              => WordEnd(s, i, inQuotes) = m
         /\ \/ WordEnd(s, i, inQuotes) = i + 1
            \/ \A k \in i..(WordEnd(s, i, inQuotes) - 1) : s[k] \notin Ends(inQuotes)
<1> DEFINE n == Len(s)
           bytes == (0..255) \ Ends(inQuotes)
           end == Behind(s, i, bytes)
<1>1. n \in Nat /\ i \in Nat /\ i >= 1 /\ i <= n + 1
  OBVIOUS
<1>2. end \in i..(n + 1) /\ (end <= n => s[end] \notin bytes)
      /\ \A k \in i..(end - 1) : s[k] \in bytes
  <2> HIDE DEF bytes
  <2>1. QED
    BY BehindIs
<1>3. WordEnd(s, i, inQuotes) = IF end = i /\ i <= n THEN i + 1 ELSE end
  BY DEF WordEnd, Ends
<1>4. \A k \in 1..n : s[k] \in 0..255
  BY ElementOfSeq DEF Bytes
<1>5. ASSUME NEW m \in (i + 1)..(n + 1), m <= n => s[m] \in Ends(inQuotes),
             \A k \in i..(m - 1) : s[k] \notin Ends(inQuotes)
      PROVE  end = m
  <2>1. m \in i..(n + 1) /\ (m <= n => s[m] \notin bytes)
    BY <1>1, <1>5
  <2>2. \A k \in i..(m - 1) : k \in 1..n
    BY <1>1, <1>5
  <2>3. \A k \in i..(m - 1) : s[k] \in bytes
    BY <1>4, <1>5, <2>2
  <2> HIDE DEF bytes
  <2>4. QED
    BY <2>1, <2>3, BehindAt
<1>6. i <= n /\ s[i] \in Ends(inQuotes) => end = i
  <2>1. SUFFICES ASSUME i <= n, s[i] \in Ends(inQuotes), end # i PROVE FALSE
    OBVIOUS
  <2> HIDE DEF end
  <2>2. i \in i..(end - 1) /\ s[i] \notin bytes
    BY <1>1, <1>2, <2>1
  <2>3. QED
    BY <1>2, <2>2
<1> HIDE DEF n, end, bytes
<1>7. WordEnd(s, i, inQuotes) \in i..(n + 1) /\ (i <= n => WordEnd(s, i, inQuotes) > i)
  BY <1>1, <1>2, <1>3
<1>8. i <= n /\ s[i] \in Ends(inQuotes) => WordEnd(s, i, inQuotes) = i + 1
  BY <1>3, <1>6
<1>9. ASSUME NEW m \in (i + 1)..(n + 1), m <= n => s[m] \in Ends(inQuotes),
             \A k \in i..(m - 1) : s[k] \notin Ends(inQuotes)
      PROVE  WordEnd(s, i, inQuotes) = m
  <2>1. end = m /\ m # i
    BY <1>1, <1>5, <1>9
  <2>2. QED
    BY <1>3, <2>1
<1>10. \/ WordEnd(s, i, inQuotes) = i + 1
       \/ \A k \in i..(WordEnd(s, i, inQuotes) - 1) : s[k] \notin Ends(inQuotes)
  <2>1. WordEnd(s, i, inQuotes) = i + 1 \/ WordEnd(s, i, inQuotes) = end
    BY <1>3
  <2>2. \A k \in i..(end - 1) : s[k] \notin Ends(inQuotes)
    BY <1>2 DEF bytes
  <2>3. QED
    BY <2>1, <2>2
<1>11. QED
  BY <1>7, <1>8, <1>9, <1>10 DEF n

\* What a part begins with, up to its first =.
Called(p, name) ==
  /\ p \in Seq(Bytes) /\ Len(p) >= Len(name) /\ \A k \in 1..Len(name) : p[k] = name[k]
  /\ (Len(p) > Len(name) => p[Len(name) + 1] = EqualSign)

LEMMA CaseIs ==
  ASSUME NEW s \in Seq(Bytes)
  PROVE  /\ Casefold(s) \in Seq(Bytes) /\ Len(Casefold(s)) = Len(s)
         /\ \A i \in 1..Len(s) : Casefold(s)[i] = IF s[i] \in 65..90 THEN s[i] + 32 ELSE s[i]
<1> DEFINE n == Len(s)
           c(i) == IF s[i] \in 65..90 THEN s[i] + 32 ELSE s[i]
<1>1. n \in Nat /\ DOMAIN s = 1..n /\ \A i \in 1..n : s[i] \in 0..255
  BY ElementOfSeq DEF Bytes
<1>2. \A i \in 1..n : c(i) \in Bytes
  <2>1. \A b \in 0..255 : (IF b \in 65..90 THEN b + 32 ELSE b) \in 0..255
    OBVIOUS
  <2>2. Bytes = 0..255
    BY DEF Bytes
  <2>3. ASSUME NEW i \in 1..n PROVE c(i) \in Bytes
    <3> DEFINE x == s[i]
    <3>1. x \in 0..255
      BY <1>1
    <3> HIDE DEF x
    <3>2. (IF x \in 65..90 THEN x + 32 ELSE x) \in Bytes
      BY <2>1, <2>2, <3>1
    <3>3. QED
      BY <3>2 DEF x
  <2> HIDE DEF c
  <2>4. QED
    BY <2>3
<1>3. Casefold(s) = [i \in 1..n |-> c(i)]
  BY <1>1 DEF Casefold
<1> HIDE DEF n, c
<1>4. [i \in 1..n |-> c(i)] \in Seq(Bytes) /\ Len([i \in 1..n |-> c(i)]) = n
  BY <1>1, <1>2
<1>5. \A i \in 1..n : [k \in 1..n |-> c(k)][i] = c(i)
  OBVIOUS
<1>6. QED
  BY <1>3, <1>4, <1>5 DEF n, c

LEMMA CalledKey ==
  ASSUME NEW name \in Seq(Bytes), NEW p, Called(p, name)
  PROVE  /\ (\A k \in 1..Len(name) : name[k] # EqualSign) => Key(p) = Casefold(name)
         /\ Len(name) >= 1 /\ name[1] = EqualSign => Key(p) = <<>>
<1> DEFINE n == Len(name)
<1>1. p \in Seq(Bytes) /\ n \in Nat /\ Len(p) \in Nat /\ Len(p) >= n
      /\ (\A k \in 1..n : p[k] = name[k]) /\ (Len(p) > n => p[n + 1] = EqualSign)
  BY DEF Called
<1>2. EqualSign \in Bytes
  BY DEF EqualSign, Bytes
<1> HIDE DEF n
<1>3. ASSUME \A k \in 1..n : name[k] # EqualSign PROVE Before(p, Find(p, <<EqualSign>>, 1)) = name
  <2>1. CASE Len(p) > n
    <3>1. n + 1 \in 1..Len(p) /\ 1 \in Nat \ {0} /\ n + 1 \in Nat \ {0} /\ n + 1 <= Len(p) + 1
          /\ (n + 1) - 1 = n
      BY <1>1, <2>1
    <3>2. \A k \in 1..((n + 1) - 1) : p[k] # EqualSign
      BY <1>1, <1>3, <3>1
    <3>3. Find(p, <<EqualSign>>, 1) = n + 1
      BY <1>1, <1>2, <2>1, <3>1, <3>2, FoundSign
    <3>4. Before(p, n + 1) \in Seq(Bytes) /\ Len(Before(p, n + 1)) = n
          /\ \A k \in 1..n : Before(p, n + 1)[k] = p[k]
      BY <1>1, <3>1, BeginOf
    <3>5. Before(p, n + 1) = name
      BY <1>1, <3>4, Same DEF n
    <3>6. QED
      BY <3>3, <3>5
  <2>2. CASE Len(p) = n
    <3>1. \A k \in 1..Len(p) : p[k] # EqualSign
      BY <1>1, <1>3, <2>2
    <3>2. Find(p, <<EqualSign>>, 1) = None
      <4>1. 1 \in Nat \ {0}
        OBVIOUS
      <4>2. QED
        BY <1>1, <1>2, <3>1, <4>1, NoSign
    <3>3. p = name
      BY <1>1, <2>2, Same DEF n
    <3>4. QED
      BY <3>2, <3>3 DEF Before
  <2>3. QED
    BY <1>1, <2>1, <2>2
<1>4. ASSUME n >= 1, name[1] = EqualSign PROVE Before(p, Find(p, <<EqualSign>>, 1)) = <<>>
  <2>1. 1 \in 1..Len(p) /\ 1 \in Nat \ {0} /\ p[1] = EqualSign
        /\ \A k \in 1..(1 - 1) : p[k] # EqualSign
    BY <1>1, <1>4
  <2>2. Find(p, <<EqualSign>>, 1) = 1
    BY <1>1, <1>2, <2>1, FoundSign
  <2>3. Before(p, 1) \in Seq(Bytes) /\ Len(Before(p, 1)) = 1 - 1
    <3>1. 1 <= Len(p) + 1
      BY <1>1
    <3>2. QED
      BY <1>1, <2>1, <3>1, BeginOf
  <2>4. Before(p, 1) = <<>>
    BY <2>3, EmptySeq
  <2>5. QED
    BY <2>2, <2>4
<1>5. Casefold(<<>>) = <<>>
  <2>1. <<>> \in Seq(Bytes) /\ Len(<<>>) = 0
    OBVIOUS
  <2>2. Casefold(<<>>) \in Seq(Bytes) /\ Len(Casefold(<<>>)) = 0
    BY <2>1, CaseIs
  <2>3. QED
    BY <2>2, EmptySeq
<1>6. QED
  BY <1>3, <1>4, <1>5 DEF Key, n

LEMMA CalledJoin ==
  ASSUME NEW name \in Seq(Bytes), NEW w \in Seq(Bytes), Len(w) > 0 => w[1] = EqualSign
  PROVE  Called(name \o w, name)
<1> DEFINE n == Len(name)
           p == name \o w
<1>1. /\ p \in Seq(Bytes) /\ Len(p) = n + Len(w) /\ n \in Nat /\ Len(w) \in Nat
      /\ \A i \in 1..n : p[i] = name[i]
      /\ \A i \in 1..Len(w) : p[n + i] = w[i]
  BY Joined
<1> HIDE DEF n, p
<1>2. ASSUME Len(p) > n PROVE p[n + 1] = EqualSign
  <2>1. 1 \in 1..Len(w) /\ Len(w) > 0
    BY <1>1, <1>2
  <2>2. QED
    BY <1>1, <2>1
<1>3. p \in Seq(Bytes) /\ Len(p) >= n /\ (\A k \in 1..n : p[k] = name[k])
  BY <1>1
<1>4. QED
  BY <1>2, <1>3 DEF Called, n, p

LEMMA CalledMore ==
  ASSUME NEW name \in Seq(Bytes), NEW p, Called(p, name), Len(p) > Len(name), NEW w \in Seq(Bytes)
  PROVE  Called(p \o w, name) /\ Len(p \o w) > Len(name)
<1> DEFINE n == Len(name)
           q == p \o w
<1>1. p \in Seq(Bytes) /\ n \in Nat /\ Len(p) \in Nat /\ Len(p) > n
      /\ (\A k \in 1..n : p[k] = name[k]) /\ p[n + 1] = EqualSign
  BY DEF Called
<1>2. /\ q \in Seq(Bytes) /\ Len(q) = Len(p) + Len(w) /\ Len(w) \in Nat
      /\ \A i \in 1..Len(p) : q[i] = p[i]
  BY <1>1, Joined
<1> HIDE DEF n, q
<1>3. Len(q) > n /\ (\A k \in 1..n : q[k] = name[k]) /\ q[n + 1] = EqualSign
  <2>1. \A k \in 1..(n + 1) : k \in 1..Len(p)
    BY <1>1
  <2>2. \A k \in 1..n : k \in 1..(n + 1)
    BY <1>1
  <2>3. n + 1 \in 1..(n + 1)
    BY <1>1
  <2>4. Len(q) > n
    BY <1>1, <1>2
  <2> HIDE DEF Called
  <2>5. QED
    BY <1>1, <1>2, <2>1, <2>2, <2>3, <2>4
<1>4. Len(q) >= n
  BY <1>1, <1>2
<1>5. QED
  BY <1>2, <1>3, <1>4 DEF Called, n, q
\* A part is a name, or a name and what begins with =.
APart(s, i, part, start, end) ==
  LET name == SubSeq(s, start, end - 1) IN
  /\ start \in i..(Len(s) + 1) /\ end \in start..(Len(s) + 1) /\ name \in Seq(Bytes)
  /\ \/ \A k \in 1..Len(name) : name[k] # EqualSign
     \/ Len(name) >= 1 /\ name[1] = EqualSign
  /\ part.next \in (i + 1)..(Len(s) + 2)
  /\ \/ part.parts = <<>>
     \/ \E p : part.parts = <<p>> /\ Called(p, name)

LEMMA RecoverIs ==
  ASSUME NEW s \in Seq(Bytes), NEW i \in 1..(Len(s) + 1), NEW p
  PROVE  /\ Recover(s, i, p).next \in i..(Len(s) + 1)
         /\ Recover(s, i, p).parts = <<>> \/ Recover(s, i, p).parts = <<p>>
<1> DEFINE n == Len(s)
           quote == Find(s, <<Quote>>, i)
<1>1. n \in Nat /\ i \in Nat \ {0} /\ i <= n + 1 /\ Quote \in Bytes
  BY DEF Quote, Bytes
<1>2. \/ quote = None
      \/ quote \in i..n /\ quote # None
  BY <1>1, FindingSign
<1> HIDE DEF n
<1>3. CASE quote = None
  <2>1. Recover(s, i, p) = [parts |-> <<p>>, next |-> n + 1]
    BY <1>3 DEF Recover, n
  <2>2. n + 1 \in i..(n + 1)
    BY <1>1
  <2>3. QED
    BY <2>1, <2>2 DEF n
<1>4. CASE quote \in i..n /\ quote # None
  <2> DEFINE q == SkipWhite(s, quote + 1)
  <2>1. Recover(s, i, p) = [parts |-> <<>>, next |-> q]
    BY <1>4 DEF Recover
  <2> HIDE DEF quote
  <2>2. quote + 1 \in 1..(n + 1)
    BY <1>1, <1>4
  <2>3. q \in (quote + 1)..(n + 1)
    BY <2>2, BehindIs DEF SkipWhite, n
  <2> HIDE DEF q
  <2>4. q \in i..(n + 1)
    BY <1>1, <1>4, <2>3
  <2>5. QED
    BY <2>1, <2>4 DEF n
<1>5. QED
  BY <1>2, <1>3, <1>4

LEMMA ValueIs ==
  ASSUME NEW s \in Seq(Bytes), NEW i \in 1..(Len(s) + 1), NEW name \in Seq(Bytes)
  PROVE  /\ ValuePart(s, name, i).next \in i..(Len(s) + 2)
         /\ \/ ValuePart(s, name, i).parts = <<>>
            \/ \E p : ValuePart(s, name, i).parts = <<p>> /\ Called(p, name)
<1> DEFINE n == Len(s)
<1>1. n \in Nat /\ i \in Nat \ {0} /\ i <= n + 1 /\ EqualSign \in Bytes /\ Quote \in Bytes
  BY DEF Quote, EqualSign, Bytes
<1>2. ASSUME NEW from \in 1..(n + 1), NEW to \in from..(n + 1)
      PROVE  SubSeq(s, from, to - 1) \in Seq(Bytes)
  <2> HIDE DEF n
  <2>1. from \in Nat \ {0} /\ to - 1 \in Nat /\ to - 1 <= n
    BY <1>1, <1>2
  <2>2. QED
    BY <2>1, PartOf DEF n
<1>3. CASE Is(s, i, Quote)
  <2> DEFINE from == i + 1
             to == WordEnd(s, i + 1, TRUE)
             v == SubSeq(s, from, to - 1)
             attribute == (name \o <<EqualSign, Quote>>) \o v
             part == QuotedValue(s, name, from, to)
  <2>1. i <= n
    BY <1>3 DEF Is
  <2>2. from \in 1..(n + 1)
    BY <1>1, <2>1
  <2>3. to \in from..(n + 1)
    <3> HIDE DEF from
    <3>1. WordEnd(s, from, TRUE) \in from..(n + 1)
      BY <2>2, WordEndIs
    <3>2. QED
      BY <3>1 DEF from
  <2> HIDE DEF from, to
  <2>4. v \in Seq(Bytes)
    BY <1>2, <2>2, <2>3
  <2> HIDE DEF v
  <2>5. Called(attribute, name) /\ attribute \in Seq(Bytes) /\ Len(attribute) > Len(name)
    <3> DEFINE w == <<EqualSign, Quote>>
    <3>1. w \in Seq(Bytes) /\ Len(w) = 2 /\ w[1] = EqualSign
      BY <1>1
    <3> HIDE DEF w
    <3>2. Called(name \o w, name)
      BY <3>1, CalledJoin
    <3>3. Len(name \o w) > Len(name)
      <4>1. Len(name \o w) = Len(name) + Len(w)
        BY <3>1, Joined
      <4>2. Len(name) \in Nat
        OBVIOUS
      <4>3. QED
        BY <3>1, <4>1, <4>2
    <3>4. Called((name \o w) \o v, name) /\ Len((name \o w) \o v) > Len(name)
      BY <2>4, <3>2, <3>3, CalledMore
    <3>5. QED
      BY <3>4 DEF Called, w
  <2>6. part = IF to <= n /\ ~Is(s, to, Quote) THEN Recover(s, to, attribute)
               ELSE [parts |-> <<Append(attribute, Quote)>>, next |-> to + 1]
    BY DEF QuotedValue, v
  <2> HIDE DEF attribute
  <2>7. ValuePart(s, name, i) = part
    BY <1>3 DEF ValuePart, from, to
  <2> HIDE DEF part, n
  <2>8. CASE to <= n /\ ~Is(s, to, Quote)
    <3>1. to \in 1..(n + 1)
      BY <1>1, <2>2, <2>3
    <3>2. part.next \in to..(n + 1) /\ (part.parts = <<>> \/ part.parts = <<attribute>>)
      BY <2>6, <2>8, <3>1, RecoverIs DEF n
    <3>3. part.next \in i..(n + 2)
      BY <1>1, <2>2, <2>3, <3>2 DEF from
    <3>4. QED
      BY <2>5, <2>7, <3>2, <3>3 DEF n
  <2>9. CASE ~(to <= n /\ ~Is(s, to, Quote))
    <3>1. part = [parts |-> <<Append(attribute, Quote)>>, next |-> to + 1]
      BY <2>6, <2>9
    <3>2. to + 1 \in i..(n + 2)
      BY <1>1, <2>2, <2>3 DEF from
    <3>3. <<Quote>> \in Seq(Bytes) /\ Append(attribute, Quote) = attribute \o <<Quote>>
      BY <1>1, <2>5
    <3>4. Called(Append(attribute, Quote), name)
      BY <2>5, <3>3, CalledMore
    <3>5. part.parts = <<Append(attribute, Quote)>> /\ part.next = to + 1
      BY <3>1
    <3>6. \E p : part.parts = <<p>> /\ Called(p, name)
      BY <3>4, <3>5
    <3>7. QED
      BY <2>7, <3>2, <3>5, <3>6 DEF n
  <2>10. QED
    BY <2>8, <2>9
<1>4. CASE ~Is(s, i, Quote)
  <2> DEFINE to == WordEnd(s, i, FALSE)
             v == SubSeq(s, i, to - 1)
             p == (name \o <<EqualSign>>) \o v
  <2>1. ValuePart(s, name, i) = [parts |-> <<p>>, next |-> to]
    BY <1>4 DEF ValuePart, PlainValue
  <2>2. to \in i..(n + 1)
    BY WordEndIs
  <2> HIDE DEF to
  <2>3. v \in Seq(Bytes)
    BY <1>2, <2>2
  <2> HIDE DEF v
  <2>4. Called(p, name)
    <3> DEFINE w == <<EqualSign>>
    <3>1. w \in Seq(Bytes) /\ Len(w) = 1 /\ w[1] = EqualSign
      BY <1>1
    <3> HIDE DEF w
    <3>2. Called(name \o w, name)
      BY <3>1, CalledJoin
    <3>3. Len(name \o w) > Len(name)
      <4>1. Len(name \o w) = Len(name) + Len(w)
        BY <3>1, Joined
      <4>2. Len(name) \in Nat
        OBVIOUS
      <4>3. QED
        BY <3>1, <4>1, <4>2
    <3>4. Called((name \o w) \o v, name)
      BY <2>3, <3>2, <3>3, CalledMore
    <3>5. QED
      BY <3>4 DEF w
  <2> HIDE DEF p, n
  <2>5. to \in i..(n + 2)
    BY <1>1, <2>2
  <2>6. QED
    BY <2>1, <2>4, <2>5 DEF n
<1>5. QED
  BY <1>3, <1>4

LEMMA PartIs ==
  ASSUME NEW s \in Seq(Bytes), NEW i \in 1..Len(s)
  PROVE  \E start, end : APart(s, i, Part(s, i), start, end)
<1> DEFINE n == Len(s)
           start == SkipWhite(s, i)
           end == WordEnd(s, start, FALSE)
           name == SubSeq(s, start, end - 1)
           behind == SkipWhite(s, end)
           part == Part(s, i)
<1>1. n \in Nat /\ i \in Nat /\ i >= 1 /\ i <= n /\ i \in 1..(n + 1)
  OBVIOUS
<1>2. start \in i..(n + 1)
  BY <1>1, BehindIs DEF SkipWhite
<1> HIDE DEF start
<1>3. start \in 1..(n + 1)
  BY <1>1, <1>2
<1>4. /\ end \in start..(n + 1) /\ (start <= n => end > start)
      /\ end = start + 1 \/ \A k \in start..(end - 1) : s[k] \notin Ends(FALSE)
  BY <1>3, WordEndIs
<1> HIDE DEF end
<1>5. end \in 1..(n + 1) /\ end \in (i + 1)..(n + 1)
  <2> HIDE DEF n
  <2>1. QED
    BY <1>1, <1>2, <1>4
<1>6. behind \in end..(n + 1)
  BY <1>5, BehindIs DEF SkipWhite
<1> HIDE DEF behind
<1>7. name \in Seq(Bytes) /\ Len(name) = end - start
      /\ \A k \in 1..(end - start) : name[k] = s[start + k - 1]
  <2> HIDE DEF n, name
  <2>1. start \in Nat \ {0} /\ end - 1 \in Nat /\ end - 1 <= n /\ (end - 1) - start + 1 = end - start
        /\ (IF start <= end - 1 THEN (end - 1) - start + 1 ELSE 0) = end - start
    BY <1>1, <1>2, <1>3, <1>4, <1>5
  <2>2. /\ name \in Seq(Bytes)
        /\ Len(name) = IF start <= end - 1 THEN (end - 1) - start + 1 ELSE 0
        /\ \A k \in 1..((end - 1) - start + 1) : name[k] = s[start + k - 1]
    BY <2>1, PartOf DEF name, n
  <2>3. QED
    BY <2>1, <2>2
<1> HIDE DEF name
<1>8. \/ \A k \in 1..Len(name) : name[k] # EqualSign
      \/ Len(name) >= 1 /\ name[1] = EqualSign
  <2>1. CASE end = start + 1
    <3>1. Len(name) = 1
      BY <1>3, <1>7, <2>1
    <3>2. \A k \in 1..1 : k = 1
      OBVIOUS
    <3>3. QED
      BY <3>1, <3>2
  <2>2. CASE \A k \in start..(end - 1) : s[k] \notin Ends(FALSE)
    <3>1. \A k \in 1..(end - start) : start + k - 1 \in start..(end - 1)
      <4>1. start \in Int /\ end \in Int
        BY <1>3, <1>5
      <4>2. QED
        BY <4>1
    <3>2. \A k \in 1..(end - start) : name[k] \notin Ends(FALSE)
      BY <1>7, <2>2, <3>1
    <3>3. QED
      BY <1>7, <3>2 DEF Ends
  <2>3. QED
    BY <1>4, <2>1, <2>2
<1>9. part = NamePart(s, name, behind)
  BY DEF Part, start, end, behind, name
<1>10. part.next \in (i + 1)..(n + 2)
       /\ (part.parts = <<>> \/ \E p : part.parts = <<p>> /\ Called(p, name))
  <2>1. CASE Is(s, behind, EqualSign)
    <3> DEFINE j == SkipWhite(s, behind + 1)
    <3>1. behind <= n /\ behind + 1 \in 1..(n + 1)
      BY <1>1, <1>5, <1>6, <2>1 DEF Is
    <3>2. j \in (behind + 1)..(n + 1)
      BY <3>1, BehindIs DEF SkipWhite
    <3>3. part = ValuePart(s, name, j)
      BY <1>9, <2>1 DEF NamePart
    <3> HIDE DEF j, n, part
    <3>4. j \in 1..(n + 1)
      BY <3>1, <3>2
    <3>5. /\ ValuePart(s, name, j).next \in j..(n + 2)
          /\ \/ ValuePart(s, name, j).parts = <<>>
             \/ \E p : ValuePart(s, name, j).parts = <<p>> /\ Called(p, name)
      BY <1>7, <3>4, ValueIs DEF n
    <3>6. part.next \in (i + 1)..(n + 2)
      BY <1>1, <1>5, <1>6, <3>2, <3>3, <3>5
    <3>7. QED
      BY <3>3, <3>5, <3>6
  <2>2. CASE ~Is(s, behind, EqualSign)
    <3>1. part = [parts |-> <<name>>, next |-> behind]
      BY <1>9, <2>2 DEF NamePart
    <3>2. behind \in (i + 1)..(n + 2)
      <4> HIDE DEF n
      <4>1. QED
        BY <1>1, <1>5, <1>6
    <3>3. Called(name, name)
      BY <1>7 DEF Called
    <3> HIDE DEF part, n
    <3>4. part.parts = <<name>> /\ part.next = behind
      BY <3>1
    <3>5. QED
      BY <3>2, <3>3, <3>4
  <2>3. QED
    BY <2>1, <2>2
<1> HIDE DEF part
<1>11. APart(s, i, part, start, end)
  <2>1. start \in i..(Len(s) + 1) /\ end \in start..(Len(s) + 1) /\ part.next \in (i + 1)..(Len(s) + 2)
    BY <1>2, <1>4, <1>10
  <2>2. QED
    BY <1>7, <1>8, <1>10, <2>1 DEF APart, name
<1>12. QED
  BY <1>11 DEF part

LEMMA PartNext ==
  ASSUME NEW s \in Seq(Bytes), NEW i \in 1..Len(s)
  PROVE  /\ Part(s, i).next \in (i + 1)..(Len(s) + 2)
         /\ Part(s, i).parts \in Seq(Seq(Bytes))
<1>1. PICK start, end : APart(s, i, Part(s, i), start, end)
  BY PartIs
<1> DEFINE part == Part(s, i)
<1>2. part.next \in (i + 1)..(Len(s) + 2)
      /\ (part.parts = <<>> \/ \E p \in Seq(Bytes) : part.parts = <<p>>)
  BY <1>1 DEF APart, Called
<1> HIDE DEF part
<1>3. part.parts \in Seq(Seq(Bytes))
  <2>1. \A p \in Seq(Bytes) : <<p>> \in Seq(Seq(Bytes))
    OBVIOUS
  <2>2. <<>> \in Seq(Seq(Bytes))
    OBVIOUS
  <2>3. QED
    BY <1>2, <2>1, <2>2
<1>4. QED
  BY <1>2, <1>3 DEF part

\* The key of a part is nothing, or stands in the text.
LEMMA PartKey ==
  ASSUME NEW s \in Seq(Bytes), NEW i \in 1..Len(s), NEW x \in 1..Len(Part(s, i).parts)
  PROVE  \/ Key(Part(s, i).parts[x]) = <<>>
         \/ \E a \in i..(Len(s) + 1) : \E b \in a..(Len(s) + 1) :
              Key(Part(s, i).parts[x]) = Casefold(SubSeq(s, a, b - 1))
<1>1. PICK start, end : APart(s, i, Part(s, i), start, end)
  BY PartIs
<1> DEFINE name == SubSeq(s, start, end - 1)
           parts == Part(s, i).parts
<1>2. parts # <<>>
  OBVIOUS
<1>3. PICK p : parts = <<p>> /\ Called(p, name)
  BY <1>1, <1>2 DEF APart
<1>4. parts[x] = p
  <2> HIDE DEF parts
  <2>1. x \in 1..Len(parts)
    BY DEF parts
  <2>2. Len(parts) = 1 /\ parts[1] = p
    BY <1>3
  <2>3. x = 1
    BY <2>1, <2>2
  <2>4. QED
    BY <2>2, <2>3
<1>5. /\ start \in i..(Len(s) + 1) /\ end \in start..(Len(s) + 1) /\ name \in Seq(Bytes)
      /\ \/ \A k \in 1..Len(name) : name[k] # EqualSign
         \/ Len(name) >= 1 /\ name[1] = EqualSign
  BY <1>1 DEF APart
<1> HIDE DEF name, parts
<1>6. Key(p) = <<>> \/ Key(p) = Casefold(name)
  BY <1>3, <1>5, CalledKey
<1>7. QED
  BY <1>4, <1>5, <1>6 DEF name, parts

\* The parts from a place on.
PartsFrom(from, s) ==
  \A i \in 1..(Len(s) + 2) :
    from[i] = IF i > Len(s) THEN <<>> ELSE Part(s, i).parts \o from[Part(s, i).next]

LEMMA PartsAre ==
  ASSUME NEW s \in Seq(Bytes)
  PROVE  \E from \in [1..(Len(s) + 2) -> Seq(Seq(Bytes))] :
           PartsFrom(from, s) /\ Parts(s) = from[1]
<1> DEFINE N == Len(s) + 2
           V == Seq(Seq(Bytes))
           parts(n) == Part(s, n).parts
           next(n) == Part(s, n).next
           Rest(n, u) == IF n > Len(s) THEN <<>> ELSE parts(n) \o u[next(n)]
           Solution(u) == [n \in 1..N |-> Rest(n, u)]
           f == CHOOSE u : u = Solution(u)
           step == [q \in (1..N) \X [1..N -> V] |-> Rest(q[1], q[2])]
<1>1. Parts(s) = f[1]
  BY DEF Parts
<1>2. Len(s) \in Nat /\ N \in Nat /\ N >= 1 /\ 1 \in 1..N
  OBVIOUS
<1>3. ASSUME NEW n \in 1..N, ~(n > Len(s))
      PROVE  next(n) \in (n + 1)..N /\ next(n) \in 1..N /\ parts(n) \in V
  <2>1. n \in 1..Len(s)
    BY <1>2, <1>3
  <2>2. next(n) \in (n + 1)..N /\ parts(n) \in V
    BY <2>1, PartNext
  <2> HIDE DEF next, parts, N
  <2>3. next(n) \in 1..N
    BY <1>2, <2>1, <2>2
  <2>4. QED
    BY <2>2, <2>3
<1> HIDE DEF next, parts
<1>4. ASSUME NEW n \in 1..N, NEW u \in [1..N -> V] PROVE Rest(n, u) \in V
  <2>1. CASE n > Len(s)
    <3>1. <<>> \in V
      OBVIOUS
    <3>2. Rest(n, u) = <<>>
      BY <2>1
    <3>3. QED
      BY <3>1, <3>2
  <2>2. CASE ~(n > Len(s))
    <3> DEFINE w == parts(n)
               v == u[next(n)]
    <3>1. w \in Seq(Seq(Bytes)) /\ v \in Seq(Seq(Bytes))
      BY <1>3, <2>2
    <3>2. Rest(n, u) = w \o v
      BY <2>2
    <3> HIDE DEF w, v, Rest
    <3>3. w \o v \in Seq(Seq(Bytes))
      BY <3>1, Joined
    <3>4. QED
      BY <3>2, <3>3
  <2>3. QED
    BY <2>1, <2>2
<1>5. step \in [(1..N) \X [1..N -> V] -> V]
  <2> HIDE DEF Rest, V
  <2>1. QED
    BY <1>4
<1>6. \A n \in 1..N, u \in [1..N -> V] : step[<<n, u>>] = Rest(n, u)
  <2> HIDE DEF Rest, V
  <2>1. QED
    OBVIOUS
<1>7. FromAbove(N, V, step)
  <2>1. ASSUME NEW n \in 1..N, NEW u \in [1..N -> V], NEW v \in [1..N -> V],
               \A m \in (n + 1)..N : u[m] = v[m]
        PROVE  step[<<n, u>>] = step[<<n, v>>]
    <3>1. ~(n > Len(s)) => u[next(n)] = v[next(n)]
      BY <1>3, <2>1
    <3>2. Rest(n, u) = Rest(n, v)
      BY <3>1
    <3> HIDE DEF step, Rest, V
    <3>3. QED
      BY <1>6, <3>2
  <2> HIDE DEF step, V
  <2>2. QED
    BY <2>1 DEF FromAbove
<1>8. <<>> \in V
  OBVIOUS
<1>9. PICK g \in [1..N -> V] : RecursDown(g, N, step)
  <2> HIDE DEF step, V, N
  <2>1. QED
    BY <1>2, <1>5, <1>7, <1>8, DownRecursion
<1>10. g = Solution(g)
  <2> HIDE DEF step, Rest, V
  <2>1. \A n \in 1..N : g[n] = Rest(n, g)
    BY <1>6, <1>9 DEF RecursDown
  <2>2. QED
    BY <1>9, <2>1
<1>11. f = Solution(f)
  <2> HIDE DEF Solution
  <2>1. QED
    BY <1>10
<1>12. f = g
  <2> DEFINE T == {n \in 1..N : f[n] = g[n]}
  <2>1. ASSUME NEW n \in 1..N, \A m \in (n + 1)..N : m \in T PROVE n \in T
    <3>1. ~(n > Len(s)) => f[next(n)] = g[next(n)]
      BY <1>3, <2>1
    <3>2. Rest(n, f) = Rest(n, g)
      <4> HIDE DEF f
      <4>1. QED
        BY <3>1
    <3> HIDE DEF Rest, f
    <3>3. f[n] = Rest(n, f) /\ g[n] = Rest(n, g)
      BY <1>10, <1>11
    <3>4. QED
      BY <3>2, <3>3
  <2> HIDE DEF T
  <2>2. 1..N \subseteq T
    <3> HIDE DEF N
    <3>1. QED
      BY <1>2, <2>1, DownInduction
  <2> HIDE DEF f, Rest, N
  <2>3. f = [n \in 1..N |-> Rest(n, f)] /\ g = [n \in 1..N |-> Rest(n, g)]
    BY <1>10, <1>11
  <2>4. \A n \in 1..N : f[n] = g[n]
    BY <2>2 DEF T
  <2>5. QED
    BY <2>3, <2>4
<1> HIDE DEF f
<1>13. \A n \in 1..N : g[n] = Rest(n, g)
  <2> HIDE DEF Rest
  <2>1. QED
    BY <1>10
<1>14. PartsFrom(g, s)
  BY <1>13 DEF PartsFrom, parts, next
<1>15. QED
  BY <1>1, <1>9, <1>12, <1>14

\* What an attribute may be, with its types.
Attr(a) == a.key \in Seq(Bytes) /\ a.value \in Seq(Bytes) /\ a.form \in Forms /\ IsAttribute(a)

\* A word with what surrounds it.
IsValue(v) == /\ v \in Seq(Bytes) /\ Len(v) > 0
              /\ v[1] # Quote /\ \A k \in 1..Len(v) : v[k] \notin Ends(FALSE)

Quoting(q, v) == (<<q>> \o v) \o <<q>>

LEMMA QuotingIs ==
  ASSUME NEW q \in Bytes, NEW v \in Seq(Bytes)
  PROVE  /\ Quoting(q, v) \in Seq(Bytes) /\ Len(Quoting(q, v)) = Len(v) + 2
         /\ Quoting(q, v)[1] = q /\ Quoting(q, v)[Len(v) + 2] = q
         /\ \A k \in 1..Len(v) : Quoting(q, v)[k + 1] = v[k]
<1> DEFINE b == <<q>>
           m == b \o v
           u == m \o b
           n == Len(v)
<1>1. b \in Seq(Bytes) /\ Len(b) = 1 /\ b[1] = q /\ n \in Nat
  OBVIOUS
<1> HIDE DEF b
<1>2. /\ m \in Seq(Bytes) /\ Len(m) = 1 + n /\ (\A i \in 1..1 : m[i] = b[i])
      /\ \A i \in 1..n : m[1 + i] = v[i]
  <2>0. b \in Seq(Bytes) /\ v \in Seq(Bytes)
    BY <1>1
  <2>1. /\ m \in Seq(Bytes) /\ Len(m) = Len(b) + Len(v) /\ (\A i \in 1..Len(b) : m[i] = b[i])
        /\ \A i \in 1..Len(v) : m[Len(b) + i] = v[i]
    BY <2>0, Joined
  <2> HIDE DEF m
  <2>2. QED
    BY <1>1, <2>1
<1> HIDE DEF m
<1>3. /\ u \in Seq(Bytes) /\ Len(u) = (1 + n) + 1 /\ (\A i \in 1..(1 + n) : u[i] = m[i])
      /\ \A i \in 1..1 : u[(1 + n) + i] = b[i]
  <2>0. m \in Seq(Bytes) /\ b \in Seq(Bytes)
    BY <1>1, <1>2
  <2>1. /\ u \in Seq(Bytes) /\ Len(u) = Len(m) + Len(b) /\ (\A i \in 1..Len(m) : u[i] = m[i])
        /\ \A i \in 1..Len(b) : u[Len(m) + i] = b[i]
    BY <2>0, Joined
  <2> HIDE DEF u
  <2>2. QED
    BY <1>1, <1>2, <2>1
<1> HIDE DEF u, n
<1>4. Quoting(q, v) = u
  BY DEF Quoting, u, m, b
<1>5. u[1] = q /\ u[n + 2] = q /\ Len(u) = n + 2
  <2>1. 1 \in 1..1 /\ 1 \in 1..(1 + n) /\ (1 + n) + 1 = n + 2
    BY <1>1
  <2>2. QED
    BY <1>1, <1>2, <1>3, <2>1
<1>6. \A k \in 1..n : u[k + 1] = v[k]
  <2>1. \A k \in 1..n : k + 1 = 1 + k /\ 1 + k \in 1..(1 + n)
    BY <1>1
  <2>2. QED
    BY <1>2, <1>3, <2>1
<1>7. QED
  BY <1>3, <1>4, <1>5, <1>6 DEF n

\* How an attribute is written: a key, or a key, =, and a word or what is in quotes.
LEMMA FormIs ==
  ASSUME NEW a, Attr(a)
  PROVE  /\ a.key \in Seq(Bytes) /\ Len(a.key) > 0
         /\ \A k \in 1..Len(a.key) : a.key[k] \notin Ends(FALSE)
         /\ a.form = "bare" => WriteAttribute(a) = a.key /\ a.value = <<>>
         /\ a.form = "plain" =>
              /\ IsValue(a.value) /\ a.value[1] # Apostrophe
              /\ WriteAttribute(a) = a.key \o (<<EqualSign>> \o a.value)
         /\ a.form = "single" =>
              /\ IsValue(Quoting(Apostrophe, a.value)) /\ a.value \in Seq(Bytes) /\ Len(a.value) > 0
              /\ WriteAttribute(a) = a.key \o (<<EqualSign>> \o Quoting(Apostrophe, a.value))
         /\ a.form = "quoted" =>
              /\ a.value \in Seq(Bytes) /\ \A k \in 1..Len(a.value) : a.value[k] # Quote
              /\ WriteAttribute(a) = a.key \o (<<EqualSign>> \o Quoting(Quote, a.value))
<1> DEFINE k == a.key
           v == a.value
           f == a.form
<1>1. k \in Seq(Bytes) /\ v \in Seq(Bytes) /\ f \in Forms
  BY DEF Attr
<1>2. IsWord(k) /\ \/ f = "bare" /\ v = <<>>
                   \/ f \in {"plain", "single"} /\ IsWord(v) /\ Head(v) # Apostrophe
                   \/ f = "quoted" /\ Without(v, {Quote})
  BY DEF Attr, IsAttribute
<1>3. /\ {EqualSign, Quote, Apostrophe} \subseteq Bytes
      /\ Apostrophe # Quote /\ Apostrophe \notin Ends(FALSE)
  BY DEF EqualSign, Quote, Apostrophe, Bytes, Ends, White
<1>4. ASSUME NEW w \in Seq(Bytes), IsWord(w)
      PROVE  /\ Len(w) > 0 /\ w[1] = Head(w)
             /\ \A i \in 1..Len(w) : w[i] \notin Ends(FALSE) /\ w[i] # Quote
  <2>1. Len(w) > 0
    <3>1. w # <<>>
      BY <1>4 DEF IsWord
    <3>2. Len(w) # 0 /\ Len(w) \in Nat
      BY <3>1, EmptySeq
    <3>3. QED
      BY <3>2
  <2>2. DOMAIN w = 1..Len(w) /\ w[1] = Head(w)
    BY <2>1
  <2>3. QED
    BY <1>4, <2>1, <2>2 DEF IsWord, Without, Ends
<1>5. WriteAttribute(a) = k \o CASE f = "bare" -> <<>>
                                 [] f = "plain" -> <<EqualSign>> \o v
                                 [] f = "single" -> <<EqualSign, Apostrophe>> \o v \o <<Apostrophe>>
                                 [] f = "quoted" -> <<EqualSign, Quote>> \o v \o <<Quote>>
  BY DEF WriteAttribute
<1>6. ASSUME NEW q \in Bytes
      PROVE  (<<EqualSign, q>> \o v) \o <<q>> = <<EqualSign>> \o Quoting(q, v)
  <2> DEFINE e == <<EqualSign>>
             b == <<q>>
  <2>1. e \in Seq(Bytes) /\ b \in Seq(Bytes) /\ <<EqualSign, q>> = e \o b
    BY <1>3
  <2>2. <<EqualSign>> = e /\ <<q>> = b
    OBVIOUS
  <2> HIDE DEF e, b, v
  <2>3. \A x, y, z \in Seq(Bytes) : (x \o y) \o z = x \o (y \o z)
    BY ConcatAssociative
  <2>4. \A x, y \in Seq(Bytes) : x \o y \in Seq(Bytes)
    BY JoinType DEF SeqJoin
  <2>5. e \in Seq(Bytes) /\ b \in Seq(Bytes) /\ v \in Seq(Bytes)
    BY <1>1, <2>1
  <2>6. b \o v \in Seq(Bytes)
    BY <2>4, <2>5, Zenon
  <2>7. (e \o b) \o v = e \o (b \o v)
    BY <2>3, <2>5, Zenon
  <2>8. (e \o (b \o v)) \o b = e \o ((b \o v) \o b)
    BY <2>3, <2>5, <2>6, Zenon
  <2>9. QED
    BY <2>1, <2>2, <2>7, <2>8 DEF Quoting
<1> HIDE DEF k, v, f
<1>7. /\ Len(k) > 0
      /\ \A i \in 1..Len(k) : k[i] \notin Ends(FALSE)
  BY <1>1, <1>2, <1>4
<1>8. ASSUME f = "bare" PROVE WriteAttribute(a) = k /\ v = <<>>
  BY <1>1, <1>2, <1>5, <1>8, ConcatEmptySeq
<1>9. ASSUME f = "plain"
      PROVE  IsValue(v) /\ v[1] # Apostrophe /\ WriteAttribute(a) = k \o (<<EqualSign>> \o v)
  <2>1. IsWord(v) /\ Head(v) # Apostrophe
    BY <1>2, <1>9
  <2>2. Len(v) > 0 /\ v[1] = Head(v) /\ \A i \in 1..Len(v) : v[i] \notin Ends(FALSE) /\ v[i] # Quote
    BY <1>1, <1>4, <2>1
  <2>3. 1 \in 1..Len(v)
    BY <1>1, <2>2
  <2>4. IsValue(v) /\ v[1] # Apostrophe
    BY <1>1, <2>1, <2>2, <2>3 DEF IsValue
  <2>5. WriteAttribute(a) = k \o (<<EqualSign>> \o v)
    BY <1>5, <1>9
  <2>6. QED
    BY <2>4, <2>5
<1>10. ASSUME f = "single"
       PROVE  /\ IsValue(Quoting(Apostrophe, v)) /\ Len(v) > 0
              /\ WriteAttribute(a) = k \o (<<EqualSign>> \o Quoting(Apostrophe, v))
  <2> DEFINE u == Quoting(Apostrophe, v)
             n == Len(v)
  <2>1. IsWord(v)
    BY <1>2, <1>10
  <2>2. n > 0 /\ n \in Nat /\ \A i \in 1..n : v[i] \notin Ends(FALSE)
    <3>1. Len(v) > 0 /\ \A i \in 1..Len(v) : v[i] \notin Ends(FALSE) /\ v[i] # Quote
      BY <1>1, <1>4, <2>1
    <3>2. Len(v) \in Nat
      BY <1>1
    <3>3. QED
      BY <3>1, <3>2
  <2>3. /\ u \in Seq(Bytes) /\ Len(u) = n + 2 /\ u[1] = Apostrophe /\ u[n + 2] = Apostrophe
        /\ \A i \in 1..n : u[i + 1] = v[i]
    BY <1>1, <1>3, QuotingIs
  <2> HIDE DEF u, n
  <2>4. \A i \in 1..Len(u) : u[i] \notin Ends(FALSE)
    <3>1. \A i \in 1..Len(u) : i = 1 \/ i = n + 2 \/ (i - 1 \in 1..n /\ (i - 1) + 1 = i)
      BY <2>2, <2>3
    <3>2. QED
      BY <1>3, <2>2, <2>3, <3>1
  <2>5. IsValue(u)
    <3>1. Len(u) > 0
      BY <2>2, <2>3
    <3>2. QED
      BY <1>3, <2>3, <2>4, <3>1 DEF IsValue
  <2>6. WriteAttribute(a) = k \o (<<EqualSign>> \o u)
    BY <1>3, <1>5, <1>6, <1>10 DEF u
  <2>7. QED
    BY <2>2, <2>5, <2>6 DEF u, n
<1>11. ASSUME f = "quoted"
       PROVE  /\ \A i \in 1..Len(v) : v[i] # Quote
              /\ WriteAttribute(a) = k \o (<<EqualSign>> \o Quoting(Quote, v))
  <2>1. Without(v, {Quote}) /\ DOMAIN v = 1..Len(v)
    BY <1>1, <1>2, <1>11
  <2>2. \A i \in 1..Len(v) : v[i] # Quote
    BY <2>1 DEF Without
  <2>3. WriteAttribute(a) = k \o (<<EqualSign>> \o Quoting(Quote, v))
    BY <1>3, <1>5, <1>6, <1>11
  <2>4. QED
    BY <2>2, <2>3
<1>12. QED
  BY <1>1, <1>7, <1>8, <1>9, <1>10, <1>11 DEF k, v, f

\* What attributes stand between: the end, or a space and no end of a word.
Boundary(s, q) ==
  \/ q = Len(s) + 1
  \/ q \in 1..Len(s) /\ q + 1 <= Len(s) /\ s[q] = Space /\ s[q + 1] \notin Ends(FALSE)

SkipsTo(s, q) == IF q = Len(s) + 1 THEN q ELSE q + 1

LEMMA SkipIs ==
  ASSUME NEW s \in Seq(Bytes), NEW q, Boundary(s, q)
  PROVE  /\ SkipWhite(s, q) = SkipsTo(s, q) /\ SkipsTo(s, q) \in 1..(Len(s) + 1)
         /\ ~Is(s, SkipsTo(s, q), EqualSign)
         /\ q <= Len(s) => SkipWhite(s, q + 1) = q + 1 /\ q \in 1..Len(s)
<1> DEFINE n == Len(s)
<1>1. n \in Nat /\ Space \in White /\ White \subseteq Ends(FALSE) /\ EqualSign \in Ends(FALSE)
  BY DEF Space, White, Ends
<1>2. CASE q = n + 1
  <2>1. q \in 1..(n + 1) /\ q \in q..(n + 1) /\ ~(q <= n) /\ \A k \in q..(q - 1) : FALSE
    BY <1>1, <1>2
  <2>2. Behind(s, q, White) = q
    BY <2>1, BehindAt
  <2>3. QED
    BY <1>2, <2>1, <2>2 DEF SkipsTo, SkipWhite, Is
<1>3. CASE q \in 1..n /\ q + 1 <= n /\ s[q] = Space /\ s[q + 1] \notin Ends(FALSE)
  <2>1. /\ q \in 1..(n + 1) /\ q + 1 \in q..(n + 1)
        /\ q + 1 \in 1..(n + 1) /\ q + 1 \in (q + 1)..(n + 1)
        /\ s[q + 1] \notin White /\ s[q + 1] # EqualSign
        /\ (\A k \in q..((q + 1) - 1) : k = q) /\ (\A k \in (q + 1)..((q + 1) - 1) : FALSE)
        /\ q # n + 1
    <3>1. s[q + 1] \notin White /\ s[q + 1] # EqualSign
      BY <1>1, <1>3
    <3> HIDE DEF n
    <3>2. q \in Nat /\ q >= 1 /\ q + 1 <= n
      BY <1>1, <1>3
    <3>3. /\ q \in 1..(n + 1) /\ q + 1 \in q..(n + 1) /\ q + 1 \in 1..(n + 1)
          /\ q + 1 \in (q + 1)..(n + 1)
      BY <1>1, <3>2
    <3>4. q # n + 1 /\ (\A k \in q..((q + 1) - 1) : k = q) /\ (\A k \in (q + 1)..((q + 1) - 1) : FALSE)
      BY <1>1, <3>2
    <3>5. QED
      BY <3>1, <3>3, <3>4
  <2>2. \A k \in q..((q + 1) - 1) : s[k] \in White
    BY <1>1, <1>3, <2>1
  <2>3. Behind(s, q, White) = q + 1
    BY <2>1, <2>2, BehindAt
  <2>4. Behind(s, q + 1, White) = q + 1
    <3> DEFINE r == q + 1
    <3>1. /\ r \in 1..(n + 1) /\ r \in r..(n + 1) /\ s[r] \notin White
          /\ \A k \in r..(r - 1) : FALSE
      BY <2>1
    <3> HIDE DEF r
    <3>2. Behind(s, r, White) = r
      BY <3>1, BehindAt
    <3>3. QED
      BY <3>2 DEF r
  <2>5. QED
    BY <1>3, <2>1, <2>3, <2>4 DEF SkipsTo, SkipWhite, Is
<1>4. QED
  BY <1>2, <1>3 DEF Boundary

\* A text stands in another one behind a place.
Stands(s, p, w) == p + Len(w) <= Len(s) /\ \A k \in 1..Len(w) : s[p + k] = w[k]

LEMMA StandsPart ==
  ASSUME NEW s \in Seq(Bytes), NEW p \in Nat, NEW w \in Seq(Bytes), Stands(s, p, w)
  PROVE  SubSeq(s, p + 1, p + Len(w)) = w
<1> DEFINE n == Len(w)
           u == SubSeq(s, p + 1, p + n)
<1>1. n \in Nat /\ Len(s) \in Nat /\ p + n <= Len(s) /\ \A k \in 1..n : s[p + k] = w[k]
  BY DEF Stands
<1> HIDE DEF n
<1>2. p + 1 \in Nat \ {0} /\ p + n \in Nat /\ p + n <= Len(s) /\ (p + n) - (p + 1) + 1 = n
      /\ (IF p + 1 <= p + n THEN (p + n) - (p + 1) + 1 ELSE 0) = n
  BY <1>1
<1>3. /\ u \in Seq(Bytes)
      /\ Len(u) = IF p + 1 <= p + n THEN (p + n) - (p + 1) + 1 ELSE 0
      /\ \A i \in 1..((p + n) - (p + 1) + 1) : u[i] = s[(p + 1) + i - 1]
  <2> DEFINE f == p + 1
             g == p + n
  <2>1. s \in Seq(Bytes) /\ f \in Nat \ {0} /\ g \in Nat /\ g <= Len(s)
    BY <1>2
  <2> HIDE DEF f, g
  <2>2. /\ SubSeq(s, f, g) \in Seq(Bytes)
        /\ Len(SubSeq(s, f, g)) = IF f <= g THEN g - f + 1 ELSE 0
        /\ \A i \in 1..(g - f + 1) : SubSeq(s, f, g)[i] = s[f + i - 1]
    BY <2>1, PartOf
  <2>3. QED
    BY <2>2 DEF f, g
<1> HIDE DEF u
<1>4. \A i \in 1..n : (p + 1) + i - 1 = p + i
  BY <1>1
<1>5. Len(u) = n /\ \A i \in 1..n : u[i] = w[i]
  BY <1>1, <1>2, <1>3, <1>4
<1>6. QED
  BY <1>3, <1>5, Same DEF u, n

\* Reading a key.
LEMMA KeyRead ==
  ASSUME NEW s \in Seq(Bytes), NEW x, NEW p \in Nat, SkipWhite(s, x) = p + 1,
         NEW k \in Seq(Bytes), Len(k) > 0,
         \A i \in 1..Len(k) : k[i] \notin Ends(FALSE), Stands(s, p, k),
         p + 1 + Len(k) <= Len(s) => s[p + 1 + Len(k)] \in Ends(FALSE)
  PROVE  Part(s, x) = NamePart(s, k, SkipWhite(s, p + 1 + Len(k)))
<1> DEFINE n == Len(k)
           b == p + 1
           e == b + n
<1>1. n \in Nat /\ n > 0 /\ Len(s) \in Nat /\ p \in Nat /\ p + n <= Len(s)
      /\ \A i \in 1..n : s[p + i] = k[i]
  BY DEF Stands
<1>2. SkipWhite(s, x) = b
  OBVIOUS
<1>3. WordEnd(s, b, FALSE) = e
  <2>1. b \in 1..(Len(s) + 1) /\ e \in (b + 1)..(Len(s) + 1) /\ FALSE \in BOOLEAN
    <3> HIDE DEF n
    <3>1. QED
      BY <1>1
  <2>2. \A j \in b..(e - 1) : s[j] \notin Ends(FALSE)
    <3> HIDE DEF n
    <3>1. \A j \in b..(e - 1) : j - p \in 1..n /\ p + (j - p) = j
      BY <1>1
    <3>2. \A i \in 1..n : s[p + i] \notin Ends(FALSE)
      BY <1>1 DEF n
    <3>3. QED
      BY <3>1, <3>2
  <2>3. e <= Len(s) => s[e] \in Ends(FALSE)
    OBVIOUS
  <2> HIDE DEF e, b
  <2>4. QED
    BY <2>1, <2>2, <2>3, WordEndIs
<1>4. SubSeq(s, b, e - 1) = k
  <2>1. e - 1 = p + n
    <3> HIDE DEF n
    <3>1. QED
      BY <1>1
  <2>2. SubSeq(s, p + 1, p + n) = k
    BY <1>1, StandsPart
  <2>3. QED
    BY <2>1, <2>2
<1> HIDE DEF n, b, e
<1>5. Part(s, x) = NamePart(s, k, SkipWhite(s, e))
  BY <1>2, <1>3, <1>4 DEF Part
<1>6. QED
  BY <1>5 DEF e, b, n

LEMMA BareRead ==
  ASSUME NEW s \in Seq(Bytes), NEW q, Boundary(s, q), NEW k
  PROVE  NamePart(s, k, SkipWhite(s, q)) = [parts |-> <<k>>, next |-> SkipsTo(s, q)]
<1>1. SkipWhite(s, q) = SkipsTo(s, q) /\ ~Is(s, SkipsTo(s, q), EqualSign)
  BY SkipIs
<1>2. QED
  BY <1>1 DEF NamePart

LEMMA EqualRead ==
  ASSUME NEW s \in Seq(Bytes), NEW e \in 1..Len(s), s[e] = EqualSign,
         e + 1 <= Len(s), s[e + 1] \notin White, NEW k
  PROVE  NamePart(s, k, SkipWhite(s, e)) = ValuePart(s, k, e + 1)
<1>1. EqualSign \notin White
  BY DEF EqualSign, White
<1>2. SkipWhite(s, e) = e
  <2>1. e \in 1..(Len(s) + 1) /\ e \in e..(Len(s) + 1) /\ s[e] \notin White
        /\ \A j \in e..(e - 1) : FALSE
    BY <1>1
  <2>2. QED
    BY <2>1, BehindAt DEF SkipWhite
<1>3. SkipWhite(s, e + 1) = e + 1
  <2> DEFINE r == e + 1
  <2>1. r \in 1..(Len(s) + 1) /\ r \in r..(Len(s) + 1) /\ s[r] \notin White
        /\ \A j \in r..(r - 1) : FALSE
    OBVIOUS
  <2> HIDE DEF r
  <2>2. SkipWhite(s, r) = r
    BY <2>1, BehindAt DEF SkipWhite
  <2>3. QED
    BY <2>2 DEF r
<1>4. Is(s, e, EqualSign)
  BY DEF Is
<1>5. QED
  BY <1>2, <1>3, <1>4 DEF NamePart

\* Reading a value that is one word.
LEMMA PlainRead ==
  ASSUME NEW s \in Seq(Bytes), NEW e \in 1..Len(s), NEW v, IsValue(v), Stands(s, e, v),
         e + 1 + Len(v) <= Len(s) => s[e + 1 + Len(v)] \in Ends(FALSE), NEW k
  PROVE  ValuePart(s, k, e + 1) = [parts |-> <<(k \o <<EqualSign>>) \o v>>, next |-> e + 1 + Len(v)]
<1> DEFINE n == Len(v)
           b == e + 1
           q == b + n
<1>1. v \in Seq(Bytes) /\ n \in Nat /\ n > 0 /\ Len(s) \in Nat /\ e \in Nat /\ e >= 1 /\ e + n <= Len(s)
      /\ (\A i \in 1..n : s[e + i] = v[i]) /\ v[1] # Quote /\ \A i \in 1..n : v[i] \notin Ends(FALSE)
  <2>1. v \in Seq(Bytes) /\ Len(v) > 0 /\ v[1] # Quote /\ \A i \in 1..Len(v) : v[i] \notin Ends(FALSE)
    BY DEF IsValue
  <2>2. Len(v) \in Nat
    BY <2>1
  <2>3. e + Len(v) <= Len(s) /\ \A i \in 1..Len(v) : s[e + i] = v[i]
    BY DEF Stands
  <2>4. Len(s) \in Nat /\ e \in Nat /\ e >= 1
    OBVIOUS
  <2>5. QED
    BY <2>1, <2>2, <2>3, <2>4
<1>2. ~Is(s, b, Quote)
  <2>1. 1 \in 1..n
    BY <1>1
  <2>2. s[e + 1] = v[1]
    BY <1>1, <2>1
  <2>3. QED
    BY <1>1, <2>2 DEF Is
<1>3. WordEnd(s, b, FALSE) = q
  <2>1. b \in 1..(Len(s) + 1) /\ q \in (b + 1)..(Len(s) + 1) /\ FALSE \in BOOLEAN
    <3> HIDE DEF n
    <3>1. QED
      BY <1>1
  <2>2. \A j \in b..(q - 1) : s[j] \notin Ends(FALSE)
    <3> HIDE DEF n
    <3>1. \A j \in b..(q - 1) : j - e \in 1..n /\ e + (j - e) = j
      BY <1>1
    <3>2. \A i \in 1..n : s[e + i] \notin Ends(FALSE)
      BY <1>1
    <3>3. QED
      BY <3>1, <3>2
  <2>3. q <= Len(s) => s[q] \in Ends(FALSE)
    OBVIOUS
  <2> HIDE DEF q, b
  <2>4. QED
    BY <2>1, <2>2, <2>3, WordEndIs
<1>4. SubSeq(s, b, q - 1) = v
  <2>1. q - 1 = e + n
    <3> HIDE DEF n
    <3>1. QED
      BY <1>1
  <2>2. SubSeq(s, e + 1, e + n) = v
    BY <1>1, StandsPart
  <2>3. QED
    BY <2>1, <2>2
<1> HIDE DEF n, b, q
<1>5. ValuePart(s, k, b) = [parts |-> <<(k \o <<EqualSign>>) \o v>>, next |-> q]
  BY <1>2, <1>3, <1>4 DEF ValuePart, PlainValue
<1>6. QED
  BY <1>5 DEF q, b, n

\* What is read of a value between quotes that open at e + 1: all of it with its
\* key, or nothing.
FromQuotes(s, k, v, e) ==
  LET all == v = <<EqualSign>> \/ ~Contains(v, EqualSign)
  IN /\ all => ValuePart(s, k, e + 1) =
          [parts |-> <<Append((k \o <<EqualSign, Quote>>) \o v, Quote)>>,
           next |-> e + 3 + Len(v)]
     /\ ~all => ValuePart(s, k, e + 1) =
          [parts |-> <<>>, next |-> SkipsTo(s, e + 3 + Len(v))]

LEMMA QuotedRead ==
  ASSUME NEW s \in Seq(Bytes), NEW e \in 1..Len(s), NEW v \in Seq(Bytes), Len(v) > 0,
         \A i \in 1..Len(v) : v[i] # Quote, Stands(s, e, Quoting(Quote, v)),
         Boundary(s, e + 3 + Len(v)), NEW k
  PROVE  FromQuotes(s, k, v, e)
<1> DEFINE n == Len(v)
           b == e + 1
           from == b + 1
           close == from + n
           q == e + 3 + n
           to == WordEnd(s, from, TRUE)
           u == Quoting(Quote, v)
           attribute(j) == (k \o <<EqualSign, Quote>>) \o SubSeq(s, from, j - 1)
           all == v = <<EqualSign>> \/ ~Contains(v, EqualSign)
<1>1. Quote \in Bytes /\ Quote \in Ends(TRUE) /\ EqualSign \in Ends(TRUE) /\ Quote # EqualSign
  BY DEF Quote, EqualSign, Ends, Bytes
<1>0. \A c : c \in Ends(TRUE) => c = Quote \/ c = EqualSign
  BY DEF Ends
<1>2. n \in Nat /\ n > 0 /\ Len(s) \in Nat /\ e \in Nat /\ e >= 1
  OBVIOUS
<1>3. /\ e + (n + 2) <= Len(s)
      /\ s[b] = Quote /\ s[close] = Quote
      /\ \A i \in 1..n : s[b + i] = v[i]
  <2>1. /\ Len(u) = n + 2 /\ u[1] = Quote /\ u[n + 2] = Quote
        /\ \A i \in 1..n : u[i + 1] = v[i]
    BY <1>1, QuotingIs
  <2>2. e + Len(u) <= Len(s) /\ \A i \in 1..Len(u) : s[e + i] = u[i]
    BY DEF Stands
  <2> HIDE DEF n, u
  <2>3. 1 \in 1..(n + 2) /\ n + 2 \in 1..(n + 2) /\ e + (n + 2) = close
    BY <1>2
  <2>4. \A i \in 1..n : i + 1 \in 1..(n + 2) /\ e + (i + 1) = b + i
    BY <1>2
  <2>5. \A i \in 1..n : s[b + i] = v[i]
    BY <2>1, <2>2, <2>4
  <2>6. s[b] = Quote /\ s[close] = Quote
    BY <2>1, <2>2, <2>3
  <2>7. e + (n + 2) <= Len(s)
    BY <2>1, <2>2
  <2>8. QED
    BY <2>5, <2>6, <2>7
<1>4. close \in 1..Len(s) /\ from \in 1..Len(s) /\ from \in 1..(Len(s) + 1) /\ q = close + 1
      /\ from < close /\ close \in (from + 1)..(Len(s) + 1)
  <2> HIDE DEF n
  <2>1. QED
    BY <1>2, <1>3
<1>5. \A i \in 1..n : from + i - 1 = b + i
  BY <1>2
<1>6. \A j \in from..(close - 1) : j - b \in 1..n /\ b + (j - b) = j
  <2> HIDE DEF n
  <2>1. QED
    BY <1>2
<1>7. \A j \in from..(close - 1) : s[j] = v[j - b] /\ s[j] # Quote
  <2>1. \A j \in from..(close - 1) : s[b + (j - b)] = v[j - b] /\ v[j - b] # Quote
    BY <1>3, <1>6
  <2>2. QED
    BY <1>6, <2>1
<1>8. ValuePart(s, k, b) = QuotedValue(s, k, from, to)
  <2>1. Is(s, b, Quote)
    BY <1>2, <1>3 DEF Is
  <2>2. QED
    BY <2>1 DEF ValuePart
<1>9. QuotedValue(s, k, from, to) =
        IF to <= Len(s) /\ ~Is(s, to, Quote) THEN Recover(s, to, attribute(to))
        ELSE [parts |-> <<Append(attribute(to), Quote)>>, next |-> to + 1]
  BY DEF QuotedValue
<1>10. SubSeq(s, from, close - 1) = v
  <2>1. Stands(s, b, v)
    <3>1. b + n <= Len(s)
      <4> HIDE DEF n
      <4>1. QED
        BY <1>2, <1>3
    <3>2. QED
      BY <1>3, <3>1 DEF Stands
  <2>2. b \in Nat /\ close - 1 = b + n /\ from = b + 1
    <3> HIDE DEF n
    <3>1. QED
      BY <1>2
  <2> HIDE DEF b, from, close
  <2>3. SubSeq(s, b + 1, b + Len(v)) = v
    BY <2>1, <2>2, StandsPart
  <2>4. QED
    BY <2>2, <2>3
<1>11. \/ \A j \in from..(close - 1) : s[j] # EqualSign
       \/ n = 1 /\ s[from] = EqualSign
       \/ /\ n > 1
          /\ \E m \in from..(close - 1) : s[m] = EqualSign /\ \A j \in from..(m - 1) : s[j] # EqualSign
  <2> DEFINE T == {j \in from..(close - 1) : s[j] = EqualSign}
  <2>1. CASE T = {}
    BY <2>1
  <2>2. CASE T # {}
    <3>1. T \subseteq Nat
      BY <1>2
    <3>2. PICK m \in T : \A j \in T : m <= j
      <4> HIDE DEF T
      <4>1. QED
        BY <2>2, <3>1, NatMin
    <3>3. m \in from..(close - 1) /\ s[m] = EqualSign
      BY <3>2
    <3>4. \A j \in from..(m - 1) : s[j] # EqualSign
      <4> HIDE DEF n
      <4>1. ASSUME NEW j \in from..(m - 1), s[j] = EqualSign PROVE FALSE
        <5>1. j \in T
          BY <1>2, <3>3, <4>1
        <5>2. m <= j
          BY <3>2, <5>1
        <5>3. QED
          BY <1>2, <3>3, <4>1, <5>2
      <4>2. QED
        BY <4>1
    <3>5. n = 1 => m = from
      <4> HIDE DEF n
      <4>1. QED
        BY <1>2, <3>3
    <3>6. n = 1 \/ n > 1
      <4> HIDE DEF n
      <4>1. QED
        BY <1>2
    <3>7. QED
      BY <3>3, <3>4, <3>5, <3>6
  <2>3. QED
    BY <2>1, <2>2
<1>12. v = <<EqualSign>> <=> n = 1 /\ s[from] = EqualSign
  <2>1. n = 1 => s[from] = v[1]
    BY <1>3
  <2>2. v = <<EqualSign>> <=> n = 1 /\ v[1] = EqualSign
    <3>1. ASSUME n = 1, v[1] = EqualSign PROVE v = <<EqualSign>>
      <4> DEFINE w == <<EqualSign>>
      <4>1. w \in Seq(Bytes) /\ Len(w) = 1 /\ w[1] = EqualSign
        BY DEF EqualSign, Bytes
      <4> HIDE DEF w
      <4>2. Len(v) = Len(w) /\ \A i \in 1..Len(v) : v[i] = w[i]
        <5>1. \A i \in 1..1 : i = 1
          OBVIOUS
        <5>2. QED
          BY <3>1, <4>1, <5>1
      <4>3. v = w
        BY <4>1, <4>2, Same
      <4>4. QED
        BY <4>3 DEF w
    <3>2. v = <<EqualSign>> => n = 1 /\ v[1] = EqualSign
      OBVIOUS
    <3>3. QED
      BY <3>1, <3>2
  <2>3. QED
    BY <2>1, <2>2
<1>13. Contains(v, EqualSign) <=> \E j \in from..(close - 1) : s[j] = EqualSign
  <2>1. \A i \in 1..n : b + i \in from..(close - 1)
    <3> HIDE DEF n
    <3>1. QED
      BY <1>2
  <2>2. (\E i \in 1..n : s[b + i] = EqualSign) <=> \E j \in from..(close - 1) : s[j] = EqualSign
    BY <1>3, <1>6, <1>7, <2>1
  <2>3. QED
    BY <1>3, <1>6, <1>7, <2>2 DEF Contains
<1>14. Boundary(s, q)
  OBVIOUS
<1> HIDE DEF n, b, from, close, q, to, attribute
<1>15. all => to = close
  <2>1. SUFFICES ASSUME all PROVE to = close
    OBVIOUS
  <2>2. CASE n = 1 /\ s[from] = EqualSign
    <3>0. from \in 1..(Len(s) + 1) /\ TRUE \in BOOLEAN /\ from <= Len(s) /\ s[from] \in Ends(TRUE)
      <4>1. from \in 1..(Len(s) + 1) /\ from <= Len(s)
        BY <1>2, <1>4
      <4>2. s[from] = EqualSign
        BY <2>2
      <4>3. s[from] \in Ends(TRUE)
        BY <1>1, <4>2
      <4>4. QED
        BY <4>1, <4>3
    <3>1. to = from + 1
      BY <3>0, WordEndIs DEF to
    <3>2. from + 1 = close
      BY <2>2 DEF close
    <3>3. QED
      BY <3>1, <3>2
  <2>3. CASE \A j \in from..(close - 1) : s[j] # EqualSign
    <3>1. \A j \in from..(close - 1) : s[j] \notin Ends(TRUE)
      <4>1. \A j \in from..(close - 1) : s[j] # Quote /\ s[j] # EqualSign
        BY <1>7, <2>3
      <4>2. QED
        BY <1>0, <4>1, Zenon
    <3>2. s[close] \in Ends(TRUE) /\ TRUE \in BOOLEAN
      BY <1>1, <1>3
    <3>3. QED
      BY <1>4, <3>1, <3>2, WordEndIs DEF to
  <2>4. QED
    BY <1>12, <1>13, <2>1, <2>2, <2>3
<1>16. all => ValuePart(s, k, b) = [parts |-> <<Append(attribute(close), Quote)>>, next |-> q]
  <2>1. SUFFICES ASSUME all
                 PROVE  ValuePart(s, k, b) =
                          [parts |-> <<Append(attribute(close), Quote)>>, next |-> q]
    OBVIOUS
  <2>2. Is(s, close, Quote) /\ to = close
    <3>1. close <= Len(s)
      BY <1>4
    <3>2. QED
      BY <1>3, <1>15, <2>1, <3>1 DEF Is
  <2>3. QED
    BY <1>4, <1>8, <1>9, <2>2
<1>17. attribute(close) = (k \o <<EqualSign, Quote>>) \o v
  BY <1>10 DEF attribute
<1>18. ~all => to \in from..(close - 1) /\ s[to] # Quote
  <2>1. SUFFICES ASSUME ~all PROVE to \in from..(close - 1) /\ s[to] # Quote
    OBVIOUS
  <2>2. n > 1
    BY <1>11, <1>12, <1>13, <2>1
  <2>3. PICK m \in from..(close - 1) : s[m] = EqualSign /\ \A j \in from..(m - 1) : s[j] # EqualSign
    BY <1>11, <1>12, <1>13, <2>1
  <2>4. from \in Nat /\ close \in Nat /\ close = from + n /\ m \in Nat
    BY <1>2, <1>4, <2>3 DEF close
  <2>5. CASE m = from
    <3>0. from \in 1..(Len(s) + 1) /\ TRUE \in BOOLEAN /\ from <= Len(s) /\ s[from] \in Ends(TRUE)
      <4>1. from \in 1..(Len(s) + 1) /\ from <= Len(s)
        BY <1>2, <1>4
      <4>2. s[from] = EqualSign
        BY <2>3, <2>5
      <4>3. s[from] \in Ends(TRUE)
        BY <1>1, <4>2
      <4>4. QED
        BY <4>1, <4>3
    <3>1. to = from + 1
      BY <3>0, WordEndIs DEF to
    <3>2. from + 1 \in from..(close - 1)
      BY <1>2, <2>2, <2>4
    <3>3. QED
      BY <1>7, <3>1, <3>2
  <2>6. CASE m # from
    <3>1. m \in (from + 1)..(Len(s) + 1) /\ \A j \in from..(m - 1) : j \in from..(close - 1)
      BY <1>2, <1>4, <2>3, <2>4, <2>6
    <3>2. \A j \in from..(m - 1) : s[j] \notin Ends(TRUE)
      BY <1>0, <1>7, <2>3, <3>1
    <3>3. s[m] \in Ends(TRUE) /\ TRUE \in BOOLEAN
      BY <1>1, <2>3
    <3>4. to = m
      BY <1>4, <3>1, <3>2, <3>3, WordEndIs DEF to
    <3>5. QED
      BY <1>7, <2>3, <3>4
  <2>7. QED
    BY <2>5, <2>6
<1>19. ~all => ValuePart(s, k, b) = [parts |-> <<>>, next |-> SkipsTo(s, q)]
  <2>1. SUFFICES ASSUME ~all PROVE ValuePart(s, k, b) = [parts |-> <<>>, next |-> SkipsTo(s, q)]
    OBVIOUS
  <2>2. to \in from..(close - 1) /\ s[to] # Quote
    BY <1>18, <2>1
  <2>3. /\ from \in Nat /\ from >= 1 /\ close \in Nat /\ close <= Len(s)
        /\ to \in Nat /\ from <= to /\ to < close
    BY <1>4, <2>2
  <2>4. /\ to <= Len(s) /\ to \in Nat \ {0} /\ close \in to..Len(s)
        /\ \A j \in to..(close - 1) : j \in from..(close - 1)
    BY <1>2, <2>3
  <2>5. ~Is(s, to, Quote)
    BY <2>2 DEF Is
  <2>6. Find(s, <<Quote>>, to) = close
    <3>1. \A j \in to..(close - 1) : s[j] # Quote
      BY <1>7, <2>4
    <3>2. QED
      BY <1>1, <1>3, <2>4, <3>1, FoundSign
  <2>7. close # None
    BY <2>3, NoneAssumption
  <2>8. SkipWhite(s, close + 1) = SkipsTo(s, q)
    BY <1>4, <1>14, SkipIs
  <2>9. Recover(s, to, attribute(to)) = [parts |-> <<>>, next |-> SkipsTo(s, q)]
    BY <2>6, <2>7, <2>8 DEF Recover
  <2>10. QED
    BY <1>8, <1>9, <2>4, <2>5, <2>9
<1>20. QED
  BY <1>16, <1>17, <1>19 DEF FromQuotes, b, q, n

LEMMA StandsJoined ==
  ASSUME NEW s \in Seq(Bytes), NEW p \in Nat, NEW x \in Seq(Bytes), NEW y \in Seq(Bytes),
         Stands(s, p, x \o y)
  PROVE  Stands(s, p, x) /\ Stands(s, p + Len(x), y) /\ Len(x \o y) = Len(x) + Len(y)
<1> DEFINE u == x \o y
           m == Len(x)
           n == Len(y)
<1>1. /\ Len(u) = m + n /\ (\A i \in 1..m : u[i] = x[i])
      /\ \A i \in 1..n : u[m + i] = y[i]
  BY Joined
<1>2. p + Len(u) <= Len(s) /\ \A k \in 1..Len(u) : s[p + k] = u[k]
  BY DEF Stands
<1>3. m \in Nat /\ n \in Nat /\ Len(s) \in Nat
  OBVIOUS
<1> HIDE DEF u, m, n
<1>4. /\ \A k \in 1..m : k \in 1..(m + n)
      /\ \A k \in 1..n : m + k \in 1..(m + n) /\ (p + m) + k = p + (m + k)
  BY <1>3
<1>5. p + m <= Len(s) /\ p + m + n <= Len(s)
  BY <1>1, <1>2, <1>3
<1>6. (\A k \in 1..m : s[p + k] = x[k]) /\ \A k \in 1..n : s[(p + m) + k] = y[k]
  BY <1>1, <1>2, <1>4
<1>7. QED
  BY <1>1, <1>5, <1>6 DEF Stands, m, n, u

LEMMA PairIs ==
  ASSUME NEW S, NEW x \in S, NEW y \in S
  PROVE  <<x, y>> = <<x>> \o <<y>>
<1> DEFINE a == <<x>>
           b == <<y>>
           c == <<x, y>>
<1>1. /\ a \in Seq(S) /\ b \in Seq(S) /\ c \in Seq(S) /\ Len(a) = 1 /\ Len(b) = 1 /\ Len(c) = 2
      /\ a[1] = x /\ b[1] = y /\ c[1] = x /\ c[2] = y
  OBVIOUS
<1> HIDE DEF a, b, c
<1>2. \A i \in 1..Len(a) : c[i] = a[i]
  BY <1>1
<1>3. \A i \in 1..Len(b) : c[Len(a) + i] = b[i]
  <2>1. \A i \in 1..Len(b) : Len(a) + i = 2 /\ i = 1
    BY <1>1
  <2>2. QED
    BY <1>1, <2>1
<1>4. Len(c) = Len(a) + Len(b)
  BY <1>1
<1>5. a \o b = c
  BY <1>1, <1>2, <1>3, <1>4, JoinedIs
<1>6. QED
  BY <1>5 DEF a, b, c

LEMMA QuotedWritten ==
  ASSUME NEW k \in Seq(Bytes), NEW v \in Seq(Bytes)
  PROVE  /\ Append((k \o <<EqualSign, Quote>>) \o v, Quote) = k \o (<<EqualSign>> \o Quoting(Quote, v))
         /\ (k \o <<EqualSign>>) \o v = k \o (<<EqualSign>> \o v)
<1> DEFINE e == <<EqualSign>>
           b == <<Quote>>
           d == <<EqualSign, Quote>>
<1>1. {EqualSign, Quote} \subseteq Bytes
  BY DEF EqualSign, Quote, Bytes
<1>2. e \in Seq(Bytes) /\ b \in Seq(Bytes) /\ d \in Seq(Bytes) /\ d = e \o b
  <2>1. e \in Seq(Bytes) /\ b \in Seq(Bytes) /\ d \in Seq(Bytes)
    BY <1>1
  <2>2. d = e \o b
    <3>1. EqualSign \in Bytes /\ Quote \in Bytes
      BY <1>1
    <3>2. QED
      BY <3>1, PairIs
  <2>3. QED
    BY <2>1, <2>2
<1>3. \A x, y \in Seq(Bytes) : x \o y \in Seq(Bytes)
  BY JoinType DEF SeqJoin
<1>5. \A x \in Seq(Bytes) : Append(x, Quote) = x \o b
  BY <1>1
<1>6. <<EqualSign, Quote>> = d /\ <<EqualSign>> = e
  OBVIOUS
<1>7. Quoting(Quote, v) = (b \o v) \o b
  BY DEF Quoting
<1> HIDE DEF e, b, d
<1>8. k \in Seq(Bytes) /\ v \in Seq(Bytes) /\ e \in Seq(Bytes) /\ b \in Seq(Bytes) /\ d \in Seq(Bytes)
  BY <1>2
<1>9. k \o d \in Seq(Bytes) /\ (k \o d) \o v \in Seq(Bytes)
  BY <1>3, <1>8, Zenon
<1>10. b \o v \in Seq(Bytes) /\ (b \o v) \o b \in Seq(Bytes) /\ v \o b \in Seq(Bytes)
       /\ e \o ((b \o v) \o b) \in Seq(Bytes) /\ d \o v \in Seq(Bytes)
  <2>1. b \o v \in Seq(Bytes) /\ v \o b \in Seq(Bytes) /\ d \o v \in Seq(Bytes)
    BY <1>3, <1>8, Zenon
  <2>2. (b \o v) \o b \in Seq(Bytes)
    BY <1>3, <1>8, <2>1, Zenon
  <2>3. e \o ((b \o v) \o b) \in Seq(Bytes)
    BY <1>3, <1>8, <2>2, Zenon
  <2>4. QED
    BY <2>1, <2>2, <2>3
<1>20. b \o v \in Seq(Bytes)
  BY <1>10
<1>21. d \o v \in Seq(Bytes)
  BY <1>10
<1>11. Append((k \o d) \o v, Quote) = ((k \o d) \o v) \o b
  BY <1>5, <1>9, Zenon
<1>12. (k \o d) \o v = k \o (d \o v)
  <2>1. k \in Seq(Bytes) /\ d \in Seq(Bytes) /\ v \in Seq(Bytes)
    BY <1>8
  <2>2. QED
    BY <2>1, BytesRegrouped
<1>13. (k \o (d \o v)) \o b = k \o ((d \o v) \o b)
  <2> DEFINE z == d \o v
  <2>1. k \in Seq(Bytes) /\ z \in Seq(Bytes) /\ b \in Seq(Bytes)
    BY <1>8, <1>21
  <2> HIDE DEF z
  <2>2. (k \o z) \o b = k \o (z \o b)
    BY <2>1, BytesRegrouped
  <2>3. QED
    BY <2>2 DEF z
<1>14. (e \o b) \o v = e \o (b \o v)
  <2>1. e \in Seq(Bytes) /\ b \in Seq(Bytes) /\ v \in Seq(Bytes)
    BY <1>8
  <2>2. QED
    BY <2>1, BytesRegrouped
<1>15. (e \o (b \o v)) \o b = e \o ((b \o v) \o b)
  <2> DEFINE z == b \o v
  <2>1. e \in Seq(Bytes) /\ z \in Seq(Bytes) /\ b \in Seq(Bytes)
    BY <1>8, <1>20
  <2> HIDE DEF z
  <2>2. (e \o z) \o b = e \o (z \o b)
    <3>1. \A x, y \in Seq(Bytes) : (e \o x) \o y = e \o (x \o y)
      BY <2>1, BytesRegrouped, Zenon
    <3>2. \A y \in Seq(Bytes) : (e \o z) \o y = e \o (z \o y)
      BY <2>1, <3>1, Zenon
    <3>3. QED
      BY <2>1, <3>2, Zenon
  <2>3. QED
    BY <2>2 DEF z
<1>16. (d \o v) \o b = e \o ((b \o v) \o b)
  BY <1>2, <1>14, <1>15, Zenon
<1>17. Append((k \o d) \o v, Quote) = k \o (e \o ((b \o v) \o b))
  BY <1>11, <1>12, <1>13, <1>16, Zenon
<1>18. (k \o e) \o v = k \o (e \o v)
  <2>1. k \in Seq(Bytes) /\ e \in Seq(Bytes) /\ v \in Seq(Bytes)
    BY <1>8
  <2>2. QED
    BY <2>1, BytesRegrouped
<1>19. QED
  BY <1>6, <1>7, <1>17, <1>18

\* One attribute is one part, as it was written, unless it is lost.
LEMMA AttributeRead ==
  ASSUME NEW s \in Seq(Bytes), NEW p \in 1..Len(s), Boundary(s, p), NEW a, Attr(a),
         a.form = "quoted" => a.value # <<>>, NEW w, w = WriteAttribute(a), Stands(s, p, w),
         NEW q, q = p + 1 + Len(w), Boundary(s, q)
  PROVE  /\ Part(s, p).parts = IF IsLost(a) THEN <<>> ELSE <<w>>
         /\ Part(s, p).next \in {q, SkipsTo(s, q)}
<1> DEFINE k == a.key
           v == a.value
           n == Len(k)
           e == p + 1 + n
           eq == <<EqualSign>>
<1>1. k \in Seq(Bytes) /\ n > 0 /\ n \in Nat /\ (\A i \in 1..Len(k) : k[i] \notin Ends(FALSE))
      /\ p \in Nat /\ p >= 1 /\ Len(s) \in Nat
  <2>1. k \in Seq(Bytes) /\ Len(k) > 0 /\ \A i \in 1..Len(k) : k[i] \notin Ends(FALSE)
    BY FormIs
  <2>2. Len(k) \in Nat
    BY <2>1
  <2>3. p \in Nat /\ p >= 1 /\ Len(s) \in Nat
    OBVIOUS
  <2>4. QED
    BY <2>1, <2>2, <2>3
<1>2. /\ eq \in Seq(Bytes) /\ Len(eq) = 1 /\ eq[1] = EqualSign
      /\ EqualSign \in Ends(FALSE) /\ Space \in Ends(FALSE)
      /\ {Quote, Apostrophe} \cap White = {} /\ White \subseteq Ends(FALSE)
  BY DEF EqualSign, Space, Quote, Apostrophe, White, Ends, Bytes
<1>3. q <= Len(s) => s[q] \in Ends(FALSE)
  <2>1. CASE q = Len(s) + 1
    BY <1>1, <2>1
  <2>2. CASE s[q] = Space
    BY <1>2, <2>2
  <2>3. QED
    BY <2>1, <2>2 DEF Boundary
<1>4. a.form \in Forms
  BY DEF Attr
<1>13. SkipWhite(s, p) = p + 1
  <2>1. p # Len(s) + 1
    BY <1>1
  <2>2. QED
    BY <2>1, SkipIs DEF SkipsTo
<1> HIDE DEF eq
<1>5. CASE a.form = "bare"
  <2>1. w = k /\ ~IsLost(a)
    BY <1>5, FormIs DEF IsLost
  <2>2. q = e /\ Stands(s, p, k)
    BY <2>1
  <2> HIDE DEF e, n
  <2>3. Part(s, p) = NamePart(s, k, SkipWhite(s, e))
    BY <1>1, <1>3, <1>13, <2>2, KeyRead DEF e, n
  <2>4. NamePart(s, k, SkipWhite(s, q)) = [parts |-> <<k>>, next |-> SkipsTo(s, q)]
    BY BareRead
  <2>5. Part(s, p).parts = <<k>> /\ Part(s, p).next = SkipsTo(s, q)
    BY <2>2, <2>3, <2>4
  <2>6. QED
    BY <2>1, <2>5
<1>6. ASSUME NEW x \in Seq(Bytes), w = k \o (eq \o x), Len(x) > 0, x[1] \notin White
      PROVE  /\ e \in 1..Len(s) /\ Stands(s, e, x) /\ q = e + 1 + Len(x)
             /\ Part(s, p) = ValuePart(s, k, e + 1)
  <2>1. eq \o x \in Seq(Bytes)
    BY <1>2, <1>6, JoinType DEF SeqJoin
  <2>2. Stands(s, p, k) /\ Stands(s, p + n, eq \o x) /\ Len(w) = n + Len(eq \o x)
    <3>1. p \in Nat /\ k \in Seq(Bytes) /\ eq \o x \in Seq(Bytes)
      BY <1>1, <2>1
    <3>2. Stands(s, p, k \o (eq \o x))
      BY <1>6
    <3> DEFINE y == eq \o x
    <3>3. y \in Seq(Bytes) /\ p \in Nat /\ Stands(s, p, k \o y) /\ k \in Seq(Bytes)
      BY <3>1, <3>2
    <3> HIDE DEF y, k
    <3>4. Stands(s, p, k) /\ Stands(s, p + Len(k), y) /\ Len(k \o y) = Len(k) + Len(y)
      BY <3>3, StandsJoined
    <3>5. QED
      BY <1>6, <3>4 DEF y
  <2>3. Stands(s, p + n, eq) /\ Stands(s, p + n + 1, x) /\ Len(eq \o x) = 1 + Len(x)
    <3>1. p + n \in Nat
      BY <1>1
    <3>2. eq \in Seq(Bytes) /\ x \in Seq(Bytes) /\ Stands(s, p + n, eq \o x)
      BY <1>2, <2>2
    <3> DEFINE r == p + n
    <3>3. r \in Nat /\ Stands(s, r, eq \o x)
      BY <3>1, <3>2
    <3> HIDE DEF r, n
    <3>4. Stands(s, r, eq) /\ Stands(s, r + Len(eq), x) /\ Len(eq \o x) = Len(eq) + Len(x)
      BY <3>2, <3>3, StandsJoined
    <3>5. QED
      BY <1>2, <3>4 DEF r
  <2>4. Len(x) \in Nat
    BY <1>6
  <2> HIDE DEF n
  <2>5. q = e + 1 + Len(x) /\ p + n + 1 = e
    <3>1. Len(w) = n + (1 + Len(x)) /\ n \in Nat /\ p \in Nat
      BY <1>1, <2>2, <2>3 DEF n
    <3>2. q = p + 1 + Len(w)
      OBVIOUS
    <3>3. QED
      BY <2>4, <3>1, <3>2
  <2>6. s[e] = EqualSign
    <3>1. 1 \in 1..Len(eq) /\ (p + n) + 1 = e
      BY <1>1, <1>2
    <3>2. s[(p + n) + 1] = eq[1]
      BY <2>3, <3>1 DEF Stands
    <3>3. QED
      BY <1>2, <3>1, <3>2
  <2>7. e + Len(x) <= Len(s) /\ s[e + 1] = x[1] /\ Stands(s, e, x)
    <3>1. 1 \in 1..Len(x)
      BY <1>6, <2>4
    <3>2. QED
      BY <2>3, <2>5, <3>1 DEF Stands
  <2>8. e \in 1..Len(s) /\ e + 1 <= Len(s)
    BY <1>1, <1>6, <2>4, <2>7
  <2>12. p + 1 + Len(k) <= Len(s) => s[p + 1 + Len(k)] \in Ends(FALSE)
    BY <1>2, <2>6 DEF n
  <2>9. Part(s, p) = NamePart(s, k, SkipWhite(s, e))
    <3>1. p \in Nat /\ k \in Seq(Bytes) /\ Len(k) > 0 /\ \A i \in 1..Len(k) : k[i] \notin Ends(FALSE)
      BY <1>1 DEF n
    <3> HIDE DEF k
    <3>2. Part(s, p) = NamePart(s, k, SkipWhite(s, p + 1 + Len(k)))
      BY <1>13, <2>2, <2>12, <3>1, KeyRead
    <3>3. QED
      BY <3>2 DEF n
  <2> HIDE DEF e
  <2>10. NamePart(s, k, SkipWhite(s, e)) = ValuePart(s, k, e + 1)
    BY <1>6, <2>6, <2>7, <2>8, EqualRead
  <2>11. QED
    BY <2>5, <2>7, <2>8, <2>9, <2>10
<1> HIDE DEF e, n
<1>7. ASSUME NEW x, IsValue(x), w = k \o (eq \o x)
      PROVE  Part(s, p) = [parts |-> <<w>>, next |-> q]
  <2>1. x \in Seq(Bytes) /\ Len(x) > 0 /\ x[1] \notin White
    <3>1. x \in Seq(Bytes) /\ Len(x) > 0 /\ \A i \in 1..Len(x) : x[i] \notin Ends(FALSE)
      BY <1>7 DEF IsValue
    <3>2. 1 \in 1..Len(x)
      BY <3>1
    <3>3. QED
      BY <1>2, <3>1, <3>2
  <2>2. /\ e \in 1..Len(s) /\ Stands(s, e, x) /\ q = e + 1 + Len(x)
        /\ Part(s, p) = ValuePart(s, k, e + 1)
    BY <1>6, <1>7, <2>1
  <2>3. ValuePart(s, k, e + 1) = [parts |-> <<(k \o <<EqualSign>>) \o x>>, next |-> e + 1 + Len(x)]
    BY <1>3, <1>7, <2>2, PlainRead
  <2>4. (k \o <<EqualSign>>) \o x = w
    BY <1>1, <1>7, <2>1, QuotedWritten DEF eq
  <2>5. QED
    BY <2>2, <2>3, <2>4
<1>8. ASSUME a.form # "quoted" PROVE ~IsLost(a)
  BY <1>8 DEF IsLost
<1>9. CASE a.form = "plain"
  <2>1. IsValue(v) /\ w = k \o (eq \o v)
    BY <1>9, FormIs DEF eq
  <2>2. Part(s, p) = [parts |-> <<w>>, next |-> q]
    BY <1>7, <2>1
  <2>3. ~IsLost(a)
    BY <1>8, <1>9
  <2>4. QED
    BY <2>2, <2>3
<1>10. CASE a.form = "single"
  <2>1. IsValue(Quoting(Apostrophe, v)) /\ w = k \o (eq \o Quoting(Apostrophe, v))
    BY <1>10, FormIs DEF eq
  <2>2. Part(s, p) = [parts |-> <<w>>, next |-> q]
    BY <1>7, <2>1
  <2>3. ~IsLost(a)
    BY <1>8, <1>10
  <2>4. QED
    BY <2>2, <2>3
<1>11. CASE a.form = "quoted"
  <2> DEFINE x == Quoting(Quote, v)
             all == v = <<EqualSign>> \/ ~Contains(v, EqualSign)
  <2>1. v \in Seq(Bytes) /\ (\A i \in 1..Len(v) : v[i] # Quote) /\ w = k \o (eq \o x)
    BY <1>11, FormIs DEF eq
  <2>2. Len(v) > 0 /\ Len(v) \in Nat
    <3>1. v # <<>>
      BY <1>11
    <3>2. Len(v) # 0 /\ Len(v) \in Nat
      BY <2>1, <3>1, EmptySeq
    <3>3. QED
      BY <3>2
  <2>3. x \in Seq(Bytes) /\ Len(x) = Len(v) + 2 /\ x[1] = Quote
    <3>1. Quote \in Bytes
      BY DEF Quote, Bytes
    <3>2. QED
      BY <2>1, <3>1, QuotingIs
  <2> HIDE DEF x
  <2>4. x[1] \notin White /\ Len(x) > 0
    BY <1>2, <2>2, <2>3
  <2>5. /\ e \in 1..Len(s) /\ Stands(s, e, x) /\ q = e + 1 + Len(x)
        /\ Part(s, p) = ValuePart(s, k, e + 1)
    BY <1>6, <2>1, <2>3, <2>4
  <2>6. q = e + 3 + Len(v)
    <3>1. e \in Nat /\ q = e + 1 + (Len(v) + 2)
      <4>1. e \in 1..Len(s) /\ q = e + 1 + Len(x) /\ Len(x) = Len(v) + 2
        BY <2>3, <2>5
      <4> HIDE DEF e, v
      <4>2. QED
        BY <4>1
    <3>2. \A i, j \in Nat : i + 1 + (j + 2) = i + 3 + j
      OBVIOUS
    <3>3. Len(v) \in Nat
      BY <2>2
    <3> HIDE DEF v
    <3>4. e + 1 + (Len(v) + 2) = e + 3 + Len(v)
      BY <3>1, <3>2, <3>3
    <3>5. QED
      BY <3>1, <3>4
  <2>7. Stands(s, e, Quoting(Quote, v)) /\ Boundary(s, e + 3 + Len(v))
    BY <2>5, <2>6 DEF x
  <2> DEFINE y == Append((k \o <<EqualSign, Quote>>) \o v, Quote)
  <2>8. /\ all => ValuePart(s, k, e + 1) = [parts |-> <<y>>, next |-> q]
        /\ ~all => ValuePart(s, k, e + 1) = [parts |-> <<>>, next |-> SkipsTo(s, q)]
    <3>1. v \in Seq(Bytes) /\ Len(v) > 0 /\ e \in 1..Len(s) /\ \A i \in 1..Len(v) : v[i] # Quote
      BY <2>1, <2>2, <2>5
    <3>2. /\ all => ValuePart(s, k, e + 1) = [parts |-> <<y>>, next |-> e + 3 + Len(v)]
          /\ ~all => ValuePart(s, k, e + 1) = [parts |-> <<>>, next |-> SkipsTo(s, e + 3 + Len(v))]
      <4>1. Stands(s, e, Quoting(Quote, v)) /\ Boundary(s, e + 3 + Len(v)) /\ k \in Seq(Bytes)
        BY <1>1, <2>7
      <4> HIDE DEF k, v, e
      <4>2. FromQuotes(s, k, v, e)
        BY <3>1, <4>1, QuotedRead
      <4>3. QED
        BY <4>2 DEF FromQuotes
    <3>3. QED
      BY <2>6, <3>2
  <2>9. y = w
    BY <1>1, <2>1, QuotedWritten DEF x, eq
  <2>10. IsLost(a) <=> ~all
    BY <1>11 DEF IsLost
  <2> HIDE DEF y, all
  <2>11. QED
    BY <2>5, <2>8, <2>9, <2>10
<1>12. QED
  BY <1>4, <1>5, <1>9, <1>10, <1>11 DEF Forms

\* Where each sequence stands when they are put together.
Placed(at, ss, s) ==
  /\ at \in [1..(Len(ss) + 1) -> Nat] /\ at[1] = 0 /\ at[Len(ss) + 1] = Len(s)
  /\ \A i \in 1..Len(ss) : at[i + 1] = at[i] + Len(ss[i]) /\ Stands(s, at[i], ss[i])

LEMMA FlattenPlaces ==
  ASSUME NEW ss \in Seq(Seq(Bytes))
  PROVE  \E at : Placed(at, ss, FlattenSeq(ss))
<1> DEFINE Q == Seq(Bytes)
           T == {n \in Nat : \A xs \in Seq(Q) : Len(xs) = n => \E at : Placed(at, xs, FlattenSeq(xs))}
<1>1. 0 \in T
  <2>1. ASSUME NEW xs \in Seq(Q), Len(xs) = 0 PROVE \E at : Placed(at, xs, FlattenSeq(xs))
    <3>1. xs = <<>>
      <4> HIDE DEF Q
      <4>1. QED
        BY <2>1, EmptySeq
    <3>2. FlattenSeq(xs) = <<>>
      BY <3>1, FlattenEmpty
    <3> DEFINE at == [i \in 1..1 |-> 0]
    <3>3. at \in [1..1 -> Nat] /\ at[1] = 0
      OBVIOUS
    <3>4. Len(FlattenSeq(xs)) = 0 /\ Len(xs) + 1 = 1 /\ 1..Len(xs) = {}
      BY <2>1, <3>2
    <3> HIDE DEF at
    <3>5. Placed(at, xs, FlattenSeq(xs))
      BY <3>3, <3>4 DEF Placed
    <3>6. QED
      BY <3>5
  <2>2. QED
    BY <2>1
<1>2. ASSUME NEW n \in Nat, n \in T PROVE n + 1 \in T
  <2>1. ASSUME NEW xs \in Seq(Q), Len(xs) = n + 1 PROVE \E at : Placed(at, xs, FlattenSeq(xs))
    <3>1. PICK ys \in Seq(Q), x \in Q : xs = Append(ys, x) /\ Len(ys) = n
          /\ (\A i \in 1..n : xs[i] = ys[i]) /\ xs[n + 1] = x
      <4> DEFINE ys == SubSeq(xs, 1, n)
                 x == xs[n + 1]
      <4>1. ys \in Seq(Q) /\ x \in Q /\ Len(ys) = n /\ \A i \in 1..n : xs[i] = ys[i]
        <5> HIDE DEF Q
        <5>1. 1 \in Nat \ {0} /\ n <= Len(xs) /\ n - 1 + 1 = n /\ (IF 1 <= n THEN n - 1 + 1 ELSE 0) = n
              /\ \A i \in 1..n : 1 + i - 1 = i
          BY <2>1
        <5>2. /\ ys \in Seq(Q) /\ Len(ys) = IF 1 <= n THEN n - 1 + 1 ELSE 0
              /\ \A i \in 1..(n - 1 + 1) : ys[i] = xs[1 + i - 1]
          BY <5>1, PartOf
        <5>3. n + 1 \in 1..Len(xs)
          BY <2>1
        <5>4. x \in Q
          BY <5>3, ElementOfSeq
        <5>5. QED
          BY <5>1, <5>2, <5>4
      <4>2. xs = Append(ys, x)
        <5> DEFINE z == Append(ys, x)
        <5>1. z \in Seq(Q) /\ Len(z) = n + 1 /\ (\A i \in 1..n : z[i] = ys[i]) /\ z[n + 1] = x
          <6> HIDE DEF Q, ys, x
          <6>1. QED
            BY <4>1
        <5>2. \A i \in 1..(n + 1) : i \in 1..n \/ i = n + 1
          OBVIOUS
        <5> HIDE DEF z, ys
        <5>3. \A i \in 1..(n + 1) : xs[i] = z[i]
          BY <4>1, <5>1, <5>2
        <5> HIDE DEF Q
        <5>4. QED
          BY <2>1, <5>1, <5>3, Same DEF z
      <4>3. QED
        BY <4>1, <4>2
    <3>2. PICK at : Placed(at, ys, FlattenSeq(ys))
      BY <1>2, <3>1
    <3> DEFINE u == FlattenSeq(ys)
               v == FlattenSeq(xs)
               l == Len(x)
               new == [i \in 1..(n + 2) |-> IF i = n + 2 THEN at[n + 1] + l ELSE at[i]]
    <3>3. u \in Q /\ v = u \o x
      BY <3>1, FlattenAppend
    <3>4. x \in Q /\ l \in Nat
      BY <3>1
    <3> HIDE DEF u, v
    <3>5. /\ v \in Q /\ Len(v) = Len(u) + l /\ (\A i \in 1..Len(u) : v[i] = u[i])
          /\ \A i \in 1..l : v[Len(u) + i] = x[i]
      BY <3>3, <3>4, Joined
    <3>6. /\ at \in [1..(n + 1) -> Nat] /\ at[1] = 0 /\ at[n + 1] = Len(u)
          /\ \A i \in 1..n : at[i + 1] = at[i] + Len(ys[i]) /\ Stands(u, at[i], ys[i])
      BY <3>1, <3>2 DEF Placed, u
    <3> HIDE DEF l
    <3>7. new \in [1..(n + 2) -> Nat] /\ new[1] = 0 /\ new[n + 2] = Len(v)
          /\ new[n + 2] = new[n + 1] + l /\ new[n + 1] = Len(u) /\ \A i \in 1..(n + 1) : new[i] = at[i]
      <4>1. n + 1 \in 1..(n + 1) /\ n + 2 \in 1..(n + 2) /\ 1 \in 1..(n + 1)
            /\ \A i \in 1..(n + 1) : i \in 1..(n + 2) /\ i # n + 2
        OBVIOUS
      <4>2. \A i \in 1..(n + 1) : at[i] \in Nat
        BY <3>6
      <4>3. \A i \in 1..(n + 1) : new[i] = at[i]
        BY <4>1
      <4>4. new[n + 2] = at[n + 1] + l
        BY <4>1
      <4>5. new \in [1..(n + 2) -> Nat]
        <5>1. \A i \in 1..(n + 2) : i = n + 2 \/ i \in 1..(n + 1)
          OBVIOUS
        <5>2. at[n + 1] + l \in Nat
          BY <3>4, <4>1, <4>2
        <5>3. QED
          BY <4>2, <5>1, <5>2
      <4> HIDE DEF new
      <4>6. QED
        BY <3>5, <3>6, <4>1, <4>3, <4>4, <4>5
    <3> HIDE DEF new
    <3>8. ASSUME NEW i \in 1..n PROVE new[i + 1] = new[i] + Len(xs[i]) /\ Stands(v, new[i], xs[i])
      <4>1. i \in 1..(n + 1) /\ i + 1 \in 1..(n + 1) /\ xs[i] = ys[i] /\ ys[i] \in Q
        <5>1. ys[i] \in Q
          <6> HIDE DEF Q
          <6>1. i \in 1..Len(ys)
            BY <3>1
          <6>2. QED
            BY <3>1, <6>1, ElementOfSeq
        <5>2. QED
          BY <3>1, <5>1
      <4>2. new[i] = at[i] /\ new[i + 1] = at[i + 1]
        BY <3>7, <4>1
      <4>3. at[i] + Len(ys[i]) <= Len(u) /\ \A k \in 1..Len(ys[i]) : u[at[i] + k] = ys[i][k]
        <5>1. Stands(u, at[i], ys[i])
          BY <3>6
        <5>2. QED
          BY <5>1 DEF Stands
      <4>4. at[i] \in Nat /\ Len(ys[i]) \in Nat /\ Len(u) \in Nat
        <5>1. at[i] \in Nat
          BY <3>6, <4>1
        <5>2. Len(ys[i]) \in Nat
          BY <4>1
        <5>3. Len(u) \in Nat
          BY <3>3
        <5>4. QED
          BY <5>1, <5>2, <5>3
      <4>5. \A k \in 1..Len(ys[i]) : at[i] + k \in 1..Len(u)
        BY <4>3, <4>4
      <4>6. at[i] + Len(ys[i]) <= Len(v)
        BY <3>4, <3>5, <4>3, <4>4
      <4>7. \A k \in 1..Len(ys[i]) : v[at[i] + k] = ys[i][k]
        BY <3>5, <4>3, <4>5
      <4>8. QED
        BY <3>6, <4>1, <4>2, <4>6, <4>7 DEF Stands
    <3>9. Stands(v, new[n + 1], x)
      <4>1. Len(u) \in Nat
        BY <3>3
      <4>2. QED
        BY <3>4, <3>5, <3>7, <4>1 DEF Stands, l
    <3>10. Placed(new, xs, v)
      <4>1. \A i \in 1..Len(xs) : i \in 1..n \/ i = n + 1
        BY <2>1
      <4>2. (n + 1) + 1 = n + 2
        OBVIOUS
      <4>3. \A i \in 1..Len(xs) : new[i + 1] = new[i] + Len(xs[i]) /\ Stands(v, new[i], xs[i])
        BY <3>1, <3>7, <3>8, <3>9, <4>1, <4>2 DEF l
      <4>4. QED
        BY <2>1, <3>7, <4>2, <4>3 DEF Placed
    <3>11. QED
      BY <3>10 DEF v
  <2>2. QED
    BY <2>1
<1> HIDE DEF T
<1>3. Nat \subseteq T
  BY <1>1, <1>2, NatAll
<1>4. QED
  BY <1>3 DEF T

\* Where the attributes of a tag begin, in what stands between < and >.
Inside(s, name, l, p) ==
  /\ s \in Seq(Bytes) /\ Stands(s, 0, name)
  /\ p \in [1..(Len(l) + 1) -> Nat] /\ p[1] = Len(name) + 1 /\ p[Len(l) + 1] = Len(s) + 1
  /\ \A i \in 1..Len(l) :
       /\ p[i] \in 1..Len(s) /\ s[p[i]] = Space
       /\ Stands(s, p[i], WriteAttribute(l[i]))
       /\ p[i + 1] = p[i] + 1 + Len(WriteAttribute(l[i]))

LEMMA InsideIs ==
  ASSUME NEW A, NEW l \in Seq(A), Writable(l), NEW name \in Seq(Bytes)
  PROVE  \E p : Inside(name \o Written(l), name, l, p)
<1> DEFINE n == Len(l)
           wa(i) == WriteAttribute(l[i])
           one(i) == <<Space>> \o wa(i)
           ss == [i \in 1..n |-> one(i)]
           w == Written(l)
           s == name \o w
           m == Len(name)
<1>1. n \in Nat /\ DOMAIN l = 1..n /\ m \in Nat /\ Space \in Bytes
  BY DEF Space, Bytes
<1>2. \A i \in 1..n : wa(i) \in Seq(Bytes)
  BY AttributeType DEF Writable
<1> HIDE DEF wa
<1>3. \A i \in 1..n : /\ one(i) \in Seq(Bytes) /\ Len(one(i)) = 1 + Len(wa(i)) /\ one(i)[1] = Space
                      /\ \A k \in 1..Len(wa(i)) : one(i)[1 + k] = wa(i)[k]
  <2>1. ASSUME NEW i \in 1..n
        PROVE  /\ one(i) \in Seq(Bytes) /\ Len(one(i)) = Len(wa(i)) + 1 /\ one(i)[1] = Space
               /\ \A k \in 1..Len(wa(i)) : one(i)[k + 1] = wa(i)[k]
    <3>1. wa(i) \in Seq(Bytes) /\ Space \in Bytes
      BY <1>1, <1>2
    <3>2. QED
      BY <3>1, FirstOf
  <2>2. \A i \in 1..n : Len(wa(i)) \in Nat
    BY <1>2
  <2> HIDE DEF one
  <2>3. \A i \in 1..n : Len(wa(i)) + 1 = 1 + Len(wa(i)) /\ \A k \in 1..Len(wa(i)) : k + 1 = 1 + k
    BY <2>2
  <2>4. ASSUME NEW i \in 1..n
        PROVE  /\ one(i) \in Seq(Bytes) /\ Len(one(i)) = 1 + Len(wa(i)) /\ one(i)[1] = Space
               /\ \A k \in 1..Len(wa(i)) : one(i)[1 + k] = wa(i)[k]
    BY <2>1, <2>3
  <2>5. QED
    BY <2>4
<1>4. w = FlattenSeq(ss)
  BY <1>1 DEF Written, wa
<1>5. ss \in [1..n -> Seq(Bytes)] /\ \A i \in 1..n : ss[i] = one(i)
  <2> HIDE DEF one
  <2>1. QED
    BY <1>3
<1> HIDE DEF one, ss, n
<1>6. ss \in Seq(Seq(Bytes)) /\ Len(ss) = n /\ w \in Seq(Bytes)
  BY <1>1, <1>4, <1>5, FlattenType
<1>7. PICK at : Placed(at, ss, w)
  BY <1>4, <1>6, FlattenPlaces
<1>8. /\ at \in [1..(n + 1) -> Nat] /\ at[1] = 0 /\ at[n + 1] = Len(w)
      /\ \A i \in 1..n : at[i + 1] = at[i] + Len(one(i)) /\ Stands(w, at[i], one(i))
  BY <1>5, <1>6, <1>7 DEF Placed
<1> HIDE DEF w
<1>9. /\ s \in Seq(Bytes) /\ Len(s) = m + Len(w) /\ Len(w) \in Nat /\ (\A k \in 1..m : s[k] = name[k])
      /\ \A k \in 1..Len(w) : s[m + k] = w[k]
  <2>1. /\ s \in Seq(Bytes) /\ Len(s) = m + Len(w) /\ (\A k \in 1..m : s[k] = name[k])
        /\ \A k \in 1..Len(w) : s[m + k] = w[k]
    BY <1>6, Joined
  <2>2. Len(w) \in Nat
    BY <1>6
  <2>3. QED
    BY <2>1, <2>2
<1> HIDE DEF s, m
<1> DEFINE p == [i \in 1..(n + 1) |-> m + at[i] + 1]
<1>10. p \in [1..(n + 1) -> Nat] /\ p[1] = m + 1 /\ p[n + 1] = Len(s) + 1
       /\ \A i \in 1..(n + 1) : p[i] = m + at[i] + 1
  <2>1. \A i \in 1..(n + 1) : m + at[i] + 1 \in Nat
    BY <1>1, <1>8
  <2>2. 1 \in 1..(n + 1) /\ n + 1 \in 1..(n + 1)
    BY <1>1
  <2>3. p \in [1..(n + 1) -> Nat] /\ \A i \in 1..(n + 1) : p[i] = m + at[i] + 1
    BY <2>1
  <2> HIDE DEF p
  <2>4. p[1] = m + 1 /\ p[n + 1] = Len(s) + 1
    BY <1>1, <1>8, <1>9, <2>2, <2>3
  <2>5. QED
    BY <2>3, <2>4
<1> HIDE DEF p
<1>11. ASSUME NEW i \in 1..n
       PROVE  /\ p[i] \in 1..Len(s) /\ s[p[i]] = Space
              /\ Stands(s, p[i], wa(i)) /\ p[i + 1] = p[i] + 1 + Len(wa(i))
  <2>1. i \in 1..(n + 1) /\ i + 1 \in 1..(n + 1)
    BY <1>1
  <2>2. at[i] \in Nat /\ Len(wa(i)) \in Nat
    <3>1. wa(i) \in Seq(Bytes)
      BY <1>2
    <3>2. at[i] \in Nat
      BY <1>8, <2>1
    <3>3. QED
      BY <3>1, <3>2
  <2>3. /\ at[i + 1] = at[i] + (1 + Len(wa(i)))
        /\ at[i] + (1 + Len(wa(i))) <= Len(w) /\ \A k \in 1..(1 + Len(wa(i))) : w[at[i] + k] = one(i)[k]
    <3>1. at[i + 1] = at[i] + Len(one(i)) /\ Stands(w, at[i], one(i)) /\ Len(one(i)) = 1 + Len(wa(i))
      BY <1>3, <1>8
    <3>2. QED
      BY <3>1 DEF Stands
  <2>4. \A k \in 1..(1 + Len(wa(i))) : at[i] + k \in 1..Len(w) /\ m + (at[i] + k) = m + at[i] + k
    <3> DEFINE L == Len(wa(i))
               a == at[i]
               lw == Len(w)
    <3>1. L \in Nat /\ a \in Nat /\ lw \in Nat /\ m \in Nat /\ a + (1 + L) <= lw
      BY <1>1, <1>9, <2>2, <2>3
    <3> HIDE DEF L, a, lw
    <3>2. \A k \in 1..(1 + L) : a + k \in 1..lw /\ m + (a + k) = m + a + k
      BY <3>1
    <3>3. QED
      BY <3>2 DEF L, a, lw
  <2>5. \A k \in 1..(1 + Len(wa(i))) : s[m + at[i] + k] = one(i)[k]
    BY <1>9, <2>3, <2>4
  <2>6. p[i] = m + at[i] + 1 /\ p[i + 1] = m + at[i + 1] + 1
    BY <1>10, <2>1
  <2>7. s[p[i]] = Space /\ p[i] \in 1..Len(s)
    <3>1. 1 \in 1..(1 + Len(wa(i)))
      BY <2>2
    <3>2. s[m + at[i] + 1] = Space
      BY <1>3, <2>5, <3>1
    <3>3. m + at[i] + 1 \in 1..Len(s)
      BY <1>1, <1>9, <2>2, <2>3
    <3>4. QED
      BY <2>6, <3>2, <3>3
  <2>8. Stands(s, p[i], wa(i))
    <3>1. p[i] + Len(wa(i)) <= Len(s)
      <4> DEFINE L == Len(wa(i))
                 a == at[i]
                 lw == Len(w)
      <4>1. /\ L \in Nat /\ a \in Nat /\ lw \in Nat /\ m \in Nat /\ a + (1 + L) <= lw
            /\ p[i] = m + a + 1 /\ Len(s) = m + lw
        BY <1>1, <1>9, <2>2, <2>3, <2>6
      <4> HIDE DEF L, a, lw
      <4>2. p[i] + L <= Len(s)
        BY <4>1
      <4>3. QED
        BY <4>2 DEF L
    <3>2. \A k \in 1..Len(wa(i)) : 1 + k \in 1..(1 + Len(wa(i))) /\ m + at[i] + (1 + k) = p[i] + k
      <4> DEFINE L == Len(wa(i))
                 a == at[i]
      <4>1. L \in Nat /\ a \in Nat /\ m \in Nat /\ p[i] = m + a + 1
        BY <1>1, <2>2, <2>6
      <4> HIDE DEF L, a
      <4>2. \A k \in 1..L : 1 + k \in 1..(1 + L) /\ m + a + (1 + k) = m + a + 1 + k
        BY <4>1
      <4>3. QED
        BY <4>1, <4>2 DEF L, a
    <3>3. \A k \in 1..Len(wa(i)) : s[p[i] + k] = wa(i)[k]
      BY <1>3, <2>5, <3>2
    <3>4. QED
      BY <3>1, <3>3 DEF Stands
  <2>9. p[i + 1] = p[i] + 1 + Len(wa(i))
    <3> DEFINE L == Len(wa(i))
               a == at[i]
    <3>1. L \in Nat /\ a \in Nat /\ m \in Nat /\ p[i] = m + a + 1 /\ p[i + 1] = m + (a + (1 + L)) + 1
      BY <1>1, <2>2, <2>3, <2>6
    <3> HIDE DEF L, a
    <3>2. m + (a + (1 + L)) + 1 = (m + a + 1) + 1 + L
      BY <3>1
    <3>3. QED
      BY <3>1, <3>2 DEF L
  <2>10. QED
    BY <2>7, <2>8, <2>9
<1>12. Stands(s, 0, name)
  <2>1. 0 + Len(name) <= Len(s) /\ \A k \in 1..Len(name) : 0 + k = k
    BY <1>1, <1>9 DEF m
  <2>2. QED
    BY <1>9, <2>1 DEF Stands, m
<1>13. Inside(s, name, l, p)
  BY <1>9, <1>10, <1>11, <1>12 DEF Inside, n, m, wa
<1>14. QED
  BY <1>13 DEF s, w

LEMMA KeyFirst ==
  ASSUME NEW a, Attr(a)
  PROVE  /\ WriteAttribute(a) \in Seq(Bytes) /\ Len(WriteAttribute(a)) > 0
         /\ WriteAttribute(a)[1] \notin Ends(FALSE)
         /\ Called(WriteAttribute(a), a.key)
<1> DEFINE w == WriteAttribute(a)
           k == a.key
           e == <<EqualSign>>
<1>1. k \in Seq(Bytes) /\ Len(k) > 0 /\ \A i \in 1..Len(k) : k[i] \notin Ends(FALSE)
  BY FormIs
<1>2. 1 \in 1..Len(k) /\ Len(k) \in Nat
  BY <1>1
<1>3. e \in Seq(Bytes) /\ Len(e) = 1 /\ e[1] = EqualSign /\ {Quote, Apostrophe} \subseteq Bytes
  BY DEF EqualSign, Quote, Apostrophe, Bytes
<1>4. w \in Seq(Bytes)
  BY AttributeType DEF Attr
<1>5. ASSUME NEW x \in Seq(Bytes), w = k \o (e \o x) PROVE Called(w, k)
  <2> DEFINE y == e \o x
  <2>1. y \in Seq(Bytes) /\ Len(y) = Len(e) + Len(x) /\ \A i \in 1..Len(e) : y[i] = e[i]
    BY <1>3, <1>5, Joined
  <2>2. y[1] = EqualSign
    <3>1. 1 \in 1..Len(e)
      BY <1>3
    <3>2. QED
      BY <1>3, <2>1, <3>1
  <2> HIDE DEF y
  <2>3. Called(k \o y, k)
    BY <1>1, <2>1, <2>2, CalledJoin
  <2>4. QED
    BY <1>5, <2>3 DEF y
<1> HIDE DEF e
<1>6. Called(w, k)
  <2>1. CASE a.form = "bare"
    <3>1. w = k
      BY <2>1, FormIs
    <3>2. QED
      BY <1>1, <3>1 DEF Called
  <2>2. CASE a.form = "plain"
    <3>1. a.value \in Seq(Bytes) /\ w = k \o (e \o a.value)
      BY <2>2, FormIs DEF e, IsValue
    <3>2. QED
      BY <1>5, <3>1
  <2>3. CASE a.form = "single"
    <3>1. Quoting(Apostrophe, a.value) \in Seq(Bytes) /\ w = k \o (e \o Quoting(Apostrophe, a.value))
      BY <2>3, FormIs DEF e, IsValue
    <3>2. QED
      BY <1>5, <3>1
  <2>4. CASE a.form = "quoted"
    <3>1. a.value \in Seq(Bytes) /\ w = k \o (e \o Quoting(Quote, a.value))
      BY <2>4, FormIs DEF e
    <3>2. Quoting(Quote, a.value) \in Seq(Bytes)
      BY <1>3, <3>1, QuotingIs
    <3>3. QED
      BY <1>5, <3>1, <3>2
  <2>5. a.form \in Forms
    BY DEF Attr
  <2>6. QED
    BY <2>1, <2>2, <2>3, <2>4, <2>5 DEF Forms
<1>7. Len(w) > 0 /\ w[1] \notin Ends(FALSE)
  <2>1. Len(w) >= Len(k) /\ \A i \in 1..Len(k) : w[i] = k[i]
    BY <1>6 DEF Called
  <2>2. Len(w) \in Nat
    BY <1>4
  <2>3. Len(w) > 0
    BY <1>1, <1>2, <2>1, <2>2
  <2>4. w[1] = k[1] /\ k[1] \notin Ends(FALSE)
    BY <1>1, <1>2, <2>1
  <2>5. QED
    BY <2>3, <2>4
<1>8. QED
  BY <1>4, <1>6, <1>7

LEMMA BoundaryAt ==
  ASSUME NEW s, NEW name \in Seq(Bytes), NEW l, Len(l) \in Nat, NEW p, Inside(s, name, l, p),
         \A i \in 1..Len(l) : Attr(l[i]), NEW i \in 1..(Len(l) + 1)
  PROVE  Boundary(s, p[i]) /\ p[i] \in 1..(Len(s) + 1)
<1>1. s \in Seq(Bytes) /\ Len(s) \in Nat
  BY DEF Inside
<1>2. CASE i = Len(l) + 1
  <2>1. p[i] = Len(s) + 1
    BY <1>2 DEF Inside
  <2>2. QED
    BY <1>1, <2>1 DEF Boundary
<1>3. CASE i # Len(l) + 1
  <2> DEFINE w == WriteAttribute(l[i])
  <2>1. i \in 1..Len(l)
    BY <1>3
  <2>2. p[i] \in 1..Len(s) /\ s[p[i]] = Space /\ Stands(s, p[i], w)
    BY <2>1 DEF Inside
  <2>3. w \in Seq(Bytes) /\ Len(w) > 0 /\ w[1] \notin Ends(FALSE)
    BY <2>1, KeyFirst
  <2> HIDE DEF w
  <2>4. Len(w) \in Nat /\ 1 \in 1..Len(w) /\ p[i] \in Nat
    BY <1>1, <2>2, <2>3
  <2>5. p[i] + Len(w) <= Len(s) /\ s[p[i] + 1] = w[1]
    BY <2>2, <2>4 DEF Stands
  <2>6. p[i] + 1 <= Len(s) /\ p[i] \in 1..(Len(s) + 1)
    <3> DEFINE x == p[i]
    <3>1. x \in Nat /\ x \in 1..Len(s) /\ x + Len(w) <= Len(s)
      BY <2>2, <2>4, <2>5
    <3> HIDE DEF x
    <3>2. x + 1 <= Len(s) /\ x \in 1..(Len(s) + 1)
      BY <1>1, <2>3, <2>4, <3>1
    <3>3. QED
      BY <3>2 DEF x
  <2>7. QED
    BY <2>2, <2>3, <2>5, <2>6 DEF Boundary
<1>4. QED
  BY <1>2, <1>3

\* White space in front makes no difference.
LEMMA SameFrom ==
  ASSUME NEW s \in Seq(Bytes), NEW q, Boundary(s, q), NEW from, PartsFrom(from, s)
  PROVE  from[SkipsTo(s, q)] = from[q]
<1>1. CASE q = Len(s) + 1
  BY <1>1 DEF SkipsTo
<1>2. CASE q # Len(s) + 1
  <2>1. q \in 1..Len(s) /\ q + 1 <= Len(s) /\ SkipsTo(s, q) = q + 1 /\ Len(s) \in Nat
    <3>1. q \in 1..Len(s) /\ q + 1 <= Len(s)
      BY <1>2 DEF Boundary
    <3>2. SkipsTo(s, q) = q + 1
      BY <1>2 DEF SkipsTo
    <3>3. QED
      BY <3>1, <3>2
  <2>2. SkipWhite(s, q) = q + 1 /\ SkipWhite(s, q + 1) = q + 1
    BY <2>1, SkipIs
  <2>3. Part(s, q) = Part(s, q + 1)
    BY <2>2 DEF Part
  <2>4. q \in 1..(Len(s) + 2) /\ q + 1 \in 1..(Len(s) + 2) /\ ~(q > Len(s)) /\ ~(q + 1 > Len(s))
    BY <2>1
  <2>5. from[q] = Part(s, q).parts \o from[Part(s, q).next]
    BY <2>4 DEF PartsFrom
  <2>6. from[q + 1] = Part(s, q + 1).parts \o from[Part(s, q + 1).next]
    BY <2>4 DEF PartsFrom
  <2>7. QED
    BY <2>1, <2>3, <2>5, <2>6
<1>3. QED
  BY <1>1, <1>2

\* A tag's text, and what its parts are from each position on.
Parsed(s, name, l, p, from) ==
  /\ name \in Seq(Bytes) /\ IsWord(name) /\ Len(l) \in Nat /\ Inside(s, name, l, p)
  /\ \A i \in 1..Len(l) : Attr(l[i])
  /\ from \in [1..(Len(s) + 2) -> Seq(Seq(Bytes))] /\ PartsFrom(from, s)

BeginsWith(parts, name, rest) == parts = <<name>> \o rest

\* The first part is the name.
LEMMA NameRead ==
  ASSUME NEW s, NEW name, NEW l, NEW p, NEW from, Parsed(s, name, l, p, from)
  PROVE  BeginsWith(from[1], name, from[p[1]])
<1>0. /\ name \in Seq(Bytes) /\ IsWord(name) /\ Len(l) \in Nat /\ Inside(s, name, l, p)
      /\ \A i \in 1..Len(l) : Attr(l[i])
      /\ from \in [1..(Len(s) + 2) -> Seq(Seq(Bytes))] /\ PartsFrom(from, s)
  BY DEF Parsed
<1> DEFINE n == Len(name)
           q == 1 + n
<1>1. s \in Seq(Bytes) /\ Len(s) \in Nat /\ Stands(s, 0, name) /\ p[1] = n + 1
  BY <1>0 DEF Inside
<1>2. name # <<>> /\ \A i \in 1..n : name[i] \notin Ends(FALSE)
  <2>1. DOMAIN name = 1..n
    BY <1>0
  <2>2. QED
    BY <1>0, <2>1 DEF IsWord, Without, Ends
<1>3. n \in Nat /\ n > 0
  <2>1. n \in Nat /\ n # 0
    BY <1>0, <1>2, EmptySeq
  <2>2. QED
    BY <1>0, <2>1
<1>4. Boundary(s, p[1])
  <2>1. 1 \in 1..(Len(l) + 1)
    BY <1>0
  <2>2. QED
    BY <1>0, <2>1, BoundaryAt
<1>5. p[1] = q /\ Boundary(s, q)
  <2> HIDE DEF n
  <2>1. n + 1 = 1 + n
    BY <1>0, <1>3
  <2>2. QED
    BY <1>0, <1>1, <1>4, <2>1
<1>6. n <= Len(s) /\ s[1] = name[1]
  <2>1. 0 + n <= Len(s) /\ 1 \in 1..n /\ s[0 + 1] = name[1]
    BY <1>0, <1>1, <1>3 DEF Stands
  <2>2. QED
    BY <1>0, <1>3, <2>1
<1>7. SkipWhite(s, 1) = 1
  <2>1. s[1] \notin White
    <3>1. 1 \in 1..n
      BY <1>0, <1>3
    <3>2. White \subseteq Ends(FALSE)
      BY <1>0 DEF Ends
    <3>3. QED
      BY <1>0, <1>2, <1>6, <3>1, <3>2
  <2>2. 1 \in 1..(Len(s) + 1) /\ \A j \in 1..(1 - 1) : FALSE
    BY <1>0, <1>1
  <2>3. QED
    BY <1>0, <1>1, <2>1, <2>2, BehindAt DEF SkipWhite
<1>8. q <= Len(s) => s[q] \in Ends(FALSE)
  <2> HIDE DEF q
  <2>1. Space \in Ends(FALSE)
    BY <1>0 DEF Space, Ends, White
  <2>2. CASE q = Len(s) + 1
    BY <1>0, <1>1, <2>2
  <2>3. CASE s[q] = Space
    BY <1>0, <2>1, <2>3
  <2>4. QED
    BY <1>0, <1>5, <2>2, <2>3 DEF Boundary
<1>9. Part(s, 1) = NamePart(s, name, SkipWhite(s, q))
  <2>1. 0 + 1 = 1 /\ 0 + 1 + Len(name) = q /\ 0 \in Nat
    BY <1>0
  <2>2. SkipWhite(s, 1) = 0 + 1
    BY <1>0, <1>7
  <2>3. 0 + 1 + Len(name) <= Len(s) => s[0 + 1 + Len(name)] \in Ends(FALSE)
    BY <1>0, <1>8, <2>1
  <2>4. Len(name) > 0 /\ \A i \in 1..Len(name) : name[i] \notin Ends(FALSE)
    BY <1>0, <1>2, <1>3
  <2> HIDE DEF q
  <2>5. Part(s, 1) = NamePart(s, name, SkipWhite(s, 0 + 1 + Len(name)))
    BY <1>0, <1>1, <2>1, <2>2, <2>3, <2>4, KeyRead
  <2>6. QED
    BY <1>0, <2>1, <2>5
<1> HIDE DEF q
<1>10. Part(s, 1) = [parts |-> <<name>>, next |-> SkipsTo(s, q)]
  BY <1>0, <1>1, <1>5, <1>9, BareRead
<1>11. from[SkipsTo(s, q)] = from[q]
  BY <1>0, <1>1, <1>5, SameFrom
<1>12. from[1] = Part(s, 1).parts \o from[Part(s, 1).next]
  <2>1. 1 \in 1..(Len(s) + 2) /\ ~(1 > Len(s))
    BY <1>0, <1>1, <1>3, <1>6
  <2>2. QED
    BY <1>0, <2>1 DEF PartsFrom
<1>13. Part(s, 1).parts = <<name>> /\ Part(s, 1).next = SkipsTo(s, q)
  BY <1>0, <1>10
<1>14. from[1] = <<name>> \o from[p[1]]
  BY <1>0, <1>5, <1>11, <1>12, <1>13
<1>15. QED
  BY <1>14 DEF BeginsWith

\* The parts are some of the attributes, in their order.
Reads(parts, l, those) ==
  /\ parts \in Seq(Seq(Bytes))
  /\ \E m \in [1..Len(parts) -> those] :
       /\ \A i, j \in 1..Len(parts) : i < j => m[i] < m[j]
       /\ \A k \in those : \E i \in 1..Len(parts) : m[i] = k
       /\ \A i \in 1..Len(parts) : parts[i] = WriteAttribute(l[m[i]])

LEMMA PartsRegrouped ==
  \A t, u, v \in Seq(Seq(Bytes)) : (t \o u) \o v = t \o (u \o v)
<1> DEFINE S == Seq(Bytes)
<1> HIDE DEF S
<1>1. \A t, u, v \in Seq(S) : (t \o u) \o v = t \o (u \o v)
  BY Regrouped
<1>2. QED
  BY <1>1, Zenon DEF S

LEMMA ReadsNone ==
  ASSUME NEW l
  PROVE  Reads(<<>>, l, {})
<1> DEFINE m == [i \in 1..0 |-> 0]
           P == <<>>
<1>1. Len(P) = 0 /\ 1..0 = {} /\ P \in Seq(Seq(Bytes))
  OBVIOUS
<1>2. m \in [1..0 -> {}]
  BY <1>1
<1> HIDE DEF m, P
<1>3. Reads(P, l, {})
  BY <1>1, <1>2 DEF Reads
<1>4. QED
  BY <1>3 DEF P

LEMMA ReadsMore ==
  ASSUME NEW parts, NEW l, NEW those, Reads(parts, l, those), NEW e \in Nat,
         \A k \in those : k \in Nat /\ k < e, WriteAttribute(l[e]) \in Seq(Bytes)
  PROVE  Reads(Append(parts, WriteAttribute(l[e])), l, those \cup {e})
<1> DEFINE w == WriteAttribute(l[e])
           n == Len(parts)
           P == Append(parts, w)
           S == Seq(Bytes)
<1>1. PICK m \in [1..n -> those] :
        /\ \A i, j \in 1..n : i < j => m[i] < m[j]
        /\ \A k \in those : \E i \in 1..n : m[i] = k
        /\ \A i \in 1..n : parts[i] = WriteAttribute(l[m[i]])
  BY DEF Reads
<1>2. parts \in Seq(S) /\ w \in S /\ n \in Nat
  BY DEF Reads
<1> HIDE DEF w, S
<1>3. P \in Seq(S) /\ Len(P) = n + 1 /\ (\A i \in 1..n : P[i] = parts[i]) /\ P[n + 1] = w
  BY <1>2
<1> HIDE DEF P, n
<1> DEFINE u == [i \in 1..(n + 1) |-> IF i = n + 1 THEN e ELSE m[i]]
           all == those \cup {e}
<1>4. n + 1 \in 1..(n + 1) /\ \A i \in 1..n : i \in 1..(n + 1) /\ i # n + 1
  BY <1>2
<1>5. \A i \in 1..(n + 1) : i = n + 1 \/ i \in 1..n
  BY <1>2
<1>6. u \in [1..(n + 1) -> all] /\ (\A i \in 1..n : u[i] = m[i]) /\ u[n + 1] = e
  <2>1. \A i \in 1..n : m[i] \in all
    OBVIOUS
  <2>2. \A i \in 1..n : u[i] = m[i]
    BY <1>4
  <2>3. u[n + 1] = e
    BY <1>4
  <2>4. \A i \in 1..(n + 1) : (IF i = n + 1 THEN e ELSE m[i]) \in all
    BY <1>5, <2>1
  <2>5. u \in [1..(n + 1) -> all]
    BY <2>4
  <2>6. QED
    BY <2>2, <2>3, <2>5
<1> HIDE DEF u
<1>7. ASSUME NEW i \in 1..(n + 1), NEW j \in 1..(n + 1), i < j PROVE u[i] < u[j]
  <2>1. i \in 1..n
    BY <1>2, <1>7
  <2>2. m[i] \in those
    BY <2>1
  <2>3. m[i] \in Nat /\ m[i] < e
    BY <2>2
  <2>4. CASE j = n + 1
    BY <1>6, <2>1, <2>3, <2>4
  <2>5. CASE j \in 1..n
    BY <1>1, <1>6, <1>7, <2>1, <2>5
  <2>6. QED
    BY <1>5, <2>4, <2>5
<1>8. ASSUME NEW k \in all PROVE \E i \in 1..(n + 1) : u[i] = k
  <2>1. CASE k = e
    BY <1>4, <1>6, <2>1
  <2>2. CASE k \in those
    <3>1. PICK i \in 1..n : m[i] = k
      BY <1>1, <2>2
    <3>2. QED
      BY <1>4, <1>6, <3>1
  <2>3. QED
    BY <2>1, <2>2
<1>9. \A i \in 1..(n + 1) : P[i] = WriteAttribute(l[u[i]])
  <2>1. \A i \in 1..n : P[i] = WriteAttribute(l[u[i]])
    BY <1>1, <1>3, <1>6
  <2>2. P[n + 1] = WriteAttribute(l[u[n + 1]])
    BY <1>3, <1>6 DEF w
  <2>3. QED
    BY <1>5, <2>1, <2>2
<1> HIDE DEF all
<1>10. Reads(P, l, all)
  <2>1. Len(P) = n + 1 /\ P \in Seq(Seq(Bytes)) /\ u \in [1..(n + 1) -> all]
    BY <1>3, <1>6 DEF S
  <2>2. \A i, j \in 1..(n + 1) : i < j => u[i] < u[j]
    BY <1>7
  <2>3. \A k \in all : \E i \in 1..(n + 1) : u[i] = k
    BY <1>8
  <2> DEFINE R == 1..(n + 1)
  <2> HIDE DEF R
  <2>4. 1..Len(P) = R
    BY <2>1 DEF R
  <2>5. /\ u \in [R -> all] /\ (\A i, j \in R : i < j => u[i] < u[j])
        /\ (\A k \in all : \E i1 \in R : u[i1] = k)
        /\ (\A i \in R : P[i] = WriteAttribute(l[u[i]]))
    BY <1>9, <2>1, <2>2, <2>3 DEF R
  <2>6. \E m_ \in [R -> all] :
          /\ \A i, j \in R : i < j => m_[i] < m_[j]
          /\ \A k \in all : \E i \in R : m_[i] = k
          /\ \A i \in R : P[i] = WriteAttribute(l[m_[i]])
    BY <2>5
  <2>7. QED
    BY <2>1, <2>4, <2>6 DEF Reads
<1>11. QED
  BY <1>10 DEF P, w, all

Kept(l) == {i \in 1..Len(l) : ~IsLost(l[i])}
IsEmpty(a) == a.form = "quoted" /\ a.value = <<>>

\* What stands in front of the first empty quotes is read as it was written.
LEMMA PartsRead ==
  ASSUME NEW s, NEW name \in Seq(Bytes), IsWord(name), NEW l, Len(l) \in Nat, NEW p,
         Inside(s, name, l, p), \A i \in 1..Len(l) : Attr(l[i]),
         NEW from \in [1..(Len(s) + 2) -> Seq(Seq(Bytes))], PartsFrom(from, s),
         NEW e \in 1..(Len(l) + 1), \A i \in 1..(e - 1) : ~IsEmpty(l[i])
  PROVE  \E parts : /\ Reads(parts, l, Kept(l) \cap 1..(e - 1))
                    /\ BeginsWith(from[1], name, parts \o from[p[e]])
<1> DEFINE n == Len(l)
           S == Seq(Bytes)
           Done(x) == \E parts : /\ Reads(parts, l, Kept(l) \cap 1..(x - 1))
                                 /\ from[1] = <<name>> \o (parts \o from[p[x]])
           T == {x \in Nat : x + 1 <= e => Done(x + 1)}
<1>1. n \in Nat /\ e \in Nat /\ e >= 1 /\ e <= n + 1 /\ s \in Seq(Bytes) /\ Len(s) \in Nat
  BY DEF Inside
<1>2. ASSUME NEW x \in 1..(n + 1)
      PROVE  /\ Boundary(s, p[x]) /\ p[x] \in 1..(Len(s) + 1) /\ from[p[x]] \in Seq(S)
  <2>1. Boundary(s, p[x]) /\ p[x] \in 1..(Len(s) + 1)
    BY BoundaryAt
  <2>2. p[x] \in 1..(Len(s) + 2)
    BY <1>1, <2>1
  <2>3. QED
    BY <2>1, <2>2
<1>3. 0 \in T
  <2>1. from[1] = <<name>> \o from[p[1]]
    <3>1. Parsed(s, name, l, p, from)
      BY DEF Parsed
    <3>2. BeginsWith(from[1], name, from[p[1]])
      BY <3>1, NameRead
    <3>3. QED
      BY <3>2 DEF BeginsWith
  <2>2. 1 \in 1..(n + 1)
    BY <1>1
  <2>3. from[p[1]] \in Seq(S)
    BY <1>2, <2>2
  <2>4. from[p[1]] = <<>> \o from[p[1]]
    <3> DEFINE f == from[p[1]]
    <3>1. f \in Seq(S)
      BY <2>3
    <3> HIDE DEF f, S
    <3>2. f = <<>> \o f
      BY <3>1, ConcatEmptySeq
    <3>3. QED
      BY <3>2 DEF f
  <2>5. Kept(l) \cap 1..(1 - 1) = {}
    OBVIOUS
  <2>6. Reads(<<>>, l, {})
    BY ReadsNone
  <2>7. Done(0 + 1)
    <3>1. Reads(<<>>, l, Kept(l) \cap 1..(1 - 1))
      BY <2>5, <2>6
    <3>2. from[1] = <<name>> \o (<<>> \o from[p[1]])
      BY <2>1, <2>4
    <3>3. 0 + 1 = 1
      OBVIOUS
    <3>4. Done(1)
      BY <3>1, <3>2
    <3> HIDE DEF Done
    <3>5. QED
      BY <3>3, <3>4
  <2> HIDE DEF Done
  <2>8. QED
    BY <2>7
<1>4. ASSUME NEW y \in Nat, y \in T PROVE y + 1 \in T
  <2> DEFINE x == y + 1
             z == x + 1
  <2>1. SUFFICES ASSUME z <= e PROVE Done(z)
    <3> HIDE DEF Done
    <3>1. QED
      BY <2>1
  <2>2. x \in 1..n /\ x \in 1..(n + 1) /\ z \in 1..(n + 1) /\ x \in 1..(e - 1) /\ x <= e /\ z - 1 = x
        /\ x \in Nat
    <3> HIDE DEF n
    <3>1. QED
      BY <1>1, <2>1
  <2>3. PICK parts : /\ Reads(parts, l, Kept(l) \cap 1..(x - 1))
                     /\ from[1] = <<name>> \o (parts \o from[p[x]])
    BY <1>4, <2>2
  <2> HIDE DEF x, z
  <2> DEFINE a == l[x]
             w == WriteAttribute(a)
             q == p[z]
             b == p[x]
             part == Part(s, b)
  <2>4. Attr(a) /\ (a.form = "quoted" => a.value # <<>>)
    BY <2>2 DEF IsEmpty
  <2>5. /\ b \in 1..Len(s) /\ Stands(s, b, w) /\ q = b + 1 + Len(w)
    BY <2>2 DEF Inside, x, z
  <2>6. Boundary(s, b) /\ Boundary(s, q) /\ from[b] \in Seq(S) /\ from[q] \in Seq(S)
    BY <1>2, <2>2
  <2>7. w \in S
    BY <2>4, KeyFirst
  <2> HIDE DEF w, q, b, a
  <2>8. part.parts = (IF IsLost(a) THEN <<>> ELSE <<w>>) /\ part.next \in {q, SkipsTo(s, q)}
    BY <1>1, <2>4, <2>5, <2>6, AttributeRead DEF w
  <2>9. from[part.next] = from[q]
    <3>1. from[SkipsTo(s, q)] = from[q]
      BY <1>1, <2>6, SameFrom
    <3>2. QED
      BY <2>8, <3>1
  <2>10. from[b] = part.parts \o from[part.next]
    <3>1. b \in 1..(Len(s) + 2) /\ ~(b > Len(s))
      BY <1>1, <2>5
    <3>2. QED
      BY <3>1 DEF PartsFrom
  <2> DEFINE f == from[q]
             K == Kept(l) \cap 1..(x - 1)
  <2>11. from[b] = (IF IsLost(a) THEN <<>> ELSE <<w>>) \o f /\ f \in Seq(S)
    BY <2>6, <2>8, <2>9, <2>10
  <2>12. parts \in Seq(S)
    BY <2>3 DEF Reads
  <2>13. from[1] = <<name>> \o (parts \o from[b])
    BY <2>3 DEF b
  <2> HIDE DEF f, part
  <2>14. CASE IsLost(a)
    <3>1. from[b] = f
      <4>1. from[b] = <<>> \o f
        BY <2>11, <2>14
      <4> HIDE DEF S
      <4>2. <<>> \o f = f
        BY <2>11, ConcatEmptySeq
      <4>3. QED
        BY <4>1, <4>2
    <3>2. x \notin Kept(l)
      BY <2>14 DEF Kept, a
    <3>3. Kept(l) \cap 1..(z - 1) = K
      <4>1. \A i \in 1..x : i \in 1..(x - 1) \/ i = x
        BY <2>2
      <4>2. \A i \in 1..(x - 1) : i \in 1..x
        BY <2>2
      <4>3. QED
        BY <2>2, <3>2, <4>1, <4>2
    <3>4. Reads(parts, l, Kept(l) \cap 1..(z - 1)) /\ from[1] = <<name>> \o (parts \o from[p[z]])
      BY <2>3, <2>13, <3>1, <3>3 DEF f, q
    <3>5. QED
      BY <3>4
  <2>15. CASE ~IsLost(a)
    <3> DEFINE more == Append(parts, w)
    <3>1. from[b] = <<w>> \o f
      BY <2>11, <2>15
    <3>2. parts \o (<<w>> \o f) = more \o f
      <4> DEFINE g == <<w>>
      <4>1. g \in Seq(S) /\ more = parts \o g
        BY <2>7, <2>12
      <4> HIDE DEF g, more
      <4>5. parts \in Seq(S) /\ g \in Seq(S) /\ f \in Seq(S)
        BY <2>11, <2>12, <4>1
      <4>3. (parts \o g) \o f = parts \o (g \o f)
        BY <4>5, PartsRegrouped, Zenon
      <4>4. QED
        BY <4>1, <4>3 DEF g
    <3>3. Kept(l) \cap 1..(z - 1) = K \cup {x}
      <4>1. \A i \in 1..x : i \in 1..(x - 1) \/ i = x
        BY <2>2
      <4>2. \A i \in 1..(x - 1) : i \in 1..x
        BY <2>2
      <4>3. x \in Kept(l) /\ x \in 1..x
        BY <2>2, <2>15 DEF Kept, a
      <4>4. QED
        BY <2>2, <4>1, <4>2, <4>3
    <3>4. \A k \in K : k \in Nat /\ k < x
      BY <2>2
    <3> HIDE DEF K
    <3>5. Reads(more, l, K \cup {x})
      <4>1. Reads(parts, l, K)
        BY <2>3 DEF K
      <4>2. WriteAttribute(l[x]) \in Seq(Bytes) /\ w = WriteAttribute(l[x])
        BY <2>7 DEF w, a
      <4>3. Reads(Append(parts, WriteAttribute(l[x])), l, K \cup {x})
        BY <2>2, <3>4, <4>1, <4>2, ReadsMore
      <4>4. QED
        BY <4>2, <4>3
    <3> HIDE DEF more
    <3>6. Reads(more, l, Kept(l) \cap 1..(z - 1)) /\ from[1] = <<name>> \o (more \o from[p[z]])
      BY <2>13, <3>1, <3>2, <3>3, <3>5 DEF f, q
    <3>7. QED
      BY <3>6
  <2>16. QED
    BY <2>14, <2>15
<1> HIDE DEF T
<1>5. Nat \subseteq T
  BY <1>3, <1>4, NatAll
<1>6. e - 1 \in Nat /\ (e - 1) + 1 = e
  BY <1>1
<1>7. Done((e - 1) + 1)
  <2> HIDE DEF Done
  <2>1. e - 1 \in T
    BY <1>5, <1>6
  <2>2. QED
    BY <1>1, <1>6, <2>1 DEF T
<1>8. PICK parts : /\ Reads(parts, l, Kept(l) \cap 1..(e - 1))
                   /\ from[1] = <<name>> \o (parts \o from[p[e]])
  BY <1>6, <1>7
<1>9. BeginsWith(from[1], name, parts \o from[p[e]])
  BY <1>8 DEF BeginsWith
<1>10. QED
  BY <1>8, <1>9

LEMMA FrontRead ==
  ASSUME NEW s, NEW name, NEW l, NEW p, NEW from, Parsed(s, name, l, p, from),
         NEW e \in 1..(Len(l) + 1), \A i \in 1..(e - 1) : ~IsEmpty(l[i])
  PROVE  \E parts : /\ Reads(parts, l, Kept(l) \cap 1..(e - 1))
                    /\ BeginsWith(from[1], name, parts \o from[p[e]])
<1>1. /\ name \in Seq(Bytes) /\ IsWord(name) /\ Len(l) \in Nat /\ Inside(s, name, l, p)
      /\ \A i \in 1..Len(l) : Attr(l[i])
      /\ from \in [1..(Len(s) + 2) -> Seq(Seq(Bytes))] /\ PartsFrom(from, s)
  BY DEF Parsed
<1>2. QED
  BY <1>1, PartsRead

\* What a value is without what is around it.
LEMMA UnquotedIs ==
  ASSUME NEW v \in Seq(Bytes)
  PROVE  /\ (Len(v) > 0 => v[1] \notin {Quote, Apostrophe}) => Unquoted(v) = v
         /\ \A q \in {Quote, Apostrophe} : Len(v) > 0 => Unquoted(Quoting(q, v)) = v
<1>1. ASSUME Len(v) > 0 => v[1] \notin {Quote, Apostrophe} PROVE Unquoted(v) = v
  <2>1. Len(v) > 2 => Head(v) = v[1] /\ Len(v) > 0
    OBVIOUS
  <2>2. QED
    BY <1>1, <2>1 DEF Unquoted
<1>2. ASSUME NEW q \in {Quote, Apostrophe}, Len(v) > 0 PROVE Unquoted(Quoting(q, v)) = v
  <2> DEFINE n == Len(v)
             u == Quoting(q, v)
             w == SubSeq(u, 2, Len(u) - 1)
  <2>1. q \in Bytes
    BY DEF Quote, Apostrophe, Bytes
  <2>2. u \in Seq(Bytes) /\ Len(u) = n + 2 /\ u[1] = q /\ \A i \in 1..n : u[i + 1] = v[i]
    BY <2>1, QuotingIs
  <2> HIDE DEF u
  <2>3. n \in Nat /\ n > 0
    BY <1>2
  <2>4. Head(u) = u[1]
    BY <2>2
  <2>5. w = SubSeq(u, 2, n + 1)
    <3> HIDE DEF n
    <3>1. Len(u) - 1 = n + 1
      BY <2>2, <2>3
    <3>2. QED
      BY <3>1
  <2> HIDE DEF w
  <2>6. w \in Seq(Bytes) /\ Len(w) = n /\ \A i \in 1..n : w[i] = v[i]
    <3> HIDE DEF n
    <3>1. 2 \in Nat \ {0} /\ n + 1 \in Nat /\ n + 1 <= Len(u) /\ 2 <= n + 1 /\ (n + 1) - 2 + 1 = n
      BY <2>2, <2>3
    <3>2. /\ SubSeq(u, 2, n + 1) \in Seq(Bytes)
          /\ Len(SubSeq(u, 2, n + 1)) = IF 2 <= n + 1 THEN (n + 1) - 2 + 1 ELSE 0
          /\ \A i \in 1..((n + 1) - 2 + 1) : SubSeq(u, 2, n + 1)[i] = u[2 + i - 1]
      BY <2>2, <3>1, PartOf
    <3>3. \A i \in 1..n : 2 + i - 1 = i + 1
      BY <2>3
    <3>4. w \in Seq(Bytes) /\ Len(w) = n
      BY <2>5, <3>1, <3>2
    <3>5. \A i \in 1..n : w[i] = u[2 + i - 1]
      <4>1. \A i \in 1..((n + 1) - 2 + 1) : w[i] = u[2 + i - 1]
        BY <2>5, <3>2, Zenon
      <4>2. QED
        BY <3>1, <4>1
    <3>6. QED
      BY <2>2, <3>3, <3>4, <3>5
  <2>7. w = v
    BY <2>6, Same
  <2>8. Len(u) > 2
    BY <2>2, <2>3
  <2>9. Unquoted(u) = w
    BY <2>2, <2>4, <2>8 DEF Unquoted, w
  <2>10. QED
    BY <2>7, <2>9 DEF u
<1>3. QED
  BY <1>1, <1>2

LEMMA ValueBehind ==
  ASSUME NEW p \in Seq(Bytes), NEW n \in Nat, NEW v \in Seq(Bytes), NEW m, m = Len(v),
         Len(p) = n + 1 + m, \A i \in 1..n : p[i] # EqualSign, p[n + 1] = EqualSign,
         \A i \in 1..m : p[n + 1 + i] = v[i]
  PROVE  Value(p) = Unquoted(v)
<1> DEFINE r == From(p, n + 2)
<1>1. EqualSign \in Bytes
  BY DEF EqualSign, Bytes
<1>5. n \in Nat /\ m \in Nat
  OBVIOUS
<1>6. Len(p) = n + 1 + m /\ p[n + 1] = EqualSign
  OBVIOUS
<1>9. Find(p, <<EqualSign>>, 1) = n + 1 /\ n + 1 # None
  <2>1. 1 \in Nat \ {0} /\ n + 1 \in 1..Len(p) /\ n + 1 \in Nat
    BY <1>5, <1>6
  <2>2. \A i \in 1..((n + 1) - 1) : p[i] # EqualSign
    BY <1>5
  <2>3. Find(p, <<EqualSign>>, 1) = n + 1
    <3> DEFINE f == n + 1
    <3>1. /\ p \in Seq(Bytes) /\ EqualSign \in Bytes /\ 1 \in Nat \ {0} /\ f \in 1..Len(p)
          /\ p[f] = EqualSign /\ \A i \in 1..(f - 1) : p[i] # EqualSign
      BY <1>1, <1>6, <2>1, <2>2
    <3> HIDE DEF f
    <3>2. Find(p, <<EqualSign>>, 1) = f
      BY <3>1, FoundSign
    <3>3. QED
      BY <3>2 DEF f
  <2>4. QED
    BY <2>1, <2>3, NoneAssumption
<1>10. r = SubSeq(p, n + 2, n + 1 + m)
  BY <1>6 DEF From
<1> HIDE DEF r
<1>11. r \in Seq(Bytes) /\ Len(r) = m /\ \A i \in 1..m : r[i] = v[i]
  <2> DEFINE b == n + 2
             e == n + 1 + m
  <2>1. /\ b \in Nat \ {0} /\ e \in Nat /\ e <= Len(p) /\ (IF b <= e THEN e - b + 1 ELSE 0) = m
        /\ e - b + 1 = m
    BY <1>5, <1>6
  <2>2. \A i \in 1..m : b + i - 1 = n + 1 + i
    BY <1>5
  <2> HIDE DEF b, e
  <2>7. p \in Seq(Bytes) /\ b \in Nat \ {0} /\ e \in Nat /\ e <= Len(p)
    BY <2>1
  <2>3. /\ SubSeq(p, b, e) \in Seq(Bytes) /\ Len(SubSeq(p, b, e)) = IF b <= e THEN e - b + 1 ELSE 0
        /\ \A i \in 1..(e - b + 1) : SubSeq(p, b, e)[i] = p[b + i - 1]
    BY <2>7, PartOf
  <2>4. r = SubSeq(p, b, e)
    BY <1>10 DEF b, e
  <2>5. \A i \in 1..m : r[i] = p[b + i - 1]
    BY <2>1, <2>3, <2>4
  <2>6. QED
    BY <2>1, <2>2, <2>3, <2>4, <2>5
<1>12. r = v
  BY <1>11, Same
<1>13. From(p, (n + 1) + 1) = r
  <2>1. (n + 1) + 1 = n + 2
    BY <1>5
  <2>2. QED
    BY <2>1 DEF r
<1>14. QED
  BY <1>9, <1>12, <1>13 DEF Value

LEMMA ValueJoined ==
  ASSUME NEW k \in Seq(Bytes), \A i \in 1..Len(k) : k[i] # EqualSign, NEW v \in Seq(Bytes),
         NEW p, p = k \o (<<EqualSign>> \o v)
  PROVE  Value(p) = Unquoted(v)
<1> DEFINE n == Len(k)
           m == Len(v)
           x == <<EqualSign>> \o v
<1>1. EqualSign \in Bytes
  BY DEF EqualSign, Bytes
<1>2. x \in Seq(Bytes) /\ Len(x) = m + 1 /\ x[1] = EqualSign /\ \A i \in 1..m : x[i + 1] = v[i]
  BY <1>1, FirstOf
<1>3. p = k \o x
  OBVIOUS
<1> HIDE DEF x
<1>4. /\ p \in Seq(Bytes) /\ Len(p) = n + Len(x) /\ (\A i \in 1..n : p[i] = k[i])
      /\ \A i \in 1..Len(x) : p[n + i] = x[i]
  <2>1. k \in Seq(Bytes) /\ x \in Seq(Bytes)
    BY <1>2
  <2>2. QED
    <3>1. /\ k \o x \in Seq(Bytes) /\ Len(k \o x) = Len(k) + Len(x)
          /\ \A i \in 1..Len(k) : (k \o x)[i] = k[i]
          /\ \A i \in 1..Len(x) : (k \o x)[Len(k) + i] = x[i]
      BY <2>1, Joined
    <3>2. QED
      BY <1>3, <3>1
<1>5. n \in Nat /\ m \in Nat /\ \A i \in 1..n : k[i] # EqualSign
  OBVIOUS
<1> HIDE DEF n, m
<1>6. Len(p) = n + 1 + m
  BY <1>2, <1>4, <1>5
<1>7. p[n + 1] = EqualSign
  <2>1. 1 \in 1..Len(x)
    BY <1>2, <1>5
  <2>2. QED
    BY <1>2, <1>4, <2>1
<1>8. \A i \in 1..m : p[n + 1 + i] = v[i]
  <2>1. SUFFICES ASSUME NEW i \in 1..m PROVE p[n + 1 + i] = v[i]
    OBVIOUS
  <2>2. i + 1 \in 1..Len(x) /\ n + 1 + i = n + (i + 1)
    BY <1>2, <1>5
  <2>3. p[n + (i + 1)] = x[i + 1]
    BY <1>4, <2>2
  <2>4. QED
    BY <1>2, <2>2, <2>3
<1>9. \A i \in 1..n : p[i] # EqualSign
  BY <1>4, <1>5
<1>10. m = Len(v)
  BY DEF m
<1>11. /\ p \in Seq(Bytes) /\ n \in Nat /\ m = Len(v) /\ Len(p) = n + 1 + m
       /\ (\A i \in 1..n : p[i] # EqualSign) /\ p[n + 1] = EqualSign
       /\ \A i \in 1..m : p[n + 1 + i] = v[i]
  BY <1>4, <1>5, <1>6, <1>7, <1>8, <1>9, <1>10
<1>12. QED
  BY <1>11, ValueBehind

\* An attribute that is written means its key, and its value unless that is empty
\* quotes.
LEMMA AttributeMeans ==
  ASSUME NEW a, Attr(a)
  PROVE  /\ Key(WriteAttribute(a)) = Casefold(a.key)
         /\ ~IsEmpty(a) => Value(WriteAttribute(a)) = a.value
<1> DEFINE k == a.key
           v == a.value
           w == WriteAttribute(a)
<1>1. /\ k \in Seq(Bytes) /\ (\A i \in 1..Len(k) : k[i] # EqualSign)
      /\ Called(w, k)
  <2>1. EqualSign \in Ends(FALSE)
    BY DEF Ends
  <2>2. k \in Seq(Bytes) /\ \A i \in 1..Len(k) : k[i] \notin Ends(FALSE)
    BY FormIs
  <2>3. QED
    BY <2>1, <2>2, KeyFirst
<1>2. Key(w) = Casefold(k)
  <2> HIDE DEF w, k
  <2>1. QED
    BY <1>1, CalledKey
<1>3. ASSUME ~IsEmpty(a) PROVE Value(w) = v
  <2>1. a.form \in {"bare", "plain", "single", "quoted"}
    BY DEF Attr, Forms
  <2>2. CASE a.form = "bare"
    <3>1. w = k /\ v = <<>>
      BY <2>2, FormIs
    <3>2. 1 \in Nat \ {0} /\ EqualSign \in Bytes
      BY DEF EqualSign, Bytes
    <3> HIDE DEF w, k
    <3>3. Find(k, <<EqualSign>>, 1) = None
      BY <1>1, <3>2, NoSign
    <3>4. QED
      BY <3>1, <3>3 DEF Value
  <2>3. CASE a.form = "plain"
    <3>1. IsValue(v) /\ v[1] # Apostrophe /\ w = k \o (<<EqualSign>> \o v)
      BY <2>3, FormIs
    <3>2. v \in Seq(Bytes) /\ (Len(v) > 0 => v[1] \notin {Quote, Apostrophe})
      BY <3>1 DEF IsValue
    <3> HIDE DEF w, k, v
    <3>3. Unquoted(v) = v
      BY <3>2, UnquotedIs
    <3>4. Value(w) = Unquoted(v)
      BY <1>1, <3>1, <3>2, ValueJoined
    <3>5. QED
      BY <3>3, <3>4
  <2>4. ASSUME NEW q \in {Quote, Apostrophe}, v \in Seq(Bytes), Len(v) > 0,
               w = k \o (<<EqualSign>> \o Quoting(q, v))
        PROVE  Value(w) = v
    <3> DEFINE u == Quoting(q, v)
    <3>1. q \in Bytes
      BY DEF Quote, Apostrophe, Bytes
    <3>2. u \in Seq(Bytes)
      BY <2>4, <3>1, QuotingIs
    <3>3. Unquoted(u) = v
      BY <2>4, UnquotedIs
    <3>4. w = k \o (<<EqualSign>> \o u)
      BY <2>4
    <3> HIDE DEF w, k, v, u
    <3>5. Value(w) = Unquoted(u)
      BY <1>1, <3>2, <3>4, ValueJoined
    <3>6. QED
      BY <3>3, <3>5
  <2>5. CASE a.form = "single"
    <3>1. v \in Seq(Bytes) /\ Len(v) > 0 /\ w = k \o (<<EqualSign>> \o Quoting(Apostrophe, v))
      BY <2>5, FormIs
    <3> HIDE DEF w, k, v
    <3>2. QED
      BY <2>4, <3>1
  <2>6. CASE a.form = "quoted"
    <3>1. v \in Seq(Bytes) /\ w = k \o (<<EqualSign>> \o Quoting(Quote, v))
      BY <2>6, FormIs
    <3>2. v # <<>>
      BY <1>3, <2>6 DEF IsEmpty
    <3> HIDE DEF w, k, v
    <3>3. Len(v) > 0
      <4>1. Len(v) \in Nat /\ Len(v) # 0
        BY <3>1, <3>2, EmptySeq
      <4>2. QED
        BY <4>1
    <3>4. QED
      BY <2>4, <3>1, <3>3
  <2>7. QED
    BY <2>1, <2>2, <2>3, <2>5, <2>6
<1>4. QED
  BY <1>2, <1>3

IsLast(parts, n) ==
  /\ n \in 1..Len(parts)
  /\ \A j \in 1..Len(parts) : j > n => Key(parts[j]) # Key(parts[n])

\* What the last part of a key says counts.
LEMMA NamedIs ==
  ASSUME NEW parts \in Seq(Seq(Bytes))
  PROVE  /\ DOMAIN Named(parts) = {Key(parts[i]) : i \in 1..Len(parts)}
         /\ Named(parts) = [k \in DOMAIN Named(parts) |-> Named(parts)[k]]
         /\ \A n : IsLast(parts, n) => Named(parts)[Key(parts[n])] = Value(parts[n])
<1> DEFINE N == Len(parts)
           D == {Key(parts[i]) : i \in 1..N}
           Latest(k) == CHOOSE i \in 1..N :
                          Key(parts[i]) = k /\ \A j \in 1..N : j > i => Key(parts[j]) # k
           f == [k \in D |-> Value(parts[Latest(k)])]
<1>1. DOMAIN parts = 1..N /\ N \in Nat
  OBVIOUS
<1>2. Named(parts) = f
  BY <1>1 DEF Named
<1>3. ASSUME NEW n, IsLast(parts, n) PROVE f[Key(parts[n])] = Value(parts[n])
  <2>1. n \in 1..N /\ \A j \in 1..N : j > n => Key(parts[j]) # Key(parts[n])
    BY <1>3 DEF IsLast
  <2> DEFINE k == Key(parts[n])
             G(i) == Key(parts[i]) = k /\ \A j \in 1..N : j > i => Key(parts[j]) # k
  <2>2. G(n) /\ k \in D
    BY <2>1
  <2>3. Latest(k) = CHOOSE i \in 1..N : G(i)
    OBVIOUS
  <2>4. ASSUME NEW i \in 1..N, G(i) PROVE i = n
    <3> HIDE DEF N
    <3>1. ~(i < n) /\ ~(i > n)
      BY <2>1, <2>2, <2>4
    <3>2. QED
      BY <1>1, <2>1, <3>1
  <2>5. (CHOOSE i \in 1..N : G(i)) = n
    <3> HIDE DEF G, N
    <3>1. \A i \in 1..N : G(i) => i = n
      BY <2>4
    <3>2. QED
      BY <2>1, <2>2, <3>1
  <2>6. Latest(k) = n
    BY <2>3, <2>5
  <2> HIDE DEF Latest, G
  <2>7. QED
    BY <2>2, <2>6
<1> HIDE DEF Latest
<1>4. DOMAIN f = D /\ f = [k \in DOMAIN f |-> f[k]]
  OBVIOUS
<1> HIDE DEF f
<1>5. QED
  BY <1>2, <1>3, <1>4

MeansLast(l, those, n) ==
  /\ n \in those
  /\ \A j \in those : j > n => Casefold(l[j].key) # Casefold(l[n].key)

LEMMA MeantIs ==
  ASSUME NEW l, NEW those, those \subseteq Nat
  PROVE  /\ DOMAIN Meant(l, those) = {Casefold(l[i].key) : i \in those}
         /\ Meant(l, those) = [k \in DOMAIN Meant(l, those) |-> Meant(l, those)[k]]
         /\ \A n : MeansLast(l, those, n) => Meant(l, those)[Casefold(l[n].key)] = l[n].value
<1> DEFINE key(i) == Casefold(l[i].key)
           D == {key(i) : i \in those}
           Latest(k) == CHOOSE i \in those : key(i) = k /\ \A j \in those : j > i => key(j) # k
           f == [k \in D |-> l[Latest(k)].value]
<1>2. Meant(l, those) = f
  BY DEF Meant
<1>3. ASSUME NEW n, MeansLast(l, those, n) PROVE f[key(n)] = l[n].value
  <2>1. n \in those /\ \A j \in those : j > n => key(j) # key(n)
    BY <1>3 DEF MeansLast
  <2> HIDE DEF key
  <2> DEFINE k == key(n)
             G(i) == key(i) = k /\ \A j \in those : j > i => key(j) # k
  <2>2. G(n) /\ k \in D
    BY <2>1
  <2>3. Latest(k) = CHOOSE i \in those : G(i)
    OBVIOUS
  <2>4. ASSUME NEW i \in those, G(i) PROVE i = n
    <3>1. ~(i < n) /\ ~(i > n)
      BY <2>1, <2>2, <2>4
    <3>2. i \in Nat /\ n \in Nat
      BY <2>1
    <3>3. QED
      BY <3>1, <3>2
  <2>5. (CHOOSE i \in those : G(i)) = n
    <3> HIDE DEF G
    <3>1. \A i \in those : G(i) => i = n
      BY <2>4
    <3>2. QED
      BY <2>1, <2>2, <3>1
  <2>6. Latest(k) = n
    BY <2>3, <2>5
  <2> HIDE DEF Latest, G
  <2>7. QED
    BY <2>2, <2>6
<1> HIDE DEF Latest
<1>4. DOMAIN f = D /\ f = [k \in DOMAIN f |-> f[k]]
  OBVIOUS
<1> HIDE DEF f
<1>5. QED
  BY <1>2, <1>3, <1>4

\* Parts that are some of the attributes, with none of them empty quotes.
Counted(parts, l, K) ==
  K \subseteq Nat /\ Reads(parts, l, K) /\ \A i \in K : Attr(l[i]) /\ ~IsEmpty(l[i])

CountsFor(parts, rest, l, K, k) ==
  /\ k \in DOMAIN Named(parts \o rest)
  /\ (\A r \in 1..Len(rest) : Key(rest[r]) # k) => Named(parts \o rest)[k] = Meant(l, K)[k]

\* What stands in front counts, unless something behind has the same key.
LEMMA FrontCounts ==
  ASSUME NEW l, NEW K, NEW parts, Counted(parts, l, K), NEW rest \in Seq(Seq(Bytes)),
         NEW k \in DOMAIN Meant(l, K)
  PROVE  CountsFor(parts, rest, l, K, k)
<1> DEFINE n == Len(parts)
           all == parts \o rest
           key(i) == Casefold(l[i].key)
           S == Seq(Bytes)
<1>a. K \subseteq Nat /\ Reads(parts, l, K) /\ \A i \in K : Attr(l[i]) /\ ~IsEmpty(l[i])
  BY DEF Counted
<1>0. /\ DOMAIN Meant(l, K) = {Casefold(l[i].key) : i \in K}
      /\ \A j : MeansLast(l, K, j) => Meant(l, K)[Casefold(l[j].key)] = l[j].value
  BY <1>a, MeantIs
<1>1. PICK m \in [1..n -> K] :
        /\ \A i, j \in 1..n : i < j => m[i] < m[j]
        /\ \A y \in K : \E i \in 1..n : m[i] = y
        /\ \A i \in 1..n : parts[i] = WriteAttribute(l[m[i]])
  BY <1>a DEF Reads
<1>2. parts \in Seq(S) /\ n \in Nat /\ Len(rest) \in Nat
  BY <1>a DEF Reads
<1> HIDE DEF S
<1>3. /\ all \in Seq(S) /\ Len(all) = n + Len(rest)
      /\ (\A i \in 1..n : all[i] = parts[i]) /\ \A i \in 1..Len(rest) : all[n + i] = rest[i]
  <2>1. rest \in Seq(S)
    BY DEF S
  <2>2. QED
    BY <1>2, <2>1, Joined
<1> HIDE DEF all, n
<1>4. ASSUME NEW i \in 1..n
      PROVE  Key(parts[i]) = key(m[i]) /\ Value(parts[i]) = l[m[i]].value /\ m[i] \in K
  <2>1. m[i] \in K
    OBVIOUS
  <2>2. Attr(l[m[i]]) /\ ~IsEmpty(l[m[i]]) /\ parts[i] = WriteAttribute(l[m[i]])
    BY <1>a, <1>1, <2>1
  <2>3. QED
    BY <2>1, <2>2, AttributeMeans
<1> DEFINE T == {i \in 1..n : Key(parts[i]) = k}
<1>5. PICK x \in T : \A i \in T : i <= x
  <2>1. PICK y \in K : k = key(y)
    BY <1>0
  <2>2. PICK i \in 1..n : m[i] = y
    BY <1>1
  <2>3. i \in T
    BY <1>4, <2>1, <2>2
  <2>4. T \subseteq Nat /\ \A j \in T : j <= n
    BY <1>2
  <2> HIDE DEF T
  <2>5. QED
    BY <1>2, <2>3, <2>4, NatMax
<1>6. x \in 1..n /\ Key(parts[x]) = k /\ \A i \in 1..n : i > x => Key(parts[i]) # k
  BY <1>2, <1>5
<1> HIDE DEF T
<1>7. MeansLast(l, K, m[x])
  <2>1. m[x] \in K
    BY <1>6
  <2>2. ASSUME NEW j \in K, j > m[x] PROVE key(j) # key(m[x])
    <3>1. PICK i \in 1..n : m[i] = j
      BY <1>1
    <3>2. ~(i < x) /\ i # x
      <4>1. m[x] \in Nat /\ j \in Nat
        BY <1>a, <2>1
      <4>2. i < x => m[i] < m[x]
        BY <1>1, <1>6
      <4>3. QED
        BY <2>2, <3>1, <4>1, <4>2
    <3>3. i > x
      BY <1>2, <1>6, <3>2
    <3>4. Key(parts[i]) # k
      BY <1>6, <3>3
    <3>5. QED
      BY <1>4, <1>6, <3>1, <3>4
  <2>3. QED
    BY <2>1, <2>2 DEF MeansLast
<1>8. k = key(m[x]) /\ Value(parts[x]) = l[m[x]].value
  BY <1>4, <1>6
<1>9. Meant(l, K)[k] = Value(parts[x])
  <2>1. Meant(l, K)[key(m[x])] = l[m[x]].value
    BY <1>0, <1>7
  <2>2. QED
    BY <1>8, <2>1
<1>10. x \in 1..Len(all) /\ all[x] = parts[x] /\ Key(all[x]) = k
  BY <1>2, <1>3, <1>6
<1>11. k \in DOMAIN Named(all)
  <2>1. DOMAIN Named(all) = {Key(all[i]) : i \in 1..Len(all)}
    BY <1>3, NamedIs DEF S
  <2>2. QED
    BY <1>10, <2>1
<1>12. ASSUME \A r \in 1..Len(rest) : Key(rest[r]) # k PROVE Named(all)[k] = Value(parts[x])
  <2>1. IsLast(all, x)
    <3>1. ASSUME NEW j \in 1..Len(all), j > x PROVE Key(all[j]) # k
      <4>1. CASE j \in 1..n
        BY <1>3, <1>6, <3>1, <4>1
      <4>2. CASE j \notin 1..n
        <5>1. j - n \in 1..Len(rest) /\ n + (j - n) = j
          BY <1>2, <1>3, <4>2
        <5>2. all[n + (j - n)] = rest[j - n]
          BY <1>3, <5>1
        <5>3. QED
          BY <1>12, <5>1, <5>2
      <4>3. QED
        BY <4>1, <4>2
    <3>2. QED
      BY <1>10, <3>1 DEF IsLast
  <2>2. Named(all)[Key(all[x])] = Value(all[x])
    BY <1>3, <2>1, NamedIs DEF S
  <2>3. QED
    BY <1>10, <2>2
<1>13. QED
  BY <1>9, <1>11, <1>12 DEF all, CountsFor

\* And if nothing is behind, that is all.
LEMMA AllCounts ==
  ASSUME NEW l, NEW K, NEW parts, Counted(parts, l, K)
  PROVE  Named(parts) = Meant(l, K)
<1> DEFINE n == Len(parts)
           f == Named(parts)
           g == Meant(l, K)
<1>a. K \subseteq Nat /\ Reads(parts, l, K) /\ \A i \in K : Attr(l[i]) /\ ~IsEmpty(l[i])
  BY DEF Counted
<1>1. PICK m \in [1..n -> K] :
        /\ \A y \in K : \E i \in 1..n : m[i] = y
        /\ \A i \in 1..n : parts[i] = WriteAttribute(l[m[i]])
  BY <1>a DEF Reads
<1>2. parts \in Seq(Seq(Bytes))
  BY <1>a DEF Reads
<1>3. DOMAIN f = {Key(parts[i]) : i \in 1..n} /\ f = [k \in DOMAIN f |-> f[k]]
  BY <1>2, NamedIs
<1>4. DOMAIN g = {Casefold(l[i].key) : i \in K} /\ g = [k \in DOMAIN g |-> g[k]]
  BY <1>a, MeantIs
<1> HIDE DEF n
<1>5. \A i \in 1..n : Key(parts[i]) = Casefold(l[m[i]].key)
  BY <1>a, <1>1, AttributeMeans
<1>6. DOMAIN f = DOMAIN g
  <2> HIDE DEF f, g
  <2>1. {Key(parts[i]) : i \in 1..n} \subseteq {Casefold(l[i].key) : i \in K}
    BY <1>5
  <2>2. {Casefold(l[i].key) : i \in K} \subseteq {Key(parts[i]) : i \in 1..n}
    BY <1>1, <1>5
  <2>3. QED
    BY <1>3, <1>4, <2>1, <2>2
<1>7. \A k \in DOMAIN g : f[k] = g[k]
  <2>1. SUFFICES ASSUME NEW k \in DOMAIN g PROVE f[k] = g[k]
    OBVIOUS
  <2> DEFINE none == <<>>
  <2>2. none \in Seq(Seq(Bytes)) /\ Len(none) = 0 /\ parts \o none = parts
    <3>1. none \in Seq(Seq(Bytes)) /\ Len(none) = 0
      OBVIOUS
    <3> DEFINE S == Seq(Bytes)
    <3>2. parts \in Seq(S)
      BY <1>2
    <3> HIDE DEF S
    <3>3. parts \o <<>> = parts
      BY <3>2, ConcatEmptySeq
    <3>4. QED
      BY <3>1, <3>3
  <2> HIDE DEF none, f, g
  <2>3. Named(parts \o none)[k] = Meant(l, K)[k]
    <3>1. \A r \in 1..Len(none) : Key(none[r]) # k
      BY <2>2
    <3>2. k \in DOMAIN Meant(l, K)
      BY <2>1 DEF g
    <3>3. QED
      <4>1. none \in Seq(Seq(Bytes)) /\ k \in DOMAIN Meant(l, K)
        BY <2>2, <3>2
      <4>2. CountsFor(parts, none, l, K, k)
        BY <4>1, FrontCounts
      <4>3. QED
        BY <3>1, <4>2 DEF CountsFor
  <2>4. QED
    BY <2>2, <2>3 DEF f, g
<1>8. QED
  <2> HIDE DEF f, g
  <2>1. f = g
    BY <1>3, <1>4, <1>6, <1>7
  <2>2. QED
    BY <2>1 DEF f, g

\* A key is empty, or stands in the text from position q on.
KeyInside(s, q, k) ==
  \/ k = <<>>
  \/ \E a \in q..(Len(s) + 1) : \E b \in a..(Len(s) + 1) : k = Casefold(SubSeq(s, a, b - 1))

KeysInside(s, q, parts) == \A r \in 1..Len(parts) : KeyInside(s, q, Key(parts[r]))

LEMMA RestKeys ==
  ASSUME NEW s \in Seq(Bytes), NEW from \in [1..(Len(s) + 2) -> Seq(Seq(Bytes))], PartsFrom(from, s)
  PROVE  \A q \in 1..(Len(s) + 2) : KeysInside(s, q, from[q])
<1> DEFINE n == Len(s)
           N == n + 2
           S == Seq(Bytes)
           T == {q \in 1..N : KeysInside(s, q, from[q])}
<1>1. n \in Nat /\ N \in Nat /\ N = n + 2
  OBVIOUS
<1> HIDE DEF N
<1>2. ASSUME NEW q \in 1..N, \A m \in (q + 1)..N : m \in T PROVE q \in T
  <2>1. from[q] = IF q > n THEN <<>> ELSE Part(s, q).parts \o from[Part(s, q).next]
    BY DEF PartsFrom, N
  <2>2. SUFFICES ASSUME NEW r \in 1..Len(from[q]) PROVE KeyInside(s, q, Key(from[q][r]))
    BY DEF KeysInside
  <2>3. CASE q > n
    <3>1. from[q] = <<>>
      BY <2>1, <2>3
    <3>2. Len(from[q]) = 0
      BY <3>1
    <3>3. QED
      BY <2>2, <3>2
  <2>4. CASE q <= n
    <3> DEFINE parts == Part(s, q).parts
               x == Part(s, q).next
               rest == from[x]
    <3>1. q \in 1..n
      BY <1>1, <2>4
    <3>2. x \in (q + 1)..N /\ parts \in Seq(S)
      BY <3>1, PartNext DEF N
    <3>3. x \in 1..N /\ x \in T
      BY <1>1, <1>2, <3>1, <3>2
    <3>4. rest \in Seq(S) /\ KeysInside(s, x, rest)
      BY <3>3 DEF N
    <3>5. from[q] = parts \o rest
      <4>1. ~(q > n)
        BY <1>1, <2>4
      <4>2. QED
        BY <2>1, <4>1
    <3>6. \A i \in 1..Len(parts) : KeyInside(s, q, Key(parts[i]))
      BY <3>1, PartKey DEF KeyInside
    <3> HIDE DEF parts, x, rest, S, n
    <3>7. /\ Len(from[q]) = Len(parts) + Len(rest) /\ (\A i \in 1..Len(parts) : from[q][i] = parts[i])
          /\ \A i \in 1..Len(rest) : from[q][Len(parts) + i] = rest[i]
      BY <3>2, <3>4, <3>5, Joined
    <3>8. Len(parts) \in Nat /\ Len(rest) \in Nat
      BY <3>2, <3>4
    <3>9. CASE r \in 1..Len(parts)
      BY <3>6, <3>7, <3>9
    <3>10. CASE r \notin 1..Len(parts)
      <4>1. r - Len(parts) \in 1..Len(rest) /\ Len(parts) + (r - Len(parts)) = r
        BY <2>2, <3>7, <3>8, <3>10
      <4>2. from[q][r] = rest[r - Len(parts)]
        BY <3>7, <4>1
      <4>3. KeyInside(s, x, Key(from[q][r]))
        BY <3>4, <4>1, <4>2 DEF KeysInside
      <4>4. x..(n + 1) \subseteq q..(n + 1)
        BY <1>1, <3>1, <3>2
      <4>5. QED
        BY <4>3, <4>4 DEF KeyInside, n
    <3>11. QED
      BY <3>9, <3>10
  <2>5. QED
    BY <1>1, <2>3, <2>4
<1> HIDE DEF T
<1>3. 1..N \subseteq T
  BY <1>1, <1>2, DownInduction
<1>4. QED
  BY <1>3 DEF T, N

SameBehind(s, q, s2, first) ==
  \E d \in Int : /\ Len(s) = Len(s2) + d /\ q = first + d
                /\ \A z \in q..Len(s) : s[z] = s2[z - d]

\* What is behind an attribute is also what is behind it in a tag that begins there.
LEMMA BehindSame ==
  ASSUME NEW name \in Seq(Bytes), NEW s, NEW l, NEW p, Inside(s, name, l, p), Len(l) \in Nat,
         NEW s2, NEW l2, NEW p2, Inside(s2, name, l2, p2), NEW e \in 1..Len(l),
         Len(l2) = Len(l) - e + 1, \A x \in 1..Len(l2) : l2[x] = l[e + x - 1],
         \A x \in 1..Len(l2) : Len(WriteAttribute(l2[x])) \in Nat
  PROVE  SameBehind(s, p[e], s2, Len(name) + 1)
<1> DEFINE n == Len(l)
           m == Len(l2)
           b == p[e]
           c == p2[1]
           d == b - c
           w(x) == WriteAttribute(l2[x])
<1>1. n \in Nat /\ e \in Nat /\ e >= 1 /\ e <= n /\ m = n - e + 1 /\ m \in Nat
  OBVIOUS
<1>2. /\ p \in [1..(n + 1) -> Nat] /\ p[n + 1] = Len(s) + 1
      /\ \A i \in 1..n : s[p[i]] = Space /\ Stands(s, p[i], WriteAttribute(l[i]))
                         /\ p[i + 1] = p[i] + 1 + Len(WriteAttribute(l[i]))
  BY DEF Inside
<1>3. /\ p2 \in [1..(m + 1) -> Nat] /\ p2[m + 1] = Len(s2) + 1 /\ c = Len(name) + 1
      /\ \A i \in 1..m : /\ s2[p2[i]] = Space /\ Stands(s2, p2[i], w(i))
                          /\ p2[i + 1] = p2[i] + 1 + Len(w(i))
  BY DEF Inside
<1>4. \A x \in 1..m : l2[x] = l[e + x - 1] /\ Len(w(x)) \in Nat
  <2> HIDE DEF c, d
  <2>1. QED
    OBVIOUS
<1>5. s \in Seq(Bytes) /\ s2 \in Seq(Bytes) /\ Len(s) \in Nat /\ Len(s2) \in Nat
  <2>1. s \in Seq(Bytes)
    BY Zenon DEF Inside
  <2>2. s2 \in Seq(Bytes)
    BY Zenon DEF Inside
  <2>3. QED
    BY <2>1, <2>2
<1> HIDE DEF n, m
<1>6. b \in Nat /\ c \in Nat
  <2>1. e \in 1..(n + 1) /\ 1 \in 1..(m + 1)
    BY <1>1
  <2>2. QED
    BY <1>2, <1>3, <2>1
<1> HIDE DEF b, c
<1> DEFINE Upto(y) == /\ p[e + y] = p2[1 + y] + d
                      /\ \A z \in b..(p[e + y] - 1) : s[z] = s2[z - d]
           T == {y \in Nat : y <= m => Upto(y)}
<1>7. 0 \in T
  <2>1. e + 0 = e /\ 1 + 0 = 1
    BY <1>1
  <2>2. p[e + 0] = b /\ p2[1 + 0] = c
    BY <2>1 DEF b, c
  <2>3. b..(b - 1) = {}
    BY <1>6
  <2>4. b = c + d
    BY <1>6
  <2>5. Upto(0)
    BY <2>2, <2>3, <2>4
  <2> HIDE DEF Upto
  <2>6. QED
    BY <2>5
<1>8. ASSUME NEW y \in Nat, y \in T PROVE y + 1 \in T
  <2>1. SUFFICES ASSUME y + 1 <= m PROVE Upto(y + 1)
    <3> HIDE DEF Upto
    <3>1. QED
      BY <2>1
  <2> DEFINE i == e + y
             x == 1 + y
             v == w(x)
  <2>2. /\ i \in 1..n /\ x \in 1..m /\ i = e + x - 1 /\ i \in 1..(n + 1) /\ x \in 1..(m + 1)
        /\ i + 1 \in 1..(n + 1) /\ x + 1 \in 1..(m + 1)
        /\ e + (y + 1) = i + 1 /\ 1 + (y + 1) = x + 1 /\ y <= m
    BY <1>1, <2>1
  <2>3. p[i] = p2[x] + d /\ \A z \in b..(p[i] - 1) : s[z] = s2[z - d]
    BY <1>8, <2>2
  <2> HIDE DEF i, x, Upto
  <2>4. l2[x] = l[i] /\ Len(v) \in Nat
    BY <1>4, <2>2
  <2>5. s[p[i]] = Space /\ Stands(s, p[i], v) /\ p[i + 1] = p[i] + 1 + Len(v)
    BY <1>2, <2>2, <2>4
  <2>6. s2[p2[x]] = Space /\ Stands(s2, p2[x], v) /\ p2[x + 1] = p2[x] + 1 + Len(v)
    BY <1>3, <2>2
  <2> HIDE DEF v
  <2> DEFINE j == p[i]
             k == p2[x]
             N == Len(v)
  <2>7. j \in Nat /\ k \in Nat /\ N \in Nat /\ j = k + d /\ d \in Int
    <3>1. j \in Nat
      BY <1>2, <2>2
    <3>2. k \in Nat
      BY <1>3, <2>2
    <3>3. d \in Int
      BY <1>6
    <3> HIDE DEF d
    <3>4. QED
      BY <2>3, <2>4, <3>1, <3>2, <3>3
  <2>8. \A o \in 1..N : s[j + o] = v[o] /\ s2[k + o] = v[o]
    BY <2>5, <2>6 DEF Stands
  <2>9. p[i + 1] = j + 1 + N /\ p2[x + 1] = k + 1 + N /\ s[j] = Space /\ s2[k] = Space
    BY <2>5, <2>6
  <2>a. \A z \in b..(j - 1) : s[z] = s2[z - d]
    BY <2>3
  <2> HIDE DEF j, k, N, d
  <2>10. p[i + 1] = p2[x + 1] + d
    BY <2>7, <2>9
  <2>11. ASSUME NEW z \in b..(p[i + 1] - 1) PROVE s[z] = s2[z - d]
    <3>1. z \in Int /\ z >= b /\ z <= j + N
      BY <1>6, <2>7, <2>9, <2>11
    <3>2. CASE z <= j - 1
      <4>1. z \in b..(j - 1)
        BY <1>6, <2>7, <3>1, <3>2
      <4>2. QED
        BY <2>a, <4>1
    <3>3. CASE z = j
      <4>1. z - d = k
        BY <2>7, <3>3
      <4>2. QED
        BY <2>9, <3>3, <4>1
    <3>4. CASE z > j
      <4> DEFINE o == z - j
      <4>1. o \in 1..N /\ z = j + o /\ z - d = k + o
        BY <2>7, <3>1, <3>4
      <4> HIDE DEF o
      <4>2. QED
        BY <2>8, <4>1
    <3>5. QED
      BY <2>7, <3>1, <3>2, <3>3, <3>4
  <2>12. p[e + (y + 1)] = p2[1 + (y + 1)] + d /\ \A z \in b..(p[e + (y + 1)] - 1) : s[z] = s2[z - d]
    BY <2>2, <2>10, <2>11
  <2>13. QED
    BY <2>12 DEF Upto
<1> HIDE DEF T
<1>9. Nat \subseteq T
  BY <1>7, <1>8, NatAll
<1>10. Upto(m)
  <2> HIDE DEF Upto
  <2>1. m \in T /\ m <= m
    BY <1>1, <1>9
  <2>2. QED
    BY <2>1 DEF T
<1>11. e + m = n + 1 /\ 1 + m = m + 1
  BY <1>1
<1>12. Len(s) + 1 = Len(s2) + 1 + d /\ \A z \in b..Len(s) : s[z] = s2[z - d]
  <2>1. p[e + m] = Len(s) + 1 /\ p2[1 + m] = Len(s2) + 1
    BY <1>2, <1>3, <1>11
  <2>2. (Len(s) + 1) - 1 = Len(s)
    BY <1>5
  <2> HIDE DEF d
  <2>3. QED
    BY <1>10, <2>1, <2>2
<1>13. d \in Int /\ b = c + d
  BY <1>6
<1> HIDE DEF d
<1>14. Len(s) = Len(s2) + d /\ b = Len(name) + 1 + d
  BY <1>3, <1>5, <1>12, <1>13
<1>15. QED
  BY <1>12, <1>13, <1>14 DEF b, SameBehind

\* A tag is its text between < and >.
Bracketed(tag, s) ==
  /\ tag \in Seq(Bytes) /\ s \in Seq(Bytes) /\ Len(tag) = Len(s) + 2
  /\ tag[1] = Lt /\ tag[Len(s) + 2] = Gt /\ \A z \in 1..Len(s) : tag[z + 1] = s[z]

LEMMA BracketedIs ==
  ASSUME NEW name \in Seq(Bytes), NEW w \in Seq(Bytes), NEW s, s = name \o w,
         NEW tag, tag = ((<<Lt>> \o name) \o w) \o <<Gt>>
  PROVE  Bracketed(tag, s)
<1> DEFINE o == <<Lt>>
           c == <<Gt>>
           u == (o \o name) \o w
           v == o \o s
           N == Len(s)
<1>1. Lt \in Bytes /\ Gt \in Bytes
  BY SignsAre
<1>2. o \in Seq(Bytes) /\ c \in Seq(Bytes) /\ Len(c) = 1 /\ c[1] = Gt
  BY <1>1
<1>3. s \in Seq(Bytes) /\ N \in Nat
  BY JoinType DEF SeqJoin
<1>4. v \in Seq(Bytes) /\ Len(v) = N + 1 /\ v[1] = Lt /\ \A z \in 1..N : v[z + 1] = s[z]
  BY <1>1, <1>3, FirstOf
<1> HIDE DEF o
<1>5. (o \o name) \o w = o \o (name \o w)
  <2>1. o \in Seq(Bytes) /\ name \in Seq(Bytes) /\ w \in Seq(Bytes)
    BY <1>2
  <2>2. QED
    BY <2>1, BytesRegrouped
<1>6. u = v
  BY <1>5
<1> HIDE DEF v, u, c
<1>7. tag = v \o c
  BY <1>6 DEF u, o, c
<1>8. /\ v \o c \in Seq(Bytes) /\ Len(v \o c) = Len(v) + Len(c)
      /\ (\A z \in 1..Len(v) : (v \o c)[z] = v[z]) /\ \A z \in 1..Len(c) : (v \o c)[Len(v) + z] = c[z]
  <2>1. v \in Seq(Bytes) /\ c \in Seq(Bytes)
    BY <1>2, <1>4
  <2>2. QED
    BY <2>1, Joined
<1> HIDE DEF N
<1>9. tag \in Seq(Bytes) /\ Len(tag) = N + 2
  BY <1>2, <1>3, <1>4, <1>7, <1>8
<1>10. tag[1] = Lt
  <2>1. 1 \in 1..Len(v)
    BY <1>3, <1>4
  <2>2. QED
    BY <1>4, <1>7, <1>8, <2>1
<1>11. tag[N + 2] = Gt
  <2>1. 1 \in 1..Len(c) /\ Len(v) + 1 = N + 2
    BY <1>2, <1>3, <1>4
  <2>2. tag[Len(v) + 1] = c[1]
    BY <1>7, <1>8, <2>1
  <2>3. QED
    BY <1>2, <2>1, <2>2
<1>12. \A z \in 1..N : tag[z + 1] = s[z]
  <2>1. SUFFICES ASSUME NEW z \in 1..N PROVE tag[z + 1] = s[z]
    OBVIOUS
  <2>2. z + 1 \in 1..Len(v)
    BY <1>3, <1>4
  <2>3. tag[z + 1] = v[z + 1]
    BY <1>7, <1>8, <2>2
  <2>4. QED
    BY <1>4, <2>3
<1>13. QED
  BY <1>3, <1>9, <1>10, <1>11, <1>12 DEF Bracketed, N

\* A key that stands behind an attribute is found in the tag that begins with it.
LEMMA KeyBehind ==
  ASSUME NEW s \in Seq(Bytes), NEW s2, NEW tag, Bracketed(tag, s2), NEW d \in Int, NEW q \in Nat,
         Len(s) = Len(s2) + d, q >= 1 + d, q >= 1, \A z \in q..Len(s) : s[z] = s2[z - d],
         NEW k, k # <<>>, KeyInside(s, q, k)
  PROVE  Find(Casefold(tag), k, 1) # None
<1> DEFINE n == Len(s)
           n2 == Len(s2)
           C == Casefold(tag)
           fold(x) == IF x \in 65..90 THEN x + 32 ELSE x
<1>1. /\ n \in Nat /\ n2 \in Nat /\ n = n2 + d /\ tag \in Seq(Bytes) /\ Len(tag) = n2 + 2
      /\ \A z \in 1..n2 : tag[z + 1] = s2[z]
  BY DEF Bracketed
<1>2. \A z \in q..n : s[z] = s2[z - d]
  OBVIOUS
<1>3. PICK a \in q..(n + 1) : \E b \in a..(n + 1) : k = Casefold(SubSeq(s, a, b - 1))
  BY DEF KeyInside
<1>14. PICK b \in a..(n + 1) : k = Casefold(SubSeq(s, a, b - 1))
  BY <1>3
<1> HIDE DEF n, n2
<1>4. a \in Nat \ {0} /\ b \in Nat /\ b >= a /\ b <= n + 1 /\ a >= q
  BY <1>1, <1>3, <1>14
<1> DEFINE e == b - 1
           v == SubSeq(s, a, e)
           m == b - a
<1>5. v \in Seq(Bytes) /\ Len(v) = m /\ \A i \in 1..m : v[i] = s[a + i - 1]
  <2>1. /\ e \in Nat /\ e <= Len(s) /\ (IF a <= e THEN e - a + 1 ELSE 0) = m /\ e - a + 1 = m
    BY <1>1, <1>4 DEF n
  <2> HIDE DEF e, m, v
  <2>2. /\ SubSeq(s, a, e) \in Seq(Bytes)
        /\ Len(SubSeq(s, a, e)) = (IF a <= e THEN e - a + 1 ELSE 0)
        /\ \A i \in 1..(e - a + 1) : SubSeq(s, a, e)[i] = s[a + i - 1]
    BY <1>4, <2>1, PartOf
  <2>3. QED
    BY <2>1, <2>2 DEF v
<1>6. k = Casefold(v)
  BY <1>14
<1> HIDE DEF v, e
<1>7. k \in Seq(Bytes) /\ Len(k) = m /\ \A i \in 1..m : k[i] = fold(s[a + i - 1])
  <2>1. /\ Casefold(v) \in Seq(Bytes) /\ Len(Casefold(v)) = Len(v)
        /\ \A i \in 1..Len(v) : Casefold(v)[i] = IF v[i] \in 65..90 THEN v[i] + 32 ELSE v[i]
    BY <1>5, CaseIs
  <2> HIDE DEF m
  <2>2. QED
    BY <1>5, <1>6, <2>1
<1>8. C \in Seq(Bytes) /\ Len(C) = n2 + 2 /\ \A z \in 1..(n2 + 2) : C[z] = fold(tag[z])
  BY <1>1, CaseIs
<1> HIDE DEF C, fold
<1> DEFINE at == a - d + 1
<1>9. m \in Nat /\ at \in Nat /\ at >= 1 /\ at \in Nat \ {0} /\ at + m <= (n2 + 2) + 1
  BY <1>1, <1>4
<1>10. \A i \in 1..m : C[at + i - 1] = k[i]
  <2>1. SUFFICES ASSUME NEW i \in 1..m PROVE C[at + i - 1] = k[i]
    OBVIOUS
  <2> DEFINE z == a + i - 1
             y == z - d
  <2>2. z \in q..n /\ y \in 1..n2 /\ y + 1 = at + i - 1 /\ y + 1 \in 1..(n2 + 2)
    BY <1>1, <1>4, <1>9
  <2>3. k[i] = fold(s[z]) /\ s[z] = s2[y]
    BY <1>2, <1>7, <2>2
  <2> HIDE DEF z, y, at
  <2>4. C[y + 1] = fold(tag[y + 1]) /\ tag[y + 1] = s2[y]
    BY <1>1, <1>8, <2>2
  <2>5. QED
    BY <2>2, <2>3, <2>4
<1> HIDE DEF at, m
<1>11. At(C, at, k)
  <2>1. at + Len(k) <= Len(C) + 1 /\ \A i \in 1..Len(k) : C[at + i - 1] = k[i]
    BY <1>7, <1>8, <1>9, <1>10
  <2>2. C \in Seq(Bytes) /\ k \in Seq(Bytes) /\ at \in Nat \ {0}
    BY <1>7, <1>8, <1>9
  <2>3. QED
    BY <2>1, <2>2, AtIs
<1>12. ASSUME Find(C, k, 1) = None PROVE FALSE
  <2>1. C \in Seq(Bytes) /\ k \in Seq(Bytes) /\ 1 \in Nat
    BY <1>7, <1>8
  <2>2. \A i \in Nat : i >= 1 => ~At(C, i, k)
    BY <1>12, <2>1, Finding
  <2>3. QED
    BY <1>9, <1>11, <2>2
<1>13. QED
  BY <1>12 DEF C

LEMMA FirstAndRest ==
  ASSUME NEW S, NEW x \in S, NEW t \in Seq(S)
  PROVE  /\ <<x>> \o t # <<>> /\ Head(<<x>> \o t) = x /\ Tail(<<x>> \o t) = t
<1> DEFINE u == <<x>> \o t
           n == Len(t)
<1>1. u \in Seq(S) /\ Len(u) = n + 1 /\ u[1] = x /\ \A i \in 1..n : u[i + 1] = t[i]
  BY FirstOf
<1>2. n \in Nat
  OBVIOUS
<1> HIDE DEF u
<1>3. u # <<>> /\ Head(u) = u[1]
  <2>1. Len(u) # 0
    <3> HIDE DEF n
    <3>1. QED
      BY <1>1, <1>2
  <2>2. u # <<>>
    BY <2>1
  <2>3. QED
    BY <1>1, <2>2
<1>4. Tail(u) \in Seq(S) /\ Len(Tail(u)) = n /\ \A i \in 1..n : Tail(u)[i] = u[i + 1]
  <2> HIDE DEF n
  <2>1. /\ Tail(u) \in Seq(S) /\ Len(Tail(u)) = Len(u) - 1
        /\ \A i \in 1..(Len(u) - 1) : Tail(u)[i] = u[i + 1]
    BY <1>1, <1>3, HeadTailProperties
  <2>2. Len(u) - 1 = n
    BY <1>1, <1>2
  <2>3. QED
    BY <2>1, <2>2
<1>5. Tail(u) = t
  <2> DEFINE v == Tail(u)
  <2>1. v \in Seq(S) /\ Len(v) = Len(t) /\ \A i \in 1..Len(v) : v[i] = t[i]
    BY <1>1, <1>4
  <2> HIDE DEF v
  <2>2. v = t
    BY <2>1, Same
  <2>3. QED
    BY <2>2 DEF v
<1>6. QED
  BY <1>1, <1>3, <1>5 DEF u

LEMMA OfBegun ==
  ASSUME NEW name \in Seq(Bytes), NEW rest \in Seq(Seq(Bytes)), NEW parts, BeginsWith(parts, name, rest)
  PROVE  OfParts(parts).name = Casefold(name) /\ OfParts(parts).attributes = Named(rest)
<1> DEFINE S == Seq(Bytes)
           u == <<name>> \o rest
<1>1. u = parts
  BY DEF BeginsWith
<1>2. name \in S /\ rest \in Seq(S)
  OBVIOUS
<1> HIDE DEF S
<1>3. u # <<>> /\ Head(u) = name /\ Tail(u) = rest
  BY <1>2, FirstAndRest
<1> HIDE DEF u
<1>4. QED
  BY <1>1, <1>3 DEF OfParts

\* A tag that is written as a tag should be.
Writes(A, name, l) ==
  /\ name \in Seq(Bytes) /\ IsWord(name) /\ l \in Seq(A) /\ Writable(l)
  /\ \A i \in 1..Len(l) : Attr(l[i])

LEMMA ParsedTag ==
  ASSUME NEW A, NEW name, NEW l, Writes(A, name, l)
  PROVE  LET s == name \o Written(l) IN
         \E p, from : Parsed(s, name, l, p, from) /\ Parts(s) = from[1]
<1> DEFINE s == name \o Written(l)
<1>1. /\ name \in Seq(Bytes) /\ IsWord(name) /\ l \in Seq(A) /\ Writable(l)
      /\ \A i \in 1..Len(l) : Attr(l[i])
  BY DEF Writes
<1>2. PICK p : Inside(s, name, l, p)
  BY <1>1, InsideIs
<1>3. s \in Seq(Bytes) /\ Len(l) \in Nat
  BY <1>1, <1>2 DEF Inside
<1> HIDE DEF s
<1>4. PICK from \in [1..(Len(s) + 2) -> Seq(Seq(Bytes))] : PartsFrom(from, s) /\ Parts(s) = from[1]
  BY <1>3, PartsAre
<1>5. Parsed(s, name, l, p, from)
  BY <1>1, <1>2, <1>3, <1>4 DEF Parsed
<1>6. QED
  BY <1>4, <1>5 DEF s

FrontOf(s, l, e, rest) ==
  \E parts : /\ Counted(parts, l, Kept(l) \cap 1..(e - 1))
            /\ GetAttributes(s).attributes = Named(parts \o rest)

\* What is read of the attributes in front of the first empty quotes, and the rest.
LEMMA TagParts ==
  ASSUME NEW s, NEW name, NEW l, NEW p, NEW from, Parsed(s, name, l, p, from), Parts(s) = from[1],
         NEW e \in 1..(Len(l) + 1), \A i \in 1..(e - 1) : ~IsEmpty(l[i])
  PROVE  /\ GetAttributes(s).name = Casefold(name)
         /\ from[p[e]] \in Seq(Seq(Bytes)) /\ KeysInside(s, p[e], from[p[e]])
         /\ p[e] \in 1..(Len(s) + 1)
         /\ FrontOf(s, l, e, from[p[e]])
<1> DEFINE K == Kept(l) \cap 1..(e - 1)
           rest == from[p[e]]
<1>1. /\ name \in Seq(Bytes) /\ IsWord(name) /\ Len(l) \in Nat /\ Inside(s, name, l, p)
      /\ \A i \in 1..Len(l) : Attr(l[i])
      /\ from \in [1..(Len(s) + 2) -> Seq(Seq(Bytes))] /\ PartsFrom(from, s)
  BY DEF Parsed
<1>2. s \in Seq(Bytes) /\ Len(s) \in Nat
  BY <1>1 DEF Inside
<1>3. p[e] \in 1..(Len(s) + 1)
  BY <1>1, BoundaryAt
<1>4. p[e] \in 1..(Len(s) + 2)
  BY <1>2, <1>3
<1>5. rest \in Seq(Seq(Bytes))
  BY <1>1, <1>4
<1>6. KeysInside(s, p[e], rest)
  BY <1>1, <1>2, <1>4, RestKeys
<1>7. PICK parts : Reads(parts, l, K) /\ BeginsWith(from[1], name, parts \o rest)
  BY FrontRead
<1> HIDE DEF rest
<1>8. K \subseteq Nat /\ \A i \in K : i \in 1..Len(l) /\ i \in 1..(e - 1)
  <2>1. \A i \in K : i \in 1..(e - 1) /\ i \in 1..Len(l)
    BY <1>1 DEF Kept
  <2>2. \A i \in 1..(e - 1) : i \in Nat
    BY <1>1
  <2> HIDE DEF K
  <2>3. QED
    BY <2>1, <2>2
<1>9. Counted(parts, l, K)
  <2> HIDE DEF K
  <2>1. QED
    BY <1>1, <1>7, <1>8 DEF Counted
<1>10. parts \o rest \in Seq(Seq(Bytes))
  <2> DEFINE S == Seq(Bytes)
  <2>1. parts \in Seq(S) /\ rest \in Seq(S)
    BY <1>5, <1>7 DEF Reads
  <2> HIDE DEF S
  <2>2. parts \o rest \in Seq(S)
    BY <2>1, Joined
  <2>3. QED
    BY <2>2 DEF S
<1> DEFINE more == parts \o rest
           P == from[1]
<1> HIDE DEF K
<1>11. more \in Seq(Seq(Bytes)) /\ name \in Seq(Bytes) /\ BeginsWith(P, name, more)
  BY <1>1, <1>7, <1>10
<1> HIDE DEF more, P
<1>12. OfParts(P).name = Casefold(name) /\ OfParts(P).attributes = Named(more)
  BY <1>11, OfBegun
<1>13. GetAttributes(s) = OfParts(P)
  BY DEF GetAttributes, P
<1>14. GetAttributes(s).attributes = Named(parts \o rest)
  BY <1>12, <1>13 DEF more
<1>15. FrontOf(s, l, e, rest)
  BY <1>9, <1>14 DEF FrontOf, K
<1>16. QED
  BY <1>3, <1>5, <1>6, <1>12, <1>13, <1>15 DEF rest

TagText(name, l) == name \o Written(l)

LEMMA NameIs ==
  ASSUME NEW A, NEW name, NEW l, Writes(A, name, l)
  PROVE  GetAttributes(TagText(name, l)).name = Casefold(name)
<1> DEFINE s == TagText(name, l)
<1>1. PICK p, from : Parsed(s, name, l, p, from) /\ Parts(s) = from[1]
  BY ParsedTag DEF TagText
<1>2. 1 \in 1..(Len(l) + 1) /\ \A i \in 1..(1 - 1) : ~IsEmpty(l[i])
  BY <1>1 DEF Parsed
<1> HIDE DEF s
<1>3. GetAttributes(s).name = Casefold(name)
  BY <1>1, <1>2, TagParts
<1>4. QED
  BY <1>3 DEF s

\* Without empty quotes all but the lost attributes are read.
LEMMA AllRead ==
  ASSUME NEW A, NEW name, NEW l, Writes(A, name, l), \A i \in 1..Len(l) : ~IsEmpty(l[i])
  PROVE  GetAttributes(TagText(name, l)).attributes = Meant(l, Kept(l))
<1> DEFINE s == TagText(name, l)
           n == Len(l)
           e == n + 1
<1>1. PICK p, from : Parsed(s, name, l, p, from) /\ Parts(s) = from[1]
  BY ParsedTag DEF TagText
<1>2. /\ n \in Nat /\ Inside(s, name, l, p) /\ PartsFrom(from, s)
  BY <1>1 DEF Parsed
<1>3. s \in Seq(Bytes) /\ Len(s) \in Nat /\ p[n + 1] = Len(s) + 1
  BY <1>2 DEF Inside
<1>4. \A i \in 1..n : ~IsEmpty(l[i])
  OBVIOUS
<1> HIDE DEF s
<1>5. e \in 1..(n + 1) /\ 1..(e - 1) = 1..n
  <2> HIDE DEF n
  <2>1. e \in 1..(n + 1) /\ e - 1 = n
    BY <1>2
  <2>2. QED
    BY <2>1
<1> DEFINE K == Kept(l) \cap 1..(e - 1)
<1> HIDE DEF e
<1>6. PICK parts : Counted(parts, l, K) /\ GetAttributes(s).attributes = Named(parts \o from[p[e]])
  <2>1. e \in 1..(Len(l) + 1) /\ \A i \in 1..(e - 1) : ~IsEmpty(l[i])
    BY <1>4, <1>5
  <2>2. FrontOf(s, l, e, from[p[e]])
    BY <1>1, <2>1, TagParts
  <2>3. QED
    BY <2>2 DEF FrontOf, K
<1>7. K = Kept(l)
  BY <1>5 DEF Kept
<1>8. from[p[e]] = <<>>
  <2>1. p[e] = Len(s) + 1
    BY <1>3 DEF e
  <2>2. Len(s) + 1 \in 1..(Len(s) + 2) /\ Len(s) + 1 > Len(s)
    BY <1>3
  <2>3. from[Len(s) + 1] = <<>>
    BY <1>2, <2>2 DEF PartsFrom
  <2>4. QED
    BY <2>1, <2>3
<1>9. parts \o <<>> = parts
  <2> DEFINE S == Seq(Bytes)
  <2>1. parts \in Seq(S)
    BY <1>6 DEF Counted, Reads
  <2> HIDE DEF S
  <2>2. QED
    BY <2>1, ConcatEmptySeq
<1>10. GetAttributes(s).attributes = Named(parts)
  BY <1>6, <1>8, <1>9
<1> HIDE DEF K
<1>11. Named(parts) = Meant(l, K)
  BY <1>6, AllCounts
<1>12. QED
  BY <1>7, <1>10, <1>11 DEF s

LEMMA BehindWrites ==
  ASSUME NEW A, NEW name, NEW l, Writes(A, name, l), NEW e \in 1..Len(l)
  PROVE  LET l2 == SubSeq(l, e, Len(l)) IN
         /\ Writes(A, name, l2) /\ Len(l2) = Len(l) - e + 1
         /\ \A x \in 1..Len(l2) : l2[x] = l[e + x - 1]
<1> DEFINE n == Len(l)
           l2 == SubSeq(l, e, n)
<1>1. /\ name \in Seq(Bytes) /\ IsWord(name) /\ l \in Seq(A) /\ Writable(l)
      /\ \A i \in 1..n : Attr(l[i])
  BY DEF Writes
<1>2. n \in Nat /\ e \in Nat \ {0} /\ n <= n /\ e <= n
  BY <1>1
<1>3. /\ l2 \in Seq(A) /\ Len(l2) = n - e + 1 /\ \A x \in 1..(n - e + 1) : l2[x] = l[e + x - 1]
  <2>1. /\ SubSeq(l, e, n) \in Seq(A) /\ Len(SubSeq(l, e, n)) = (IF e <= n THEN n - e + 1 ELSE 0)
        /\ \A x \in 1..(n - e + 1) : SubSeq(l, e, n)[x] = l[e + x - 1]
    <3>1. l \in Seq(A) /\ n \in Nat /\ e \in Nat \ {0} /\ n <= Len(l)
      BY <1>1, <1>2
    <3> HIDE DEF n
    <3>2. QED
      BY <3>1, PartOf
  <2>2. QED
    BY <1>2, <2>1
<1> HIDE DEF n, l2
<1>4. \A x \in 1..Len(l2) : l2[x] = l[e + x - 1] /\ e + x - 1 \in 1..n
  BY <1>2, <1>3
<1>5. Writable(l2) /\ \A x \in 1..Len(l2) : Attr(l2[x])
  <2>1. \A x \in 1..Len(l2) : Attr(l2[x])
    BY <1>1, <1>4
  <2>2. Writable(l2)
    BY <2>1 DEF Writable, Attr
  <2>3. QED
    BY <2>1, <2>2
<1>6. Writes(A, name, l2)
  BY <1>1, <1>3, <1>5 DEF Writes
<1>7. QED
  BY <1>3, <1>4, <1>6 DEF l2, n

LEMMA TagBracketed ==
  ASSUME NEW A, NEW name, NEW l, Writes(A, name, l), NEW t, t.name = name, t.attributes = l
  PROVE  Bracketed(WriteTag(t), TagText(name, l))
<1> DEFINE w == Written(l)
<1>1. name \in Seq(Bytes) /\ l \in Seq(A) /\ Writable(l)
  BY DEF Writes
<1>2. t.name \in Seq(Bytes) /\ t.attributes \in Seq(A) /\ Writable(t.attributes)
  BY <1>1
<1>3. WriteTag(t) = ((<<Lt>> \o t.name) \o Written(t.attributes)) \o <<Gt>>
  BY <1>2, TagWritten
<1>4. WriteTag(t) = ((<<Lt>> \o name) \o w) \o <<Gt>>
  BY <1>3
<1>5. w \in Seq(Bytes)
  BY <1>1, WrittenType
<1> DEFINE tag == WriteTag(t)
           s == TagText(name, l)
<1>6. s = name \o w
  BY DEF TagText
<1>7. tag = ((<<Lt>> \o name) \o w) \o <<Gt>>
  BY <1>4
<1> HIDE DEF w, tag, s
<1>8. Bracketed(tag, s)
  BY <1>1, <1>5, <1>6, <1>7, BracketedIs
<1>9. QED
  BY <1>8 DEF tag, s

\* What stands in front of the first empty quotes is read, and counts unless its key
\* is found behind.
LEMMA FrontRemains ==
  ASSUME NEW A, NEW name, NEW l, Writes(A, name, l), NEW e \in 1..Len(l),
         \A i \in 1..(e - 1) : ~IsEmpty(l[i]), NEW k \in DOMAIN Meant(l, Kept(l) \cap 1..(e - 1)),
         NEW t, t.name = name, t.attributes = SubSeq(l, e, Len(l))
  PROVE  LET read == GetAttributes(TagText(name, l)).attributes IN
         /\ k \in DOMAIN read
         /\ Find(Casefold(WriteTag(t)), k, 1) = None
              => read[k] = Meant(l, Kept(l) \cap 1..(e - 1))[k]
<1> DEFINE s == TagText(name, l)
           n == Len(l)
           l2 == SubSeq(l, e, n)
           s2 == TagText(name, l2)
           tag == WriteTag(t)
           K == Kept(l) \cap 1..(e - 1)
<1>1. PICK p, from : Parsed(s, name, l, p, from) /\ Parts(s) = from[1]
  BY ParsedTag DEF TagText
<1>2. Writes(A, name, l2) /\ Len(l2) = n - e + 1 /\ \A x \in 1..Len(l2) : l2[x] = l[e + x - 1]
  BY BehindWrites
<1>3. t.name = name /\ t.attributes = l2 /\ n = Len(l)
  OBVIOUS
<1> HIDE DEF l2
<1>4. PICK p2, from2 : Parsed(s2, name, l2, p2, from2)
  BY <1>2, ParsedTag DEF TagText
<1>5. Bracketed(tag, s2)
  BY <1>2, <1>3, TagBracketed
<1> HIDE DEF tag, s, s2
<1>6. /\ name \in Seq(Bytes) /\ n \in Nat /\ Inside(s, name, l, p) /\ Inside(s2, name, l2, p2)
      /\ \A x \in 1..Len(l2) : Attr(l2[x])
  BY <1>1, <1>4 DEF Parsed
<1>7. s \in Seq(Bytes) /\ Len(s) \in Nat /\ s2 \in Seq(Bytes) /\ Len(s2) \in Nat
  BY <1>6 DEF Inside
<1>8. \A x \in 1..Len(l2) : Len(WriteAttribute(l2[x])) \in Nat
  <2>1. \A x \in 1..Len(l2) : WriteAttribute(l2[x]) \in Seq(Bytes)
    BY <1>6, KeyFirst
  <2>2. QED
    BY <2>1
<1>9. PICK d \in Int : /\ Len(s) = Len(s2) + d /\ p[e] = Len(name) + 1 + d
                       /\ \A z \in p[e]..Len(s) : s[z] = s2[z - d]
  <2>1. /\ name \in Seq(Bytes) /\ Inside(s, name, l, p) /\ Len(l) \in Nat /\ Inside(s2, name, l2, p2)
        /\ e \in 1..Len(l) /\ Len(l2) = Len(l) - e + 1 /\ (\A x \in 1..Len(l2) : l2[x] = l[e + x - 1])
        /\ \A x \in 1..Len(l2) : Len(WriteAttribute(l2[x])) \in Nat
    BY <1>2, <1>6, <1>8
  <2> HIDE DEF n
  <2>2. SameBehind(s, p[e], s2, Len(name) + 1)
    BY <2>1, BehindSame
  <2>3. QED
    BY <2>2 DEF SameBehind
<1> DEFINE q == p[e]
           rest == from[q]
<1>10. /\ rest \in Seq(Seq(Bytes)) /\ KeysInside(s, q, rest) /\ q \in 1..(Len(s) + 1)
       /\ \E parts : Counted(parts, l, K) /\ GetAttributes(s).attributes = Named(parts \o rest)
  <2>1. e \in 1..(Len(l) + 1) /\ \A i \in 1..(e - 1) : ~IsEmpty(l[i])
    BY <1>6
  <2> HIDE DEF n, K
  <2>2. from[p[e]] \in Seq(Seq(Bytes)) /\ KeysInside(s, p[e], from[p[e]]) /\ p[e] \in 1..(Len(s) + 1)
    BY <1>1, <2>1, TagParts
  <2>5. FrontOf(s, l, e, from[p[e]])
    BY <1>1, <2>1, TagParts
  <2>3. PICK parts : /\ Counted(parts, l, Kept(l) \cap 1..(e - 1))
                     /\ GetAttributes(s).attributes = Named(parts \o from[p[e]])
    BY <2>5 DEF FrontOf
  <2>4. QED
    BY <2>2, <2>3 DEF K
<1>11. PICK parts : Counted(parts, l, K) /\ GetAttributes(s).attributes = Named(parts \o rest)
  BY <1>10
<1> HIDE DEF q, rest
<1>12. k \in DOMAIN Meant(l, K)
  BY DEF K
<1> HIDE DEF K
<1>13. CountsFor(parts, rest, l, K, k)
  BY <1>10, <1>11, <1>12, FrontCounts
<1>14. k # <<>>
  <2>1. K \subseteq Nat /\ \A i \in K : Attr(l[i])
    BY <1>11 DEF Counted
  <2>6. DOMAIN Meant(l, K) = {Casefold(l[i].key) : i \in K}
    BY <2>1, MeantIs
  <2>2. PICK i \in K : k = Casefold(l[i].key)
    BY <1>12, <2>6
  <2>3. l[i].key \in Seq(Bytes) /\ Len(l[i].key) > 0
    BY <2>1, FormIs
  <2>4. Len(k) > 0
    BY <2>2, <2>3, CaseIs
  <2>5. QED
    BY <2>4
<1>15. ASSUME Find(Casefold(tag), k, 1) = None, NEW r \in 1..Len(rest) PROVE Key(rest[r]) # k
  <2>1. SUFFICES ASSUME Key(rest[r]) = k PROVE FALSE
    OBVIOUS
  <2>2. KeyInside(s, q, k)
    BY <1>10, <2>1 DEF KeysInside
  <2>3. /\ s \in Seq(Bytes) /\ Bracketed(tag, s2) /\ d \in Int /\ q \in Nat /\ Len(s) = Len(s2) + d
        /\ q >= 1 + d /\ q >= 1 /\ (\A z \in q..Len(s) : s[z] = s2[z - d]) /\ k # <<>>
    <3>1. q = Len(name) + 1 + d /\ \A z \in q..Len(s) : s[z] = s2[z - d]
      BY <1>9 DEF q
    <3>2. Len(name) \in Nat
      BY <1>6
    <3>3. q >= 1 + d /\ q >= 1 /\ q \in Nat
      BY <1>7, <1>10, <3>1, <3>2
    <3>4. QED
      BY <1>5, <1>7, <1>9, <1>14, <3>1, <3>3
  <2>4. Find(Casefold(tag), k, 1) # None
    BY <2>2, <2>3, KeyBehind
  <2>5. QED
    BY <1>15, <2>4
<1>16. k \in DOMAIN GetAttributes(s).attributes
  BY <1>11, <1>13 DEF CountsFor
<1>17. Find(Casefold(tag), k, 1) = None => GetAttributes(s).attributes[k] = Meant(l, K)[k]
  BY <1>11, <1>13, <1>15 DEF CountsFor
<1>18. QED
  BY <1>16, <1>17 DEF s, tag, K

\* Inside a tag the bytes are collected.
Collecting(state, s, z) ==
  /\ state \in States /\ state.inTag = TRUE /\ state.skip = 0 /\ state.items = <<>>
  /\ Len(state.word) = z /\ \A i \in 1..z : state.word[i] = s[i]

LEMMA NothingLeft ==
  Text(<<>>) = <<>>
<1>1. DOMAIN <<>> = {}
  OBVIOUS
<1>2. QED
  BY <1>1 DEF Text

LEMMA CollectFirst ==
  ASSUME NEW tag, NEW s, Bracketed(tag, s)
  PROVE  Collecting(Turn(tag, ScanBegin, 1), s, 0)
<1> DEFINE none == <<>>
           items == none \o none
           t == AState(TRUE, none, 0, items)
<1>1. /\ tag \in Seq(Bytes) /\ s \in Seq(Bytes) /\ Len(tag) = Len(s) + 2 /\ tag[1] = Lt
      /\ Len(s) \in Nat
  BY DEF Bracketed
<1>2. 1 \in 1..Len(tag)
  BY <1>1
<1>3. none \in Seq(Bytes) /\ none \in Seq(Items) /\ Len(none) = 0 /\ items = none /\ Text(none) = none
  BY NothingLeft
<1>4. /\ ScanBegin \in States /\ ScanBegin.word = none /\ ScanBegin.skip = 0 /\ ScanBegin.items = none
  <2>1. <<>> \in Seq(Bytes) /\ <<>> \in Seq(Items) /\ 0 \in Nat /\ FALSE \in BOOLEAN
    OBVIOUS
  <2>2. AState(FALSE, <<>>, 0, <<>>) \in States
    BY <2>1, AStateIs
  <2>3. ScanBegin.word = <<>> /\ ScanBegin.skip = 0 /\ ScanBegin.items = <<>>
    BY DEF ScanBegin, AState
  <2>4. QED
    BY <2>2, <2>3 DEF ScanBegin
<1>5. Turn(tag, ScanBegin, 1) = AState(TRUE, <<>>, 0, ScanBegin.items \o Text(ScanBegin.word))
  BY <1>1, <1>2, <1>4, TurnIs
<1>6. Turn(tag, ScanBegin, 1) = t
  BY <1>3, <1>4, <1>5
<1> HIDE DEF none
<1>7. /\ t \in States /\ t.inTag = TRUE /\ t.skip = 0 /\ t.items = none /\ t.word = none
  <2>1. t = AState(TRUE, none, 0, none) /\ 0 \in Nat /\ TRUE \in BOOLEAN
    BY <1>3
  <2>2. AState(TRUE, none, 0, none) \in States
    BY <1>3, <2>1, AStateIs
  <2>3. t \in States
    BY <2>1, <2>2
  <2> HIDE DEF t
  <2>4. t.inTag = TRUE /\ t.skip = 0 /\ t.items = none /\ t.word = none
    BY <2>1 DEF AState
  <2>5. QED
    BY <2>3, <2>4
<1> HIDE DEF t
<1>8. Collecting(t, s, 0)
  BY <1>3, <1>7 DEF Collecting, none
<1>9. QED
  BY <1>6, <1>8

LEMMA CollectNext ==
  ASSUME NEW tag, NEW s, Bracketed(tag, s), NEW z \in Nat, z + 1 <= Len(s),
         s[z + 1] \notin {Lt, Gt}, NEW state, Collecting(state, s, z)
  PROVE  Collecting(Turn(tag, state, z + 2), s, z + 1)
<1> DEFINE w == state.word
           c == tag[z + 2]
           v == Append(w, c)
           t == AState(TRUE, v, 0, <<>>)
<1>1. /\ tag \in Seq(Bytes) /\ s \in Seq(Bytes) /\ Len(tag) = Len(s) + 2 /\ Len(s) \in Nat
      /\ \A i \in 1..Len(s) : tag[i + 1] = s[i]
  BY DEF Bracketed
<1>2. /\ state \in States /\ state.inTag = TRUE /\ state.skip = 0 /\ state.items = <<>>
      /\ Len(w) = z /\ (\A i \in 1..z : w[i] = s[i]) /\ w \in Seq(Bytes)
  BY StateIs DEF Collecting
<1>3. z + 2 \in 1..Len(tag) /\ z + 1 \in 1..Len(s) /\ (z + 1) + 1 = z + 2
  BY <1>1
<1>4. c = s[z + 1] /\ c \in Bytes
  <2>1. tag[(z + 1) + 1] = s[z + 1]
    BY <1>1, <1>3
  <2>2. c = s[z + 1]
    BY <1>3, <2>1
  <2>3. c \in Bytes
    BY <1>1, <1>3, ElementOfSeq
  <2>4. QED
    BY <2>2, <2>3
<1>5. Turn(tag, state, z + 2) = AState(state.inTag, Append(state.word, tag[z + 2]), 0, state.items)
  <2> DEFINE x == z + 2
  <2>1. /\ tag \in Seq(Bytes) /\ x \in 1..Len(tag) /\ state \in States
        /\ state.skip = 0 /\ state.inTag /\ tag[x] \notin {Lt, Gt}
    BY <1>1, <1>2, <1>3, <1>4
  <2> HIDE DEF x
  <2>2. Turn(tag, state, x) = AState(state.inTag, Append(state.word, tag[x]), 0, state.items)
    BY <2>1, TurnIs
  <2>3. QED
    BY <2>2 DEF x
<1>6. Turn(tag, state, z + 2) = t
  BY <1>2, <1>5
<1> HIDE DEF w, c
<1>7. v \in Seq(Bytes) /\ Len(v) = z + 1 /\ (\A i \in 1..z : v[i] = w[i]) /\ v[z + 1] = c
  BY <1>2, <1>4
<1>8. \A i \in 1..(z + 1) : v[i] = s[i]
  <2>1. \A i \in 1..(z + 1) : i \in 1..z \/ i = z + 1
    OBVIOUS
  <2> HIDE DEF v
  <2>2. QED
    BY <1>2, <1>4, <1>7, <2>1
<1> HIDE DEF v
<1>9. /\ t \in States /\ t.inTag = TRUE /\ t.skip = 0 /\ t.items = <<>> /\ t.word = v
  <2>1. <<>> \in Seq(Items) /\ 0 \in Nat /\ TRUE \in BOOLEAN
    OBVIOUS
  <2>2. QED
    <3>1. AState(TRUE, v, 0, <<>>) \in States
      BY <1>7, <2>1, AStateIs
    <3>2. t.inTag = TRUE /\ t.skip = 0 /\ t.items = <<>> /\ t.word = v
      BY DEF AState
    <3>3. QED
      BY <3>1, <3>2
<1> HIDE DEF t
<1>10. Collecting(t, s, z + 1)
  BY <1>7, <1>8, <1>9 DEF Collecting
<1>11. QED
  BY <1>6, <1>10

LEMMA CollectEnd ==
  ASSUME NEW tag, NEW s, Bracketed(tag, s), NEW state, Collecting(state, s, Len(s))
  PROVE  /\ Turn(tag, state, Len(s) + 2).items = Tag(s)
         /\ Turn(tag, state, Len(s) + 2).word = <<>>
<1> DEFINE n == Len(s)
           w == state.word
           last == <<>> \o Tag(w)
           t == AState(FALSE, <<>>, 0, last)
<1>1. /\ tag \in Seq(Bytes) /\ s \in Seq(Bytes) /\ Len(tag) = n + 2 /\ n \in Nat /\ tag[n + 2] = Gt
  BY DEF Bracketed
<1>2. /\ state \in States /\ state.skip = 0 /\ state.items = <<>>
      /\ Len(w) = n /\ (\A i \in 1..n : w[i] = s[i]) /\ w \in Seq(Bytes)
  BY StateIs DEF Collecting
<1>3. w = s
  <2> DEFINE x == w
  <2>1. x \in Seq(Bytes) /\ s \in Seq(Bytes) /\ Len(x) = Len(s) /\ \A i \in 1..Len(x) : x[i] = s[i]
    BY <1>1, <1>2
  <2> HIDE DEF x
  <2>2. x = s
    BY <2>1, Same
  <2>3. QED
    BY <2>2 DEF x
<1>4. n + 2 \in 1..Len(tag)
  BY <1>1
<1>5. Turn(tag, state, n + 2) = AState(FALSE, <<>>, 0, state.items \o Tag(state.word))
  BY <1>1, <1>2, <1>4, TurnIs
<1>6. Turn(tag, state, n + 2) = t
  BY <1>2, <1>5
<1>7. last = Tag(s) /\ Tag(s) \in Seq(Items)
  <2> DEFINE y == Tag(s)
  <2>1. y \in Seq(Items)
    BY <1>1, TagType
  <2> HIDE DEF y
  <2>2. <<>> \o y = y
    BY <2>1, ConcatEmptySeq
  <2>3. QED
    BY <1>3, <2>1, <2>2 DEF y
<1> HIDE DEF last, w
<1>8. t.items = last /\ t.word = <<>>
  <2>1. <<>> \in Seq(Bytes) /\ 0 \in Nat /\ FALSE \in BOOLEAN /\ last \in Seq(Items)
    BY <1>7
  <2>2. QED
    BY DEF AState
<1> HIDE DEF t
<1>9. QED
  BY <1>6, <1>7, <1>8

\* A tag is scanned as one tag.
LEMMA TagScanned ==
  ASSUME NEW tag, NEW s, Bracketed(tag, s), \A z \in 1..Len(s) : s[z] \notin {Lt, Gt}
  PROVE  Scan(tag) = Tag(s)
<1> DEFINE n == Len(s)
<1>1. /\ tag \in Seq(Bytes) /\ s \in Seq(Bytes) /\ Len(tag) = n + 2 /\ n \in Nat
  BY DEF Bracketed
<1>2. PICK f : Scans(f, tag) /\ Scan(tag) = f[Len(tag)].items \o Text(f[Len(tag)].word)
  BY <1>1, ScanIs
<1>3. f[0] = ScanBegin /\ \A i \in 1..(n + 2) : f[i] = Turn(tag, f[i - 1], i)
  BY <1>1, <1>2 DEF Scans
<1>4. \A z \in 1..n : s[z] \notin {Lt, Gt}
  OBVIOUS
<1> DEFINE T == {z \in Nat : z <= n => Collecting(f[z + 1], s, z)}
<1>5. 0 \in T
  <2>1. 1 \in 1..(n + 2) /\ 1 - 1 = 0 /\ 0 + 1 = 1
    BY <1>1
  <2>2. f[1] = Turn(tag, ScanBegin, 1)
    BY <1>3, <2>1
  <2>3. Collecting(f[0 + 1], s, 0)
    BY <2>1, <2>2, CollectFirst
  <2>4. QED
    BY <2>3
<1>6. ASSUME NEW z \in Nat, z \in T PROVE z + 1 \in T
  <2>1. SUFFICES ASSUME z + 1 <= n PROVE Collecting(f[(z + 1) + 1], s, z + 1)
    OBVIOUS
  <2>2. z + 2 \in 1..(n + 2) /\ (z + 2) - 1 = z + 1 /\ (z + 1) + 1 = z + 2 /\ z <= n /\ z + 1 \in 1..n
    BY <1>1, <2>1
  <2>3. Collecting(f[z + 1], s, z)
    BY <1>6, <2>2
  <2>4. f[z + 2] = Turn(tag, f[z + 1], z + 2)
    BY <1>3, <2>2
  <2>5. s[z + 1] \notin {Lt, Gt}
    BY <1>4, <2>2
  <2> DEFINE state == f[z + 1]
  <2>6. Collecting(state, s, z)
    BY <2>3
  <2> HIDE DEF state
  <2>7. Collecting(Turn(tag, state, z + 2), s, z + 1)
    BY <2>1, <2>5, <2>6, CollectNext
  <2>8. QED
    BY <2>2, <2>4, <2>7 DEF state
<1> HIDE DEF T
<1>7. Nat \subseteq T
  BY <1>5, <1>6, NatAll
<1>8. Collecting(f[n + 1], s, n)
  <2>1. n \in T /\ n <= n
    BY <1>1, <1>7
  <2>2. QED
    BY <2>1 DEF T
<1>9. f[n + 2] = Turn(tag, f[n + 1], n + 2)
  <2>1. n + 2 \in 1..(n + 2) /\ (n + 2) - 1 = n + 1
    BY <1>1
  <2>2. QED
    BY <1>3, <2>1
<1>10. f[n + 2].items = Tag(s) /\ f[n + 2].word = <<>>
  BY <1>8, <1>9, CollectEnd
<1>11. Tag(s) \o Text(<<>>) = Tag(s)
  <2> DEFINE y == Tag(s)
  <2>1. y \in Seq(Items)
    BY <1>1, TagType
  <2> HIDE DEF y
  <2>2. y \o <<>> = y
    BY <2>1, ConcatEmptySeq
  <2>3. QED
    BY <2>2, NothingLeft DEF y
<1>12. QED
  BY <1>1, <1>2, <1>10, <1>11

\* A name that is no comment's makes one tag.
LEMMA OneTag ==
  ASSUME NEW s, NEW name \in Seq(Bytes), Len(name) > 0, name[1] # Bang,
         \A i \in 1..Len(name) : name[i] \notin 65..90,
         GetAttributes(s).name = Casefold(name)
  PROVE  /\ Head(Tag(s)).text = name
         /\ Head(Tag(s)).attributes = GetAttributes(s).attributes
<1> DEFINE g == GetAttributes(s)
           item == [kind |-> "tag", text |-> g.name, attributes |-> g.attributes]
<1>1. Casefold(name) = name
  <2> DEFINE c == Casefold(name)
  <2>1. c \in Seq(Bytes) /\ Len(c) = Len(name) /\ \A i \in 1..Len(name) : c[i] = name[i]
    BY CaseIs
  <2> HIDE DEF c
  <2>2. c = name
    BY <2>1, Same
  <2>3. QED
    BY <2>2 DEF c
<1>2. g.name = name
  BY <1>1
<1>3. name # None
  BY NotNoneBytes
<1>4. ~At(name, 1, <<Bang>>)
  <2>1. 1 \in Nat \ {0} /\ Bang \in Bytes
    BY DEF Bang, Bytes
  <2>2. At(name, 1, <<Bang>>) <=> 1 <= Len(name) /\ name[1] = Bang
    BY <2>1, AtSign
  <2>3. QED
    BY <2>2
<1>5. Tag(s) = ItemOf(g)
  BY DEF Tag
<1> HIDE DEF g
<1>6. ItemOf(g) = <<item>>
  BY <1>2, <1>3, <1>4 DEF ItemOf
<1> HIDE DEF item
<1>7. Head(<<item>>) = item
  OBVIOUS
<1>8. Head(Tag(s)) = item
  BY <1>5, <1>6, <1>7
<1>9. item.text = g.name /\ item.attributes = g.attributes
  BY DEF item
<1>10. QED
  BY <1>2, <1>8, <1>9 DEF g

Clean == Bytes \ {Lt, Gt}

LEMMA CleanSigns ==
  /\ <<Space>> \in Seq(Clean) /\ <<EqualSign>> \in Seq(Clean)
  /\ <<Quote>> \in Seq(Clean) /\ <<Apostrophe>> \in Seq(Clean)
<1>1. Space \in Clean /\ EqualSign \in Clean /\ Quote \in Clean /\ Apostrophe \in Clean
  BY DEF Clean, Bytes, Lt, Gt, Space, EqualSign, Quote, Apostrophe
<1>2. QED
  BY <1>1

LEMMA AttributeClean ==
  ASSUME NEW a, Attr(a)
  PROVE  WriteAttribute(a) \in Seq(Clean)
<1> DEFINE k == a.key
           v == a.value
           w == WriteAttribute(a)
<1>1. k \in Seq(Clean) /\ v \in Seq(Clean)
  BY DEF Attr, IsAttribute, Clean
<1>2. \A x, y \in Seq(Clean) : x \o y \in Seq(Clean)
  BY JoinType DEF SeqJoin
<1>3. a.form \in {"bare", "plain", "single", "quoted"}
  BY DEF Attr, Forms
<1>4. ASSUME NEW u \in Seq(Clean), w = k \o (<<EqualSign>> \o u) PROVE w \in Seq(Clean)
  <2> HIDE DEF w, k
  <2>1. <<EqualSign>> \o u \in Seq(Clean)
    BY <1>2, CleanSigns
  <2>2. QED
    BY <1>1, <1>2, <1>4, <2>1
<1>5. ASSUME NEW q, <<q>> \in Seq(Clean) PROVE Quoting(q, v) \in Seq(Clean)
  <2> DEFINE c == <<q>>
  <2>1. c \in Seq(Clean)
    BY <1>5
  <2> HIDE DEF c, v
  <2>2. c \o v \in Seq(Clean)
    BY <1>1, <1>2, <2>1
  <2>3. (c \o v) \o c \in Seq(Clean)
    BY <1>2, <2>1, <2>2
  <2>4. QED
    BY <2>3 DEF c, Quoting
<1>6. CASE a.form = "bare"
  BY <1>1, <1>6, FormIs
<1>7. CASE a.form = "plain"
  <2>1. w = k \o (<<EqualSign>> \o v)
    BY <1>7, FormIs
  <2>2. QED
    BY <1>1, <1>4, <2>1
<1>8. CASE a.form = "single"
  <2>1. w = k \o (<<EqualSign>> \o Quoting(Apostrophe, v))
    BY <1>8, FormIs
  <2>2. Quoting(Apostrophe, v) \in Seq(Clean)
    BY <1>5, CleanSigns
  <2>3. QED
    BY <1>4, <2>1, <2>2
<1>9. CASE a.form = "quoted"
  <2>1. w = k \o (<<EqualSign>> \o Quoting(Quote, v))
    BY <1>9, FormIs
  <2>2. Quoting(Quote, v) \in Seq(Clean)
    BY <1>5, CleanSigns
  <2>3. QED
    BY <1>4, <2>1, <2>2
<1>10. QED
  BY <1>3, <1>6, <1>7, <1>8, <1>9

LEMMA WrittenClean ==
  ASSUME NEW A, NEW l \in Seq(A), \A i \in 1..Len(l) : Attr(l[i])
  PROVE  Written(l) \in Seq(Clean)
<1> DEFINE n == Len(l)
           one(i) == <<Space>> \o WriteAttribute(l[i])
           f == [i \in 1..n |-> one(i)]
<1>1. n \in Nat /\ DOMAIN l = 1..n
  OBVIOUS
<1>2. \A i \in 1..n : one(i) \in Seq(Clean)
  <2>1. ASSUME NEW i \in 1..n PROVE one(i) \in Seq(Clean)
    <3> DEFINE w == WriteAttribute(l[i])
               c == <<Space>>
    <3>1. w \in Seq(Clean)
      BY AttributeClean
    <3>2. c \in Seq(Clean)
      BY CleanSigns
    <3> HIDE DEF w, c
    <3>3. c \o w \in Seq(Clean)
      BY <3>1, <3>2, JoinType DEF SeqJoin
    <3>4. QED
      BY <3>3 DEF w, c
  <2>2. QED
    BY <2>1
<1>3. Written(l) = FlattenSeq(f)
  BY <1>1 DEF Written
<1> HIDE DEF one, n
<1>4. f \in [1..n -> Seq(Clean)]
  BY <1>2
<1> HIDE DEF f
<1>5. QED
  BY <1>1, <1>3, <1>4, FlattenType

\* What TagsAssumption says of a tag.
LEMMA TagWrites ==
  ASSUME NEW t \in Tags
  PROVE  /\ \E A : Writes(A, t.name, t.attributes)
         /\ Len(t.name) > 0 /\ t.name[1] # Bang
         /\ \A i \in 1..Len(t.name) : t.name[i] \notin 65..90
         /\ \A z \in 1..Len(TagText(t.name, t.attributes)) :
              TagText(t.name, t.attributes)[z] \notin {Lt, Gt}
<1> DEFINE name == t.name
           l == t.attributes
           R == [key : Seq(Bytes), form : STRING, value : Seq(Bytes)]
           S == Bytes \ ({Lt, Gt} \cup 65..90)
           s == TagText(name, l)
<1>1. /\ name \in Seq(S) /\ IsWord(name) /\ Head(name) # Bang
      /\ \A i \in DOMAIN l : IsAttribute(l[i])
  BY TagsAssumption
<1>2. name \in Seq(Bytes) /\ Writable(l) /\ l \in Seq(R)
  BY TagsWritable
<1> HIDE DEF name, l, R, S
<1>3. \A i \in 1..Len(l) : Attr(l[i])
  <2>1. DOMAIN l = 1..Len(l)
    BY <1>2
  <2>2. QED
    BY <1>1, <1>2, <2>1 DEF Writable, Attr
<1>4. Writes(R, name, l)
  BY <1>1, <1>2, <1>3 DEF Writes
<1>5. Len(name) > 0 /\ name[1] # Bang
  <2>1. name # <<>>
    BY <1>1 DEF IsWord
  <2>2. Len(name) \in Nat /\ Len(name) # 0
    BY <1>2, <2>1, EmptySeq
  <2>3. Head(name) = name[1]
    BY <1>2, <2>1
  <2>4. QED
    BY <1>1, <2>2, <2>3
<1>6. \A i \in 1..Len(name) : name[i] \in S
  BY <1>1, ElementOfSeq
<1>7. \A i \in 1..Len(name) : name[i] \notin 65..90
  BY <1>6 DEF S
<1>8. name \in Seq(Clean)
  <2>1. \A i \in 1..Len(name) : name[i] \in Clean
    BY <1>6 DEF S, Clean
  <2> DEFINE u == [i \in 1..Len(name) |-> name[i]]
  <2>2. name = u /\ Len(name) \in Nat
    BY <1>2
  <2>3. u \in Seq(Clean)
    BY <2>1, <2>2
  <2> HIDE DEF u
  <2>4. QED
    BY <2>2, <2>3
<1>9. s \in Seq(Clean)
  <2> DEFINE w == Written(l)
  <2>1. w \in Seq(Clean)
    BY <1>2, <1>3, WrittenClean
  <2> HIDE DEF w
  <2>2. name \o w \in Seq(Clean)
    BY <1>8, <2>1, JoinType DEF SeqJoin
  <2>3. QED
    BY <2>2 DEF w, TagText
<1> HIDE DEF s
<1>10. \A z \in 1..Len(s) : s[z] \notin {Lt, Gt}
  <2>1. \A z \in 1..Len(s) : s[z] \in Clean
    BY <1>9, ElementOfSeq
  <2>2. QED
    BY <2>1 DEF Clean
<1>11. QED
  BY <1>4, <1>5, <1>7, <1>10 DEF s, name, l

\* A tag is read as it was written.
LEMMA TagRead ==
  ASSUME NEW t \in Tags
  PROVE  LET read == Head(Scan(WriteTag(t)))
             g == GetAttributes(TagText(t.name, t.attributes))
         IN read.text = t.name /\ read.attributes = g.attributes
<1> DEFINE name == t.name
           l == t.attributes
           s == TagText(name, l)
           tag == WriteTag(t)
<1>1. PICK A : Writes(A, name, l)
  BY TagWrites
<1>2. /\ Len(name) > 0 /\ name[1] # Bang /\ (\A i \in 1..Len(name) : name[i] \notin 65..90)
      /\ \A z \in 1..Len(s) : s[z] \notin {Lt, Gt}
  BY TagWrites
<1>3. name \in Seq(Bytes)
  BY <1>1 DEF Writes
<1>4. GetAttributes(s).name = Casefold(name)
  BY <1>1, NameIs
<1>5. Bracketed(tag, s)
  BY <1>1, TagBracketed
<1> HIDE DEF name, s, tag
<1>6. Scan(tag) = Tag(s)
  BY <1>2, <1>5, TagScanned
<1>7. Head(Tag(s)).text = name /\ Head(Tag(s)).attributes = GetAttributes(s).attributes
  BY <1>2, <1>3, <1>4, OneTag
<1>8. QED
  BY <1>6, <1>7 DEF name, s, tag

\* Whatever the attributes of a tag, what is read of them is what was written, but
\* for the values lost and what empty quotes cost (parse_attrib, get_attributes).
THEOREM TagsReadAsWritten == Spec => []AttributesExplained
<1>1. ASSUME NEW t \in Tags
      PROVE  LET read == Head(Scan(WriteTag(t)))
                 empty == {i \in DOMAIN t.attributes :
                             t.attributes[i].form = "quoted" /\ t.attributes[i].value = <<>>}
                 kept == {i \in DOMAIN t.attributes : ~IsLost(t.attributes[i])}
                 front(i) == Meant(t.attributes, kept \cap 1..(i - 1))
                 rest(i) == SubSeq(t.attributes, i, Len(t.attributes))
                 behind(i) == Casefold(WriteTag([name |-> t.name, attributes |-> rest(i)]))
             IN /\ read.text = t.name
                /\ empty = {} => read.attributes = Meant(t.attributes, kept)
                /\ \A i \in empty :
                     (\A j \in empty : i <= j) =>
                       \A k \in DOMAIN front(i) :
                         /\ k \in DOMAIN read.attributes
                         /\ (Find(behind(i), k, 1) = None => read.attributes[k] = front(i)[k])
  <2> DEFINE name == t.name
             l == t.attributes
             read == Head(Scan(WriteTag(t)))
             g == GetAttributes(TagText(name, l)).attributes
             empty == {i \in DOMAIN l : l[i].form = "quoted" /\ l[i].value = <<>>}
             kept == {i \in DOMAIN l : ~IsLost(l[i])}
             front(i) == Meant(l, kept \cap 1..(i - 1))
             rest(i) == [name |-> name, attributes |-> SubSeq(l, i, Len(l))]
             behind(i) == Casefold(WriteTag(rest(i)))
  <2>1. read.text = name /\ read.attributes = g
    BY TagRead
  <2>2. PICK A : Writes(A, name, l)
    BY TagWrites
  <2> HIDE DEF read, name, l, g
  <2>3. DOMAIN l = 1..Len(l) /\ Len(l) \in Nat
    BY <2>2 DEF Writes
  <2>4. empty = {i \in 1..Len(l) : IsEmpty(l[i])}
    BY <2>3 DEF IsEmpty
  <2>5. kept = Kept(l)
    BY <2>3 DEF Kept
  <2> HIDE DEF empty, kept
  <2>6. ASSUME empty = {} PROVE g = Meant(l, kept)
    <3>1. \A i \in 1..Len(l) : ~IsEmpty(l[i])
      BY <2>4, <2>6
    <3>2. GetAttributes(TagText(name, l)).attributes = Meant(l, Kept(l))
      BY <2>2, <3>1, AllRead
    <3>3. QED
      BY <2>5, <3>2 DEF g
  <2>7. ASSUME NEW i \in empty, \A j \in empty : i <= j, NEW k \in DOMAIN front(i)
        PROVE  k \in DOMAIN g /\ (Find(behind(i), k, 1) = None => g[k] = front(i)[k])
    <3>1. i \in 1..Len(l)
      BY <2>4
    <3>2. \A j \in 1..(i - 1) : ~IsEmpty(l[j])
      <4>1. ASSUME NEW j \in 1..(i - 1), IsEmpty(l[j]) PROVE FALSE
        <5>1. j \in 1..Len(l) /\ j < i
          BY <2>3, <3>1, <4>1
        <5>2. j \in empty
          BY <2>4, <4>1, <5>1
        <5>3. i <= j
          BY <2>7, <5>2
        <5>4. QED
          BY <3>1, <5>1, <5>3
      <4>2. QED
        BY <4>1
    <3> DEFINE u == rest(i)
               K == Kept(l) \cap 1..(i - 1)
    <3>3. u.name = name /\ u.attributes = SubSeq(l, i, Len(l))
      OBVIOUS
    <3>4. front(i) = Meant(l, K)
      BY <2>5
    <3>5. k \in DOMAIN Meant(l, K)
      BY <2>7, <3>4
    <3> HIDE DEF u
    <3>6. /\ k \in DOMAIN GetAttributes(TagText(name, l)).attributes
          /\ Find(Casefold(WriteTag(u)), k, 1) = None
               => GetAttributes(TagText(name, l)).attributes[k] = Meant(l, K)[k]
      BY <2>2, <3>1, <3>2, <3>3, <3>5, FrontRemains
    <3> HIDE DEF K, front
    <3>7. behind(i) = Casefold(WriteTag(u))
      BY DEF u
    <3> HIDE DEF behind
    <3>8. QED
      BY <3>4, <3>6, <3>7 DEF g
  <2> HIDE DEF front, behind
  <2>8. /\ read.text = name
        /\ empty = {} => read.attributes = Meant(l, kept)
        /\ \A i \in empty :
             (\A j \in empty : i <= j) =>
               \A k \in DOMAIN front(i) :
                 /\ k \in DOMAIN read.attributes
                 /\ (Find(behind(i), k, 1) = None => read.attributes[k] = front(i)[k])
    BY <2>1, <2>6, <2>7
  <2>9. QED
    BY <2>8 DEF read, name, l, empty, kept, front, behind
<1>2. AttributesExplained
  BY <1>1 DEF AttributesExplained
<1>3. QED
  BY <1>2, PTL DEF Spec
=============================================================================
