------------------------------ MODULE Attributes ------------------------------
(***************************************************************************)
(* What stands between < and >: the name of a tag and its attributes       *)
(* (get_attributes and parse_attrib, src/HTMLParser.cpp).  Texts are       *)
(* sequences of bytes.                                                     *)
(***************************************************************************)
EXTENDS Strings

\* ASCII
EqualSign == 61   Quote == 34   Apostrophe == 39
White == {32} \cup (9..13)

\* hlp::casefold
Casefold(s) == [i \in DOMAIN s |-> IF s[i] \in 65..90 THEN s[i] + 32 ELSE s[i]]

\* The first position from i on whose byte is not in bytes.
Behind(s, i, bytes) ==
  CHOOSE j \in i..(Len(s) + 1) :
    /\ j <= Len(s) => s[j] \notin bytes
    /\ \A k \in i..(j - 1) : s[k] \in bytes

SkipWhite(s, i) == Behind(s, i, White)

Is(s, i, byte) == i <= Len(s) /\ s[i] = byte

BugWordEnd(s, i, inQuotes) ==
  Behind(s, i, (0..255) \ ({EqualSign, Quote} \cup White))

\* word: up to = or ", or white space outside quotes, but one byte at least.
WordEnd(s, i, inQuotes) ==
  LET end == Behind(s, i, (0..255) \ ({EqualSign, Quote} \cup (IF inQuotes THEN {} ELSE White)))
  IN IF end = i /\ i <= Len(s) THEN i + 1 ELSE end

\* The catch: on behind the next quote, without the attribute, or to the end with
\* what there is of it.
Recover(s, i, attribute) ==
  LET quote == Find(s, <<Quote>>, i)
  IN IF quote = None THEN [parts |-> <<attribute>>, next |-> Len(s) + 1]
     ELSE [parts |-> <<>>, next |-> SkipWhite(s, quote + 1)]

\* A value in quotes.  The end of the text passes for the closing quote.
QuotedValue(s, name, from, to) ==
  LET attribute == name \o <<EqualSign, Quote>> \o SubSeq(s, from, to - 1)
  IN IF to <= Len(s) /\ ~Is(s, to, Quote) THEN Recover(s, to, attribute)
     ELSE [parts |-> <<Append(attribute, Quote)>>, next |-> to + 1]

PlainValue(s, name, from, to) ==
  [parts |-> <<name \o <<EqualSign>> \o SubSeq(s, from, to - 1)>>, next |-> to]

ValuePart(s, name, i) ==
  IF Is(s, i, Quote) THEN QuotedValue(s, name, i + 1, WordEnd(s, i + 1, TRUE))
  ELSE PlainValue(s, name, i, WordEnd(s, i, FALSE))

NamePart(s, name, i) ==
  IF Is(s, i, EqualSign) THEN ValuePart(s, name, SkipWhite(s, i + 1))
  ELSE [parts |-> <<name>>, next |-> i]

\* One turn of parse_attrib's loop at position i: what it adds, and where it goes
\* on.
Part(s, i) ==
  LET start == SkipWhite(s, i)
      end == WordEnd(s, start, FALSE)
  IN NamePart(s, SubSeq(s, start, end - 1), SkipWhite(s, end))

\* parse_attrib
Parts(s) ==
  LET from[i \in 1..(Len(s) + 2)] ==
        IF i > Len(s) THEN <<>>
        ELSE LET part == Part(s, i) IN part.parts \o from[part.next]
  IN from[1]

Unquoted(value) ==
  IF Len(value) > 2 /\ Head(value) \in {Quote, Apostrophe}
  THEN SubSeq(value, 2, Len(value) - 1) ELSE value

\* The key and the value of a part.
Key(part) == Casefold(Before(part, Find(part, <<EqualSign>>, 1)))
Value(part) ==
  LET sign == Find(part, <<EqualSign>>, 1)
  IN IF sign = None THEN <<>> ELSE Unquoted(From(part, sign + 1))

\* A later attribute of the same key counts.
Named(parts) ==
  [key \in {Key(parts[i]) : i \in DOMAIN parts} |->
     Value(parts[CHOOSE i \in DOMAIN parts :
                   /\ Key(parts[i]) = key
                   /\ \A j \in DOMAIN parts : j > i => Key(parts[j]) # key])]

\* get_attributes: the name is the first part, which is read though there may be
\* none; then it is None here.
OfParts(parts) ==
  IF parts = <<>> THEN [name |-> None, attributes |-> <<>>]
  ELSE [name |-> Casefold(Head(parts)), attributes |-> Named(Tail(parts))]

GetAttributes(text) == OfParts(Parts(text))
=============================================================================
