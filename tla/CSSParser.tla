------------------------------ MODULE CSSParser ------------------------------
(***************************************************************************)
(* The parser of style sheets and of style attributes (src/CSSParser.cpp). *)
(* It looks at one character at a time and never back.  What it does not   *)
(* understand throws, and parse or body skip to a character from which     *)
(* they go on: a semicolon inside a rule, a closing brace outside.         *)
(*                                                                         *)
(* A text is a sequence of symbols: words, the characters ":" ";" "{" "}" *)
(* by their names, "junk" for any other one and "nul" for the byte 0.      *)
(* White space only separates words.                                       *)
(***************************************************************************)
EXTENDS Naturals, Sequences, SequencesExt, FiniteSetsExt

CONSTANTS Words,      \* runs of letters, digits and VALID_SYMB
          Fold,       \* casefold: a function on Words
          Pieces,     \* the symbol sequences that texts are made of
          MaxPieces   \* bound: pieces in all texts

Signs == {"colon", "semicolon", "open", "close", "junk", "nul"}

ASSUME SymbolsAssumption ==
  /\ Words \cap Signs = {} /\ Fold \in [Words -> Words]
  /\ Pieces \subseteq Seq(Words \cup Signs) \ {<<>>} /\ MaxPieces \in Nat

VARIABLES
  text,    \* what the parser has read of the present text
  rest,    \* what it will read next
  pieces,  \* pieces used so far
  at,      \* what it expects, see below
  sel,     \* the selector being read: its tags, outermost first
  prop,    \* the property being read
  decls,   \* the declarations of the body being read
  rules    \* the rules of the present text: [sel, decls]

parserVars == <<text, rest, pieces, at, sel, prop, decls, rules>>

\* Where the parser is: before a rule, in a selector, before a declaration, its
\* colon, its value or its semicolon, in ignore_until(";}") of body or in
\* ignore_until("}") of parse, or behind the end of a style attribute.
InBody == {"declaration", "colon", "value", "semicolon", "skipDeclaration"}

\* pairs[p] = w
Store(pairs, p, w) == [q \in DOMAIN pairs \cup {p} |-> IF q = p THEN w ELSE pairs[q]]

NoDecls == [p \in {} |-> "none"]

\* A new parser, for a sheet or for a style attribute.
Begin(read, where) ==
  /\ text' = read /\ at' = where
  /\ sel' = <<>> /\ prop' = "none" /\ decls' = NoDecls /\ rules' = <<>>

\* The next symbol is s.
Read(s) ==
  /\ rest # <<>> /\ s = Head(rest)
  /\ rest' = Tail(rest) /\ text' = Append(text, s)
  /\ UNCHANGED pieces

Supply ==
  /\ rest = <<>> /\ pieces < MaxPieces
  /\ rest' \in Pieces /\ pieces' = pieces + 1
  /\ UNCHANGED <<text, at, sel, prop, decls, rules>>

-----------------------------------------------------------------------------
(* parse and selector *)

\* Only the first tag of a selector is casefolded.
SelectorWord ==
  \E w \in Words :
    /\ Read(w)
    /\ \/ at = "rule" /\ sel' = <<Fold[w]>>
       \/ at = "selector" /\ sel' = Append(sel, w)
    /\ at' = "selector"
    /\ UNCHANGED <<prop, decls, rules>>

BugOpenBody ==
  /\ at = "selector" /\ Read("open")
  /\ at' = "declaration"
  /\ UNCHANGED <<sel, prop, decls, rules>>

OpenBody ==
  /\ at = "selector" /\ Read("open")
  /\ at' = "declaration" /\ decls' = NoDecls
  /\ UNCHANGED <<sel, prop, rules>>

\* What is no selector throws; parse goes on behind the next closing brace.
BadSelector ==
  /\ at \in {"rule", "selector", "skipRule"}
  /\ \E s \in Words \cup Signs :
       /\ Read(s)
       /\ s \in Words => at = "skipRule"
       /\ s = "open" => at # "selector"
       /\ at' = IF s = "close" THEN "rule" ELSE "skipRule"
  /\ UNCHANGED <<sel, prop, decls, rules>>

BugCloseBody ==
  /\ at \in InBody /\ Read("close")
  /\ at' = "rule"
  /\ rules' = IF at \in {"declaration", "semicolon"}
              THEN Append(rules, [sel |-> sel, decls |-> decls]) ELSE rules
  /\ UNCHANGED <<sel, prop, decls>>

\* The closing brace ends body wherever it is met, and with it the rule.
CloseBody ==
  /\ at \in InBody /\ Read("close")
  /\ at' = "rule" /\ rules' = Append(rules, [sel |-> sel, decls |-> decls])
  /\ UNCHANGED <<sel, prop, decls>>

-----------------------------------------------------------------------------
(* body and pair *)

Property ==
  /\ at = "declaration"
  /\ \E w \in Words : Read(w) /\ prop' = Fold[w]
  /\ at' = "colon"
  /\ UNCHANGED <<sel, decls, rules>>

Colon ==
  /\ at = "colon" /\ Read("colon")
  /\ at' = "value"
  /\ UNCHANGED <<sel, prop, decls, rules>>

\* The pair is stored before its semicolon is looked for.
Value ==
  /\ at = "value"
  /\ \E w \in Words : Read(w) /\ decls' = Store(decls, prop, w)
  /\ at' = "semicolon"
  /\ UNCHANGED <<sel, prop, rules>>

\* Expected, or what ignore_until has been looking for, or met too early.
Semicolon ==
  /\ at \in InBody /\ Read("semicolon")
  /\ at' = "declaration"
  /\ UNCHANGED <<sel, prop, decls, rules>>

\* body stops at a byte 0 where a declaration could begin.  parse finds no
\* closing brace there.
Nul ==
  /\ at = "declaration" /\ Read("nul")
  /\ at' = "skipRule"
  /\ UNCHANGED <<sel, prop, decls, rules>>

\* Anything else inside a body throws, and body skips to ";" or "}".
BadDeclaration ==
  /\ at \in InBody
  /\ \E s \in (Words \cup Signs) \ {"semicolon", "close"} :
       /\ Read(s)
       /\ ~(s \in Words /\ at \in {"declaration", "value"})
       /\ ~(s = "colon" /\ at = "colon") /\ ~(s = "nul" /\ at = "declaration")
  /\ at' = "skipDeclaration"
  /\ UNCHANGED <<sel, prop, decls, rules>>

-----------------------------------------------------------------------------
(* A style attribute is the text of a body.  White space in front of it is   *)
(* no property name and costs the first declaration.                         *)

BeginAttribute == Begin(<<"junk">>, "skipDeclaration")

\* A closing brace, or a byte 0, ends it too.
EndAttribute ==
  /\ \/ at \in InBody /\ Read("close")
     \/ at = "declaration" /\ Read("nul")
  /\ at' = "end"
  /\ UNCHANGED <<sel, prop, decls, rules>>

Declaration == Property \/ Colon \/ Value \/ Semicolon \/ BadDeclaration

ParseSheet == SelectorWord \/ OpenBody \/ BadSelector \/ Declaration \/ CloseBody \/ Nul

ParseAttribute == Declaration \/ EndAttribute

-----------------------------------------------------------------------------
(* What a text means, without a parser *)

\* The pairs of a body, by where they begin: with the body or behind a semicolon.
PairsOf(body) ==
  {n \in 1 .. Len(body) - 2 :
     /\ n = 1 \/ body[n - 1] = "semicolon"
     /\ body[n] \in Words /\ body[n + 1] = "colon" /\ body[n + 2] \in Words}

\* A body is its pairs, whatever follows them up to the next semicolon; the last
\* one of a property counts.
Declares(body) ==
  LET last(p) == Max({n \in PairsOf(body) : Fold[body[n]] = p})
  IN [p \in {Fold[body[n]] : n \in PairsOf(body)} |-> body[last(p) + 2]]

\* A selector is in front of the brace at b.
Opens(s, b) == b > 1 /\ s[b] = "open" /\ \A i \in 1 .. b - 1 : s[i] \in Words

\* What stands between two closing braces is a rule if a brace opens a body and
\* no declaration of it begins with a byte 0.
IsRule(s) ==
  \E b \in DOMAIN s :
    /\ Opens(s, b)
    /\ \A i \in b + 1 .. Len(s) : s[i] = "nul" => i > b + 1 /\ s[i - 1] # "semicolon"

TagsOf(s, b) == [i \in 1 .. b - 1 |-> IF i = 1 THEN Fold[s[1]] ELSE s[i]]
BodyOf(s, b) == [i \in 1 .. Len(s) - b |-> s[b + i]]

RuleOf(s) ==
  LET b == CHOOSE k \in DOMAIN s : Opens(s, k)
  IN [sel |-> TagsOf(s, b), decls |-> Declares(BodyOf(s, b))]

\* The end of s, behind its last closing brace.
LastPiece(s) ==
  LET last == Max({0} \cup {k \in DOMAIN s : s[k] = "close"})
  IN [i \in 1 .. Len(s) - last |-> s[last + i]]

\* An error costs what stands between two closing braces and nothing else; what
\* is behind the last closing brace is no rule.
RulesOf(s) ==
  LET found[n \in 0 .. Len(s)] ==
        IF n = 0 THEN <<>>
        ELSE LET before == found[n - 1]
                 piece == LastPiece(SubSeq(s, 1, n - 1))
             IN IF s[n] = "close" /\ IsRule(piece) THEN Append(before, RuleOf(piece)) ELSE before
  IN found[Len(s)]
=============================================================================
