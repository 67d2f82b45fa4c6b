------------------------------- MODULE Cascade -------------------------------
(***************************************************************************)
(* How a page gets its style (Tab::load, Tab::render and Tab::style in     *)
(* src/Tab.cpp, the selectors in include/Parser.hpp).  load runs the       *)
(* page's scripts, then parses one sheet after the other and collects      *)
(* their rules; render sorts them and styles the tree from the root down,  *)
(* every item after its parent.  A script that replaces items renders      *)
(* again, over the styles of those it left alone - and during load with    *)
(* the rules of the page before, which are still there.                    *)
(*                                                                         *)
(* The tree is a constant, its items numbered from the root down.  One     *)
(* item has a style attribute, one can be replaced by a script.            *)
(***************************************************************************)
EXTENDS CSSParser

CONSTANTS
  Parent,      \* the item above each item, 0 for the root
  Name,        \* the items' tags, "text" for a text
  Owner,       \* the item with the style attribute
  Replaced,    \* the item without children that a script replaces
  Inherited,   \* INHERITED_PROPERTIES, "size" among them
  Default,     \* and their values
  OldRules,    \* rule lists the page before may have left
  SizeOf,      \* what a word says as a font size: [unit, n], see Size
  SmallSort    \* lists up to this length are sorted as a stable sort would

Nodes == DOMAIN Parent

\* A font size: n hundredths of a pixel, n per cent, or no number.
Size == [unit : {"px", "percent", "none"}, n : Nat]
Throws == [unit |-> "throws", n |-> 0]

ASSUME TreeAssumption ==
  /\ Parent \in Seq(Nat) /\ \A i \in Nodes : Parent[i] < i
  /\ Name \in [Nodes -> Words \cup {"text"}] /\ "text" \notin Words
  /\ {Owner, Replaced} \subseteq Nodes /\ Owner # Replaced
ASSUME ValuesAssumption ==
  /\ "size" \in Inherited /\ Inherited \subseteq Words /\ DOMAIN Default = Inherited
  /\ SizeOf \in [Words -> Size] /\ Default["size"] \in Size /\ Default["size"].unit = "px"
  /\ SmallSort \in Nat
  /\ \A rs \in OldRules : /\ rs \in Seq({rs[k] : k \in DOMAIN rs})
                          /\ \A k \in DOMAIN rs : rs[k].sel \in Seq(Words) \ {<<>>}

VARIABLES
  phase,    \* "attribute", "scripts", "sheets", "edited", "shown" or "dead"
  listed,   \* m_rules, in the order the last sort left
  style,    \* m_style of every item
  inline,   \* the declarations of the style attribute
  \* history variables
  source,   \* the rules in the order of the sheets
  left      \* the rules of the page before, if a script has rendered with them

cascadeVars == <<parserVars, phase, listed, style, inline, source, left>>

NoStyle == NoDecls

\* A new tree: its items have no style.
CascadeInit ==
  /\ text = <<>> /\ rest = <<>> /\ pieces = 0 /\ at = "declaration"
  /\ sel = <<>> /\ prop = "none" /\ decls = NoDecls /\ rules = <<>>
  /\ phase = "attribute" /\ style = [i \in Nodes |-> NoStyle] /\ inline = NoDecls
  /\ listed \in OldRules /\ source = <<>> /\ left = <<>>

-----------------------------------------------------------------------------
(* Selectors *)

Ancestors(n) ==
  LET above[i \in Nodes] == IF Parent[i] = 0 THEN {} ELSE {Parent[i]} \cup above[Parent[i]]
  IN above[n]

BugMatches(s, n) ==
  LET match[k \in DOMAIN s] ==
        {i \in Nodes : Name[i] = s[k] /\ (k = 1 \/ Parent[i] \in match[k - 1])}
  IN n \in match[Len(s)]

\* A DescendantSelector is nested in its ancestor part: the last tag is the
\* item's, and the rest matches some item above it.
Matches(s, n) ==
  LET match[k \in DOMAIN s] ==
        {i \in Nodes : Name[i] = s[k] /\ (k = 1 \/ \E a \in Ancestors(i) : a \in match[k - 1])}
  IN n \in match[Len(s)]

Priority(rule) == Len(rule.sel)

-----------------------------------------------------------------------------
(* Tab::render and Tab::style *)

BugSorted(s) == {s}

\* The orders in which std::ranges::sort may leave a list: by priority, and among
\* equals as they were if the list is short enough for an insertion sort.
Orders(s) ==
  {p \in [DOMAIN s -> DOMAIN s] :
     /\ \A i \in DOMAIN s : \E k \in DOMAIN s : p[k] = i
     /\ \A j, k \in DOMAIN s : j < k =>
          \/ Priority(s[p[j]]) < Priority(s[p[k]])
          \/ Priority(s[p[j]]) = Priority(s[p[k]]) /\ (Len(s) <= SmallSort => p[j] < p[k])}

Sorted(s) == {[k \in DOMAIN s |-> s[p[k]]] : p \in Orders(s)}

Worth(d) == [p \in DOMAIN d |-> IF p = "size" THEN SizeOf[d[p]] ELSE d[p]]

\* std::stof reads both numbers of a size in per cent.
Of(size, above) ==
  IF size.unit # "percent" THEN size
  ELSE IF above.unit = "px" THEN [unit |-> "px", n |-> (size.n * above.n) \div 100]
  ELSE Throws

Over(new, old) ==
  [p \in DOMAIN new \cup DOMAIN old |-> IF p \in DOMAIN new THEN new[p] ELSE old[p]]

\* One item below one styled as above: the inherited properties are set back,
\* the others keep what an earlier pass left; rules in their order, then the
\* style attribute, then a size in per cent becomes one of its parent's.
Styled(n, order, above, old) ==
  LET set[k \in 0 .. Len(order)] ==
        IF k = 0 THEN Over([p \in Inherited |-> above[p]], old)
        ELSE IF Matches(order[k].sel, n) THEN Over(Worth(order[k].decls), set[k - 1])
        ELSE set[k - 1]
      own == IF n = Owner THEN Over(Worth(inline), set[Len(order)]) ELSE set[Len(order)]
  IN [own EXCEPT !["size"] = Of(@, above["size"])]

StyleAll(order) ==
  LET done[n \in Nodes] ==
        Styled(n, order, IF Parent[n] = 0 THEN Default ELSE done[Parent[n]], style[n])
  IN done

\* Of has thrown, or the layout of a text will at a size that is no number.
\* Nobody catches it.
Unreadable(styles) ==
  \E n \in Nodes : \/ styles[n]["size"] = Throws
                  \/ (Name[n] = "text" /\ styles[n]["size"].unit = "none")

Render ==
  \E order \in Sorted(listed) :
    /\ listed' = order
    /\ style' = StyleAll(order)

-----------------------------------------------------------------------------
(* Tab::load *)

Parse ==
  /\ \/ phase = "sheets" /\ (Supply \/ ParseSheet)
     \/ phase = "attribute" /\ (Supply \/ ParseAttribute)
  /\ UNCHANGED <<phase, listed, style, inline, source, left>>

\* White space may be in front of the attribute's text.
SpaceInAttribute ==
  /\ phase = "attribute" /\ text = <<>> /\ rest = <<>>
  /\ BeginAttribute
  /\ UNCHANGED <<rest, pieces, phase, listed, style, inline, source, left>>

\* The attribute is parsed at every render, with the same result.
EndAttributeText ==
  /\ phase = "attribute" /\ rest = <<>>
  /\ inline' = decls /\ phase' = "scripts" /\ Begin(<<>>, "rule")
  /\ UNCHANGED <<rest, pieces, listed, style, source, left>>

\* A script of the page sets innerHTML before its sheets are there.
ScriptRenders ==
  /\ phase = "scripts"
  /\ Render
  /\ phase' = IF Unreadable(style') THEN "dead" ELSE "scripts"
  /\ left' = listed
  /\ UNCHANGED <<parserVars, inline, source>>

BugRulesStay ==
  /\ phase = "scripts"
  /\ phase' = "sheets"
  /\ UNCHANGED <<parserVars, listed, style, inline, source, left>>

\* Only then the rules of the page before are cleared.
BeginSheets ==
  /\ phase = "scripts"
  /\ phase' = "sheets" /\ listed' = <<>>
  /\ UNCHANGED <<parserVars, style, inline, source, left>>

\* The rules of a sheet join those of the sheets before it, whatever it ended
\* in; after the last one the page is rendered.
EndSheet ==
  /\ phase = "sheets" /\ rest = <<>>
  /\ listed' = listed \o rules /\ source' = source \o rules
  /\ Begin(<<>>, "rule") /\ phase' \in {"sheets", "edited"}
  /\ UNCHANGED <<rest, pieces, style, inline, left>>

Show ==
  /\ phase = "edited"
  /\ Render
  /\ phase' = IF Unreadable(style') THEN "dead" ELSE "shown"
  /\ UNCHANGED <<parserVars, inline, source, left>>

\* innerHTML: a new item has no style yet.
Edit ==
  /\ phase = "shown"
  /\ phase' = "edited" /\ style' = [style EXCEPT ![Replaced] = NoStyle]
  /\ UNCHANGED <<parserVars, listed, inline, source, left>>

CascadeNext ==
  \/ Parse \/ SpaceInAttribute \/ EndAttributeText \/ ScriptRenders \/ BeginSheets
  \/ EndSheet \/ Show \/ Edit

CascadeSpec == CascadeInit /\ [][CascadeNext]_cascadeVars

-----------------------------------------------------------------------------
(* Properties *)

\* After every symbol of a sheet its rules are those of the pieces between
\* closing braces that are rules, in their order, and after every symbol of a
\* style attribute its declarations are the pairs between semicolons: an error
\* costs the piece it is in and nothing else.
ErrorsStayInTheirPiece ==
  /\ phase = "sheets" => rules = RulesOf(text)
  /\ phase = "attribute" => decls = Declares(IF at = "end" THEN Front(text) ELSE text)

Owns(n, p) == n = Owner /\ p \in DOMAIN inline

\* A selector matches an item if its tags are those of items on the way down to
\* it, the last one its own.
Chain(s, n) ==
  \E way \in [DOMAIN s -> Nodes] :
    /\ way[Len(s)] = n
    /\ \A k \in DOMAIN s : Name[way[k]] = s[k] /\ (k > 1 => way[k - 1] \in Ancestors(way[k]))

\* The rules with a say in property p of item n, and those with the last one.
Speak(n, p) == {k \in DOMAIN source : p \in DOMAIN source[k].decls /\ Chain(source[k].sel, n)}
Strongest(n, p) ==
  {k \in Speak(n, p) : \A j \in Speak(n, p) : Priority(source[j]) <= Priority(source[k])}
Decide(n, p) == IF Len(source) <= SmallSort THEN {Max(Strongest(n, p))} ELSE Strongest(n, p)

Above(n) == IF Parent[n] = 0 THEN Default ELSE style[Parent[n]]

\* What a page shows is what the cascade says: the style attribute before the
\* rule with most tags, the later of two equal rules (in lists the sort is stable
\* for), what the parent has where no rule speaks, and sizes in pixels.  It is so
\* after every render, which a key in a field or a script makes over the styles
\* of the one before.  A rule of another page is seen in one case only: a script
\* rendered before the sheets were there, and no rule of this page speaks.
StyleFollowsCascade ==
  phase = "shown" =>
    \A n \in Nodes :
      LET declared(p) == IF Owns(n, p) THEN {inline[p]}
                         ELSE {source[k].decls[p] : k \in Decide(n, p)}
          value(p, w) == IF p = "size" THEN Of(SizeOf[w], Above(n)["size"]) ELSE w
          spoken == {p \in Words : Owns(n, p) \/ Speak(n, p) # {}}
      IN /\ Inherited \cup spoken \subseteq DOMAIN style[n]
         /\ \A p \in spoken : \E w \in declared(p) : style[n][p] = value(p, w)
         /\ \A p \in Inherited \ spoken : style[n][p] = Above(n)[p]
         /\ \A p \in DOMAIN style[n] \ (Inherited \cup spoken) :
              \E k \in DOMAIN left :
                /\ Chain(left[k].sel, n)
                /\ p \in DOMAIN left[k].decls /\ style[n][p] = left[k].decls[p]
=============================================================================
