------------------------------ MODULE HTMLParser ------------------------------
(***************************************************************************)
(* The HTML parser (src/HTMLParser.cpp): a stream of texts and tags builds *)
(* a tree of items.  Open tags wait on a stack (m_unfinished) and join     *)
(* their parent's children when they close; html, head and body are opened *)
(* and closed where the document leaves them out.                          *)
(*                                                                         *)
(* Items are numbered in the order they are made.  One action is one turn  *)
(* of parse's loop that completes a text or a tag.  Attributes, blank      *)
(* texts and tags with a leading ! leave no trace in the tree.             *)
(***************************************************************************)
EXTENDS Naturals, Sequences, SequencesExt, FiniteSets

CONSTANTS Tags,       \* names of start tags
          Texts,      \* the texts told apart
          HeadTags,   \* HEAD_TAGS
          VoidTags,   \* SELF_CLOSING
          MaxItems    \* bound on the size of the tree

ASSUME TagsAssumption ==
  /\ {"html", "head", "body"} \cup HeadTags \cup VoidTags \subseteq Tags
  /\ {"html", "head", "body"} \cap (HeadTags \cup VoidTags) = {}
  /\ (Texts \cup {"", "/head", "/html", "/other"}) \cap Tags = {}
  /\ MaxItems \in Nat

\* What names an end tag is used only for where it stands.
EndTags == {"/head", "/html", "/other"}
AfterHtmlTags == {"head", "body", "/html"}

VARIABLES
  items,    \* items[n]: m_text of item n, the name of a tag
  parent,   \* m_parent, 0 for none
  kids,     \* m_children
  open,     \* m_unfinished
  phase     \* "parsing", "closing" (in finish), "done" or "crashed"

vars == <<items, parent, kids, open, phase>>

\* The tree under construction, as one value for the helpers.
Tree == [items |-> items, parent |-> parent, kids |-> kids, open |-> open]

Root == 1

Init ==
  /\ items = <<>> /\ parent = <<>> /\ kids = <<>> /\ open = <<>>
  /\ phase = "parsing"

-----------------------------------------------------------------------------
(* Operations on the tree *)

Top(t) == IF t.open = <<>> THEN 0 ELSE Last(t.open)

BugParentIsRoot(t, name) ==
  [t EXCEPT !.items = Append(@, name),
            !.parent = Append(@, IF t.open = <<>> THEN 0 ELSE Head(t.open)),
            !.kids = Append(@, <<>>)]

NewItem(t, name) ==
  [t EXCEPT !.items = Append(@, name), !.parent = Append(@, Top(t)),
            !.kids = Append(@, <<>>)]

\* A start tag waits on the stack.
Push(t, name) == [NewItem(t, name) EXCEPT !.open = Append(@, Len(t.items) + 1)]

\* Item n becomes the last child of item p.
Adopt(children, p, n) == [children EXCEPT ![p] = Append(@, n)]

BugPopToRoot(t) == [t EXCEPT !.open = Front(@), !.kids = Adopt(@, Root, Top(t))]

BugPopDrops(t) == [t EXCEPT !.open = Front(@)]

\* The innermost open tag closes, whatever the end tag is called, and joins the
\* tag it is in.
Pop(t) ==
  LET rest == Front(t.open) IN
  [t EXCEPT !.open = rest, !.kids = Adopt(@, Last(rest), Top(t))]

\* A text or a void tag is complete at once.
Leaf(t, name) == [NewItem(t, name) EXCEPT !.kids = Adopt(@, Top(t), Len(t.items) + 1)]

AtRoot(t) == Len(t.open) = 1

BugInHeadOffByOne(t) == Len(t.open) = 3 /\ t.items[Top(t)] = "head"

InHead(t) == Len(t.open) = 2 /\ t.items[Top(t)] = "head"

BugBodyFirst(t, name) == IF t.open = <<>> THEN Push(t, "body") ELSE t

Rooted(t, name) == IF t.open = <<>> /\ name # "html" THEN Push(t, "html") ELSE t

\* implcit_tag: the tags a document may leave out before name.  Its list of
\* open tags grows from one turn of its loop to the next, so at most one tag is
\* opened under html, or the head closed, but never a body opened after that.
Implied(t, name) ==
  LET r == Rooted(t, name) IN
  CASE AtRoot(r) /\ name \notin AfterHtmlTags ->
         Push(r, IF name \in HeadTags THEN "head" ELSE "body")
    [] InHead(r) /\ name \notin HeadTags \cup {"/head"} -> Pop(r)
    [] OTHER -> r

Become(t) ==
  /\ Len(t.items) <= MaxItems
  /\ items' = t.items /\ parent' = t.parent /\ kids' = t.kids /\ open' = t.open

-----------------------------------------------------------------------------
(* The parser *)

Text ==
  /\ phase = "parsing"
  /\ \E text \in Texts : Become(Leaf(Implied(Tree, ""), text))
  /\ UNCHANGED phase

StartTag(name) ==
  /\ phase = "parsing"
  /\ LET t == Implied(Tree, name) IN
       Become(IF name \in VoidTags THEN Leaf(t, name) ELSE Push(t, name))
  /\ UNCHANGED phase

\* The outermost tag stays open to the end.
EndTag(name) ==
  /\ phase = "parsing"
  /\ LET t == Implied(Tree, name) IN Become(IF AtRoot(t) THEN t ELSE Pop(t))
  /\ UNCHANGED phase

\* For "<>" parse_attrib finds no part and get_attributes reads the first one.
NamelessTag ==
  /\ phase = "parsing"
  /\ phase' = "crashed"
  /\ UNCHANGED <<items, parent, kids, open>>

EndOfInput ==
  /\ phase = "parsing"
  /\ Become(IF open = <<>> THEN Implied(Tree, "") ELSE Tree)
  /\ phase' = "closing"

CloseOne ==
  /\ phase = "closing" /\ Len(open) > 1
  /\ Become(Pop(Tree))
  /\ UNCHANGED phase

Finish ==
  /\ phase = "closing" /\ Len(open) = 1
  /\ open' = <<>> /\ phase' = "done"
  /\ UNCHANGED <<items, parent, kids>>

Next ==
  \/ Text
  \/ \E name \in Tags : StartTag(name)
  \/ \E name \in EndTags : EndTag(name)
  \/ NamelessTag \/ EndOfInput \/ CloseOne \/ Finish

Spec == Init /\ [][Next]_vars

-----------------------------------------------------------------------------
(* Properties *)

Items == DOMAIN items

\* m_unfinished is the path from the root to the innermost open tag.
OpenIsAPath ==
  /\ \A i \in DOMAIN open : parent[open[i]] = IF i = 1 THEN 0 ELSE open[i - 1]
  /\ open # <<>> => open[1] = Root
  /\ phase = "closing" => open # <<>>

\* Every item but the root is on the stack or once among the children of its
\* parent.
PlacedOnce ==
  LET slots == UNION {{p} \X DOMAIN kids[p] : p \in Items} IN
  \A n \in Items :
    LET places == {at \in slots : kids[at[1]][at[2]] = n} IN
    IF n = Root \/ n \in ToSet(open)
    THEN places = {}
    ELSE \E i \in Items : places = {<<parent[n], i>>}

\* The NOTE before add_tag: a tag is first put into the unfinished bucket and
\* into its parent's children only after it is closed.  A tag that closes joins
\* the tag its m_parent names, and nothing is lost or in two places.
TreeSound == OpenIsAPath /\ PlacedOnce

\* tree_to_list: an item, then its children's lists.
ListOf[n \in Items] == <<n>> \o FlattenSeq([i \in DOMAIN kids[n] |-> ListOf[kids[n][i]]])

\* The finished tree, listed from its root, is the document in its order: what
\* runs the scripts and paints the page meets every item once, as written.
SourceOrder == phase = "done" => ListOf[Root] = [n \in Items |-> n]

\* The head of the document holds nothing but what belongs there; a text or
\* another tag closes it first.
HeadHoldsHeadTags ==
  \A n \in Items :
    parent[n] # 0 /\ items[parent[n]] = "head" /\ parent[parent[n]] = Root
      => items[n] \in HeadTags

\* What innerHTML_set relies on: the root is html, and the first thing below it
\* is the head or the body the document began with.
RootShape ==
  phase = "done" =>
    /\ items[Root] = "html"
    /\ Len(items) > 1 => items[2] \in {"head", "body"} /\ Head(kids[Root]) = 2
=============================================================================
