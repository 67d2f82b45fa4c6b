-------------------------------- MODULE Blocks --------------------------------
(***************************************************************************)
(* The tree of blocks (src/BlockLayout.cpp) of the tree the parser built:  *)
(* which items stack as blocks, which flow in lines, how high they are,    *)
(* and which item a click at a point goes to (Tab::click).                 *)
(*                                                                         *)
(* What is in a line is Lines'; here a text or an input is one box as wide *)
(* and high as one, and no line is full.                                   *)
(***************************************************************************)
EXTENDS HTMLParser, FiniteSetsExt

CONSTANTS
  BlockElements   \* what m_text of an item may be to be in BLOCK_ELEMENTS

\* SELF_CLOSING has both: neither ever has a child.
ASSUME BoxesAssumption == {"input", "br"} \cap Tags \subseteq VoidTags

Break == 0
Width == MaxItems + 1   \* of the page: wider than any line

IsText(n) == items[n] \in Texts

BugLayoutMode(n) ==
  IF IsText(n) THEN "inline"
  ELSE IF \E i \in DOMAIN kids[n] : items[kids[n][i]] \in BlockElements THEN "block"
  ELSE IF kids[n] # <<>> THEN "inline" ELSE "block"

\* A block among the children makes their parent a stack of blocks, whatever
\* the others are; it is their m_text that is looked at, be it a text's.
LayoutMode(n) ==
  IF IsText(n) THEN "inline"
  ELSE IF \E i \in DOMAIN kids[n] : items[kids[n][i]] \in BlockElements THEN "block"
  ELSE IF kids[n] # <<>> \/ items[n] = "input" THEN "inline" ELSE "block"

\* recurse: the boxes and breaks of an item in lines.  What is in a button is
\* painted with it.
Content[n \in Items] ==
  IF IsText(n) \/ items[n] \in {"input", "button"} THEN <<n>>
  ELSE IF items[n] = "br" THEN <<Break>>
  ELSE FlattenSeq([i \in DOMAIN kids[n] |-> Content[kids[n][i]]])

\* A box joins the last line, br begins another.
Joined(lines, box) ==
  IF box = Break THEN Append(lines, <<>>)
  ELSE [lines EXCEPT ![Len(lines)] = Append(@, box)]

\* layout begins with a line.
Cut(content) ==
  LET lines[k \in 0..Len(content)] ==
        IF k = 0 THEN << <<>> >> ELSE Joined(lines[k - 1], content[k])
  IN lines[Len(content)]

LinesOf(n) == Cut(Content[n])

\* LineLayout::layout: a line without a box has no height.
LineHeight(line) == IF line = <<>> THEN 0 ELSE 1

\* Where each of some layouts ends that begin where the one before ends.
Ends(heights) ==
  LET end[k \in 0..Len(heights)] == IF k = 0 THEN 0 ELSE end[k - 1] + heights[k]
  IN end

BugTotal(heights) == Max({0} \cup {heights[k] : k \in DOMAIN heights})

\* The end of layout: m_height.
Total(heights) == Ends(heights)[Len(heights)]

Heights(lines) == [k \in DOMAIN lines |-> LineHeight(lines[k])]

\* An item's block has a block for each child below it, or its lines.
Height[n \in Items] ==
  IF LayoutMode(n) = "block" THEN Total([i \in DOMAIN kids[n] |-> Height[kids[n][i]]])
  ELSE Total(Heights(LinesOf(n)))

Object(kind, n, left, right, top, height) ==
  [kind |-> kind, item |-> n, left |-> left, right |-> right,
   top |-> top, bottom |-> top + height]

\* A line at height y of the block of item n, and its boxes.
LineObjects(n, line, y) ==
  <<Object("line", n, 0, Width, y, LineHeight(line))>> \o
  [i \in DOMAIN line |-> Object("box", line[i], i - 1, i, y, 1)]

\* The lines of the block of item n at height y, each where the one before ends.
Lines(n, y) ==
  LET lines == LinesOf(n)
      ends == Ends(Heights(lines))
  IN [k \in DOMAIN lines |-> LineObjects(n, lines[k], y + ends[k - 1])]

\* tree_to_list of the layout from the block of item n at height y: each child
\* begins where the one before it ends.
Objects[at \in Items \X Nat] ==
  LET n == at[1]
      y == at[2]
      ends == Ends([i \in DOMAIN kids[n] |-> Height[kids[n][i]]])
      blocks == [i \in DOMAIN kids[n] |-> Objects[<<kids[n][i], y + ends[i - 1]>>]]
  IN <<Object("block", n, 0, Width, y, Height[n])>> \o
     FlattenSeq(IF LayoutMode(n) = "block" THEN blocks ELSE Lines(n, y))

Layout == Objects[<<Root, 0>>]

Has(o, x, y) == o.left <= x /\ x < o.right /\ o.top <= y /\ y < o.bottom

\* Tab::click: the last object in the list that has the point.
Clicked(layout, x, y) ==
  LET hits == {i \in DOMAIN layout : Has(layout[i], x, y)}
  IN IF hits = {} THEN 0 ELSE layout[Max(hits)].item

-----------------------------------------------------------------------------
(* Properties *)

\* Blocks in lines, lines among blocks, texts outside of any: every text and
\* every input is shown, once and in the order of the document, or is in a
\* button that is.
NothingLost ==
  phase = "done" =>
    LET layout == Layout
        boxes == {i \in DOMAIN layout : layout[i].kind = "box"}
        holds(m, n) == m = n \/ (items[m] = "button" /\ n \in ToSet(ListOf[m]))
    IN /\ \A i, j \in boxes : i < j => layout[i].item < layout[j].item
       /\ \A n \in Items : IsText(n) \/ items[n] = "input" =>
            \E i \in boxes : holds(layout[i].item, n)

\* A click on a box goes to its item, beside the boxes of a line to the item
\* whose lines they are: of all objects there, the last one is the innermost.
ClickFindsBox ==
  phase = "done" =>
    LET layout == Layout IN
    \A i \in DOMAIN layout :
      LET o == layout[i] IN
      /\ (o.kind = "box" => Clicked(layout, o.left, o.top) = o.item)
      /\ (o.kind = "line" /\ o.top < o.bottom =>
            Clicked(layout, Width - 1, o.top) = o.item)
=============================================================================
