-------------------------------- MODULE Lines --------------------------------
(***************************************************************************)
(* The inline layout of one block (src/BlockLayout.cpp,                    *)
(* src/InlineLayout.cpp).  A first pass cuts the words and inputs of the   *)
(* block into lines, counting with a cursor; a second pass places them,    *)
(* each after the one before it, and stacks the lines.                     *)
(*                                                                         *)
(* Lengths are in quarters of a pixel, so that the factor 1.25 stays       *)
(* whole.  The block's corner is the origin.                               *)
(***************************************************************************)
EXTENDS Integers, Sequences, FiniteSetsExt, SequencesExt

CONSTANTS Fonts,       \* [space, ascent, descent] of the fonts, by SDL_ttf
          BlockFont,   \* the font of the block's own style, m_node's
          Widths,      \* widths of words
          InputWidth,  \* INPUT_WIDTH_PX
          BlockWidth,  \* m_width
          TabHeight,   \* tab_height
          Scrolls,     \* values of m_scroll_y
          MaxBoxes     \* bound on the words, inputs and lines of the block

ASSUME FontsAssumption ==
  /\ Fonts \subseteq [space : Nat, ascent : Nat, descent : Nat]
  /\ BlockFont \in Fonts
ASSUME LengthsAssumption ==
  /\ Widths \cup {InputWidth} \subseteq Nat \ {0}
  /\ {BlockWidth, TabHeight, MaxBoxes} \cup Scrolls \subseteq Nat

VARIABLES
  lines,     \* the LineLayouts, each the sequence of its boxes,
             \* records [kind, width, font]
  cursor,    \* m_cursor_x
  placed     \* the second pass has run

vars == <<lines, cursor, placed>>

\* BlockLayout::layout begins a line.
Init == lines = << <<>> >> /\ cursor = 0 /\ placed = FALSE

-----------------------------------------------------------------------------
(* First pass: recurse walks the block's content *)

BugFits(width) == cursor <= BlockWidth

Fits(width) == cursor + width <= BlockWidth

BugCounted(box) == BlockFont.space

\* The space the cursor counts behind a box: make_word takes the font of the text's
\* style, input that of the block's, whatever font the input is shown in.
Counted(box) == IF box.kind = "input" THEN BlockFont.space ELSE box.font.space

\* make_word and input: a box that does not fit begins a new line, even where
\* the one it leaves is empty.
Add(box) ==
  LET k == Len(lines) IN
  /\ ~placed
  /\ IF Fits(box.width)
     THEN /\ lines' = [lines EXCEPT ![k] = Append(@, box)]
          /\ cursor' = cursor + box.width + Counted(box)
     ELSE /\ lines' = Append(lines, <<box>>)
          /\ cursor' = box.width + Counted(box)
  /\ UNCHANGED placed

\* The bound: a box or a break at most takes a line.
Room == Len(FlattenSeq(lines)) + Len(lines) <= MaxBoxes

Word ==
  /\ Room
  /\ \E w \in Widths, f \in Fonts : Add([kind |-> "text", width |-> w, font |-> f])

Input ==
  /\ Room
  /\ \E f \in Fonts : Add([kind |-> "input", width |-> InputWidth, font |-> f])

LineBreak ==
  /\ ~placed /\ Room
  /\ lines' = Append(lines, <<>>) /\ cursor' = 0
  /\ UNCHANGED placed

EndOfBlock ==
  /\ ~placed
  /\ placed' = TRUE
  /\ UNCHANGED <<lines, cursor>>

Next == Word \/ Input \/ LineBreak \/ EndOfBlock

Spec == Init /\ [][Next]_vars

-----------------------------------------------------------------------------
(* Second pass *)

BugX(line) ==
  LET x[i \in DOMAIN line] == IF i = 1 THEN 0 ELSE x[i - 1] + line[i].font.space
  IN x

\* TextLayout::layout and InputLayout::layout: after the box before and a space
\* of its own font, not of what the cursor counted.
X(line) ==
  LET x[i \in DOMAIN line] ==
        IF i = 1 THEN 0 ELSE x[i - 1] + line[i].font.space + line[i - 1].width
  IN x

\* LineLayout::getExtremes
MaxAscent(line) == Max({0} \cup {line[i].font.ascent : i \in DOMAIN line})
MaxDescent(line) == Max({0} \cup {line[i].font.descent : i \in DOMAIN line})

BugHeight(line) == MaxAscent(line) + MaxDescent(line)

\* LineLayout::layout
Height(line) == (5 * (MaxAscent(line) + MaxDescent(line))) \div 4

Top[k \in 1..(Len(lines) + 1)] == IF k = 1 THEN 0 ELSE Top[k - 1] + Height(lines[k - 1])

BlockHeight == Top[Len(lines) + 1]

\* Where a box is; its height is the line skip of its font, which the fonts of
\* the program have without a gap.
Place(k, i) ==
  LET line == lines[k]
      box == line[i]
      y == Top[k] + (5 * MaxAscent(line)) \div 4 - box.font.ascent
  IN [left |-> X(line)[i], right |-> X(line)[i] + box.width,
      top |-> y, bottom |-> y + box.font.ascent + box.font.descent]

-----------------------------------------------------------------------------
(* Drawing *)

\* m_displayItems: the boxes line by line.  The second item of an input, its
\* background, is where its text is.
DisplayItems ==
  FlattenSeq([k \in DOMAIN lines |-> [i \in DOMAIN lines[k] |-> <<k, i>>]])

BugBelow(box, scroll) == box.bottom > scroll + TabHeight

Below(box, scroll) == box.top > scroll + TabHeight

\* Tab::draw
Drawn(scroll) ==
  LET box(j) == Place(DisplayItems[j][1], DisplayItems[j][2])
      drawn == {j \in DOMAIN DisplayItems : \A i \in 1..j : ~Below(box(i), scroll)}
  IN {DisplayItems[j] : j \in {i \in drawn : box(i).bottom >= scroll}}

-----------------------------------------------------------------------------
(* Properties *)

Places == {p \in (DOMAIN lines) \X (1..MaxBoxes) : p[2] \in DOMAIN lines[p[1]]}

\* By how much, after a box, the spaces of the placement are more than those the
\* cursor counted.  Inputs make the difference, all but the line's first.
Drift(line) ==
  LET d[i \in DOMAIN line] ==
        IF i = 1 THEN 0
        ELSE d[i - 1] + (IF line[i].kind = "input"
                         THEN line[i].font.space - BlockFont.space ELSE 0)
  IN d

\* The two passes count different spaces: the cursor one behind a box, for an input
\* the block's, the placement that of the following box.  So what sticks out of the
\* block is a box alone on its line, one whose space is wider than the one counted for
\* the line's first box, or one behind inputs whose font is wider than the block's,
\* and by no more than that.
SticksOutByASpace ==
  placed => \A p \in Places :
    LET line == lines[p[1]]
        i == p[2]
    IN i > 1 => Place(p[1], i).right + Counted(line[1])
                  <= BlockWidth + line[i].font.space + Drift(line)[i - 1]

\* No two boxes share a point, whatever fonts they mix, and all are within the
\* height the page scrolls by: a click finds at most one word.
BoxesApart ==
  placed =>
    /\ \A p, q \in Places :
         LET a == Place(p[1], p[2])
             b == Place(q[1], q[2])
         IN p # q => a.right <= b.left \/ b.right <= a.left
                     \/ a.bottom <= b.top \/ b.bottom <= a.top
    /\ \A p \in Places : Place(p[1], p[2]).bottom <= BlockHeight

\* draw leaves its loop at the first item below the screen although items are
\* not sorted by their tops: what is on the screen and not drawn is in one line
\* with, and after, an item that begins below the screen.
DrawnIfVisible ==
  placed => \A scroll \in Scrolls : \A p \in Places :
    LET box == Place(p[1], p[2])
        visible == box.top <= scroll + TabHeight /\ box.bottom >= scroll
    IN visible /\ p \notin Drawn(scroll) =>
         \E i \in 1..(p[2] - 1) : Place(p[1], i).top > scroll + TabHeight
=============================================================================
