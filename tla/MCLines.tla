------------------------------- MODULE MCLines -------------------------------
(***************************************************************************)
(* Constants for checking Lines.tla: the block's font, a smaller one and a *)
(* bigger one, words shorter and longer than the block.                    *)
(***************************************************************************)
EXTENDS Lines

MCBlockFont == [space |-> 2, ascent |-> 6, descent |-> 4]
MCFonts == {MCBlockFont, [space |-> 1, ascent |-> 4, descent |-> 4],
                         [space |-> 3, ascent |-> 8, descent |-> 4]}
MCWidths == {2, 11}
=============================================================================
