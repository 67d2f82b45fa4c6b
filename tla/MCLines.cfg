SPECIFICATION Spec
CONSTANTS
  Fonts <- MCFonts
  BlockFont <- MCBlockFont
  Widths <- MCWidths
  InputWidth = 3
  BlockWidth = 10
  TabHeight = 8
  Scrolls = {0, 2, 9, 17}
  MaxBoxes = 5
INVARIANTS SticksOutByASpace BoxesApart DrawnIfVisible
CHECK_DEADLOCK FALSE
