SPECIFICATION Spec
CONSTANTS
  Tags <- MCTags
  Texts <- MCTexts
  HeadTags <- MCHeadTags
  VoidTags <- MCVoidTags
  BlockElements <- MCBlockElements
  MaxItems = 6
INVARIANTS TreeSound SourceOrder HeadHoldsHeadTags RootShape NothingLost ClickFindsBox
CHECK_DEADLOCK FALSE
