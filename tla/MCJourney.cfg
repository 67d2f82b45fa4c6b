SPECIFICATION Spec
CONSTANTS
  None = None
  Names <- MCNames
  Server <- MCServer
  Alias <- MCAlias
  Elsewhere <- MCElsewhere
  Typed <- MCTyped
  Links <- MCLinks
  Keys <- MCKeys
  Tags <- MCTags
  Earlier <- MCEarlier
  Limit = 1
  MaxText = 3
  MaxPath = 8
INVARIANTS CommentSurvives  ShownAsWritten CutExplained LinksStay AttributesExplained
CHECK_DEADLOCK FALSE
