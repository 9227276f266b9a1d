SPECIFICATION Spec
CONSTANTS
  none = none
  None <- none
  Requests = {1, 2, 3}
  Texts <- MCTexts
  Analyses <- MCAnalyses
  HandPackets <- MCHandPackets
CHECK_DEADLOCK FALSE
INVARIANTS
  AnswersAreSound
  CompiledIsDrawable
  FallingIsAsked
