SPECIFICATION Spec
CONSTANTS
  Claim = {1}
  Cite = {1}
  Case = {"k1", "k2"}
  Key <- KeyIsCite
  Slug <- FarCaption
  Caption <- FarCaption
  NamePart <- FarName
  NoCase = NoCase
  NoName = NoName
  Invalid = Invalid
  Sibling <- OtherSibling
  Quick <- QuickEither
  Full <- FullHit
  Extraction <- OneExtraction
  Prepared <- PreparedFirst
  Explicit <- NoList
  NotGiven = NotGiven
  InProcess = TRUE
  MaxAnswers = 2
  MaxKills = 0
  MaxForced = 1
  Quoted <- AllQuote
  QuoteCheck <- Altered
  Unreadable <- NothingUnreadable
  OtherCourt <- NoFlags
  BadPincite <- NoFlags
  Answer <- OwnColor
  MaxVerdicts = 2
INVARIANTS
  FloorHolds
CHECK_DEADLOCK FALSE
