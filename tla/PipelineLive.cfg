SPECIFICATION LiveSpec
CONSTANTS
  Claim = {1}
  Cite = {1, 2}
  Case = {"k1", "k2"}
  Key <- KeyIsCite
  Slug <- FarCaption
  Caption <- FarCaption
  NamePart <- FarName
  NoCase = NoCase
  NoName = NoName
  Invalid = Invalid
  Sibling <- NoSibling
  Quick <- QuickHit
  Full <- FullHit
  Extraction <- WithLists
  Prepared <- NoPrepared
  Explicit <- OneList
  NotGiven = NotGiven
  InProcess = FALSE
  MaxAnswers = 2
  MaxKills = 1
  MaxForced = 0
  Quoted <- NoneQuotes
  QuoteCheck <- Altered
  Unreadable <- NothingUnreadable
  OtherCourt <- NoFlags
  BadPincite <- NoFlags
  Answer <- JudgementOrNot
  MaxVerdicts = 1
INVARIANTS
  ListsVerified
PROPERTIES
  ReportedUnlessNothingToJudge
CHECK_DEADLOCK FALSE
