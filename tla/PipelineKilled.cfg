SPECIFICATION Spec
CONSTANTS
  Claim = {1, 2}
  Cite = {1, 2}
  Case = {"k1", "k2"}
  Key <- KeyIsCite
  Slug <- FarCaption
  Caption <- FarCaption
  NamePart <- FarName
  NoCase = NoCase
  NoName = NoName
  Invalid = Invalid
  Sibling <- NoSibling
  Quick <- QuickSome
  Full <- FullHit
  Extraction <- NoExtraction
  Prepared <- PreparedEach
  Explicit <- NoList
  NotGiven = NotGiven
  InProcess = FALSE
  MaxAnswers = 2
  MaxKills = 1
  MaxForced = 0
  Quoted <- NoneQuotes
  QuoteCheck <- Altered
  Unreadable <- NothingUnreadable
  OtherCourt <- NoFlags
  BadPincite <- NoFlags
  Answer <- Judgement
  MaxVerdicts = 1
INVARIANTS
  VerifyResumes
CHECK_DEADLOCK FALSE
