SPECIFICATION Spec
CONSTANTS
  Claim = {1, 2}
  Cite = {1, 2}
  Case = {"k1", "k2", "k3"}
  Key <- KeyIsCite
  Slug <- NearCaption
  Caption <- NearCaption
  NamePart <- NearName
  NoCase = NoCase
  NoName = NoName
  Invalid = Invalid
  Sibling <- NoSibling
  Quick <- QuickSome
  Full <- FullSome
  Extraction <- NoExtraction
  Prepared <- PreparedEach
  Explicit <- OneList
  NotGiven = NotGiven
  InProcess = FALSE
  MaxAnswers = 2
  MaxKills = 1
  MaxForced = 0
  Quoted <- AllQuote
  QuoteCheck <- Altered
  Unreadable <- ThirdUnreadable
  OtherCourt <- SecondFlagged
  BadPincite <- FirstFlagged
  Answer <- Judgement
  MaxVerdicts = 1
INVARIANTS
  GreenIsSupported
  MissesResolved
  FullIsIdempotent
  OnlyFinishedReports
  OwnFileIfStored
CHECK_DEADLOCK FALSE
