SPECIFICATION Spec
CONSTANTS
  Stop <- Stop_
  Short <- Short_
  Generic <- Generic_
  Placeholder = {"doe"}
  Government <- Government_
  LookupPrefix <- Government_
  OverlapPrefix <- Government_
  Acronym <- Acronym_
  Initial <- Initial_
  Within <- Within_
  Base <- Base_
  KnownCourt = {"sdny", "edny"}
  StateReporter = {"ca2d"}
  GateYears = 5
  EraFloor = 1990
  Ellipsis = "..."
  Bracket = "[]"
  StarPage = "*9"
  SmallNumber = {"8"}
  QuantityLead = {"within"}
  EllipsisLimit = 2
  EndOf <- EndOf_
  StartOf <- StartOf_
  PartOf <- PartOf_
  CitedNames <- CitedNames_
  CaptionSets <- CaptionSets_
  CitedCases <- CitedCases_
  Records <- Records_
  DocumentRecords <- DocumentRecords_
  CitedDates <- CitedDates_
  Dockets <- Dockets_
  Brought <- Brought_
  Pages <- Pages_
  Outcomes <- Outcomes_
  Quotes <- Quotes_
  Opinions <- Opinions_
INVARIANTS
  NameOnEvidence
  AgreementHelps
  ExactDateWins
  TextIsOfDocument
  VerbatimReads
