SPECIFICATION MCSpec
CONSTANTS
  MaxMod = 2
  Payloads <- MCPayloads
  MaxIssues = 6
  PageSize = 2
  MaxTickets = 3
  Editors = {e1, e2}
  Requests <- MCRequests
  Webs <- MCWebs
  Answers <- MCAnswers
  PageTitles <- MCTitles
  MaxPosts = 2
  DefaultInterval = 100
  MinInterval = 60
  NoRow = NoRow
  NoEdit = NoEdit
  Omitted = Omitted
SYMMETRY MCSymmetry
INVARIANTS ContentTypeOK NoneSkipped Readable WholeEdits AsOftenAsListed NewestTaken
CHECK_DEADLOCK FALSE
