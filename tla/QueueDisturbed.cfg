\* Two forms, a request given up beside the one awaited, reloads at any time.
SPECIFICATION Spec
CONSTANTS
  company = company
  priorities = priorities
  l1 = l1
  l2 = l2
  None = None
  Ids <- TwoForms
  Lines <- TwoLines
  MaxEdits = 4
PROPERTIES NothingDropped NewestWins
