\* Counterexample: a request that was given up lands after a newer edit.
SPECIFICATION Spec
CONSTANTS
  company = company
  priorities = priorities
  l1 = l1
  l2 = l2
  None = None
  Ids <- TwoForms
  Lines <- TwoLines
  MaxEdits = 2
PROPERTIES NeverBack
