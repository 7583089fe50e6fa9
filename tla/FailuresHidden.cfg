\* Counterexample: a change that failed stays pending, and hides its result.
SPECIFICATION Spec
CONSTANTS
  company = company
  priorities = priorities
  l1 = l1
  l2 = l2
  None = None
  Ids <- TwoForms
  Lines <- TwoLines
  MaxEdits = 2
INVARIANT FailuresShown
