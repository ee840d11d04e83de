SPECIFICATION Spec
CONSTANTS
    s1 = s1    i1 = i1  i2 = i2  c1 = c1  c2 = c2  c3 = c3  h1 = h1  h2 = h2
    SpecIds <- MCSpecIds
    OldSpecs <- MCOldSpecs
    Sessions <- MCSessions
    Requests <- MCRequests
    HoldoutRequests <- NoHoldout
    MaxCrashes = 1
    SearchBudget = 1
INVARIANT AnswersAreTrue
SYMMETRY Symmetry
