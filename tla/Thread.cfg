SPECIFICATION Spec
CONSTANTS
  Errors <- MCErrors
  NoError = zero
  NoCode = nocode
  NoFailure = nofailure
  e1 = e1
  e2 = e2
  zero = zero
INVARIANTS TypeOK Released CodeOfFailure DetailsOfFailure
