SPECIFICATION Spec
CONSTANTS
  Described <- MCDescribed
  Values <- MCValues
  MaxEdits = 2
INVARIANTS TypeOK CodesAndNamesAgree
PROPERTIES FollowsTheFile
