CONSTANTS
  Schemas <- MCSchemas
  Lower <- MCLower
  Tables = {"User", "Team"}
  None = None
SPECIFICATION Spec
INVARIANTS
  TypeOK
  ReadersAgree
  RelationsAreKeyColumns
  TypeRoundTrip
