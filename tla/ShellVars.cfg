SPECIFICATION VarsSpec
CONSTANTS
  Names = {"$a", "$b"}
  BadNames = {"a"}
  Values = {v1, v2}
  None = none
  MaxVars = 4
PROPERTIES
  NamedStay
  ImplementsDict
