SPECIFICATION Spec
CONSTANTS
  Files <- MCFiles
  Header <- MCHeader
  Suffix <- MCSuffix
  SectSize <- MCSectSize
  Exists <- MCExists
  Size <- MCSize
  Names = {"hd0", "hd1"}
  Callers = {k1, k2}
  MaxAdds = 2
  MaxCalls = 2
CHECK_DEADLOCK FALSE
INVARIANTS
  TypeOK
  RightSectors
  ImageIntact
  Accounted
  GeometryRight
