CONSTANTS
  Ids = {1, 2}
  Values = {"0", "1"}
  SortValues = {"missing", "0"}
  Ops = {"="}
  Sorts = {"g"}
  Declared = {}
  AllowScan = FALSE
  Repeats = FALSE
  MaxWrites = 0
SPECIFICATION Spec
INVARIANTS
  PortablePageExact
