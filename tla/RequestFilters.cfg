SPECIFICATION FiltersSpec
CONSTANTS
  MaxHops = 2
  MaxFilters = 2
  MaxChunks = 2
  MaxSpawns = 2
  Frame = {f1, f2}
  Origin = {o1}
  Policy = {{}, {"header"}, {"meta"}, {"header", "meta"}}
  MaxNavigations = 2
  MaxReads = 1
  MaxFailures = 1
INVARIANTS CspInfoRight ScriptsRight
PROPERTY ResponsesEnd
CHECK_DEADLOCK FALSE
