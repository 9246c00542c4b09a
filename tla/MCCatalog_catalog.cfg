SPECIFICATION Spec
CONSTANTS
  Admins = {c1, c2}
  Other = c3
  Clients = {c1, c2, c3, c4}
  NoPrincipal = NoPrincipal
  Principals <- MCPrincipals
  Submissions <- MCSubmissions
  MaxFaults = 1
  MaxInsts = 1
SYMMETRY Symmetry
INVARIANTS TypeOK ActiveVersion PinnedDefinitionStays ValidationIsExact
CHECK_DEADLOCK FALSE
