CONSTANTS
  Packages <- MCPackages
  Requests = {r1, r2}
SPECIFICATION Spec
INVARIANTS
  VersionsHaveBytes
  OrphanHasCause
  DesiredIsRegistered
SYMMETRY Symmetry
