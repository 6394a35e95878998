SPECIFICATION Spec
CONSTANTS
  None = None
  Candidates = {c1}
  Revisions <- MCRevisions
  Contents = {a, b}
  Callers = {p1, p2}
SYMMETRY Symmetry
INVARIANTS
  RegistryStaysReadable
PROPERTIES
  ReadsAreFaithful
  ImplementsRegistry
