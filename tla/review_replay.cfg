CONSTANTS
  Candidates <- MCOne
  MaxRevision <- MCThreeRevisions
  None = None
SPECIFICATION Spec
INVARIANT OneUnresolvedImport
