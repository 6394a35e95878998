CONSTANTS
  Adders = {a1, a2}
  Sources = {s1, s2}
  Strong = {d1}
  Weak = {c1}
  WorkIds = {w1, w2}
  NameSets <- MCNameSets
  None = None
  Torn = Torn
SPECIFICATION Spec
SYMMETRY Symmetry
INVARIANTS OneWorkPerSource WorksAreWhole SuccessIsProjected
PROPERTY WorksOnlyGrow
