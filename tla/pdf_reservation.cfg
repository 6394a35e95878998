CONSTANTS
  Adders = {a1, a2}
  Sources = {s1, s2}
  Strong = {d1}
  Weak = {}
  WorkIds = {w1, w2}
  NameSets <- MCBareOrDoi
  None = None
  Torn = Torn
SPECIFICATION Spec
SYMMETRY Symmetry
INVARIANT ReservationsAgree
