SPECIFICATION Spec
CONSTANTS
  NoKey = NoKey
  Keys = {ka, kb, kc, kd}
  Requests = {w1, w2}
  Handlers = {h1, h2}
  Capacity = 2
  MaxId = 6
SYMMETRY MCSymmetry
INVARIANTS
  NoDanglingKeys
  OneAssessmentPerKey
PROPERTIES
  KeysStay
