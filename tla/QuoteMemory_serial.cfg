SPECIFICATION MemorySpec
CONSTANTS
  ka = ka
  kb = kb
  kd = kd
  alice = alice
  bob = bob
  q1 = q1
  q2 = q2
  q3 = q3
  s1 = s1
  s2 = s2
  w1 = w1
  w2 = w2
  Nil = Nil
  Keys = {ka, kb, kd}
  Subjects = {alice, bob}
  OwnerOf <- MCOwnerOf
  Quotes = {q1, q2, q3}
  Requests = {w1, w2}
  Slots = {s1, s2}
  Outcomes = {"completed", "failed"}
  MaxDrops = 1
SYMMETRY MCSymmetry
INVARIANTS
  SerialRepliesAgree
  DanglingKeysNeedDrop
  SerialQuotesDriven
PROPERTIES
  SerialTransitions
