SPECIFICATION Spec
CONSTANTS
  ka = ka
  kb = kb
  kc = kc
  alice = alice
  bob = bob
  q1 = q1
  q2 = q2
  ra = ra
  rb = rb
  s1 = s1
  s2 = s2
  kd = kd
  w1 = w1
  w2 = w2
  Nil = Nil
  Keys = {ka, kb, kc, kd}
  Subjects = {alice, bob}
  OwnerOf <- MCOwnerOf
  Quotes = {q1, q2}
  Requests = {w1}
  Replicas = {ra, rb}
  Slots = {s1, s2}
  Home <- MCHome
  Configured = {ra}
  MaxFaults = 1
SYMMETRY MCSymmetry
CHECK_DEADLOCK TRUE
INVARIANTS
  OneDriver
  NoKeyCollision
  RepliesAgree
  OrphansNeedFault
  CompletedAttemptIsFinal
  PublishedEvents
PROPERTIES
  OrphansAreInert
  ImplementsContract
