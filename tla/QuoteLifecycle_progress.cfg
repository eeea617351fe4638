SPECIFICATION FairSpec
CONSTANTS
  ka = ka
  kb = kb
  kc = kc
  kd = kd
  alice = alice
  bob = bob
  q1 = q1
  q2 = q2
  ra = ra
  rb = rb
  s1 = s1
  s2 = s2
  w1 = w1
  w2 = w2
  Nil = Nil
  Keys = {ka, kb}
  Subjects = {alice}
  OwnerOf <- MCTwoKeys
  Quotes = {q1}
  Requests = {w1, w2}
  Replicas = {ra, rb}
  Slots = {s1, s2}
  Home <- MCHome
  Configured = {ra}
  MaxFaults = 1
PROPERTIES
  InFlightResolves
  SubmissionsAnswered
