CONSTANTS
  hero = hero
  foe = foe
  t1 = t1
  t2 = t2
  hit = hit
  finish = finish
  mend = mend
  decide = decide
  place = place
  drop = drop
  revive = revive
  spare = spare
  lower = lower
  fade = fade
  doom = doom
  fix = fix
  Participants <- Both
  Order <- Initiative
  Linked = {hero}
  Start <- Healthy
  Threads <- TwoThreads
  Requests = {hit, finish, mend, decide, place, drop, revive, spare, fade, lower,
              doom, fix}
  Body <- Bodies
  Others <- Edits
  Values = {0, 2}
  MaxHp = 1
  MaxRevision = 3
  Together <- Treated
SYMMETRY SameThreads
CHECK_DEADLOCK FALSE
SPECIFICATION Spec
INVARIANTS
  DecisionsAreCurrent
PROPERTIES
  NobodyOutlivesTheThreshold
  ImplementsKnockouts
