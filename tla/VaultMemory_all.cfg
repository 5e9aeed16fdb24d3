SPECIFICATION Spec
CONSTANTS
  g1 = g1
  g2 = g2
  e1 = e1
  e2 = e2
  e3 = e3
  s1 = s1
  s2 = s2
  p1 = p1
  p2 = p2
  t1 = t1
  Sessions = {p1, p2}
  Scans = {s1, s2}
  Exacts = {g1, g2}
  NoSource = NoSource
  Tiles = {t1}
  Evidence = {e1, e2, e3}
  Members <- MCMembers
  Proposal <- MCProposal
INVARIANTS AuthorityBacked AppliedOnce ReopenJustified NeverEmpty ReplyTruthful
PROPERTIES ImplementsMemory
SYMMETRY Symmetry
CHECK_DEADLOCK FALSE
