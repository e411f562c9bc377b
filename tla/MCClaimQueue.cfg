SPECIFICATION Spec
CONSTANTS
  a1 = a1
  a2 = a2
  b1 = b1
  b2 = b2
  p1 = p1
  p2 = p2
  u1 = u1
  u2 = u2
  g1 = g1
  Null = Null
  Author = {a1, a2, b1, b2}
  Paper = {p1, p2}
  Person = {u1, u2}
  Project = {g1}
  Cited = {u2}
  MaxSuggestions = 1
  MaxDecided = 3
  PaperOf <- MCPaperOf
  ProjectOf <- MCProjectOf
  Later <- MCLater
  Byline <- SmithLine
  NameOf <- Smiths
  Particle <- MCParticle
  Suffix <- MCSuffix
  Initial <- MCInitial
  FirstLetter <- MCLetter
INVARIANTS
  ConflictNeedsProject
  OwnNameQueued
PROPERTIES
  QuietRerun
  LeavingLowersNothing
