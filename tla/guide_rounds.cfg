SPECIFICATION FairSpec
CONSTANTS
  g1 = g1
  g2 = g2
  n1 = n1
  n2 = n2
  h1 = h1
  h2 = h2
  None = None
  Guides <- MCGuides
  Names <- MCNames
  Offers <- MCOffers
  Rounds = 2
INVARIANTS RecordsTruthful StageMatchesGuides
PROPERTIES NeverWorse RunEnds
