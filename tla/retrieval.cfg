CONSTANTS
  None = None
  Readers = {t1, t2}
  MaxChars = 9
  Overlap = 3
  Candidates = 2
  TopK = 2
  TokenBudget = 3
  MaxAge = 2
  MaxAsked = 2
  Sources <- MCSources
  Contents <- MCContents
  Trust <- MCTrust
  Queries <- MCQueries
SPECIFICATION Spec
SYMMETRY Symmetry
INVARIANTS
  CorpusSound
  
CHECK_DEADLOCK FALSE
