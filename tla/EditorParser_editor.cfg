\* Characters up to two states high, whole tokens up to six.
CONSTANTS
  Alphabet <- MCAlphabet
  Offered <- MCOffered
  ScanHeight = 2
  MaxTail = 2
  MaxHeight = 6
SPECIFICATION Spec
INVARIANTS TypeOK KeywordsAgree CommentsAgree InterpolationsAgree  TokenHasStep
PROPERTIES ParsesGrammar TokenConsumed ReductionsEnd
CHECK_DEADLOCK FALSE
