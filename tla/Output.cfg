SPECIFICATION Spec
CONSTANTS
  NaN = 99
  LogitRows <- MCLogitRows
  TopKs = {0, 1, 2, 3, 9}
  Weight <- MCWeight
  Texts  <- MCTexts
  Tokens <- MCTokens
INVARIANTS AmongTopK DrawnByWeight TypeOK SymbolsTranslatedBackOutsideGap AsciiUnchanged
PROPERTIES AnswersOrRefuses
