\* Valid UTF-8 only.
SPECIFICATION Spec
CONSTANTS
  NaN = 99
  LogitRows <- OneLogit
  TopKs = {1}
  Weight <- MCWeight
  Texts  <- DocsTexts
  Tokens <- MCTokens
INVARIANTS SymbolsTranslatedBack
