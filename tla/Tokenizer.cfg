SPECIFICATION Spec
CONSTANTS
  Files <- MCFiles
  Texts <- MCTexts
INVARIANTS NothingLeft TablesMatchFile IdsCoverText MatchesReference MarkersKept WordsKept
PROPERTIES CallsEnd
