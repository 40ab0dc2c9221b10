SPECIFICATION Spec
CONSTANTS
  Alphabets <- MCAlphabets
  Inistate <- MCInistate
  WindowSize <- MCWindowSize
  MaxSymbols <- MCMaxSymbols
INVARIANTS TypeOK CarryHasAByte DecodedAsCoded EndsExactly
\* the substream is read
CHECK_DEADLOCK FALSE
