SPECIFICATION PrintfSpec
CONSTANTS
  Formats <- MCFormats
  Arguments <- MCArguments
  Sinks <- MCSinks
  Characters <- MCCharacters
  Glyphs <- MCGlyphs
  Texts <- MCTexts
  Bits <- MCBits
  NL_ARGMAX = 3
  PtrDigits = 2
  Garbage = {0, 5}
INVARIANTS PrintsThePromise BadFormatsAreRefused SinksHoldTheText
CHECK_DEADLOCK FALSE
