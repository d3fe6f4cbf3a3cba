SPECIFICATION Spec
CONSTANTS
  a = a
  b = b
  c = c
  d = d
  M = M
  N = N
  P = P
  H = H
  ann = ann
  Eof = Eof
  Unknown = Unknown
  NoTok = NoTok
  Plain <- MCPlain
  Synthesized <- MCSynthesized
  Macros <- MCMacros
  Headers <- MCHeaders
  Body <- MCBody
  MainFiles <- MCMainFile
  Streams <- MCStreams
  TokenLexerCacheSize = 1
  MaxCached = 3
  MaxMarks = 2
  MaxDepth = 2
  MaxLookAhead = 2
  NestedStreams = FALSE
  UncheckedPeeks = {1}
INVARIANT NeverPastEof
