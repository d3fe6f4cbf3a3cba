--------------------------- MODULE PPCachingProofs ---------------------------
(***************************************************************************)
(* The invariants of the token cache, for every set of tokens, macros,     *)
(* headers and every bound, as long as the parser enters token streams     *)
(* outside caching mode only.                                              *)
(***************************************************************************)
EXTENDS PPCachingRefinement, SequenceLemmas, TLAPS

(* Where a call of the parser stands.  Outside caching mode there is either *)
(* nothing to cache for or a call that will re-enter it.                    *)
AtRest == cachedTokens # <<>> \/ backtrackPositions # <<>> => InCachingLexMode

CallShape ==
  \/ calls = <<>> /\ ret = NoTok /\ AtRest
  \/ calls = <<LexCall>> /\ AtRest
  \/ /\ calls = <<LexCall, CachingLexCall>>
     /\ cur.clk # "CachingLexer"
     /\ cachedLexPos = Len(cachedTokens)
  \/ /\ Len(calls) = 1
     /\ calls[1].fn = "PeekAhead"
     /\ cur.clk # "CachingLexer"
     /\ cachedTokens # <<>>

(* The inductive invariant.                                                 *)
IInv ==
  /\ TypeOK
  /\ PositionsInCache
  /\ KindAgrees
  /\ CallShape
  /\ Len(prevToks) = Len(backtrackPositions)

-----------------------------------------------------------------------------
(* What the operations on the lexer stack do to it.                         *)
StackOK == cur \in LexerState /\ includeMacroStack \in Seq(LexerState)

LEMMA Pop ==
  ASSUME StackOK, KindAgrees, includeMacroStack # <<>>, PopIncludeMacroStack
  PROVE  StackOK' /\ KindAgrees' /\ cur'.clk # "CachingLexer"
<1>1. /\ cur' = includeMacroStack[Len(includeMacroStack)]
      /\ cur' \in LexerState
      /\ includeMacroStack' \in Seq(LexerState)
      /\ Len(includeMacroStack') = Len(includeMacroStack) - 1
      /\ \A i \in 1..Len(includeMacroStack) - 1 : includeMacroStack'[i] = includeMacroStack[i]
  BY LastFront DEF StackOK, PopIncludeMacroStack
<1>2. Len(includeMacroStack) \in Nat /\ Len(includeMacroStack) > 0
  BY DEF StackOK
<1>3. /\ LexerAgrees(cur)' /\ cur'.clk # "CachingLexer"
      /\ cur'.kind = "none" => Len(includeMacroStack) = 1
      /\ cur'.kind = "tokens" => Len(includeMacroStack) > 1
  BY <1>1, <1>2 DEF StackOK, KindAgrees, LexerAgrees
<1>4. cur'.clk = "CachingLexer" <=> InCachingLexMode'
  BY <1>1, <1>2, <1>3 DEF InCachingLexMode
<1>5. cur'.kind = "tokens" => includeMacroStack' # <<>>
  BY <1>1, <1>2, <1>3
<1>6. \A i \in DOMAIN includeMacroStack' :
        i \in DOMAIN includeMacroStack /\ includeMacroStack'[i] = includeMacroStack[i]
  BY <1>1, <1>2 DEF StackOK
<1>7. KindAgrees'
  BY <1>3, <1>4, <1>5, <1>6 DEF KindAgrees, LexerAgrees
<1> QED BY <1>1, <1>3, <1>7 DEF StackOK

LEMMA ExitMode ==
  ASSUME StackOK, KindAgrees, ExitCachingLexMode
  PROVE  StackOK' /\ KindAgrees' /\ cur'.clk # "CachingLexer"
<1>1. CASE InCachingLexMode
  BY <1>1, Pop DEF ExitCachingLexMode, InCachingLexMode
<1>2. CASE ~InCachingLexMode
  BY <1>2 DEF ExitCachingLexMode, StackOK, KindAgrees, LexerAgrees, InCachingLexMode
<1> QED BY <1>1, <1>2

(* Pushing the current lexer, advanced or not, outside caching mode.        *)
LEMMA Push ==
  ASSUME StackOK, KindAgrees, cur.clk # "CachingLexer",
         NEW l \in LexerState, l.clk = cur.clk, l.kind = cur.kind,
         includeMacroStack' = Append(includeMacroStack, l)
  PROVE  /\ includeMacroStack' \in Seq(LexerState)
         /\ includeMacroStack' # <<>>
         /\ \A i \in DOMAIN includeMacroStack' :
              /\ LexerAgrees(includeMacroStack'[i])
              /\ includeMacroStack'[i].clk # "CachingLexer"
              /\ includeMacroStack'[i].kind = "none" => i = 1
              /\ includeMacroStack'[i].kind = "tokens" => i > 1
<1>1. /\ includeMacroStack' \in Seq(LexerState)
      /\ includeMacroStack' # <<>>
      /\ Len(includeMacroStack') = Len(includeMacroStack) + 1
      /\ \A i \in 1..Len(includeMacroStack) : includeMacroStack'[i] = includeMacroStack[i]
      /\ includeMacroStack'[Len(includeMacroStack) + 1] = l
  BY AppendLast DEF StackOK
<1>2. DOMAIN includeMacroStack' = 1..Len(includeMacroStack) + 1
  BY <1>1
<1>3. /\ l.kind = "none" => Len(includeMacroStack) = 0
      /\ l.kind = "tokens" => Len(includeMacroStack) > 0
  BY DEF StackOK, KindAgrees, InCachingLexMode
<1>4. \A i \in 1..Len(includeMacroStack) :
        /\ LexerAgrees(includeMacroStack'[i])
        /\ includeMacroStack'[i].clk # "CachingLexer"
        /\ includeMacroStack'[i].kind = "none" => i = 1
        /\ includeMacroStack'[i].kind = "tokens" => i > 1
  BY <1>1 DEF StackOK, KindAgrees, LexerAgrees
<1>5. LET n == Len(includeMacroStack) + 1
      IN  /\ LexerAgrees(includeMacroStack'[n])
          /\ includeMacroStack'[n].clk # "CachingLexer"
          /\ includeMacroStack'[n].kind = "none" => n = 1
          /\ includeMacroStack'[n].kind = "tokens" => n > 1
  BY <1>1, <1>3 DEF StackOK, KindAgrees, LexerAgrees
<1>6. Len(includeMacroStack) \in Nat
  BY DEF StackOK
<1> QED BY <1>1, <1>2, <1>4, <1>5, <1>6

LEMMA EnterMode ==
  ASSUME StackOK, KindAgrees, EnterCachingLexMode
  PROVE  StackOK' /\ KindAgrees' /\ InCachingLexMode'
<1>1. CASE InCachingLexMode
  BY <1>1 DEF EnterCachingLexMode, StackOK, KindAgrees, LexerAgrees, InCachingLexMode
<1>2. CASE ~InCachingLexMode
  <2>1. cur.clk # "CachingLexer" /\ cur' = CachingLexer
        /\ includeMacroStack' = Append(includeMacroStack, cur)
    BY <1>2 DEF EnterCachingLexMode, PushIncludeMacroStack, KindAgrees
  <2>2. cur' \in LexerState /\ cur'.kind = "none" /\ cur'.clk = "CachingLexer"
    BY <2>1 DEF CachingLexer, LexerState
  <2>3. /\ includeMacroStack' \in Seq(LexerState)
        /\ includeMacroStack' # <<>>
        /\ \A i \in DOMAIN includeMacroStack' :
             /\ LexerAgrees(includeMacroStack'[i])
             /\ includeMacroStack'[i].clk # "CachingLexer"
             /\ includeMacroStack'[i].kind = "none" => i = 1
             /\ includeMacroStack'[i].kind = "tokens" => i > 1
    BY <2>1, Push DEF StackOK
  <2> QED BY <2>2, <2>3 DEF StackOK, KindAgrees, LexerAgrees, InCachingLexMode
<1> QED BY <1>1, <1>2

-----------------------------------------------------------------------------
LEMMA IInvInit == Init => IInv
<1> SUFFICES ASSUME Init PROVE IInv
  OBVIOUS
<1>1. PICK f \in MainFiles : cur = FileLexer(f)
  BY DEF Init
<1>2. f \in Seq(Token \cup Item)
  BY SourcesAssumption DEF Token, Item
<1>3. cur \in LexerState
  BY <1>1, <1>2 DEF FileLexer, LexerState
<1>4. TypeOK
  BY <1>3, BoundsAssumption DEF Init, TypeOK, Token, NoPeek
<1>5. KindAgrees
  BY <1>1 DEF Init, KindAgrees, LexerAgrees, FileLexer, InCachingLexMode
<1>6. CallShape
  BY DEF Init, CallShape, AtRest
<1> QED BY <1>4, <1>5, <1>6 DEF IInv, Init, PositionsInCache

(* The steps of the lexers: the cache and the calls stay, and a lexer that  *)
(* is not the caching one gives way to another such.                        *)
LEMMA LexerMoves ==
  ASSUME IInv, Running, cur.clk # "CachingLexer",
         UNCHANGED <<cache, calls, client>>,
         StackOK', KindAgrees', cur'.clk # "CachingLexer",
         numCachedTokenLexers' \in 0..TokenLexerCacheSize,
         ret' \in Token \cup {NoTok}
  PROVE  IInv'
<1> USE DEF cache, client
<1>1. TypeOK'
  BY DEF IInv, TypeOK, StackOK
<1>2. PositionsInCache'
  BY DEF IInv, PositionsInCache
<1>3. CallShape'
  <2>1. AtRest' \/ ~AtRest
    BY DEF AtRest, InCachingLexMode, IInv, KindAgrees
  <2> QED BY <2>1 DEF CallShape, IInv, Running
<1> QED BY <1>1, <1>2, <1>3 DEF IInv

(* Every step of Lex inside a lexer, the caching one excepted.              *)
LEMMA LexerActions ==
  ASSUME IInv,
         \/ LexToken \/ SkipEmptyMacro \/ ExpandTrivialMacro \/ EnterMacro
         \/ EnterSourceFile \/ HandleEndOfFile \/ HandleEndOfTokenLexer
  PROVE  IInv'
<1> DEFINE item == Head(cur.toks)
<1>1. StackOK /\ KindAgrees /\ numCachedTokenLexers \in 0..TokenLexerCacheSize
      /\ ret \in Token \cup {NoTok} /\ TokenLexerCacheSize \in Nat
  BY BoundsAssumption DEF IInv, TypeOK, StackOK
<1>2. ASSUME cur.kind # "none"
      PROVE  cur.clk # "CachingLexer"
  BY <1>1, <1>2 DEF KindAgrees, InCachingLexMode
<1>3. ASSUME cur.toks # <<>>
      PROVE  /\ Advanced \in LexerState
             /\ Advanced.clk = cur.clk
             /\ Advanced.kind = cur.kind
  <2>1. cur.toks \in Seq(Token \cup Item) /\ cur \in LexerState
    BY <1>1 DEF StackOK, LexerState
  <2>2. Tail(cur.toks) \in Seq(Token \cup Item)
    BY <1>3, <2>1, HeadTailProperties
  <2> QED BY <2>1, <2>2 DEF Advanced, LexerState
<1>4. ASSUME Running, cur.kind # "none", cur.toks # <<>>,
             cur' = Advanced, ret' \in Token \cup {NoTok},
             UNCHANGED <<includeMacroStack, numCachedTokenLexers, cache, calls, client>>
      PROVE  IInv'
  <2>1. StackOK' /\ KindAgrees' /\ cur'.clk # "CachingLexer"
    BY <1>1, <1>2, <1>3, <1>4 DEF StackOK, KindAgrees, LexerAgrees, InCachingLexMode
  <2> QED BY <1>1, <1>2, <1>4, <2>1, LexerMoves
<1>5. CASE LexToken
  BY <1>4, <1>5 DEF LexToken, AtItem
<1>6. CASE SkipEmptyMacro
  BY <1>1, <1>4, <1>6 DEF SkipEmptyMacro, AtItem
<1>7. CASE ExpandTrivialMacro
  <2>1. Head(Body[item]) \in Token
    BY <1>7 DEF ExpandTrivialMacro, Trivial, Token
  <2> QED BY <1>4, <1>7, <2>1 DEF ExpandTrivialMacro, AtItem
<1>8. ASSUME NEW s \in Seq(Item), Running, cur.kind # "none", cur.toks # <<>>,
             cur' = TokenLexer(s) \/ cur' = FileLexer(s),
             includeMacroStack' = Append(includeMacroStack, Advanced),
             numCachedTokenLexers' \in 0..TokenLexerCacheSize,
             UNCHANGED <<cache, calls, ret, client>>
      PROVE  IInv'
  <2>1. s \in Seq(Token \cup Item)
    BY <1>8
  <2>2. cur' \in LexerState /\ cur'.clk # "CachingLexer" /\ cur'.kind # "none" /\ LexerAgrees(cur)'
    BY <1>8, <2>1 DEF TokenLexer, FileLexer, LexerState, LexerAgrees
  <2>3. StackOK' /\ KindAgrees'
    BY <1>1, <1>2, <1>3, <1>8, <2>2, Push DEF StackOK, KindAgrees, InCachingLexMode
  <2> QED BY <1>1, <1>2, <1>8, <2>2, <2>3, LexerMoves
<1>9. CASE EnterMacro
  <2>1. Body[item] \in Seq(Item)
    BY <1>9, SourcesAssumption DEF EnterMacro, AtItem
  <2>2. numCachedTokenLexers' \in 0..TokenLexerCacheSize
    BY <1>1, <1>9 DEF EnterMacro, TakeTokenLexer
  <2> QED BY <1>8, <1>9, <2>1, <2>2 DEF EnterMacro, AtItem
<1>10. CASE EnterSourceFile
  <2>1. Body[item] \in Seq(Item)
    BY <1>10, SourcesAssumption DEF EnterSourceFile, AtItem
  <2> QED BY <1>1, <1>8, <1>10, <2>1 DEF EnterSourceFile, AtItem
<1>11. CASE HandleEndOfFile
  <2>1. CASE includeMacroStack # <<>>
    BY <1>1, <1>2, <1>11, <2>1, Pop, LexerMoves DEF HandleEndOfFile, AtEnd
  <2>2. CASE includeMacroStack = <<>>
    <3>1. /\ cur' = [clk |-> cur.clk, kind |-> "none", toks |-> <<>>]
          /\ includeMacroStack' = <<>> /\ cur.kind = "file" /\ Running
      BY <1>11, <2>2 DEF HandleEndOfFile, AtEnd
    <3>2. StackOK' /\ cur'.clk = "Lexer" /\ cur'.kind = "none"
      BY <1>1, <3>1 DEF StackOK, LexerState, KindAgrees, LexerAgrees
    <3>3. KindAgrees'
      BY <3>1, <3>2 DEF KindAgrees, LexerAgrees, InCachingLexMode
    <3> QED BY <1>1, <1>2, <1>11, <2>2, <3>1, <3>2, <3>3, LexerMoves DEF HandleEndOfFile, Token
  <2> QED BY <2>1, <2>2
<1>12. CASE HandleEndOfTokenLexer
  <2>1. includeMacroStack # <<>> /\ cur.kind # "none" /\ Running
    BY <1>1, <1>12 DEF HandleEndOfTokenLexer, AtEnd, KindAgrees
  <2>2. numCachedTokenLexers' \in 0..TokenLexerCacheSize
    BY <1>1, <1>12 DEF HandleEndOfTokenLexer, ReleaseTokenLexer
  <2> QED BY <1>1, <1>2, <1>12, <2>1, <2>2, Pop, LexerMoves DEF HandleEndOfTokenLexer
<1> QED BY <1>5, <1>6, <1>7, <1>9, <1>10, <1>11, <1>12

(* The activation records as sequences.                                     *)
LEMMA CallFacts ==
  /\ LexCall \in Call /\ CachingLexCall \in Call
  /\ LexCall.fn = "Lex" /\ CachingLexCall.fn = "CachingLex"
  /\ Append(<<LexCall>>, CachingLexCall) = <<LexCall, CachingLexCall>>
  /\ Last(<<LexCall>>) = LexCall
  /\ Last(<<LexCall, CachingLexCall>>) = CachingLexCall
  /\ Front(<<LexCall, CachingLexCall>>) = <<LexCall>>
  /\ Front(<<LexCall>>) = <<>>
  /\ \A c \in Call : Last(<<c>>) = c /\ Front(<<c>>) = <<>>
<1>1. LexCall \in Call /\ CachingLexCall \in Call
      /\ LexCall.fn = "Lex" /\ CachingLexCall.fn = "CachingLex"
  BY DEF LexCall, CachingLexCall, Call
<1>2. \A c \in Call : Last(<<c>>) = c /\ Front(<<c>>) = <<>>
  BY SubSeqEmpty DEF Last, Front
<1> QED BY <1>1, <1>2, PairFacts

LEMMA OneCall ==
  ASSUME IInv, Len(calls) = 1
  PROVE  calls = <<calls[1]>> /\ calls[1] \in Call /\ Last(calls) = calls[1] /\ Front(calls) = <<>>
<1>1. calls \in Seq(Call)
  BY DEF IInv, TypeOK
<1>2. calls = <<calls[1]>> /\ calls[1] \in Call
  BY <1>1
<1> QED BY <1>2, CallFacts

(* The steps of the token cache.                                            *)
LEMMA CachingLexStep == ASSUME IInv, CachingLex PROVE IInv'
<1>1. /\ TypeOK /\ StackOK /\ KindAgrees /\ PositionsInCache
      /\ cachedTokens \in Seq(Token) /\ cachedLexPos \in Nat
  BY DEF IInv, TypeOK, StackOK
<1>2. calls = <<LexCall>> /\ InCachingLexMode /\ cur.clk = "CachingLexer"
  BY CallFacts DEF IInv, CallShape, CachingLex, Running
<1>3. CASE cachedLexPos < Len(cachedTokens)
  <2>1. /\ ret' = cachedTokens[cachedLexPos + 1]
        /\ cachedLexPos' = cachedLexPos + 1
        /\ UNCHANGED <<lexers, cachedTokens, backtrackPositions, calls, client>>
    BY <1>3 DEF CachingLex, lexers
  <2>2. ret' \in Token
    BY <1>1, <1>3, <2>1
  <2>3. TypeOK'
    BY <1>1, <2>1, <2>2 DEF TypeOK, lexers, client
  <2>4. PositionsInCache'
    BY <1>1, <1>3, <2>1 DEF PositionsInCache, TypeOK
  <2>5. KindAgrees' /\ AtRest'
    BY <1>1, <1>2, <2>1 DEF KindAgrees, LexerAgrees, InCachingLexMode, lexers, AtRest
  <2>6. CallShape'
    BY <1>2, <2>1, <2>5 DEF CallShape
  <2> QED BY <2>1, <2>3, <2>4, <2>5, <2>6 DEF IInv, client
<1>4. CASE ~(cachedLexPos < Len(cachedTokens))
  <2>1. /\ ExitCachingLexMode
        /\ calls' = <<LexCall, CachingLexCall>>
        /\ UNCHANGED <<ret, cache, numCachedTokenLexers, client>>
    BY <1>2, <1>4, CallFacts DEF CachingLex, cache
  <2>2. StackOK' /\ KindAgrees' /\ cur'.clk # "CachingLexer"
    BY <1>1, <2>1, ExitMode
  <2>3. calls' \in Seq(Call)
    BY <2>1, CallFacts
  <2>4. TypeOK'
    BY <1>1, <2>1, <2>2, <2>3 DEF TypeOK, StackOK, cache, client
  <2>5. PositionsInCache'
    BY <1>1, <2>1 DEF PositionsInCache, cache
  <2>6. cachedLexPos' = Len(cachedTokens')
    BY <1>1, <1>4, <2>1 DEF PositionsInCache, cache
  <2> QED BY <2>1, <2>2, <2>4, <2>5, <2>6 DEF IInv, CallShape, cache, client
<1> QED BY <1>3, <1>4

LEMMA CachingLexReturnStep == ASSUME IInv, CachingLexReturn PROVE IInv'
<1>1. /\ TypeOK /\ StackOK /\ KindAgrees /\ PositionsInCache
      /\ cachedTokens \in Seq(Token) /\ cachedLexPos \in Nat
      /\ ret \in Token
  BY DEF IInv, TypeOK, StackOK, CachingLexReturn, Returning
<1>2. /\ calls = <<LexCall, CachingLexCall>> /\ calls' = <<LexCall>>
      /\ cur.clk # "CachingLexer" /\ cachedLexPos = Len(cachedTokens)
  BY CallFacts, OneCall DEF IInv, CallShape, CachingLexReturn, Returning
<1>3. calls' \in Seq(Call)
  BY <1>2, CallFacts
<1>4. CASE isBacktrackEnabled
  <2>1. /\ EnterCachingLexMode
        /\ cachedTokens' = Append(cachedTokens, ret)
        /\ cachedLexPos' = cachedLexPos + 1
        /\ UNCHANGED <<numCachedTokenLexers, backtrackPositions, ret, client>>
    BY <1>4 DEF CachingLexReturn
  <2>2. StackOK' /\ KindAgrees' /\ InCachingLexMode'
    BY <1>1, <2>1, EnterMode
  <2>3. cachedTokens' \in Seq(Token) /\ Len(cachedTokens') = Len(cachedTokens) + 1
    BY <1>1, <2>1, AppendLast
  <2>4. TypeOK'
    BY <1>1, <1>3, <2>1, <2>2, <2>3 DEF TypeOK, StackOK, client
  <2>5. PositionsInCache'
    BY <1>1, <2>1, <2>3 DEF PositionsInCache, TypeOK
  <2> QED BY <1>2, <2>1, <2>2, <2>4, <2>5 DEF IInv, CallShape, AtRest, client
<1>5. CASE ~isBacktrackEnabled
  <2>1. /\ cachedTokens' = <<>> /\ cachedLexPos' = 0 /\ backtrackPositions = <<>>
        /\ UNCHANGED <<lexers, backtrackPositions, ret, client>>
    BY <1>1, <1>2, <1>5 DEF CachingLexReturn, isBacktrackEnabled, lexers
  <2>2. TypeOK'
    BY <1>1, <1>3, <2>1 DEF TypeOK, lexers, client
  <2>3. PositionsInCache' /\ AtRest'
    BY <2>1 DEF PositionsInCache, AtRest
  <2>4. KindAgrees'
    BY <1>1, <2>1 DEF KindAgrees, LexerAgrees, InCachingLexMode, lexers
  <2> QED BY <1>2, <2>1, <2>2, <2>3, <2>4 DEF IInv, CallShape, client
<1> QED BY <1>4, <1>5

LEMMA PeekAheadReturnStep == ASSUME IInv, PeekAheadReturn PROVE IInv'
<1> DEFINE filled == [cachedTokens EXCEPT ![Len(cachedTokens)] = ret]
<1>1. /\ TypeOK /\ StackOK /\ KindAgrees /\ PositionsInCache
      /\ cachedTokens \in Seq(Token) /\ cachedLexPos \in Nat
      /\ ret \in Token /\ Unknown \in Token
      /\ Len(prevToks) = Len(backtrackPositions)
  BY DEF IInv, TypeOK, StackOK, PeekAheadReturn, Returning, Token
<1>2. /\ Len(calls) = 1 /\ calls[1] \in Call /\ Last(calls) = calls[1] /\ Front(calls) = <<>>
      /\ calls[1].fn = "PeekAhead" /\ cur.clk # "CachingLexer"
      /\ cachedTokens # <<>>
  BY CallFacts, OneCall DEF IInv, CallShape, PeekAheadReturn, Returning
<1>3. filled \in Seq(Token) /\ Len(filled) = Len(cachedTokens) /\ filled # <<>>
  BY <1>1, <1>2
<1>4. UNCHANGED <<numCachedTokenLexers, cachedLexPos, backtrackPositions, tok, prevToks>>
      /\ ret' = NoTok
  BY DEF PeekAheadReturn
<1>5. CASE calls[1].c > 1
  <2> DEFINE next == [calls[1] EXCEPT !.c = @ - 1]
  <2>1. /\ cachedTokens' = Append(filled, Unknown)
        /\ calls' = Append(<<>>, next)
        /\ UNCHANGED <<cur, includeMacroStack, peeked>>
    BY <1>2, <1>5 DEF PeekAheadReturn
  <2>2. next \in Call /\ next.fn = "PeekAhead"
    BY <1>2, <1>5 DEF Call
  <2> HIDE DEF next, filled
  <2>3. calls' \in Seq(Call) /\ Len(calls') = 1 /\ calls'[1].fn = "PeekAhead"
    BY <2>1, <2>2
  <2>4. /\ cachedTokens' \in Seq(Token) /\ cachedTokens' # <<>>
        /\ Len(cachedTokens') = Len(cachedTokens) + 1
    BY <1>1, <1>3, <2>1, AppendLast
  <2>5. TypeOK'
    BY <1>1, <1>4, <2>1, <2>3, <2>4 DEF TypeOK
  <2>6. PositionsInCache'
    BY <1>1, <1>4, <2>4 DEF PositionsInCache
  <2>7. KindAgrees'
    BY <1>1, <2>1 DEF KindAgrees, LexerAgrees, InCachingLexMode
  <2>8. CallShape'
    BY <1>2, <2>1, <2>3, <2>4 DEF CallShape
  <2> QED BY <1>1, <1>4, <2>5, <2>6, <2>7, <2>8 DEF IInv
<1>6. CASE ~(calls[1].c > 1)
  <2>1. /\ cachedTokens' = filled
        /\ EnterCachingLexMode
        /\ calls' = <<>>
        /\ peeked' = [n |-> calls[1].n, t |-> ret]
    BY <1>2, <1>6 DEF PeekAheadReturn
  <2> HIDE DEF filled
  <2>2. StackOK' /\ KindAgrees' /\ InCachingLexMode'
    BY <1>1, <2>1, EnterMode
  <2>3. peeked' \in [n : Nat, t : Token \cup {NoTok}]
    BY <1>1, <1>2, <2>1 DEF Call
  <2>4. TypeOK'
    BY <1>1, <1>3, <1>4, <2>1, <2>2, <2>3 DEF TypeOK, StackOK
  <2>5. PositionsInCache'
    BY <1>1, <1>3, <1>4, <2>1 DEF PositionsInCache
  <2>6. CallShape'
    BY <1>4, <2>1, <2>2 DEF CallShape, AtRest
  <2> QED BY <1>1, <1>4, <2>2, <2>4, <2>5, <2>6 DEF IInv
<1> QED BY <1>5, <1>6

LEMMA LexReturnStep == ASSUME IInv, LexReturn PROVE IInv'
<1>1. calls = <<LexCall>> /\ calls' = <<>> /\ ret' = NoTok /\ AtRest /\ ret \in Token
  BY CallFacts, OneCall DEF IInv, TypeOK, CallShape, LexReturn, Returning
<1>2. TypeOK'
  BY <1>1 DEF IInv, TypeOK, LexReturn, lexers, cache, NoPeek
<1>3. PositionsInCache' /\ KindAgrees' /\ AtRest'
  BY <1>1 DEF IInv, PositionsInCache, KindAgrees, LexerAgrees, InCachingLexMode, AtRest, LexReturn, lexers, cache
<1> QED BY <1>1, <1>2, <1>3 DEF IInv, CallShape, LexReturn, cache

(* The calls of the parser.  Each starts at rest.                           *)
LEMMA IdleFacts ==
  ASSUME IInv, Idle
  PROVE  /\ TypeOK /\ StackOK /\ KindAgrees /\ PositionsInCache
         /\ calls = <<>> /\ ret = NoTok /\ AtRest
         /\ Len(prevToks) = Len(backtrackPositions)
         /\ cachedTokens \in Seq(Token) /\ cachedLexPos \in Nat
         /\ backtrackPositions \in Seq(Nat) /\ prevToks \in Seq(Token)
BY DEF IInv, Idle, CallShape, TypeOK, StackOK

LEMMA LexStep == ASSUME IInv, Lex PROVE IInv'
<1>1. /\ TypeOK /\ KindAgrees /\ PositionsInCache /\ AtRest
      /\ Len(prevToks) = Len(backtrackPositions)
  BY IdleFacts DEF Lex
<1>2. calls' = <<LexCall>> /\ UNCHANGED <<lexers, cache, ret, client>>
  BY DEF Lex
<1>3. calls' \in Seq(Call)
  BY <1>2, CallFacts
<1>4. TypeOK'
  BY <1>1, <1>2, <1>3 DEF TypeOK, lexers, cache, client
<1>5. PositionsInCache' /\ KindAgrees' /\ AtRest'
  BY <1>1, <1>2 DEF PositionsInCache, KindAgrees, LexerAgrees, InCachingLexMode, AtRest, lexers, cache
<1> QED BY <1>1, <1>2, <1>4, <1>5 DEF IInv, CallShape, cache, client

LEMMA LookAheadStep == ASSUME IInv, NEW n \in Nat, LookAhead(n) PROVE IInv'
<1>1. /\ TypeOK /\ StackOK /\ KindAgrees /\ PositionsInCache /\ calls = <<>> /\ ret = NoTok /\ AtRest
      /\ Len(prevToks) = Len(backtrackPositions)
      /\ cachedTokens \in Seq(Token) /\ cachedLexPos \in Nat /\ Unknown \in Token
  BY IdleFacts DEF LookAhead, Token
<1>2. UNCHANGED <<numCachedTokenLexers, cachedLexPos, backtrackPositions, ret, tok, prevToks>>
  BY DEF LookAhead
<1>3. CASE cachedLexPos + n < Len(cachedTokens)
  <2>1. /\ peeked' = [n |-> n, t |-> cachedTokens[cachedLexPos + n + 1]]
        /\ UNCHANGED <<cur, includeMacroStack, cachedTokens, calls>>
    BY <1>3 DEF LookAhead
  <2>2. cachedTokens[cachedLexPos + n + 1] \in Token
    BY <1>1, <1>3
  <2>3. TypeOK'
    BY <1>1, <1>2, <2>1, <2>2 DEF TypeOK
  <2>4. PositionsInCache' /\ KindAgrees' /\ AtRest'
    BY <1>1, <1>2, <2>1 DEF PositionsInCache, KindAgrees, LexerAgrees, InCachingLexMode, AtRest
  <2> QED BY <1>1, <1>2, <2>1, <2>3, <2>4 DEF IInv, CallShape
<1>4. CASE ~(cachedLexPos + n < Len(cachedTokens))
  <2> DEFINE call == [fn |-> "PeekAhead", n |-> n, c |-> cachedLexPos + n + 1 - Len(cachedTokens)]
  <2>1. /\ ExitCachingLexMode
        /\ cachedTokens' = Append(cachedTokens, Unknown)
        /\ calls' = <<call>>
        /\ UNCHANGED peeked
    BY <1>4 DEF LookAhead
  <2>2. StackOK' /\ KindAgrees' /\ cur'.clk # "CachingLexer"
    BY <1>1, <2>1, ExitMode
  <2>3. cachedLexPos + n + 1 - Len(cachedTokens) \in Nat
    BY <1>1, <1>4
  <2>4. call \in Call /\ call.fn = "PeekAhead"
    BY <2>3 DEF Call
  <2> HIDE DEF call
  <2>5. calls' \in Seq(Call) /\ Len(calls') = 1 /\ calls'[1].fn = "PeekAhead"
    BY <2>1, <2>4
  <2>6. /\ cachedTokens' \in Seq(Token) /\ cachedTokens' # <<>>
        /\ Len(cachedTokens') = Len(cachedTokens) + 1
    BY <1>1, <2>1, AppendLast
  <2>7. TypeOK'
    BY <1>1, <1>2, <2>1, <2>2, <2>5, <2>6 DEF TypeOK, StackOK
  <2>8. PositionsInCache'
    BY <1>1, <1>2, <2>6 DEF PositionsInCache
  <2>9. CallShape'
    BY <2>2, <2>5, <2>6 DEF CallShape
  <2> QED BY <1>1, <1>2, <2>2, <2>7, <2>8, <2>9 DEF IInv
<1> QED BY <1>3, <1>4

LEMMA EnableStep == ASSUME IInv, EnableBacktrackAtThisPos PROVE IInv'
<1>1. /\ TypeOK /\ StackOK /\ KindAgrees /\ PositionsInCache /\ calls = <<>> /\ ret = NoTok
      /\ Len(prevToks) = Len(backtrackPositions)
      /\ backtrackPositions \in Seq(Nat) /\ prevToks \in Seq(Token)
      /\ cachedTokens \in Seq(Token) /\ cachedLexPos \in Nat /\ tok \in Token
  BY IdleFacts DEF EnableBacktrackAtThisPos, TypeOK
<1>2. /\ backtrackPositions' = Append(backtrackPositions, cachedLexPos)
      /\ prevToks' = Append(prevToks, tok)
      /\ EnterCachingLexMode
      /\ UNCHANGED <<numCachedTokenLexers, cachedTokens, cachedLexPos, calls, ret, tok, peeked>>
  BY DEF EnableBacktrackAtThisPos
<1>3. StackOK' /\ KindAgrees' /\ InCachingLexMode'
  BY <1>1, <1>2, EnterMode
<1>4. /\ backtrackPositions' \in Seq(Nat) /\ prevToks' \in Seq(Token)
      /\ Len(backtrackPositions') = Len(backtrackPositions) + 1
      /\ Len(prevToks') = Len(prevToks) + 1
      /\ \A i \in 1..Len(backtrackPositions) : backtrackPositions'[i] = backtrackPositions[i]
      /\ backtrackPositions'[Len(backtrackPositions) + 1] = cachedLexPos
  BY <1>1, <1>2, AppendLast
<1>5. TypeOK'
  BY <1>1, <1>2, <1>3, <1>4 DEF TypeOK, StackOK
<1>6. \A i \in DOMAIN backtrackPositions' :
        \/ i \in DOMAIN backtrackPositions /\ backtrackPositions'[i] = backtrackPositions[i]
        \/ i = Len(backtrackPositions) + 1 /\ backtrackPositions'[i] = cachedLexPos
  <2>1. /\ DOMAIN backtrackPositions' = 1..Len(backtrackPositions) + 1
        /\ DOMAIN backtrackPositions = 1..Len(backtrackPositions)
        /\ Len(backtrackPositions) \in Nat
    BY <1>1, <1>4
  <2> QED BY <1>4, <2>1
<1>7. PositionsInCache'
  BY <1>1, <1>2, <1>4, <1>6 DEF PositionsInCache
<1> QED BY <1>1, <1>2, <1>3, <1>4, <1>5, <1>7 DEF IInv, CallShape, AtRest

(* Dropping the innermost mark.                                             *)
LEMMA DropMark ==
  ASSUME IInv, isBacktrackEnabled,
         backtrackPositions' = Front(backtrackPositions), prevToks' = Front(prevToks)
  PROVE  /\ backtrackPositions' \in Seq(Nat) /\ prevToks' \in Seq(Token)
         /\ Len(prevToks') = Len(backtrackPositions')
         /\ Last(backtrackPositions) = backtrackPositions[Len(backtrackPositions)]
         /\ Last(backtrackPositions) \in Nat
         /\ Last(backtrackPositions) <= cachedLexPos
         /\ Last(prevToks) \in Token
         /\ \A i \in DOMAIN backtrackPositions' :
              /\ i \in DOMAIN backtrackPositions
              /\ backtrackPositions'[i] = backtrackPositions[i]
              /\ backtrackPositions[i] <= Last(backtrackPositions)
<1>1. /\ backtrackPositions \in Seq(Nat) /\ backtrackPositions # <<>>
      /\ prevToks \in Seq(Token) /\ prevToks # <<>>
      /\ Len(prevToks) = Len(backtrackPositions) /\ Len(backtrackPositions) \in Nat \ {0}
  BY DEF IInv, TypeOK, isBacktrackEnabled
<1>2. /\ Last(backtrackPositions) = backtrackPositions[Len(backtrackPositions)]
      /\ Last(backtrackPositions) \in Nat
      /\ backtrackPositions' \in Seq(Nat)
      /\ Len(backtrackPositions') = Len(backtrackPositions) - 1
      /\ \A i \in 1..Len(backtrackPositions) - 1 : backtrackPositions'[i] = backtrackPositions[i]
  BY <1>1, LastFront
<1>3. Last(prevToks) \in Token /\ prevToks' \in Seq(Token) /\ Len(prevToks') = Len(prevToks) - 1
  BY <1>1, LastFront
<1>4. \A i \in DOMAIN backtrackPositions' :
        i \in DOMAIN backtrackPositions /\ i <= Len(backtrackPositions) /\ i \in 1..Len(backtrackPositions) - 1
  <2>1. /\ DOMAIN backtrackPositions' = 1..Len(backtrackPositions')
        /\ DOMAIN backtrackPositions = 1..Len(backtrackPositions)
    BY <1>1, <1>2
  <2>2. /\ Len(backtrackPositions') = Len(backtrackPositions) - 1
        /\ Len(backtrackPositions) \in Nat
    BY <1>1, <1>2
  <2> QED BY <2>1, <2>2
<1>5. Len(backtrackPositions) \in DOMAIN backtrackPositions
  BY <1>1
<1> QED BY <1>1, <1>2, <1>3, <1>4, <1>5 DEF IInv, PositionsInCache

LEMMA CommitStep == ASSUME IInv, CommitBacktrackedTokens PROVE IInv'
<1>1. /\ TypeOK /\ KindAgrees /\ PositionsInCache /\ calls = <<>> /\ ret = NoTok /\ AtRest
  BY IdleFacts DEF CommitBacktrackedTokens
<1>2. UNCHANGED <<lexers, cachedTokens, cachedLexPos, calls, ret, tok, peeked>>
      /\ isBacktrackEnabled
  BY DEF CommitBacktrackedTokens
<1>3. /\ backtrackPositions' \in Seq(Nat) /\ prevToks' \in Seq(Token)
      /\ Len(prevToks') = Len(backtrackPositions')
      /\ \A i \in DOMAIN backtrackPositions' :
           i \in DOMAIN backtrackPositions /\ backtrackPositions'[i] = backtrackPositions[i]
  BY DropMark DEF CommitBacktrackedTokens
<1>4. TypeOK'
  BY <1>1, <1>2, <1>3 DEF TypeOK, lexers
<1>5. PositionsInCache'
  BY <1>1, <1>2, <1>3 DEF PositionsInCache
<1>6. KindAgrees' /\ AtRest'
  BY <1>1, <1>2 DEF KindAgrees, LexerAgrees, InCachingLexMode, AtRest, lexers, isBacktrackEnabled
<1> QED BY <1>1, <1>2, <1>3, <1>4, <1>5, <1>6 DEF IInv, CallShape

LEMMA BacktrackStep == ASSUME IInv, Backtrack PROVE IInv'
<1>1. /\ TypeOK /\ StackOK /\ KindAgrees /\ PositionsInCache /\ calls = <<>> /\ ret = NoTok /\ AtRest
      /\ cachedLexPos \in Nat /\ cachedTokens \in Seq(Token)
  BY IdleFacts DEF Backtrack
<1>2. /\ UNCHANGED <<includeMacroStack, numCachedTokenLexers, cachedTokens, calls, ret>>
      /\ isBacktrackEnabled /\ recomputeCurLexerKind
      /\ cachedLexPos' = Last(backtrackPositions)
      /\ tok' = Last(prevToks) /\ peeked' = NoPeek
  BY DEF Backtrack
<1>3. /\ backtrackPositions' \in Seq(Nat) /\ prevToks' \in Seq(Token)
      /\ Len(prevToks') = Len(backtrackPositions')
      /\ Last(backtrackPositions) \in Nat
      /\ Last(backtrackPositions) <= cachedLexPos
      /\ Last(prevToks) \in Token
      /\ \A i \in DOMAIN backtrackPositions' :
           /\ i \in DOMAIN backtrackPositions
           /\ backtrackPositions'[i] = backtrackPositions[i]
           /\ backtrackPositions[i] <= Last(backtrackPositions)
  BY DropMark DEF Backtrack
<1>4. InCachingLexMode
  BY <1>1, <1>2 DEF AtRest, isBacktrackEnabled
<1>5. cur' = cur
  <2>1. cur.kind = "none" /\ cur.clk = "CachingLexer"
    BY <1>1, <1>4 DEF KindAgrees, InCachingLexMode
  <2>2. cur' = [cur EXCEPT !.clk = "CachingLexer"]
    BY <1>2, <2>1 DEF recomputeCurLexerKind
  <2> QED BY <1>1, <2>1, <2>2 DEF StackOK, LexerState
<1>6. TypeOK'
  BY <1>1, <1>2, <1>3, <1>5 DEF TypeOK, NoPeek
<1>7. PositionsInCache'
  BY <1>1, <1>2, <1>3 DEF PositionsInCache
<1>8. KindAgrees' /\ AtRest'
  BY <1>1, <1>2, <1>4, <1>5 DEF KindAgrees, LexerAgrees, InCachingLexMode, AtRest
<1> QED BY <1>1, <1>2, <1>3, <1>6, <1>7, <1>8 DEF IInv, CallShape

LEMMA RevertStep ==
  ASSUME IInv, NEW n \in 1..MaxCached, NEW t \in {tok} \cup Synthesized, RevertCachedTokens(n, t)
  PROVE  IInv'
<1>1. /\ TypeOK /\ KindAgrees /\ PositionsInCache /\ calls = <<>> /\ ret = NoTok /\ AtRest
      /\ cachedLexPos \in Nat /\ cachedTokens \in Seq(Token)
      /\ backtrackPositions \in Seq(Nat) /\ t \in Token /\ n \in Nat
  BY IdleFacts, BoundsAssumption DEF RevertCachedTokens, TypeOK, Token
<1>2. /\ backtrackPositions # <<>>
      /\ cachedLexPos - n >= Last(backtrackPositions)
      /\ cachedLexPos' = cachedLexPos - n
      /\ tok' = t /\ peeked' = NoPeek
      /\ UNCHANGED <<lexers, cachedTokens, backtrackPositions, calls, ret, prevToks>>
  BY DEF RevertCachedTokens, isBacktrackEnabled
<1>3. /\ Last(backtrackPositions) = backtrackPositions[Len(backtrackPositions)]
      /\ Last(backtrackPositions) \in Nat
      /\ Len(backtrackPositions) \in DOMAIN backtrackPositions
  <2>1. Len(backtrackPositions) \in DOMAIN backtrackPositions
    BY <1>1, <1>2
  <2> QED BY <1>1, <1>2, <2>1, LastFront
<1>4. \A i \in DOMAIN backtrackPositions : backtrackPositions[i] <= Last(backtrackPositions)
  <2>1. \A i \in DOMAIN backtrackPositions : i <= Len(backtrackPositions)
    BY <1>1
  <2> QED BY <1>1, <1>3, <2>1 DEF PositionsInCache
<1>5. cachedLexPos' \in Nat
  BY <1>1, <1>2, <1>3
<1>6. TypeOK'
  BY <1>1, <1>2, <1>5 DEF TypeOK, NoPeek, lexers
<1>7. PositionsInCache'
  <2>1. \A i \in DOMAIN backtrackPositions : backtrackPositions[i] \in Nat
    BY <1>1
  <2> QED BY <1>1, <1>2, <1>3, <1>4, <2>1 DEF PositionsInCache
<1>8. KindAgrees' /\ AtRest'
  BY <1>1, <1>2 DEF KindAgrees, LexerAgrees, InCachingLexMode, AtRest, lexers
<1> QED BY <1>1, <1>2, <1>6, <1>7, <1>8 DEF IInv, CallShape

LEMMA EnterTokenStep ==
  ASSUME IInv, NEW e \in {tok} \cup Synthesized, NEW t \in Synthesized, EnterToken(e, t)
  PROVE  IInv'
<1>1. /\ TypeOK /\ StackOK /\ KindAgrees /\ PositionsInCache /\ calls = <<>> /\ ret = NoTok
      /\ Len(prevToks) = Len(backtrackPositions)
      /\ cachedTokens \in Seq(Token) /\ cachedLexPos \in Nat
      /\ e \in Token /\ t \in Token
  BY IdleFacts DEF EnterToken, TypeOK, Token
<1>2. /\ EnterCachingLexMode
      /\ cachedTokens' = InsertAt(cachedTokens, cachedLexPos + 1, e)
      /\ tok' = t /\ peeked' = NoPeek
      /\ UNCHANGED <<numCachedTokenLexers, cachedLexPos, backtrackPositions, calls, ret, prevToks>>
  BY DEF EnterToken
<1>3. StackOK' /\ KindAgrees' /\ InCachingLexMode'
  BY <1>1, <1>2, EnterMode
<1>4. cachedTokens' \in Seq(Token) /\ Len(cachedTokens') = Len(cachedTokens) + 1
  BY <1>1, <1>2, InsertAtSeq DEF PositionsInCache
<1>5. TypeOK'
  BY <1>1, <1>2, <1>3, <1>4 DEF TypeOK, StackOK, NoPeek
<1>6. PositionsInCache'
  BY <1>1, <1>2, <1>4 DEF PositionsInCache
<1> QED BY <1>1, <1>2, <1>3, <1>5, <1>6 DEF IInv, CallShape, AtRest

LEMMA EnterTokenStreamStep ==
  ASSUME ~NestedStreams, IInv, NEW s \in Streams, EnterTokenStream(s)
  PROVE  IInv'
<1>1. /\ TypeOK /\ StackOK /\ KindAgrees /\ PositionsInCache /\ ret = NoTok /\ AtRest
      /\ Len(prevToks) = Len(backtrackPositions) /\ tok \in Token
      /\ numCachedTokenLexers \in 0..TokenLexerCacheSize /\ TokenLexerCacheSize \in Nat
  BY IdleFacts, BoundsAssumption DEF EnterTokenStream, TypeOK
<1>2. /\ ~InCachingLexMode
      /\ TakeTokenLexer
      /\ includeMacroStack' = Append(includeMacroStack, cur)
      /\ cur' = TokenLexer(Append(s, tok))
      /\ calls' = <<LexCall>>
      /\ peeked' = NoPeek
      /\ UNCHANGED <<cache, ret, tok, prevToks>>
  BY DEF EnterTokenStream, PushIncludeMacroStack
<1>3. cur.clk # "CachingLexer"
  BY <1>1, <1>2 DEF KindAgrees
<1>4. s \in Seq(Token)
  BY SourcesAssumption DEF Token
<1>5. Append(s, tok) \in Seq(Token \cup Item)
  BY <1>1, <1>4
<1>6. cur' \in LexerState /\ cur'.clk = "TokenLexer" /\ cur'.kind = "tokens"
  BY <1>2, <1>5 DEF TokenLexer, LexerState
<1>7. /\ includeMacroStack' \in Seq(LexerState)
      /\ includeMacroStack' # <<>>
      /\ \A i \in DOMAIN includeMacroStack' :
           /\ LexerAgrees(includeMacroStack'[i])
           /\ includeMacroStack'[i].clk # "CachingLexer"
           /\ includeMacroStack'[i].kind = "none" => i = 1
           /\ includeMacroStack'[i].kind = "tokens" => i > 1
  BY <1>1, <1>2, <1>3, Push DEF StackOK
<1>8. KindAgrees'
  BY <1>6, <1>7 DEF KindAgrees, LexerAgrees, InCachingLexMode
<1>9. numCachedTokenLexers' \in 0..TokenLexerCacheSize /\ calls' \in Seq(Call)
  BY <1>1, <1>2, CallFacts DEF TakeTokenLexer
<1>10. TypeOK'
  BY <1>1, <1>2, <1>6, <1>7, <1>9 DEF TypeOK, cache, NoPeek
<1>11. PositionsInCache' /\ AtRest'
  BY <1>1, <1>2 DEF PositionsInCache, AtRest, cache
<1> QED BY <1>1, <1>2, <1>8, <1>10, <1>11 DEF IInv, CallShape, cache

(* The cache after AnnotateCachedTokens: what lies behind the reading       *)
(* position stays and moves up to the annotation.                           *)
Annotated(s, p, k, t) == Append(SubSeq(s, 1, p - k), t) \o SubSeq(s, p + 1, Len(s))

LEMMA AnnotatedSeq ==
  ASSUME NEW S, NEW s \in Seq(S), NEW t \in S, NEW p \in Nat, p <= Len(s),
         NEW k \in Nat, p - k >= 0
  PROVE  /\ Annotated(s, p, k, t) \in Seq(S)
         /\ Len(Annotated(s, p, k, t)) = Len(s) - k + 1
         /\ \A i \in p + 1..Len(s) : Annotated(s, p, k, t)[i - k + 1] = s[i]
<1>1. PICK a : a = Append(SubSeq(s, 1, p - k), t)
  OBVIOUS
<1>2. a \in Seq(S) /\ Len(a) = p - k + 1
  <2>1. p - k \in Nat /\ p - k <= Len(s)
    OBVIOUS
  <2>2. SubSeq(s, 1, p - k) \in Seq(S) /\ Len(SubSeq(s, 1, p - k)) = p - k
    BY <2>1, PrefixSeq
  <2> QED BY <1>1, <2>2, AppendLast
<1>3. PICK b : b = SubSeq(s, p + 1, Len(s))
  OBVIOUS
<1>4. /\ b \in Seq(S) /\ Len(b) = Len(s) - p
      /\ \A i \in 1..Len(s) - p : b[i] = s[p + i]
  <2>1. \A i \in p + 1..Len(s) : s[i] \in S
    OBVIOUS
  <2> QED BY <1>3, <2>1, SubSeqProperties
<1>5. PICK r : r = a \o b
  OBVIOUS
<1>6. /\ r \in Seq(S) /\ Len(r) = Len(a) + Len(b)
      /\ \A i \in 1..Len(a) + Len(b) : r[i] = IF i <= Len(a) THEN a[i] ELSE b[i - Len(a)]
  BY <1>2, <1>4, <1>5, ConcatProperties
<1>7. ASSUME NEW i \in p + 1..Len(s) PROVE r[i - k + 1] = s[i]
  <2>1. PICK j \in Int : j = i - k + 1
    OBVIOUS
  <2>2. PICK l \in Int : l = i - p
    OBVIOUS
  <2>3. /\ j \in 1..Len(a) + Len(b) /\ ~(j <= Len(a)) /\ j - Len(a) = l
        /\ l \in 1..Len(s) - p /\ p + l = i
    BY <1>2, <1>4, <2>1, <2>2
  <2>4. r[j] = b[l] /\ b[l] = s[i]
    BY <1>4, <1>6, <2>3
  <2> QED BY <2>1, <2>4
<1>8. r = Annotated(s, p, k, t)
  BY <1>1, <1>3, <1>5 DEF Annotated
<1>9. r \in Seq(S) /\ Len(r) = Len(s) - k + 1
  BY <1>2, <1>4, <1>6
<1> QED BY <1>7, <1>8, <1>9

LEMMA AnnotatedCache ==
  ASSUME IInv, NEW S, cachedTokens \in Seq(S),
         NEW k \in 1..MaxCached, NEW t \in S, AnnotateCachedTokens(k, t)
  PROVE  /\ cachedTokens' \in Seq(S)
         /\ Len(cachedTokens') = Len(cachedTokens) - k + 1
         /\ cachedLexPos' = cachedLexPos - k + 1
         /\ \A i \in cachedLexPos + 1..Len(cachedTokens) : cachedTokens'[i - k + 1] = cachedTokens[i]
<1>1. cachedLexPos \in Nat /\ cachedLexPos <= Len(cachedTokens) /\ k \in Nat
  BY BoundsAssumption DEF IInv, TypeOK, PositionsInCache
<1>2. Last(backtrackPositions) \in Nat
  <2>1. Idle /\ isBacktrackEnabled
    BY DEF AnnotateCachedTokens
  <2>2. backtrackPositions \in Seq(Nat) /\ backtrackPositions # <<>>
    BY <2>1, IdleFacts DEF isBacktrackEnabled
  <2> QED BY <2>2, LastFront
<1>3. /\ cachedLexPos - k >= Last(backtrackPositions)
      /\ cachedTokens' = Annotated(cachedTokens, cachedLexPos, k, t)
      /\ cachedLexPos' = cachedLexPos - k + 1
  BY DEF AnnotateCachedTokens, Annotated
<1>4. cachedLexPos - k >= 0
  BY <1>1, <1>2, <1>3
<1>5. LET a == Annotated(cachedTokens, cachedLexPos, k, t)
      IN  /\ a \in Seq(S)
          /\ Len(a) = Len(cachedTokens) - k + 1
          /\ \A i \in cachedLexPos + 1..Len(cachedTokens) : a[i - k + 1] = cachedTokens[i]
  BY <1>1, <1>4, AnnotatedSeq
<1> QED BY <1>3, <1>5

LEMMA AnnotateStep ==
  ASSUME IInv, NEW k \in 1..MaxCached, NEW t \in Synthesized, AnnotateCachedTokens(k, t)
  PROVE  IInv'
<1>1. /\ TypeOK /\ KindAgrees /\ PositionsInCache /\ calls = <<>> /\ ret = NoTok /\ AtRest
      /\ Len(prevToks) = Len(backtrackPositions)
      /\ cachedLexPos \in Nat /\ cachedTokens \in Seq(Token)
      /\ backtrackPositions \in Seq(Nat) /\ t \in Token /\ k \in Nat \ {0}
  <2>1. Idle
    BY DEF AnnotateCachedTokens
  <2>2. t \in Token
    BY DEF Token
  <2>3. k \in Nat \ {0}
    BY BoundsAssumption
  <2>4. /\ TypeOK /\ KindAgrees /\ PositionsInCache /\ calls = <<>> /\ ret = NoTok /\ AtRest
        /\ Len(prevToks) = Len(backtrackPositions)
    BY <2>1, IdleFacts
  <2>5. /\ cachedLexPos \in Nat /\ cachedTokens \in Seq(Token)
        /\ backtrackPositions \in Seq(Nat)
    BY <2>4 DEF TypeOK
  <2> QED BY <2>2, <2>3, <2>4, <2>5
<1>2. /\ backtrackPositions # <<>>
      /\ cachedLexPos - k >= Last(backtrackPositions)
      /\ cachedLexPos' = cachedLexPos - k + 1
      /\ tok' = t
      /\ UNCHANGED <<lexers, backtrackPositions, calls, ret, prevToks, peeked>>
  BY DEF AnnotateCachedTokens, isBacktrackEnabled
<1>3. /\ Last(backtrackPositions) = backtrackPositions[Len(backtrackPositions)]
      /\ Last(backtrackPositions) \in Nat
      /\ Len(backtrackPositions) \in DOMAIN backtrackPositions
  <2>1. Len(backtrackPositions) \in DOMAIN backtrackPositions
    BY <1>1, <1>2
  <2> QED BY <1>1, <1>2, <2>1, LastFront
<1>4. \A i \in DOMAIN backtrackPositions : backtrackPositions[i] <= Last(backtrackPositions)
  <2>1. \A i \in DOMAIN backtrackPositions : i <= Len(backtrackPositions)
    BY <1>1
  <2> QED BY <1>1, <1>3, <2>1 DEF PositionsInCache
<1>5. cachedTokens' \in Seq(Token) /\ Len(cachedTokens') = Len(cachedTokens) - k + 1
  BY <1>1, AnnotatedCache
<1>6. cachedLexPos' \in Nat /\ cachedLexPos' <= Len(cachedTokens')
      /\ Last(backtrackPositions) <= cachedLexPos'
  BY <1>1, <1>2, <1>3, <1>5 DEF PositionsInCache
<1>7. TypeOK'
  BY <1>1, <1>2, <1>5, <1>6 DEF TypeOK, lexers
<1>8. PositionsInCache'
  <2>1. \A i \in DOMAIN backtrackPositions : backtrackPositions[i] \in Nat
    BY <1>1
  <2> QED BY <1>1, <1>2, <1>3, <1>4, <1>6, <2>1 DEF PositionsInCache
<1>9. KindAgrees' /\ AtRest'
  BY <1>1, <1>2 DEF KindAgrees, LexerAgrees, InCachingLexMode, AtRest, lexers
<1> QED BY <1>1, <1>2, <1>7, <1>8, <1>9 DEF IInv, CallShape

LEMMA TypoCorrectStep ==
  ASSUME IInv, NEW t \in Synthesized, TypoCorrectToken(t)
  PROVE  IInv'
<1>1. /\ TypeOK /\ KindAgrees /\ PositionsInCache /\ calls = <<>> /\ ret = NoTok /\ AtRest
      /\ Len(prevToks) = Len(backtrackPositions)
      /\ cachedLexPos \in Nat /\ cachedTokens \in Seq(Token) /\ t \in Token
  BY IdleFacts DEF TypoCorrectToken, TypeOK, Token
<1>2. /\ tok' = t
      /\ UNCHANGED <<lexers, cachedLexPos, backtrackPositions, calls, ret, prevToks, peeked>>
  BY DEF TypoCorrectToken
<1>3. /\ cachedTokens' \in Seq(Token) /\ Len(cachedTokens') = Len(cachedTokens)
      /\ cachedTokens' # <<>> => cachedTokens # <<>>
  <2>1. CASE cachedTokens' = cachedTokens
    BY <1>1, <2>1
  <2>2. CASE cachedLexPos # 0 /\ cachedTokens' = [cachedTokens EXCEPT ![cachedLexPos] = t]
    <3>1. cachedLexPos \in 1..Len(cachedTokens)
      BY <1>1, <2>2 DEF PositionsInCache
    <3>2. cachedTokens' \in Seq(Token) /\ Len(cachedTokens') = Len(cachedTokens)
      BY <1>1, <2>2, <3>1, ExceptSeq
    <3>3. cachedTokens # <<>>
      BY <3>1
    <3> QED BY <3>2, <3>3
  <2> QED BY <2>1, <2>2 DEF TypoCorrectToken
<1>4. TypeOK'
  BY <1>1, <1>2, <1>3 DEF TypeOK, lexers
<1>5. PositionsInCache'
  BY <1>1, <1>2, <1>3 DEF PositionsInCache
<1>6. KindAgrees' /\ AtRest'
  BY <1>1, <1>2, <1>3 DEF KindAgrees, LexerAgrees, InCachingLexMode, AtRest, lexers
<1> QED BY <1>1, <1>2, <1>4, <1>5, <1>6 DEF IInv, CallShape

-----------------------------------------------------------------------------
LEMMA IInvNext == ASSUME ~NestedStreams, IInv, [Next]_vars PROVE IInv'
<1>1. CASE ClientCall
  <2>1. \A n \in 0..MaxLookAhead : n \in Nat
    OBVIOUS
  <2> QED BY <1>1, <2>1, LexStep, LookAheadStep, EnableStep, CommitStep, BacktrackStep,
             RevertStep, EnterTokenStep, EnterTokenStreamStep, AnnotateStep, TypoCorrectStep
          DEF ClientCall
<1>2. CASE LexerStep
  BY <1>2, LexerActions, CachingLexStep, CachingLexReturnStep, PeekAheadReturnStep,
     LexReturnStep DEF LexerStep
<1>3. CASE UNCHANGED vars
  <2> USE <1>3 DEF vars, lexers, cache, client
  <2>1. TypeOK' /\ PositionsInCache' /\ KindAgrees'
    BY DEF IInv, TypeOK, PositionsInCache, KindAgrees, LexerAgrees, InCachingLexMode
  <2>2. CallShape'
    BY DEF IInv, CallShape, AtRest, InCachingLexMode
  <2> QED BY <2>1, <2>2 DEF IInv
<1> QED BY <1>1, <1>2, <1>3 DEF Next

THEOREM Invariance == ASSUME ~NestedStreams PROVE Spec => []IInv
<1>1. Init => IInv
  BY IInvInit
<1>2. IInv /\ [Next]_vars => IInv'
  BY IInvNext
<1> QED BY <1>1, <1>2, PTL DEF Spec

(* Every variable keeps its type: the positions stay naturals, the lexer    *)
(* stack is popped only when there is something to pop.                     *)
THEOREM TypeCorrect == ASSUME ~NestedStreams PROVE Spec => []TypeOK
BY Invariance, PTL DEF IInv

(* The reading position and the marks stay ordered and inside the cache     *)
(* (PPCaching.cpp asserts what it needs of this; Preprocessor.h:773).       *)
THEOREM PositionsCorrect == ASSUME ~NestedStreams PROVE Spec => []PositionsInCache
BY Invariance, PTL DEF IInv

(* Lex dispatches on a kind that names the lexer which is there, and the    *)
(* caching level is on top of the lexer stack or absent.                    *)
THEOREM KindCorrect == ASSUME ~NestedStreams PROVE Spec => []KindAgrees
BY Invariance, PTL DEF IInv

(* Between the calls of the parser, a cached token or a mark implies        *)
(* caching mode, so that no lookahead token is skipped.                     *)
THEOREM CachingCorrect == ASSUME ~NestedStreams PROVE Spec => []CachingWhileNeeded
<1>1. IInv => CachingWhileNeeded
  BY CallFacts DEF IInv, CallShape, AtRest, CachingWhileNeeded, Idle, isBacktrackEnabled
<1> QED BY <1>1, Invariance, PTL

-----------------------------------------------------------------------------
(* The placeholder of PeekAhead.  Lexers hold written tokens only, and the  *)
(* placeholder is at the back of the cache only while PeekAhead runs.       *)
Written == Plain \cup Synthesized \cup {Eof}

WrittenLexer == [clk  : {"Lexer", "TokenLexer", "CachingLexer"},
                 kind : {"file", "tokens", "none"},
                 toks : Seq(Written \cup Item)]

CacheWritten ==
  IF Peeking THEN \A i \in 1..Len(cachedTokens) - 1 : cachedTokens[i] \in Written
             ELSE cachedTokens \in Seq(Written)

StackWritten == cur \in WrittenLexer /\ includeMacroStack \in Seq(WrittenLexer)

WrittenInv == StackWritten /\ ret \in Written \cup {NoTok} /\ CacheWritten

LEMMA WrittenFacts ==
  /\ Unknown \notin Written /\ NoTok \notin Written
  /\ Token = Written \cup {Unknown} /\ Plain \subseteq Written
  /\ \A x \in Written \cup Item : x \in Token => x \in Written
BY TokensAssumption DEF Written, Token, Item

LEMMA PopWritten ==
  ASSUME StackWritten, includeMacroStack # <<>>, PopIncludeMacroStack
  PROVE  StackWritten'
BY LastFront DEF StackWritten, PopIncludeMacroStack

LEMMA ExitWritten ==
  ASSUME StackWritten, ExitCachingLexMode
  PROVE  StackWritten'
<1>1. CASE InCachingLexMode
  BY <1>1, PopWritten DEF ExitCachingLexMode, InCachingLexMode
<1>2. CASE ~InCachingLexMode
  BY <1>2 DEF ExitCachingLexMode, StackWritten
<1> QED BY <1>1, <1>2

LEMMA EnterWritten ==
  ASSUME StackWritten, EnterCachingLexMode
  PROVE  StackWritten'
<1>1. CachingLexer \in WrittenLexer
  BY DEF CachingLexer, WrittenLexer
<1> QED BY <1>1, AppendLast
        DEF EnterCachingLexMode, PushIncludeMacroStack, StackWritten

(* The steps of the lexers.                                                 *)
LEMMA LexerActionsWritten ==
  ASSUME IInv, WrittenInv,
         \/ LexToken \/ SkipEmptyMacro \/ ExpandTrivialMacro \/ EnterMacro
         \/ EnterSourceFile \/ HandleEndOfFile \/ HandleEndOfTokenLexer
  PROVE  WrittenInv'
<1>1. StackWritten /\ UNCHANGED <<calls, cachedTokens>>
  BY DEF WrittenInv, cache, LexToken, SkipEmptyMacro, ExpandTrivialMacro, EnterMacro,
         EnterSourceFile, HandleEndOfFile, HandleEndOfTokenLexer
<1>2. CacheWritten'
  BY <1>1 DEF WrittenInv, CacheWritten, Peeking
<1>3. ASSUME cur.toks # <<>>
      PROVE  Advanced \in WrittenLexer /\ Head(cur.toks) \in Written \cup Item
  <2>1. cur.toks \in Seq(Written \cup Item) /\ cur \in WrittenLexer
    BY <1>1 DEF StackWritten, WrittenLexer
  <2>2. Tail(cur.toks) \in Seq(Written \cup Item) /\ Head(cur.toks) \in Written \cup Item
    BY <1>3, <2>1, HeadTailProperties
  <2> QED BY <2>1, <2>2 DEF Advanced, WrittenLexer
<1>4. ASSUME NEW s \in Seq(Item)
      PROVE  TokenLexer(s) \in WrittenLexer /\ FileLexer(s) \in WrittenLexer
  <2>1. s \in Seq(Written \cup Item)
    BY <1>4
  <2> QED BY <2>1 DEF TokenLexer, FileLexer, WrittenLexer
<1>5. CASE LexToken
  <2>1. cur.toks # <<>> /\ Head(cur.toks) \in Token /\ ret' = Head(cur.toks)
        /\ cur' = Advanced /\ includeMacroStack' = includeMacroStack
    BY <1>5 DEF LexToken, AtItem
  <2>2. ret' \in Written
    BY <1>3, <2>1, WrittenFacts
  <2> QED BY <1>1, <1>2, <1>3, <2>1, <2>2 DEF WrittenInv, StackWritten
<1>6. CASE SkipEmptyMacro
  BY <1>1, <1>2, <1>3, <1>6 DEF SkipEmptyMacro, AtItem, WrittenInv, StackWritten
<1>7. CASE ExpandTrivialMacro
  <2>1. ret' \in Written
    BY <1>7, WrittenFacts DEF ExpandTrivialMacro, Trivial
  <2> QED BY <1>1, <1>2, <1>3, <1>7, <2>1 DEF ExpandTrivialMacro, AtItem, WrittenInv, StackWritten
<1>8. CASE EnterMacro \/ EnterSourceFile
  <2>1. /\ cur.toks # <<>>
        /\ includeMacroStack' = Append(includeMacroStack, Advanced) /\ ret' = ret
        /\ \E s \in Seq(Item) : cur' = TokenLexer(s) \/ cur' = FileLexer(s)
    BY <1>8, SourcesAssumption DEF EnterMacro, EnterSourceFile, AtItem
  <2>2. cur' \in WrittenLexer
    BY <1>4, <2>1
  <2>3. includeMacroStack' \in Seq(WrittenLexer)
    BY <1>1, <1>3, <2>1, AppendLast DEF StackWritten
  <2> QED BY <1>2, <2>1, <2>2, <2>3 DEF WrittenInv, StackWritten
<1>9. CASE HandleEndOfFile
  <2>1. CASE includeMacroStack # <<>>
    BY <1>1, <1>2, <1>9, <2>1, PopWritten DEF HandleEndOfFile, WrittenInv
  <2>2. CASE includeMacroStack = <<>>
    <3>1. /\ cur' = [clk |-> cur.clk, kind |-> "none", toks |-> <<>>]
          /\ includeMacroStack' = includeMacroStack /\ ret' = Eof
      BY <1>9, <2>2 DEF HandleEndOfFile
    <3>2. cur' \in WrittenLexer
      BY <1>1, <3>1 DEF StackWritten, WrittenLexer
    <3> QED BY <1>1, <1>2, <3>1, <3>2 DEF WrittenInv, StackWritten, Written
  <2> QED BY <2>1, <2>2
<1>10. CASE HandleEndOfTokenLexer
  <2>1. includeMacroStack # <<>>
    BY <1>10 DEF HandleEndOfTokenLexer, AtEnd, IInv, KindAgrees
  <2> QED BY <1>1, <1>2, <1>10, <2>1, PopWritten DEF HandleEndOfTokenLexer, WrittenInv
<1> QED BY <1>5, <1>6, <1>7, <1>8, <1>9, <1>10

(* The steps of the token cache.                                            *)
LEMMA CacheActionsWritten ==
  ASSUME IInv, WrittenInv,
         CachingLex \/ CachingLexReturn \/ PeekAheadReturn \/ LexReturn
  PROVE  WrittenInv'
<1>1. /\ cachedTokens \in Seq(Token) /\ cachedLexPos \in Nat /\ cachedLexPos <= Len(cachedTokens)
      /\ ret \in Token \cup {NoTok} /\ StackWritten /\ ret \in Written \cup {NoTok}
  BY DEF IInv, TypeOK, PositionsInCache, WrittenInv
<1>2. CASE CachingLex
  <2>1. calls = <<LexCall>> /\ ~Peeking /\ cachedTokens \in Seq(Written)
    BY <1>2, CallFacts DEF IInv, CallShape, CachingLex, Running, WrittenInv, CacheWritten, Peeking
  <2>2. cachedTokens' = cachedTokens
    BY <1>2 DEF CachingLex
  <2>3. CASE cachedLexPos < Len(cachedTokens)
    <3>1. ret' \in Written /\ calls' = calls /\ UNCHANGED <<cur, includeMacroStack>>
      BY <1>1, <1>2, <2>1, <2>3 DEF CachingLex
    <3> QED BY <1>1, <2>1, <2>2, <3>1 DEF WrittenInv, StackWritten, CacheWritten, Peeking
  <2>4. CASE ~(cachedLexPos < Len(cachedTokens))
    <3>1. ExitCachingLexMode /\ calls' = <<LexCall, CachingLexCall>> /\ ret' = ret
      BY <1>2, <2>1, <2>4, CallFacts DEF CachingLex
    <3>2. ~Peeking'
      BY <3>1, CallFacts DEF Peeking
    <3> QED BY <1>1, <2>1, <2>2, <3>1, <3>2, ExitWritten DEF WrittenInv, CacheWritten
  <2> QED BY <2>3, <2>4
<1>3. CASE CachingLexReturn
  <2>1. /\ calls = <<LexCall, CachingLexCall>> /\ calls' = <<LexCall>> /\ ret \in Written /\ ret' = ret
    BY <1>1, <1>3, CallFacts, OneCall DEF IInv, CallShape, CachingLexReturn, Returning
  <2>2. ~Peeking /\ ~Peeking' /\ cachedTokens \in Seq(Written)
    BY <2>1, CallFacts DEF WrittenInv, CacheWritten, Peeking
  <2>3. cachedTokens' \in Seq(Written)
    <3>1. CASE cachedTokens' = Append(cachedTokens, ret)
      BY <2>1, <2>2, <3>1, AppendLast
    <3>2. CASE cachedTokens' = <<>>
      BY <3>2
    <3>3. CASE cachedTokens' = cachedTokens
      BY <2>2, <3>3
    <3>4. \/ cachedTokens' = Append(cachedTokens, ret)
          \/ cachedTokens' = <<>>
          \/ cachedTokens' = cachedTokens
      BY <1>3 DEF CachingLexReturn
    <3> QED BY <3>1, <3>2, <3>3, <3>4
  <2>4. StackWritten'
    BY <1>1, <1>3, EnterWritten DEF CachingLexReturn, StackWritten
  <2> QED BY <2>1, <2>2, <2>3, <2>4 DEF WrittenInv, CacheWritten
<1>4. CASE PeekAheadReturn
  <2>1. /\ Len(calls) = 1 /\ calls[1] \in Call /\ Last(calls) = calls[1] /\ Front(calls) = <<>>
        /\ calls[1].fn = "PeekAhead" /\ cachedTokens # <<>> /\ ret \in Written
    BY <1>1, <1>4, CallFacts, OneCall DEF IInv, CallShape, PeekAheadReturn, Returning
  <2>2. Peeking
    BY <2>1 DEF Peeking
  <2>3. PICK filled : /\ filled = [cachedTokens EXCEPT ![Len(cachedTokens)] = ret]
                      /\ filled \in Seq(Written) /\ filled \in Seq(Token)
                      /\ Len(filled) = Len(cachedTokens)
                      /\ \A i \in 1..Len(filled) : filled[i] \in Written
    <3>1. PICK n \in Nat \ {0} : n = Len(cachedTokens)
      BY <1>1, <2>1
    <3>2. PICK filled : filled = [cachedTokens EXCEPT ![n] = ret]
      OBVIOUS
    <3>3. /\ filled \in Seq(Token) /\ Len(filled) = n
      <4>1. n \in 1..Len(cachedTokens) /\ ret \in Token
        BY <1>1, <2>1, <3>1, WrittenFacts
      <4> QED BY <1>1, <3>1, <3>2, <4>1, ExceptSeq
    <3>4. \A i \in 1..n : filled[i] = IF i = n THEN ret ELSE cachedTokens[i]
      BY <1>1, <3>1, <3>2
    <3>5. \A i \in 1..n : i # n => i \in 1..Len(cachedTokens) - 1
      BY <3>1
    <3>6. \A i \in 1..n : filled[i] \in Written
      BY <2>1, <2>2, <3>4, <3>5 DEF WrittenInv, CacheWritten
    <3>7. filled \in Seq(Written)
      BY <3>3, <3>6
    <3> QED BY <3>1, <3>2, <3>3, <3>6, <3>7
  <2>4. ret' = NoTok
    BY <1>4 DEF PeekAheadReturn
  <2>5. CASE calls[1].c > 1
    <3> DEFINE next == [calls[1] EXCEPT !.c = @ - 1]
    <3>1. /\ cachedTokens' = Append(filled, Unknown)
          /\ calls' = Append(<<>>, next) /\ UNCHANGED <<cur, includeMacroStack>>
      BY <1>4, <2>1, <2>3, <2>5 DEF PeekAheadReturn
    <3>2. next \in Call /\ next.fn = "PeekAhead"
      BY <2>1, <2>5 DEF Call
    <3> HIDE DEF next
    <3>3. Peeking'
      BY <3>1, <3>2 DEF Peeking
    <3>4. /\ Len(cachedTokens') - 1 = Len(filled)
          /\ \A i \in 1..Len(filled) : cachedTokens'[i] \in Written
      <4>0. filled \in Seq(Token)
        BY <2>3, Zenon
      <4>1. Unknown \in Token /\ Len(filled) \in Nat
        BY <4>0, WrittenFacts
      <4>2. \A i \in 1..Len(filled) : filled[i] \in Written
        BY <2>3
      <4> QED BY <3>1, <4>0, <4>1, <4>2, AppendLast
    <3>5. CacheWritten'
      BY <3>3, <3>4 DEF CacheWritten
    <3> QED BY <1>1, <2>4, <3>1, <3>5 DEF WrittenInv, StackWritten
  <2>6. CASE ~(calls[1].c > 1)
    <3>1. cachedTokens' = filled /\ EnterCachingLexMode /\ calls' = <<>>
      BY <1>4, <2>1, <2>3, <2>6 DEF PeekAheadReturn
    <3>2. CacheWritten'
      BY <2>3, <3>1 DEF CacheWritten, Peeking
    <3> QED BY <1>1, <2>4, <3>1, <3>2, EnterWritten DEF WrittenInv
  <2> QED BY <2>5, <2>6
<1>5. CASE LexReturn
  <2>1. calls = <<LexCall>> /\ calls' = <<>> /\ ret' = NoTok
    BY <1>5, CallFacts, OneCall DEF IInv, CallShape, LexReturn, Returning
  <2>2. UNCHANGED <<cur, includeMacroStack, cachedTokens>>
    BY <1>5 DEF LexReturn, lexers, cache
  <2> QED BY <2>1, <2>2, CallFacts DEF WrittenInv, StackWritten, CacheWritten, Peeking
<1> QED BY <1>2, <1>3, <1>4, <1>5

(* The calls of the parser.                                                 *)
LEMMA ClientWritten == ASSUME IInv, WrittenInv, ClientCall PROVE WrittenInv'
<1>1. /\ calls = <<>> /\ ret = NoTok /\ ret' = ret /\ StackWritten
      /\ cachedTokens \in Seq(Written) /\ cachedLexPos \in Nat /\ cachedLexPos <= Len(cachedTokens)
  <2>1. Idle /\ ret' = ret
    BY DEF ClientCall, Lex, LookAhead, EnableBacktrackAtThisPos, CommitBacktrackedTokens, Backtrack,
           RevertCachedTokens, EnterToken, EnterTokenStream, AnnotateCachedTokens, TypoCorrectToken
  <2> QED BY <2>1, IdleFacts DEF PositionsInCache, WrittenInv, CacheWritten, Peeking
<1>2. Synthesized \subseteq Written
  BY DEF Written
<1>3. ASSUME StackWritten', cachedTokens' \in Seq(Written), ~Peeking'
      PROVE  WrittenInv'
  BY <1>1, <1>3 DEF WrittenInv, CacheWritten
<1>4. ASSUME UNCHANGED <<cur, includeMacroStack>> PROVE StackWritten'
  BY <1>1, <1>4 DEF StackWritten
<1>5. ASSUME calls' = calls \/ calls' = <<LexCall>> PROVE ~Peeking'
  BY <1>1, <1>5, CallFacts DEF Peeking
<1>6. CASE Lex
  BY <1>1, <1>3, <1>4, <1>5, <1>6 DEF Lex, lexers, cache
<1>7. ASSUME NEW n \in 0..MaxLookAhead, LookAhead(n) PROVE WrittenInv'
  <2>1. CASE cachedLexPos + n < Len(cachedTokens)
    BY <1>1, <1>3, <1>4, <1>5, <1>7, <2>1 DEF LookAhead
  <2>2. CASE ~(cachedLexPos + n < Len(cachedTokens))
    <3> DEFINE call == [fn |-> "PeekAhead", n |-> n, c |-> cachedLexPos + n + 1 - Len(cachedTokens)]
    <3>1. /\ ExitCachingLexMode /\ cachedTokens' = Append(cachedTokens, Unknown)
          /\ calls' = <<call>>
      BY <1>7, <2>2 DEF LookAhead
    <3>2. call.fn = "PeekAhead"
      OBVIOUS
    <3> HIDE DEF call
    <3>3. Peeking'
      BY <3>1, <3>2 DEF Peeking
    <3>4. \A i \in 1..Len(cachedTokens') - 1 : cachedTokens'[i] \in Written
      BY <1>1, <3>1
    <3> QED BY <1>1, <3>1, <3>3, <3>4, ExitWritten DEF WrittenInv, CacheWritten
  <2> QED BY <2>1, <2>2
<1>8. CASE EnableBacktrackAtThisPos
  BY <1>1, <1>3, <1>5, <1>8, EnterWritten DEF EnableBacktrackAtThisPos
<1>9. CASE CommitBacktrackedTokens
  BY <1>1, <1>3, <1>4, <1>5, <1>9 DEF CommitBacktrackedTokens, lexers
<1>10. CASE Backtrack
  <2>1. recomputeCurLexerKind /\ UNCHANGED <<includeMacroStack, cachedTokens, calls>>
    BY <1>10 DEF Backtrack
  <2>2. cur' \in WrittenLexer
    BY <1>1, <2>1 DEF recomputeCurLexerKind, StackWritten, WrittenLexer
  <2> QED BY <1>1, <1>3, <1>5, <2>1, <2>2 DEF StackWritten
<1>11. ASSUME NEW n \in 1..MaxCached, NEW t \in {tok} \cup Synthesized, RevertCachedTokens(n, t)
       PROVE  WrittenInv'
  BY <1>1, <1>3, <1>4, <1>5, <1>11 DEF RevertCachedTokens, lexers
<1>12. ASSUME NEW e \in {tok} \cup Synthesized, NEW t \in Synthesized, EnterToken(e, t)
       PROVE  WrittenInv'
  <2>1. e \in Written
    BY <1>2, <1>12, WrittenFacts DEF EnterToken, IInv, TypeOK
  <2>2. cachedTokens' \in Seq(Written)
    BY <1>1, <1>12, <2>1, InsertAtSeq DEF EnterToken
  <2> QED BY <1>1, <1>3, <1>5, <1>12, <2>2, EnterWritten DEF EnterToken
<1>13. ASSUME NEW s \in Streams, EnterTokenStream(s) PROVE WrittenInv'
  <2>1. tok \in Written
    BY <1>13, WrittenFacts DEF EnterTokenStream, IInv, TypeOK
  <2>2. s \in Seq(Written)
    BY SourcesAssumption DEF Written
  <2>3. Append(s, tok) \in Seq(Written \cup Item)
    BY <2>1, <2>2
  <2>4. cur' \in WrittenLexer
    BY <1>13, <2>3 DEF EnterTokenStream, TokenLexer, WrittenLexer
  <2>5. includeMacroStack' \in Seq(WrittenLexer)
    BY <1>1, <1>13, AppendLast DEF EnterTokenStream, PushIncludeMacroStack, StackWritten
  <2> QED BY <1>1, <1>3, <1>5, <1>13, <2>4, <2>5 DEF EnterTokenStream, cache, StackWritten
<1>14. ASSUME NEW k \in 1..MaxCached, NEW t \in Synthesized, AnnotateCachedTokens(k, t)
       PROVE  WrittenInv'
  <2>1. cachedTokens' \in Seq(Written)
    BY <1>1, <1>2, <1>14, AnnotatedCache
  <2> QED BY <1>3, <1>4, <1>5, <1>14, <2>1 DEF AnnotateCachedTokens, lexers
<1>15. ASSUME NEW t \in Synthesized, TypoCorrectToken(t) PROVE WrittenInv'
  <2>1. cachedTokens' \in Seq(Written)
    BY <1>1, <1>2, <1>15, ExceptSeq DEF TypoCorrectToken
  <2> QED BY <1>3, <1>4, <1>5, <1>15, <2>1 DEF TypoCorrectToken, lexers
<1> QED BY <1>6, <1>7, <1>8, <1>9, <1>10, <1>11, <1>12, <1>13, <1>14, <1>15 DEF ClientCall
LEMMA WrittenInit == Init => WrittenInv
<1> SUFFICES ASSUME Init PROVE WrittenInv
  OBVIOUS
<1>1. PICK f \in MainFiles : cur = FileLexer(f)
  BY DEF Init
<1>2. f \in Seq(Written \cup Item)
  BY SourcesAssumption
<1>3. cur \in WrittenLexer
  BY <1>1, <1>2 DEF FileLexer, WrittenLexer
<1> QED BY <1>3 DEF Init, WrittenInv, StackWritten, CacheWritten, Peeking

LEMMA WrittenNext == ASSUME IInv, WrittenInv, [Next]_vars PROVE WrittenInv'
<1>1. CASE LexerStep
  BY <1>1, LexerActionsWritten, CacheActionsWritten DEF LexerStep
<1>2. CASE UNCHANGED vars
  BY <1>2 DEF vars, lexers, cache, WrittenInv, StackWritten, CacheWritten, Peeking
<1> QED BY <1>1, <1>2, ClientWritten DEF Next

(* No call returns the placeholder that PeekAhead puts at the back of the   *)
(* cache, and none is left there when it is over: the lexers hold no such   *)
(* token, and nobody reads the cache while it has one.                      *)
THEOREM PlaceholderIsFilled == ASSUME ~NestedStreams PROVE Spec => []PlaceholderNeverSeen
<1>1. Init => WrittenInv
  BY WrittenInit
<1>2. IInv /\ WrittenInv /\ [Next]_vars => WrittenInv'
  BY WrittenNext
<1>3. WrittenInv => PlaceholderNeverSeen
  <2> SUFFICES ASSUME WrittenInv PROVE PlaceholderNeverSeen
    OBVIOUS
  <2>1. ret # Unknown
    BY WrittenFacts, TokensAssumption DEF WrittenInv
  <2>2. ASSUME Idle PROVE \A i \in DOMAIN cachedTokens : cachedTokens[i] # Unknown
    <3>1. cachedTokens \in Seq(Written)
      BY <2>2 DEF Idle, WrittenInv, CacheWritten, Peeking
    <3> QED BY <3>1, WrittenFacts
  <2> QED BY <2>1, <2>2 DEF PlaceholderNeverSeen
<1> QED BY <1>1, <1>2, <1>3, Invariance, PTL DEF Spec

-----------------------------------------------------------------------------
(* What LookAhead has answered.  It is in the cache where Lex will read it, *)
(* or Lex has just read it.  While PeekAhead runs, the placeholder is       *)
(* behind it, and the rest of the loop ends at the token that was asked for.*)
PeekAheadInv ==
  Peeking => /\ calls[1].c >= 1
             /\ cachedLexPos + calls[1].n + 2 = Len(cachedTokens) + calls[1].c

InCache(n, t) ==
  /\ cachedLexPos + n < Len(cachedTokens)
  /\ Peeking => cachedLexPos + n + 1 < Len(cachedTokens)
  /\ cachedTokens[cachedLexPos + n + 1] = t

HasLexed == calls = <<LexCall>> /\ ret # NoTok

PeekedInv ==
  /\ PeekAheadInv
  /\ peeked.t # NoTok => IF HasLexed THEN peeked.n = 0 => ret = peeked.t
                                     ELSE InCache(peeked.n, peeked.t)

LEMMA PeekTypes ==
  ASSUME IInv
  PROVE  /\ cachedTokens \in Seq(Token) /\ Len(cachedTokens) \in Nat /\ cachedLexPos \in Nat
         /\ cachedLexPos <= Len(cachedTokens) /\ peeked.n \in Nat /\ ret \in Token \cup {NoTok}
         /\ NoTok \notin Token
BY TokensAssumption DEF IInv, TypeOK, PositionsInCache, Token

(* Nothing is known of the token ahead after a call that changes it.        *)
LEMMA NothingPeeked ==
  ASSUME peeked' = NoPeek, ~Peeking'
  PROVE  PeekedInv'
BY DEF NoPeek, PeekedInv, PeekAheadInv

LEMMA PeekedKept ==
  ASSUME PeekedInv, UNCHANGED <<cachedTokens, cachedLexPos, peeked>>,
         ~Peeking, ~Peeking', ~HasLexed, ~HasLexed'
  PROVE  PeekedInv'
BY DEF PeekedInv, PeekAheadInv, InCache

(* While a lexer runs for a call that is not PeekAhead, nothing is known:   *)
(* a token that is known would have been read from the cache.               *)
LEMMA LexerActionsPeeked ==
  ASSUME IInv, PeekedInv,
         \/ LexToken \/ SkipEmptyMacro \/ ExpandTrivialMacro \/ EnterMacro
         \/ EnterSourceFile \/ HandleEndOfFile \/ HandleEndOfTokenLexer
  PROVE  PeekedInv'
<1>1. /\ UNCHANGED <<calls, cachedTokens, cachedLexPos, peeked>>
      /\ ret = NoTok /\ calls # <<>> /\ cur.kind # "none"
  BY DEF cache, client, LexToken, SkipEmptyMacro, ExpandTrivialMacro, EnterMacro,
         EnterSourceFile, HandleEndOfFile, HandleEndOfTokenLexer, AtItem, AtEnd, Running
<1>2. Peeking' = Peeking /\ ~HasLexed
  BY <1>1 DEF Peeking, HasLexed
<1>3. CASE Peeking
  <2>1. ~HasLexed'
    BY <1>1, <1>3, CallFacts DEF Peeking, HasLexed
  <2> QED BY <1>1, <1>2, <1>3, <2>1 DEF PeekedInv, PeekAheadInv, InCache
<1>4. CASE ~Peeking
  <2>1. peeked.t = NoTok
    <3>1. CASE calls = <<LexCall>> /\ AtRest
      <4>1. ~InCachingLexMode
        BY <1>1 DEF InCachingLexMode
      <4>2. cachedTokens = <<>>
        BY <3>1, <4>1 DEF AtRest
      <4>3. Len(cachedTokens) = 0
        BY <4>2
      <4> QED BY <1>2, <4>3, PeekTypes DEF PeekedInv, InCache
    <3>2. CASE cachedLexPos = Len(cachedTokens)
      BY <1>2, <3>2, PeekTypes DEF PeekedInv, InCache
    <3> QED BY <1>1, <1>4, <3>1, <3>2 DEF IInv, CallShape, Peeking
  <2> QED BY <1>1, <1>2, <1>4, <2>1 DEF PeekedInv, PeekAheadInv
<1> QED BY <1>3, <1>4

LEMMA CacheActionsPeeked ==
  ASSUME IInv, PeekedInv,
         CachingLex \/ CachingLexReturn \/ PeekAheadReturn \/ LexReturn
  PROVE  PeekedInv'
<1>1. CASE CachingLex
  <2>1. calls = <<LexCall>> /\ ~Peeking /\ ret = NoTok /\ ~HasLexed
    BY <1>1, CallFacts DEF IInv, CallShape, CachingLex, Running, Peeking, HasLexed
  <2>2. UNCHANGED <<cachedTokens, peeked>>
    BY <1>1 DEF CachingLex, client
  <2>3. CASE cachedLexPos < Len(cachedTokens)
    <3>1. ret' = cachedTokens[cachedLexPos + 1] /\ calls' = calls
      BY <1>1, <2>3 DEF CachingLex
    <3>2. ret' \in Token
      BY <2>3, <3>1, PeekTypes
    <3>3. HasLexed' /\ ~Peeking'
      BY <2>1, <3>1, <3>2, PeekTypes DEF HasLexed, Peeking
    <3>4. peeked.t # NoTok /\ peeked.n = 0 => cachedTokens[cachedLexPos + 1] = peeked.t
      BY <2>1, PeekTypes DEF PeekedInv, InCache
    <3> QED BY <2>2, <3>1, <3>3, <3>4 DEF PeekedInv, PeekAheadInv
  <2>4. CASE ~(cachedLexPos < Len(cachedTokens))
    <3>1. calls' = <<LexCall, CachingLexCall>>
      BY <1>1, <2>1, <2>4, CallFacts DEF CachingLex
    <3>2. ~Peeking'
      BY <3>1, CallFacts DEF Peeking
    <3>3. peeked.t = NoTok
      BY <2>1, <2>4, PeekTypes DEF PeekedInv, InCache
    <3> QED BY <2>2, <3>2, <3>3 DEF PeekedInv, PeekAheadInv
  <2> QED BY <2>3, <2>4
<1>2. CASE CachingLexReturn
  <2>1. /\ calls = <<LexCall, CachingLexCall>> /\ calls' = <<LexCall>> /\ ret # NoTok /\ ret' = ret
        /\ cachedLexPos = Len(cachedTokens) /\ peeked' = peeked
    BY <1>2, CallFacts, OneCall DEF IInv, CallShape, CachingLexReturn, Returning, client
  <2>2. ~HasLexed /\ ~Peeking'
    BY <2>1, CallFacts DEF HasLexed, Peeking
  <2>3. peeked.t = NoTok
    BY <2>1, <2>2, PeekTypes DEF PeekedInv, InCache
  <2> QED BY <2>1, <2>2, <2>3 DEF PeekedInv, PeekAheadInv
<1>3. CASE PeekAheadReturn
  <2>1. /\ Len(calls) = 1 /\ calls[1] \in Call /\ Last(calls) = calls[1] /\ Front(calls) = <<>>
        /\ calls[1].fn = "PeekAhead" /\ cachedTokens # <<>> /\ ret \in Token
    BY <1>3, CallFacts, OneCall DEF IInv, TypeOK, CallShape, PeekAheadReturn, Returning
  <2>2. Peeking /\ ~HasLexed
    BY <2>1, CallFacts DEF Peeking, HasLexed
  <2>3. PICK n \in Nat \ {0} : n = Len(cachedTokens)
    BY <2>1, PeekTypes
  <2>4. PICK filled : filled = [cachedTokens EXCEPT ![n] = ret]
    OBVIOUS
  <2>5. filled \in Seq(Token) /\ Len(filled) = n
    <3>1. n \in 1..Len(cachedTokens)
      BY <2>3
    <3> QED BY <2>1, <2>3, <2>4, <3>1, PeekTypes, ExceptSeq
  <2>6. /\ filled[n] = ret
        /\ \A i \in 1..n : i # n => filled[i] = cachedTokens[i]
    BY <2>3, <2>4, PeekTypes
  <2>7. ret' = NoTok /\ cachedLexPos' = cachedLexPos
    BY <1>3 DEF PeekAheadReturn
  <2>8. ~HasLexed'
    BY <2>7 DEF HasLexed
  <2>9. PICK p \in Nat, c \in Nat \ {0}, m \in Nat :
          /\ p = cachedLexPos /\ c = calls[1].c /\ m = calls[1].n
          /\ p + m + 2 = n + c
    <3>1. calls[1].c \in Nat /\ calls[1].n \in Nat /\ cachedLexPos \in Nat
      BY <2>1, PeekTypes DEF Call
    <3>2. calls[1].c >= 1 /\ cachedLexPos + calls[1].n + 2 = n + calls[1].c
      BY <2>2, <2>3 DEF PeekedInv, PeekAheadInv
    <3>3. calls[1].c \in Nat \ {0}
      BY <3>1, <3>2
    <3> QED BY <3>1, <3>2, <3>3
  <2>10. CASE calls[1].c > 1
    <3> DEFINE next == [calls[1] EXCEPT !.c = @ - 1]
    <3>1. /\ cachedTokens' = Append(filled, Unknown)
          /\ calls' = Append(<<>>, next) /\ peeked' = peeked
      BY <1>3, <2>1, <2>3, <2>4, <2>10 DEF PeekAheadReturn
    <3>2. next \in Call /\ next.fn = "PeekAhead" /\ next.c = c - 1 /\ next.n = m
      BY <2>1, <2>9, <2>10 DEF Call
    <3> HIDE DEF next
    <3>3. Peeking' /\ calls'[1] = next
      BY <3>1, <3>2 DEF Peeking
    <3>4. /\ Len(cachedTokens') = n + 1
          /\ \A i \in 1..n : cachedTokens'[i] = filled[i]
      <4>1. Unknown \in Token
        BY DEF Token
      <4> QED BY <2>5, <3>1, <4>1, AppendLast
    <3>5. PeekAheadInv'
      <4>1. /\ cachedLexPos' = p /\ calls'[1].n = m /\ calls'[1].c = c - 1
            /\ Len(cachedTokens') = n + 1
        BY <2>7, <2>9, <3>2, <3>3, <3>4
      <4>2. c - 1 >= 1 /\ p + m + 2 = (n + 1) + (c - 1)
        BY <2>9, <2>10
      <4> QED BY <4>1, <4>2 DEF PeekAheadInv
    <3>6. ASSUME peeked.t # NoTok PROVE InCache(peeked.n, peeked.t)'
      <4>1. PICK k \in Nat : k = peeked.n
        BY PeekTypes
      <4>2. /\ p + k + 1 < n
            /\ cachedTokens[p + k + 1] = peeked.t
        BY <2>2, <2>3, <2>9, <3>6, <4>1 DEF PeekedInv, InCache
      <4>3. p + k + 1 \in 1..n /\ p + k + 1 # n
        BY <4>2
      <4>4. cachedTokens'[p + k + 1] = peeked.t
        BY <2>6, <3>4, <4>2, <4>3
      <4>5. p + k + 1 < Len(cachedTokens') /\ p + k < Len(cachedTokens')
        BY <3>4, <4>2
      <4> QED BY <2>7, <2>9, <3>1, <4>1, <4>4, <4>5 DEF InCache
    <3> QED BY <2>8, <3>1, <3>5, <3>6 DEF PeekedInv
  <2>11. CASE ~(calls[1].c > 1)
    <3>1. /\ cachedTokens' = filled /\ calls' = <<>>
          /\ peeked' = [n |-> m, t |-> ret]
      BY <1>3, <2>1, <2>3, <2>4, <2>9, <2>11 DEF PeekAheadReturn
    <3>2. ~Peeking'
      BY <3>1 DEF Peeking
    <3>3. p + m + 1 = n
      BY <2>9, <2>11
    <3>4. p + m < n /\ filled[p + m + 1] = ret
      BY <2>6, <3>3
    <3>5. peeked'.n = m /\ peeked'.t = ret
      BY <3>1
    <3>6. InCache(peeked.n, peeked.t)'
      <4>1. cachedLexPos' = p /\ cachedTokens' = filled /\ Len(filled) = n
        BY <2>5, <2>7, <2>9, <3>1
      <4>2. cachedLexPos' + m < Len(cachedTokens')
        BY <3>4, <4>1
      <4>3. cachedTokens'[cachedLexPos' + m + 1] = ret
        BY <3>4, <4>1
      <4> QED BY <3>2, <3>5, <4>2, <4>3 DEF InCache
    <3>7. PeekAheadInv'
      BY <3>2 DEF PeekAheadInv
    <3> QED BY <2>8, <3>6, <3>7 DEF PeekedInv
  <2> QED BY <2>10, <2>11
<1>4. CASE LexReturn
  <2>1. calls' = <<>> /\ peeked' = NoPeek
    BY <1>4, CallFacts, OneCall DEF IInv, CallShape, LexReturn, Returning
  <2> QED BY <2>1, NothingPeeked DEF Peeking
<1> QED BY <1>1, <1>2, <1>3, <1>4

LEMMA ClientPeeked == ASSUME IInv, PeekedInv, ClientCall PROVE PeekedInv'
<1>1. /\ calls = <<>> /\ ret = NoTok /\ ret' = ret /\ ~Peeking /\ ~HasLexed /\ ~HasLexed'
  <2>1. Idle /\ ret' = ret
    BY DEF ClientCall, Lex, LookAhead, EnableBacktrackAtThisPos, CommitBacktrackedTokens, Backtrack,
           RevertCachedTokens, EnterToken, EnterTokenStream, AnnotateCachedTokens, TypoCorrectToken
  <2> QED BY <2>1, IdleFacts DEF Peeking, HasLexed
<1>2. ASSUME calls' = calls \/ calls' = <<LexCall>> PROVE ~Peeking'
  BY <1>1, <1>2, CallFacts DEF Peeking
<1>3. CASE Lex \/ EnableBacktrackAtThisPos \/ CommitBacktrackedTokens
  BY <1>1, <1>2, <1>3, PeekedKept
  DEF Lex, EnableBacktrackAtThisPos, CommitBacktrackedTokens, cache, client
<1>4. ASSUME NEW n \in 0..MaxLookAhead, LookAhead(n) PROVE PeekedInv'
  <2>1. n \in Nat /\ cachedLexPos' = cachedLexPos
    BY <1>4 DEF LookAhead
  <2>2. CASE cachedLexPos + n < Len(cachedTokens)
    <3>1. /\ peeked' = [n |-> n, t |-> cachedTokens[cachedLexPos + n + 1]]
          /\ cachedTokens' = cachedTokens /\ calls' = calls
      BY <1>4, <2>2 DEF LookAhead
    <3> QED BY <1>1, <1>2, <2>1, <2>2, <3>1 DEF PeekedInv, PeekAheadInv, InCache
  <2>3. CASE ~(cachedLexPos + n < Len(cachedTokens))
    <3>0. PICK p \in Nat, l \in Nat : p = cachedLexPos /\ l = Len(cachedTokens) /\ p + n >= l
      BY <2>1, <2>3, PeekTypes
    <3>1. PICK call : call = [fn |-> "PeekAhead", n |-> n, c |-> p + n + 1 - l]
      OBVIOUS
    <3>2. /\ cachedTokens' = Append(cachedTokens, Unknown)
          /\ calls' = <<call>> /\ peeked' = peeked
      BY <1>4, <2>3, <3>0, <3>1 DEF LookAhead
    <3>3. call.fn = "PeekAhead" /\ call.n = n /\ call.c = p + n + 1 - l
      BY <3>1
    <3>4. Peeking' /\ calls'[1] = call
      BY <3>2, <3>3 DEF Peeking
    <3>5. /\ Len(cachedTokens') = l + 1
          /\ \A i \in 1..l : cachedTokens'[i] = cachedTokens[i]
      <4>1. Unknown \in Token /\ cachedTokens \in Seq(Token)
        BY PeekTypes DEF Token
      <4> QED BY <3>0, <3>2, <4>1, AppendLast
    <3>6. PeekAheadInv'
      BY <2>1, <3>0, <3>3, <3>4, <3>5 DEF PeekAheadInv
    <3>7. ASSUME peeked.t # NoTok PROVE InCache(peeked.n, peeked.t)'
      <4>1. PICK k \in Nat : k = peeked.n
        BY PeekTypes
      <4>2. p + k < l /\ cachedTokens[p + k + 1] = peeked.t
        BY <1>1, <3>0, <3>7, <4>1 DEF PeekedInv, InCache
      <4>3. p + k + 1 \in 1..l
        BY <4>2
      <4> QED BY <2>1, <3>0, <3>2, <3>5, <4>1, <4>2, <4>3 DEF InCache
    <3> QED BY <1>1, <3>2, <3>6, <3>7 DEF PeekedInv
  <2> QED BY <2>2, <2>3
<1>5. CASE Backtrack
  BY <1>2, <1>5, NothingPeeked DEF Backtrack
<1>6. ASSUME NEW n \in 1..MaxCached, NEW t \in {tok} \cup Synthesized, RevertCachedTokens(n, t)
      PROVE  PeekedInv'
  BY <1>2, <1>6, NothingPeeked DEF RevertCachedTokens
<1>7. ASSUME NEW e \in {tok} \cup Synthesized, NEW t \in Synthesized, EnterToken(e, t)
      PROVE  PeekedInv'
  BY <1>2, <1>7, NothingPeeked DEF EnterToken
<1>8. ASSUME NEW s \in Streams, EnterTokenStream(s) PROVE PeekedInv'
  BY <1>2, <1>8, NothingPeeked DEF EnterTokenStream
<1>9. ASSUME NEW k \in 1..MaxCached, NEW t \in Synthesized, AnnotateCachedTokens(k, t)
      PROVE  PeekedInv'
  <2>1. t \in Token /\ k \in Nat
    BY BoundsAssumption DEF Token
  <2>2. /\ Len(cachedTokens') = Len(cachedTokens) - k + 1
        /\ cachedLexPos' = cachedLexPos - k + 1
        /\ \A i \in cachedLexPos + 1..Len(cachedTokens) : cachedTokens'[i - k + 1] = cachedTokens[i]
    BY <1>9, <2>1, PeekTypes, AnnotatedCache
  <2>3. peeked' = peeked /\ calls' = calls
    BY <1>9 DEF AnnotateCachedTokens
  <2>4. ASSUME peeked.t # NoTok PROVE InCache(peeked.n, peeked.t)'
    <3>1. PICK p \in Nat, l \in Nat, m \in Nat :
            p = cachedLexPos /\ l = Len(cachedTokens) /\ m = peeked.n
      BY PeekTypes
    <3>2. p + m < l /\ cachedTokens[p + m + 1] = peeked.t
      BY <1>1, <2>4, <3>1 DEF PeekedInv, InCache
    <3>3. PICK i \in Int : i = p + m + 1
      OBVIOUS
    <3>4. i \in p + 1..l
      BY <3>2, <3>3
    <3>5. cachedTokens'[i - k + 1] = peeked.t
      BY <2>2, <3>1, <3>2, <3>3, <3>4
    <3>6. cachedLexPos' + m + 1 = i - k + 1 /\ cachedLexPos' + m < Len(cachedTokens')
      BY <2>1, <2>2, <3>1, <3>2, <3>3
    <3> QED BY <1>1, <1>2, <2>3, <3>1, <3>5, <3>6 DEF InCache
  <2> QED BY <1>1, <1>2, <2>3, <2>4 DEF PeekedInv, PeekAheadInv
<1>10. ASSUME NEW t \in Synthesized, TypoCorrectToken(t) PROVE PeekedInv'
  <2>1. /\ UNCHANGED <<cachedLexPos, peeked, calls>>
        /\ Len(cachedTokens') = Len(cachedTokens)
        /\ \A i \in 1..Len(cachedTokens) : i # cachedLexPos => cachedTokens'[i] = cachedTokens[i]
    BY <1>10, PeekTypes DEF TypoCorrectToken
  <2>2. ASSUME peeked.t # NoTok PROVE InCache(peeked.n, peeked.t)'
    <3>1. PICK p \in Nat, l \in Nat, m \in Nat :
            p = cachedLexPos /\ l = Len(cachedTokens) /\ m = peeked.n
      BY PeekTypes
    <3>2. p + m < l /\ cachedTokens[p + m + 1] = peeked.t
      BY <1>1, <2>2, <3>1 DEF PeekedInv, InCache
    <3>3. p + m + 1 \in 1..l /\ p + m + 1 # p
      BY <3>2
    <3> QED BY <1>1, <1>2, <2>1, <3>1, <3>2, <3>3 DEF InCache
  <2> QED BY <1>1, <1>2, <2>1, <2>2 DEF PeekedInv, PeekAheadInv
<1> QED BY <1>3, <1>4, <1>5, <1>6, <1>7, <1>8, <1>9, <1>10 DEF ClientCall

LEMMA PeekedInit == Init => PeekedInv
BY DEF Init, NoPeek, PeekedInv, PeekAheadInv, Peeking

LEMMA PeekedNext == ASSUME IInv, PeekedInv, [Next]_vars PROVE PeekedInv'
<1>1. CASE LexerStep
  BY <1>1, LexerActionsPeeked, CacheActionsPeeked DEF LexerStep
<1>2. CASE UNCHANGED vars
  BY <1>2 DEF vars, lexers, cache, client, PeekedInv, PeekAheadInv, InCache, Peeking, HasLexed
<1> QED BY <1>1, <1>2, ClientPeeked DEF Next

(* The step in which a call of Lex returns.                                 *)
LEMMA LexedIsPeeked ==
  ASSUME IInv, PeekedInv, [Next]_vars,
         tok' # tok, peeked.t # NoTok, peeked.n = 0, Returning("Lex")
  PROVE  tok' = peeked.t
<1>1. calls # <<>> /\ ret # NoTok /\ Last(calls).fn = "Lex"
  BY DEF Returning
<1>2. HasLexed
  BY <1>1, CallFacts, OneCall DEF IInv, CallShape, HasLexed
<1>3. ret = peeked.t
  BY <1>2 DEF PeekedInv
<1>4. LexReturn
  <2>1. ~Idle /\ ~Running /\ ~Returning("CachingLex") /\ ~Returning("PeekAhead")
    BY <1>1 DEF Idle, Running, Returning
  <2>2. ~ClientCall
    BY <2>1 DEF ClientCall, Lex, LookAhead, EnableBacktrackAtThisPos, CommitBacktrackedTokens,
       Backtrack, RevertCachedTokens, EnterToken, EnterTokenStream, AnnotateCachedTokens,
       TypoCorrectToken
  <2>3. LexerStep => LexReturn
    BY <2>1 DEF LexerStep, LexToken, SkipEmptyMacro, ExpandTrivialMacro, EnterMacro,
       EnterSourceFile, HandleEndOfFile, HandleEndOfTokenLexer, AtItem, AtEnd, CachingLex,
       CachingLexReturn, PeekAheadReturn
  <2> QED BY <2>2, <2>3 DEF Next, vars, client
<1> QED BY <1>3, <1>4 DEF LexReturn

(* What LookAhead(0) has answered is what the next call of Lex returns,     *)
(* whatever annotations, corrections, marks and further lookahead come in   *)
(* between.                                                                 *)
THEOREM LookAheadKeepsItsWord == ASSUME ~NestedStreams PROVE Spec => LookAheadIsNextToken
<1>1. Init => PeekedInv
  BY PeekedInit
<1>2. IInv /\ PeekedInv /\ [Next]_vars => PeekedInv'
  BY PeekedNext
<1>3. IInv /\ PeekedInv /\ [Next]_vars
        => [tok' # tok /\ peeked.t # NoTok /\ peeked.n = 0 /\ Returning("Lex")
              => tok' = peeked.t]_vars
  BY LexedIsPeeked
<1> QED BY <1>1, <1>2, <1>3, Invariance, PTL DEF Spec, LookAheadIsNextToken

-----------------------------------------------------------------------------
(* The end of the file.  Once the primary file has ended, the eof token is  *)
(* the parser's, or it is still to come: in the cache, in a lexer that      *)
(* holds a stream which the parser re-enters, or in the hand of a call.     *)
Has(s) == \E i \in 1 .. Len(s) : s[i] = Eof

EofInLexers ==
  Has(cur.toks) \/ \E i \in 1 .. Len(includeMacroStack) : Has(includeMacroStack[i].toks)

EofInHand == ret = Eof /\ calls # <<LexCall>>

EofElsewhere == EofInLexers \/ EofInHand

EofAt(c, p) == \E j \in 1 .. Len(c) : j > p /\ c[j] = Eof

(* What the parser would read after a mark, or after it has taken back its  *)
(* last token.                                                              *)
MarksSee(c, b, t) == \A i \in 1 .. Len(b) : t[i] = Eof \/ EofAt(c, b[i])
LastSees(c, b, p) == b # <<>> /\ p > b[1] => EofAt(c, p - 1)

Ended ==
  IF includeMacroStack = <<>> THEN cur.kind = "none" ELSE includeMacroStack[1].kind = "none"

(* Where PeekAhead runs, all that is cached has been looked at.             *)
EofAhead ==
  IF Peeking THEN EofInLexers ELSE EofElsewhere \/ EofAt(cachedTokens, cachedLexPos)

EofToCome ==
  /\ calls = <<>> => tok = Eof \/ EofAhead
  /\ calls # <<>> => ret = Eof \/ EofAhead
  /\ \/ EofElsewhere
     \/ /\ MarksSee(cachedTokens, backtrackPositions, prevToks)
        /\ LastSees(cachedTokens, backtrackPositions, cachedLexPos)

(* A lexer that has ended holds nothing.                                    *)
EndedAreEmpty ==
  /\ cur.kind = "none" => cur.toks = <<>>
  /\ \A i \in 1 .. Len(includeMacroStack) :
       includeMacroStack[i].kind = "none" => includeMacroStack[i].toks = <<>>

EofInv ==
  /\ EndedAreEmpty
  /\ Peeking => calls[1].c = 1
  /\ Ended => EofToCome

(* What pushing and popping lexers does to the end.                         *)
SameEnd == Ended' = Ended /\ EofInLexers' = EofInLexers /\ EndedAreEmpty'

LEMMA PopEnd ==
  ASSUME StackOK, EndedAreEmpty, includeMacroStack # <<>>, PopIncludeMacroStack, cur.toks = <<>>
  PROVE  SameEnd
<1>1. PICK n \in Nat \ {0} :
        /\ n = Len(includeMacroStack) /\ cur' = includeMacroStack[n]
        /\ Len(includeMacroStack') = n - 1
        /\ \A i \in 1 .. n - 1 : includeMacroStack'[i] = includeMacroStack[i]
        /\ includeMacroStack' \in Seq(LexerState)
  BY LastFront DEF StackOK, PopIncludeMacroStack
<1>2. EndedAreEmpty'
  BY <1>1 DEF EndedAreEmpty
<1>3. ~Has(cur.toks)
  BY DEF Has
<1>4. EofInLexers' <=> EofInLexers
  <2>1. \A i \in 1 .. n : i = n \/ i \in 1 .. n - 1
    BY <1>1
  <2>2. n \in 1 .. n /\ \A i \in 1 .. n - 1 : i \in 1 .. n
    BY <1>1
  <2> QED BY <1>1, <1>3, <2>1, <2>2 DEF EofInLexers
<1>5. Ended' <=> Ended
  <2>1. CASE n = 1
    <3>1. includeMacroStack' = <<>>
      BY <1>1, <2>1
    <3> QED BY <1>1, <2>1, <3>1 DEF Ended
  <2>2. CASE n # 1
    <3>1. includeMacroStack' # <<>> /\ 1 \in 1 .. n - 1
      BY <1>1, <2>2
    <3> QED BY <1>1, <3>1 DEF Ended
  <2> QED BY <2>1, <2>2
<1>6. Ended \in BOOLEAN /\ EofInLexers \in BOOLEAN /\ Ended' \in BOOLEAN /\ EofInLexers' \in BOOLEAN
  BY DEF Ended, EofInLexers
<1> QED BY <1>2, <1>4, <1>5, <1>6 DEF SameEnd

LEMMA PushEnd ==
  ASSUME StackOK, EndedAreEmpty, NEW l \in LexerState, l.kind = cur.kind, l.kind = "none" => l.toks = <<>>,
         includeMacroStack' = Append(includeMacroStack, l),
         cur'.kind = "none" => cur'.toks = <<>>
  PROVE  /\ Ended' = Ended /\ EndedAreEmpty'
         /\ (Has(cur.toks) => Has(l.toks)) => (EofInLexers => EofInLexers')
         /\ (Has(cur.toks) <=> Has(l.toks)) /\ ~Has(cur'.toks) => EofInLexers' = EofInLexers
         /\ Has(cur'.toks) => EofInLexers'
<1>1. PICK n \in Nat :
        /\ n = Len(includeMacroStack)
        /\ includeMacroStack' \in Seq(LexerState) /\ includeMacroStack' # <<>>
        /\ Len(includeMacroStack') = n + 1
        /\ \A i \in 1 .. n : includeMacroStack'[i] = includeMacroStack[i]
        /\ includeMacroStack'[n + 1] = l
  BY AppendLast DEF StackOK
<1>2. \A i \in 1 .. n + 1 : i = n + 1 \/ i \in 1 .. n
  BY <1>1
<1>3. n + 1 \in 1 .. n + 1 /\ \A i \in 1 .. n : i \in 1 .. n + 1
  BY <1>1
<1>4. EndedAreEmpty'
  BY <1>1, <1>2 DEF EndedAreEmpty
<1>5. Ended' <=> Ended
  <2>1. CASE n = 0
    <3>1. includeMacroStack = <<>>
      BY <1>1, <2>1 DEF StackOK
    <3> QED BY <1>1, <2>1, <3>1 DEF Ended
  <2>2. CASE n # 0
    <3>1. includeMacroStack # <<>> /\ 1 \in 1 .. n
      BY <1>1, <2>2
    <3> QED BY <1>1, <3>1 DEF Ended
  <2> QED BY <2>1, <2>2
<1>6. EofInLexers' <=> \/ Has(cur'.toks) \/ Has(l.toks)
                       \/ \E i \in 1 .. n : Has(includeMacroStack[i].toks)
  BY <1>1, <1>2, <1>3 DEF EofInLexers
<1>7. EofInLexers <=> Has(cur.toks) \/ \E i \in 1 .. n : Has(includeMacroStack[i].toks)
  BY <1>1 DEF EofInLexers
<1>8. Ended \in BOOLEAN /\ EofInLexers \in BOOLEAN /\ Ended' \in BOOLEAN /\ EofInLexers' \in BOOLEAN
  BY DEF Ended, EofInLexers
<1> QED BY <1>4, <1>5, <1>6, <1>7, <1>8

LEMMA EnterEnd ==
  ASSUME StackOK, EndedAreEmpty, EnterCachingLexMode
  PROVE  SameEnd
<1>1. CASE InCachingLexMode
  BY <1>1 DEF EnterCachingLexMode, SameEnd, Ended, EofInLexers, EndedAreEmpty
<1>2. CASE ~InCachingLexMode
  <2>1. /\ includeMacroStack' = Append(includeMacroStack, cur) /\ cur' = CachingLexer
        /\ cur'.kind = "none" /\ cur'.toks = <<>>
    BY <1>2 DEF EnterCachingLexMode, PushIncludeMacroStack, CachingLexer
  <2>2. ~Has(cur'.toks)
    BY <2>1 DEF Has
  <2> QED BY <2>1, <2>2, PushEnd DEF StackOK, EndedAreEmpty, SameEnd
<1> QED BY <1>1, <1>2

LEMMA ExitEnd ==
  ASSUME StackOK, EndedAreEmpty, ExitCachingLexMode
  PROVE  SameEnd
<1>1. CASE InCachingLexMode
  BY <1>1, PopEnd DEF ExitCachingLexMode, InCachingLexMode, EndedAreEmpty
<1>2. CASE ~InCachingLexMode
  BY <1>2 DEF ExitCachingLexMode, SameEnd, Ended, EofInLexers, EndedAreEmpty
<1> QED BY <1>1, <1>2

(* The steps of the lexers.                                                 *)
LEMMA LexersKeepEof ==
  ASSUME IInv, EofInv, Running, cur.clk # "CachingLexer",
         UNCHANGED <<cache, calls, client>>, EndedAreEmpty',
         Ended' => ret' = Eof \/ (Ended /\ (EofInLexers => EofInLexers'))
  PROVE  EofInv'
<1>1. UNCHANGED <<cachedTokens, cachedLexPos, backtrackPositions, calls, tok, prevToks>>
  BY DEF cache, client
<1>2. calls # <<>> /\ ret = NoTok /\ ~EofInHand /\ (Peeking' <=> Peeking)
  BY <1>1, TokensAssumption DEF Running, EofInHand, Peeking
<1>3. ASSUME Ended' PROVE EofToCome'
  <2>2. ASSUME Ended, EofInLexers => EofInLexers', ret' # Eof
        PROVE  EofToCome'
    <3>1. EofToCome /\ EofAhead
      BY <1>2, <2>2, TokensAssumption DEF EofInv, EofToCome
    <3>2. EofElsewhere => EofElsewhere'
      BY <1>2, <2>2 DEF EofElsewhere
    <3>3. EofAhead'
      BY <1>1, <1>2, <2>2, <3>1, <3>2 DEF EofAhead
    <3>4. MarksSee(cachedTokens, backtrackPositions, prevToks)
            => MarksSee(cachedTokens, backtrackPositions, prevToks)'
      BY <1>1
    <3>5. LastSees(cachedTokens, backtrackPositions, cachedLexPos)
            => LastSees(cachedTokens, backtrackPositions, cachedLexPos)'
      BY <1>1
    <3> QED BY <1>1, <1>2, <3>1, <3>2, <3>3, <3>4, <3>5 DEF EofToCome
  <2>3. ASSUME ret' = Eof PROVE EofToCome'
    <3>1. \/ calls = <<LexCall>> /\ cachedTokens = <<>> /\ backtrackPositions = <<>>
          \/ EofInHand'
      <4>1. ~InCachingLexMode
        BY DEF IInv, KindAgrees
      <4>2. CASE calls = <<LexCall>>
        <5>1. AtRest
          <6>1. LexCall.fn # "PeekAhead" /\ Len(<<LexCall>>) = 1 /\ <<LexCall>>[1] = LexCall
            BY CallFacts
          <6>2. <<LexCall>> # <<LexCall, CachingLexCall>>
            OBVIOUS
          <6> QED BY <1>2, <4>2, <6>1, <6>2 DEF IInv, CallShape
        <5> QED BY <4>1, <4>2, <5>1 DEF AtRest
      <4>3. CASE calls # <<LexCall>>
        BY <1>1, <2>3, <4>3 DEF EofInHand
      <4> QED BY <4>2, <4>3
    <3>2. CASE backtrackPositions = <<>>
      BY <1>1, <1>2, <2>3, <3>2 DEF EofToCome, MarksSee, LastSees
    <3>3. CASE EofInHand'
      BY <1>1, <1>2, <2>3, <3>3 DEF EofToCome, EofElsewhere
    <3> QED BY <3>1, <3>2, <3>3
  <2> QED BY <1>3, <2>2, <2>3
<1> QED BY <1>1, <1>2, <1>3 DEF EofInv

LEMMA LexerActionsEof ==
  ASSUME IInv, EofInv,
         \/ LexToken \/ SkipEmptyMacro \/ ExpandTrivialMacro \/ EnterMacro
         \/ EnterSourceFile \/ HandleEndOfFile \/ HandleEndOfTokenLexer
  PROVE  EofInv'
<1>1. StackOK /\ KindAgrees /\ EndedAreEmpty
  BY DEF IInv, TypeOK, StackOK, EofInv
<1>2. UNCHANGED <<cache, calls, client>> /\ Running
  BY DEF LexToken, SkipEmptyMacro, ExpandTrivialMacro, EnterMacro, EnterSourceFile,
         HandleEndOfFile, HandleEndOfTokenLexer, AtItem, AtEnd
<1>3. cur.kind # "none" => cur.clk # "CachingLexer"
  BY <1>1 DEF KindAgrees, InCachingLexMode
<1>4. ASSUME cur.kind # "none", cur.toks # <<>>
      PROVE  /\ Advanced \in LexerState /\ Advanced.clk = cur.clk /\ Advanced.kind = cur.kind
             /\ Has(cur.toks) => Head(cur.toks) = Eof \/ Has(Advanced.toks)
             /\ Has(Advanced.toks) => Has(cur.toks)
  <2>1. cur.toks \in Seq(Token \cup Item) /\ cur \in LexerState
    BY <1>1 DEF StackOK, LexerState
  <2>2. PICK t \in Seq(Token \cup Item) : t = cur.toks
    BY <2>1
  <2>3. /\ Tail(t) \in Seq(Token \cup Item) /\ Head(t) = t[1] /\ Len(t) \in Nat \ {0}
        /\ Len(Tail(t)) = Len(t) - 1 /\ \A i \in 1 .. Len(t) - 1 : Tail(t)[i] = t[i + 1]
    BY <1>4, <2>2, HeadTailProperties
  <2>4. Advanced \in LexerState /\ Advanced.clk = cur.clk /\ Advanced.kind = cur.kind
        /\ Advanced.toks = Tail(t)
    BY <2>1, <2>2, <2>3 DEF Advanced, LexerState
  <2>5. \A i \in 1 .. Len(t) : i = 1 \/ (i - 1 \in 1 .. Len(t) - 1 /\ Tail(t)[i - 1] = t[i])
    <3> SUFFICES ASSUME NEW i \in 1 .. Len(t), i # 1
                 PROVE  i - 1 \in 1 .. Len(t) - 1 /\ Tail(t)[i - 1] = t[i]
      OBVIOUS
    <3>1. i - 1 \in 1 .. Len(t) - 1 /\ (i - 1) + 1 = i
      BY <2>3
    <3> QED BY <2>3, <3>1
  <2>6. \A i \in 1 .. Len(t) - 1 : i + 1 \in 1 .. Len(t)
    BY <2>3
  <2> QED BY <2>2, <2>3, <2>4, <2>5, <2>6 DEF Has
<1>5. \A s \in Seq(Item) : ~Has(s)
  BY TokensAssumption DEF Has, Item
<1>6. CASE LexToken
  <2>1. cur.kind # "none" /\ cur.toks # <<>> /\ ret' = Head(cur.toks) /\ cur' = Advanced
        /\ includeMacroStack' = includeMacroStack
    BY <1>6 DEF LexToken, AtItem
  <2>2. Ended' => ret' = Eof \/ (Ended /\ (EofInLexers => EofInLexers'))
    BY <1>4, <2>1 DEF Ended, EofInLexers
  <2>3. EndedAreEmpty'
    BY <1>1, <1>4, <2>1 DEF EndedAreEmpty
  <2> QED BY <1>2, <1>3, <2>1, <2>2, <2>3, LexersKeepEof
<1>7. ASSUME cur.kind # "none", cur.toks # <<>>, Head(cur.toks) # Eof
      PROVE  Has(cur.toks) <=> Has(Advanced.toks)
  BY <1>4, <1>7
<1>8. CASE SkipEmptyMacro \/ ExpandTrivialMacro
  <2>1. cur.kind # "none" /\ cur.toks # <<>> /\ Head(cur.toks) # Eof /\ cur' = Advanced
        /\ includeMacroStack' = includeMacroStack
    BY <1>8, TokensAssumption DEF SkipEmptyMacro, ExpandTrivialMacro, AtItem
  <2>2. Ended' => Ended /\ (EofInLexers => EofInLexers')
    BY <1>4, <1>7, <2>1 DEF Ended, EofInLexers
  <2>3. EndedAreEmpty'
    BY <1>1, <1>4, <2>1 DEF EndedAreEmpty
  <2> QED BY <1>2, <1>3, <2>1, <2>2, <2>3, LexersKeepEof
<1>9. CASE EnterMacro \/ EnterSourceFile
  <2>1. /\ cur.kind # "none" /\ cur.toks # <<>> /\ Head(cur.toks) # Eof
        /\ includeMacroStack' = Append(includeMacroStack, Advanced)
        /\ cur' = TokenLexer(Body[Head(cur.toks)]) \/ cur' = FileLexer(Body[Head(cur.toks)])
        /\ Head(cur.toks) \in Macros \cup Headers
    BY <1>9, TokensAssumption DEF EnterMacro, EnterSourceFile, AtItem
  <2>2. cur'.kind # "none" /\ ~Has(cur'.toks)
    <3>1. Body[Head(cur.toks)] \in Seq(Item)
      BY <2>1, SourcesAssumption
    <3> QED BY <1>5, <2>1, <3>1 DEF TokenLexer, FileLexer
  <2>3. Ended' = Ended /\ EofInLexers' = EofInLexers /\ EndedAreEmpty'
    BY <1>1, <1>4, <1>7, <2>1, <2>2, PushEnd
  <2> QED BY <1>2, <1>3, <2>1, <2>3, LexersKeepEof
<1>10. CASE HandleEndOfTokenLexer \/ (HandleEndOfFile /\ includeMacroStack # <<>>)
  <2>1. cur.kind # "none" /\ cur.toks = <<>> /\ includeMacroStack # <<>> /\ PopIncludeMacroStack
    BY <1>1, <1>10 DEF HandleEndOfTokenLexer, HandleEndOfFile, AtEnd, KindAgrees
  <2>2. SameEnd
    BY <1>1, <2>1, PopEnd
  <2> QED BY <1>2, <1>3, <2>1, <2>2, LexersKeepEof DEF SameEnd
<1>11. CASE HandleEndOfFile /\ includeMacroStack = <<>>
  <2>1. cur.kind # "none" /\ ret' = Eof /\ cur' = [clk |-> cur.clk, kind |-> "none", toks |-> <<>>]
        /\ includeMacroStack' = <<>>
    BY <1>11 DEF HandleEndOfFile, AtEnd
  <2>2. EndedAreEmpty'
    BY <2>1 DEF EndedAreEmpty
  <2> QED BY <1>2, <1>3, <2>1, <2>2, LexersKeepEof
<1> QED BY <1>6, <1>8, <1>9, <1>10, <1>11

(* The steps of the token cache.                                            *)
LEMMA EofTypes ==
  ASSUME IInv
  PROVE  /\ StackOK /\ KindAgrees
         /\ cachedTokens \in Seq(Token) /\ Len(cachedTokens) \in Nat /\ cachedLexPos \in Nat
         /\ cachedLexPos <= Len(cachedTokens)
         /\ backtrackPositions \in Seq(Nat) /\ prevToks \in Seq(Token)
         /\ Len(backtrackPositions) \in Nat /\ Len(prevToks) = Len(backtrackPositions)
         /\ NoTok # Eof /\ Unknown # Eof
  BY TokensAssumption DEF IInv, TypeOK, StackOK, PositionsInCache

LEMMA EofMarks ==
  ASSUME IInv
  PROVE  /\ \A i \in 1 .. Len(backtrackPositions) :
              backtrackPositions[i] \in Nat /\ backtrackPositions[i] <= cachedLexPos
         /\ \A i, j \in 1 .. Len(backtrackPositions) :
              i <= j => backtrackPositions[i] <= backtrackPositions[j]
         /\ backtrackPositions # <<>> => 1 \in 1 .. Len(backtrackPositions)
<1>1. backtrackPositions \in Seq(Nat) /\ PositionsInCache
  BY DEF IInv, TypeOK
<1>2. DOMAIN backtrackPositions = 1 .. Len(backtrackPositions) /\ Len(backtrackPositions) \in Nat
  BY <1>1
<1>3. \A i \in 1 .. Len(backtrackPositions) : backtrackPositions[i] \in Nat
  BY <1>1
<1>4. backtrackPositions # <<>> => 1 \in 1 .. Len(backtrackPositions)
  BY <1>1
<1> QED BY <1>1, <1>2, <1>3, <1>4 DEF PositionsInCache

(* An eof that is ahead of the parser is seen from every mark.              *)
LEMMA EofAtBefore ==
  ASSUME NEW c, NEW p \in Int, NEW q \in Int, q <= p, Len(c) \in Nat, EofAt(c, p)
  PROVE  EofAt(c, q)
BY DEF EofAt

LEMMA AllSee ==
  ASSUME NEW c, NEW b, NEW t, NEW p \in Nat, Len(c) \in Nat, Len(b) \in Nat,
         \A i \in 1 .. Len(b) : b[i] \in Nat /\ b[i] <= p,
         EofAt(c, p)
  PROVE  MarksSee(c, b, t) /\ LastSees(c, b, p)
<1>1. \A i \in 1 .. Len(b) : EofAt(c, b[i])
  BY EofAtBefore
<1>2. EofAt(c, p - 1)
  BY EofAtBefore
<1> QED BY <1>1, <1>2 DEF MarksSee, LastSees

LEMMA CallIs ==
  ASSUME IInv
  PROVE  /\ calls = <<LexCall>> => ~Peeking
         /\ calls = <<LexCall, CachingLexCall>> => ~Peeking
         /\ calls = <<>> => ~Peeking
         /\ <<LexCall>> # <<LexCall, CachingLexCall>> /\ <<LexCall>> # <<>>
         /\ Peeking => Len(calls) = 1 /\ calls # <<LexCall>> /\ cachedTokens # <<>>
         /\ calls # <<>> /\ ~Peeking => calls = <<LexCall>> \/ calls = <<LexCall, CachingLexCall>>
<1>1. LexCall.fn # "PeekAhead"
  BY CallFacts
<1>2. <<LexCall>>[1] = LexCall /\ <<LexCall, CachingLexCall>>[1] = LexCall
  OBVIOUS
<1>3. <<LexCall>> # <<LexCall, CachingLexCall>> /\ <<LexCall>> # <<>>
  OBVIOUS
<1> QED BY <1>1, <1>2, <1>3 DEF IInv, CallShape, Peeking

LEMMA CachingLexEof == ASSUME IInv, EofInv, CachingLex PROVE EofInv'
<1>1. calls = <<LexCall>> /\ ret = NoTok /\ ~Peeking /\ ~EofInHand /\ EndedAreEmpty
  <2>1. cur.clk = "CachingLexer" /\ calls # <<>> /\ ret = NoTok
    BY DEF CachingLex, Running
  <2>2. calls = <<LexCall>>
    BY <2>1 DEF IInv, CallShape
  <2> QED BY <2>1, <2>2, CallIs DEF EofInHand, EofInv
<1>2. UNCHANGED <<cachedTokens, backtrackPositions, tok, prevToks>>
  BY DEF CachingLex, client
<1>3. /\ cachedLexPos \in Nat /\ Len(cachedTokens) \in Nat /\ Len(backtrackPositions) \in Nat
      /\ NoTok # Eof /\ StackOK /\ cachedLexPos <= Len(cachedTokens)
  BY EofTypes
<1>m. \A i \in 1 .. Len(backtrackPositions) :
        backtrackPositions[i] \in Nat /\ backtrackPositions[i] <= cachedLexPos
  BY EofMarks
<1>4. ASSUME Ended PROVE EofInLexers \/ EofAt(cachedTokens, cachedLexPos)
  BY <1>1, <1>3, <1>4 DEF EofInv, EofToCome, EofAhead, EofElsewhere
<1>5. CASE cachedLexPos < Len(cachedTokens)
  <2>1. /\ ret' = cachedTokens[cachedLexPos + 1] /\ cachedLexPos' = cachedLexPos + 1
        /\ UNCHANGED <<cur, includeMacroStack, calls>>
    BY <1>5 DEF CachingLex
  <2>2. Ended' = Ended /\ EofInLexers' = EofInLexers /\ EndedAreEmpty' /\ ~EofInHand' /\ ~Peeking'
        /\ calls' # <<>>
    BY <1>1, <2>1 DEF Ended, EofInLexers, EndedAreEmpty, EofInHand, Peeking
  <2>3. EofAt(cachedTokens, cachedLexPos) => ret' = Eof \/ EofAt(cachedTokens, cachedLexPos + 1)
    BY <1>3, <2>1 DEF EofAt
  <2>4. EofAt(cachedTokens, cachedLexPos)
          => MarksSee(cachedTokens, backtrackPositions, prevToks)
             /\ EofAt(cachedTokens, (cachedLexPos + 1) - 1)
    <3>1. (cachedLexPos + 1) - 1 = cachedLexPos
      BY <1>3
    <3> QED BY <1>3, <1>m, <3>1, AllSee
  <2>5. ASSUME Ended PROVE EofToCome'
    BY <1>2, <1>4, <2>1, <2>2, <2>3, <2>4, <2>5 DEF EofToCome, EofAhead, EofElsewhere, LastSees
  <2> QED BY <2>2, <2>5 DEF EofInv
<1>6. CASE ~(cachedLexPos < Len(cachedTokens))
  <2>1. /\ ExitCachingLexMode /\ calls' = <<LexCall, CachingLexCall>>
        /\ ret' = NoTok /\ cachedLexPos' = cachedLexPos
    BY <1>1, <1>6, CallFacts DEF CachingLex
  <2>2. SameEnd
    BY <1>1, <1>3, <2>1, ExitEnd
  <2>3. ~EofInHand' /\ ~Peeking' /\ calls' # <<>>
    <3>1. LexCall.fn # "PeekAhead" /\ <<LexCall, CachingLexCall>>[1] = LexCall
          /\ <<LexCall, CachingLexCall>> # <<>>
      BY CallFacts
    <3> QED BY <1>3, <2>1, <3>1 DEF EofInHand, Peeking
  <2>4. ASSUME Ended PROVE EofInLexers
    BY <1>3, <1>4, <1>6, <2>4 DEF EofAt
  <2>5. ASSUME Ended PROVE EofToCome'
    BY <2>2, <2>3, <2>4, <2>5 DEF EofToCome, EofAhead, EofElsewhere, SameEnd
  <2> QED BY <2>2, <2>3, <2>5 DEF EofInv, SameEnd
<1> QED BY <1>5, <1>6

LEMMA CachingLexReturnEof == ASSUME IInv, EofInv, CachingLexReturn PROVE EofInv'
<1>1. /\ calls = <<LexCall, CachingLexCall>> /\ calls' = <<LexCall>> /\ ~Peeking
      /\ cachedLexPos = Len(cachedTokens) /\ ret # NoTok /\ ret' = ret /\ EndedAreEmpty
      /\ UNCHANGED <<backtrackPositions, tok, prevToks>>
  <2>1. calls # <<>> /\ ret # NoTok /\ Last(calls).fn = "CachingLex"
    BY DEF CachingLexReturn, Returning
  <2>2. calls = <<LexCall, CachingLexCall>> /\ cachedLexPos = Len(cachedTokens)
    BY <2>1, CallFacts, OneCall DEF IInv, CallShape
  <2> QED BY <2>1, <2>2, CallFacts, CallIs DEF CachingLexReturn, client, EofInv
<1>2. ~EofInHand' /\ ~Peeking' /\ calls' # <<>>
  <2>1. LexCall.fn # "PeekAhead" /\ <<LexCall>>[1] = LexCall /\ <<LexCall>> # <<>>
    BY CallFacts
  <2> QED BY <1>1, <2>1 DEF EofInHand, Peeking
<1>3. /\ cachedLexPos \in Nat /\ Len(cachedTokens) \in Nat /\ Len(backtrackPositions) \in Nat
      /\ StackOK /\ cachedTokens \in Seq(Token) /\ backtrackPositions \in Seq(Nat)
  BY EofTypes
<1>m. \A i \in 1 .. Len(backtrackPositions) :
        backtrackPositions[i] \in Nat /\ backtrackPositions[i] <= cachedLexPos
  BY EofMarks
<1>4. ASSUME Ended PROVE ret = Eof \/ EofInLexers
  <2>1. ~EofAt(cachedTokens, cachedLexPos)
    BY <1>1, <1>3 DEF EofAt
  <2> QED BY <1>1, <1>4, <2>1, CallIs DEF EofInv, EofToCome, EofAhead, EofElsewhere, EofInHand
<1>5. CASE isBacktrackEnabled
  <2>1. /\ EnterCachingLexMode /\ cachedTokens' = Append(cachedTokens, ret)
        /\ cachedLexPos' = cachedLexPos + 1
    BY <1>5 DEF CachingLexReturn
  <2>2. SameEnd
    BY <1>1, <1>3, <2>1, EnterEnd
  <2>3. /\ Len(cachedTokens') = Len(cachedTokens) + 1
        /\ cachedTokens'[Len(cachedTokens) + 1] = ret
    <3>1. ret \in Token
      BY <1>1 DEF IInv, TypeOK
    <3> QED BY <1>3, <2>1, <3>1, AppendLast
  <2>4. ASSUME Ended PROVE EofToCome'
    <3>1. CASE EofInLexers
      BY <1>2, <2>2, <3>1 DEF EofToCome, EofAhead, EofElsewhere, SameEnd
    <3>2. CASE ret = Eof
      <4>1. EofAt(cachedTokens', cachedLexPos)
        <5>1. /\ Len(cachedTokens) + 1 \in 1 .. Len(cachedTokens')
              /\ Len(cachedTokens) + 1 > cachedLexPos
          BY <1>1, <1>3, <2>3
        <5> QED BY <2>3, <3>2, <5>1, Zenon DEF EofAt
      <4>2. (cachedLexPos + 1) - 1 = cachedLexPos /\ Len(cachedTokens') \in Nat
        BY <1>3, <2>3
      <4>3. MarksSee(cachedTokens', backtrackPositions, prevToks)
        BY <1>3, <1>m, <4>1, <4>2, AllSee
      <4>4. LastSees(cachedTokens', backtrackPositions, cachedLexPos')
        BY <2>1, <4>1, <4>2 DEF LastSees
      <4> QED BY <1>1, <1>2, <3>2, <4>3, <4>4 DEF EofToCome
    <3> QED BY <1>4, <2>4, <3>1, <3>2
  <2> QED BY <1>2, <2>2, <2>4 DEF EofInv, SameEnd
<1>6. CASE ~isBacktrackEnabled
  <2>1. /\ backtrackPositions = <<>> /\ UNCHANGED <<cur, includeMacroStack>>
    BY <1>1, <1>3, <1>6 DEF CachingLexReturn, isBacktrackEnabled
  <2>2. Ended' = Ended /\ EofInLexers' = EofInLexers /\ EndedAreEmpty'
    BY <1>1, <2>1 DEF Ended, EofInLexers, EndedAreEmpty
  <2>3. MarksSee(cachedTokens', backtrackPositions, prevToks)
        /\ LastSees(cachedTokens', backtrackPositions, cachedLexPos')
    BY <2>1 DEF MarksSee, LastSees
  <2>4. ASSUME Ended PROVE EofToCome'
    BY <1>1, <1>2, <1>4, <2>2, <2>3, <2>4 DEF EofToCome, EofAhead, EofElsewhere
  <2> QED BY <1>2, <2>2, <2>4 DEF EofInv
<1> QED BY <1>5, <1>6

LEMMA PeekAheadReturnEof == ASSUME IInv, PeekedInv, EofInv, PeekAheadReturn PROVE EofInv'
<1>0. /\ cachedLexPos \in Nat /\ Len(cachedTokens) \in Nat /\ Len(backtrackPositions) \in Nat
      /\ StackOK /\ cachedTokens \in Seq(Token)
  BY EofTypes
<1>m. \A i \in 1 .. Len(backtrackPositions) :
        backtrackPositions[i] \in Nat /\ backtrackPositions[i] <= cachedLexPos
  BY EofMarks
<1>1. /\ Peeking /\ Len(calls) = 1 /\ calls[1].c = 1 /\ Last(calls) = calls[1] /\ Front(calls) = <<>>
      /\ ret # NoTok /\ EndedAreEmpty /\ cachedLexPos < Len(cachedTokens)
  <2>1. calls # <<>> /\ ret # NoTok /\ Last(calls).fn = "PeekAhead"
    BY DEF PeekAheadReturn, Returning
  <2>2. Peeking
    BY <2>1, CallFacts, CallIs
  <2>3. Len(calls) = 1 /\ Last(calls) = calls[1] /\ Front(calls) = <<>> /\ calls[1] \in Call
    BY <2>2, CallIs, OneCall
  <2>4. calls[1].c = 1 /\ EndedAreEmpty
    BY <2>2 DEF EofInv
  <2>5. calls[1].n \in Nat
    BY <2>3 DEF Call
  <2>6. cachedLexPos + calls[1].n + 2 = Len(cachedTokens) + 1
    BY <2>2, <2>4 DEF PeekedInv, PeekAheadInv
  <2>7. cachedLexPos < Len(cachedTokens)
    BY <1>0, <2>5, <2>6
  <2> QED BY <2>1, <2>2, <2>3, <2>4, <2>7
<1>2. /\ cachedTokens' = [cachedTokens EXCEPT ![Len(cachedTokens)] = ret]
      /\ EnterCachingLexMode /\ calls' = <<>> /\ ret' = NoTok
      /\ UNCHANGED <<cachedLexPos, backtrackPositions, tok, prevToks>>
  BY <1>1 DEF PeekAheadReturn
<1>3. SameEnd
  BY <1>0, <1>1, <1>2, EnterEnd
<1>4. ~Peeking' /\ Len(cachedTokens') = Len(cachedTokens)
      /\ cachedTokens'[Len(cachedTokens)] = ret
  <2>1. Len(cachedTokens) \in 1 .. Len(cachedTokens) /\ DOMAIN cachedTokens = 1 .. Len(cachedTokens)
    BY <1>0, <1>1
  <2> QED BY <1>0, <1>1, <1>2, <2>1 DEF Peeking
<1>5. ASSUME Ended PROVE EofToCome'
  <2>1. CASE EofInLexers
    BY <1>2, <1>3, <1>4, <2>1 DEF EofToCome, EofAhead, EofElsewhere, SameEnd
  <2>2. CASE ret = Eof
    <3>1. EofAt(cachedTokens', cachedLexPos)
      BY <1>0, <1>1, <1>4, <2>2 DEF EofAt
    <3>2. MarksSee(cachedTokens', backtrackPositions, prevToks)
          /\ LastSees(cachedTokens', backtrackPositions, cachedLexPos)
      BY <1>0, <1>m, <1>4, <3>1, AllSee
    <3> QED BY <1>2, <1>4, <3>1, <3>2 DEF EofToCome, EofAhead
  <2>3. ret = Eof \/ EofInLexers
    BY <1>1, <1>5 DEF EofInv, EofToCome, EofAhead, Peeking
  <2> QED BY <2>1, <2>2, <2>3
<1> QED BY <1>3, <1>4, <1>5 DEF EofInv, SameEnd

LEMMA LexReturnEof == ASSUME IInv, EofInv, LexReturn PROVE EofInv'
<1>1. /\ calls = <<LexCall>> /\ calls' = <<>> /\ ~Peeking /\ ret # NoTok /\ ret' = NoTok /\ tok' = ret
      /\ UNCHANGED <<cur, includeMacroStack, cachedTokens, cachedLexPos, backtrackPositions, prevToks>>
  <2>1. calls # <<>> /\ ret # NoTok /\ Last(calls).fn = "Lex"
    BY DEF LexReturn, Returning
  <2>2. calls = <<LexCall>>
    BY <2>1, CallFacts, OneCall DEF IInv, CallShape
  <2> QED BY <2>1, <2>2, CallFacts, CallIs DEF LexReturn, lexers, cache
<1>2. NoTok # Eof
  BY EofTypes
<1>3. Ended' = Ended /\ EofInLexers' = EofInLexers /\ EndedAreEmpty' = EndedAreEmpty /\ ~EofInHand' /\ ~EofInHand
      /\ ~Peeking'
  BY <1>1, <1>2 DEF Ended, EofInLexers, EndedAreEmpty, EofInHand, Peeking
<1>4. ASSUME Ended PROVE EofToCome'
  <2>1. EofToCome /\ calls # <<>>
    BY <1>1, <1>4 DEF EofInv
  <2> QED BY <1>1, <1>3, <2>1 DEF EofToCome, EofAhead, EofElsewhere
<1> QED BY <1>3, <1>4 DEF EofInv

(* The operations of the parser.                                            *)
LEMMA IdleEof ==
  ASSUME IInv, EofInv, Idle
  PROVE  /\ calls = <<>> /\ ret = NoTok /\ ~Peeking /\ ~EofInHand
         /\ (EofElsewhere <=> EofInLexers) /\ EndedAreEmpty
         /\ Ended => tok = Eof \/ EofInLexers \/ EofAt(cachedTokens, cachedLexPos)
         /\ Ended => \/ EofInLexers
                     \/ /\ MarksSee(cachedTokens, backtrackPositions, prevToks)
                        /\ LastSees(cachedTokens, backtrackPositions, cachedLexPos)
<1>1. calls = <<>> /\ ret = NoTok /\ ~Peeking /\ NoTok # Eof
  BY IdleFacts, EofTypes, CallIs DEF Idle
<1>2. ~EofInHand
  BY <1>1 DEF EofInHand
<1> QED BY <1>1, <1>2 DEF EofInv, EofToCome, EofAhead, EofElsewhere

(* A step that leaves the lexers as they are to the end, and comes back.    *)
LEMMA IdleStays ==
  ASSUME calls' = <<>>, ret' = NoTok, SameEnd,
         ~EofInLexers /\ Ended =>
              /\ tok' = Eof \/ EofAt(cachedTokens', cachedLexPos')
              /\ MarksSee(cachedTokens', backtrackPositions', prevToks')
              /\ LastSees(cachedTokens', backtrackPositions', cachedLexPos')
  PROVE  EofInv'
<1>1. ~Peeking' /\ NoTok # Eof
  BY TokensAssumption DEF Peeking
<1> QED BY <1>1 DEF EofInv, EofToCome, EofAhead, EofElsewhere, SameEnd

LEMMA LexEof == ASSUME IInv, EofInv, Lex PROVE EofInv'
<1>1. /\ calls' = <<LexCall>> /\ ret' = ret /\ tok # Eof /\ Idle
      /\ UNCHANGED <<cur, includeMacroStack, cachedTokens, cachedLexPos, backtrackPositions, prevToks>>
  BY DEF Lex, lexers, cache, client
<1>2. ~Peeking' /\ calls' # <<>>
  <2>1. LexCall.fn # "PeekAhead" /\ <<LexCall>>[1] = LexCall /\ <<LexCall>> # <<>>
    BY CallFacts
  <2> QED BY <1>1, <2>1 DEF Peeking
<1>3. Ended' = Ended /\ EofInLexers' = EofInLexers /\ EndedAreEmpty' = EndedAreEmpty /\ ~EofInHand'
  BY <1>1 DEF Ended, EofInLexers, EndedAreEmpty, EofInHand
<1>4. ASSUME Ended PROVE EofToCome'
  BY <1>1, <1>2, <1>3, <1>4, IdleEof DEF EofToCome, EofAhead, EofElsewhere
<1>5. EndedAreEmpty
  BY DEF EofInv
<1> QED BY <1>2, <1>3, <1>4, <1>5 DEF EofInv

LEMMA LookAheadEof ==
  ASSUME UncheckedPeeks = {}, IInv, EofInv, NEW n \in Nat, LookAhead(n)
  PROVE  EofInv'
<1>1. Idle /\ tok # Eof /\ LookedBefore(n)
      /\ UNCHANGED <<cachedLexPos, backtrackPositions, ret, tok, prevToks>>
  BY DEF LookAhead
<1>2. /\ cachedLexPos \in Nat /\ Len(cachedTokens) \in Nat /\ StackOK /\ cachedLexPos <= Len(cachedTokens)
      /\ cachedTokens \in Seq(Token)
  BY EofTypes
<1>3. CASE cachedLexPos + n < Len(cachedTokens)
  <2>1. UNCHANGED <<cur, includeMacroStack, cachedTokens, calls>>
    BY <1>3 DEF LookAhead
  <2>2. Ended' = Ended /\ EofInLexers' = EofInLexers /\ EndedAreEmpty' = EndedAreEmpty
    BY <2>1 DEF Ended, EofInLexers, EndedAreEmpty
  <2>3. SameEnd /\ calls' = <<>> /\ ret' = NoTok
    BY <1>1, <2>1, <2>2, IdleEof DEF SameEnd
  <2> QED BY <1>1, <2>1, <2>3, IdleEof, IdleStays
<1>4. CASE ~(cachedLexPos + n < Len(cachedTokens))
  <2>1. /\ ExitCachingLexMode /\ cachedTokens' = Append(cachedTokens, Unknown)
        /\ calls' = <<[fn |-> "PeekAhead", n |-> n, c |-> cachedLexPos + n + 1 - Len(cachedTokens)]>>
    BY <1>4 DEF LookAhead
  <2>2. \A j \in 1 .. n : /\ cachedLexPos + j <= Len(cachedTokens)
                          /\ cachedTokens[cachedLexPos + j] # Eof
    BY <1>1 DEF LookedBefore
  <2>3. cachedLexPos + n = Len(cachedTokens)
    <3>1. cachedLexPos + n <= Len(cachedTokens)
      <4>1. CASE n = 0
        BY <1>2, <4>1
      <4>2. CASE n # 0
        <5>1. n \in 1 .. n
          BY <4>2
        <5> QED BY <2>2, <5>1
      <4> QED BY <4>1, <4>2
    <3>2. cachedLexPos + n >= Len(cachedTokens)
      BY <1>2, <1>4
    <3> QED BY <1>2, <3>1, <3>2
  <2>4. cachedLexPos + n + 1 - Len(cachedTokens) = 1
    BY <1>2, <2>3
  <2>5. ~EofAt(cachedTokens, cachedLexPos)
    <3>1. SUFFICES ASSUME NEW j \in 1 .. Len(cachedTokens), j > cachedLexPos
                   PROVE  cachedTokens[j] # Eof
      BY DEF EofAt
    <3>2. j - cachedLexPos \in 1 .. n /\ cachedLexPos + (j - cachedLexPos) = j
      BY <1>2, <2>3, <3>1
    <3> QED BY <2>2, <3>2
  <2>6. SameEnd
    BY <1>2, <2>1, ExitEnd, IdleEof, <1>1
  <2>7. ASSUME Ended PROVE EofInLexers'
    BY <1>1, <2>5, <2>6, <2>7, IdleEof DEF SameEnd
  <2>8. Peeking' /\ calls'[1].c = 1 /\ calls' # <<>>
    <3>1. calls' = <<[fn |-> "PeekAhead", n |-> n, c |-> 1]>>
      BY <2>1, <2>4
    <3> QED BY <3>1 DEF Peeking
  <2> QED BY <2>6, <2>7, <2>8 DEF EofInv, EofToCome, EofAhead, EofElsewhere, SameEnd
<1> QED BY <1>3, <1>4

LEMMA EnableEof == ASSUME IInv, EofInv, EnableBacktrackAtThisPos PROVE EofInv'
<1>1. /\ Idle /\ EnterCachingLexMode
      /\ backtrackPositions' = Append(backtrackPositions, cachedLexPos)
      /\ prevToks' = Append(prevToks, tok)
      /\ UNCHANGED <<cachedTokens, cachedLexPos, calls, ret, tok>>
  BY DEF EnableBacktrackAtThisPos
<1>2. /\ StackOK /\ cachedLexPos \in Nat /\ backtrackPositions \in Seq(Nat) /\ prevToks \in Seq(Token)
      /\ Len(backtrackPositions) \in Nat /\ Len(prevToks) = Len(backtrackPositions)
  BY EofTypes
<1>3. SameEnd /\ calls' = <<>> /\ ret' = NoTok
  BY <1>1, <1>2, EnterEnd, IdleEof
<1>4. tok \in Token
  BY DEF IInv, TypeOK
<1>5. PICK m \in Nat :
        /\ m = Len(backtrackPositions) /\ m = Len(prevToks) /\ Len(backtrackPositions') = m + 1
        /\ \A i \in 1 .. m : backtrackPositions'[i] = backtrackPositions[i] /\ prevToks'[i] = prevToks[i]
        /\ backtrackPositions'[m + 1] = cachedLexPos /\ prevToks'[m + 1] = tok
  BY <1>1, <1>2, <1>4, AppendLast
<1>6. \A i \in 1 .. m + 1 : i = m + 1 \/ i \in 1 .. m
  BY <1>5
<1>7. ASSUME Ended, ~EofInLexers
      PROVE  /\ tok' = Eof \/ EofAt(cachedTokens', cachedLexPos')
             /\ MarksSee(cachedTokens', backtrackPositions', prevToks')
             /\ LastSees(cachedTokens', backtrackPositions', cachedLexPos')
  <2>1. /\ tok = Eof \/ EofAt(cachedTokens, cachedLexPos)
        /\ MarksSee(cachedTokens, backtrackPositions, prevToks)
        /\ LastSees(cachedTokens, backtrackPositions, cachedLexPos)
    BY <1>1, <1>7, IdleEof
  <2>2. MarksSee(cachedTokens, backtrackPositions', prevToks')
    BY <1>5, <1>6, <2>1 DEF MarksSee
  <2>3. LastSees(cachedTokens, backtrackPositions', cachedLexPos)
    <3>1. CASE m = 0
      BY <1>2, <1>5, <3>1 DEF LastSees
    <3>2. CASE m # 0
      <4>1. 1 \in 1 .. m /\ backtrackPositions # <<>>
        BY <1>2, <1>5, <3>2
      <4> QED BY <1>5, <2>1, <4>1 DEF LastSees
    <3> QED BY <3>1, <3>2
  <2> QED BY <1>1, <2>1, <2>2, <2>3
<1> QED BY <1>3, <1>7, IdleStays

LEMMA CommitEof == ASSUME IInv, EofInv, CommitBacktrackedTokens \/ Backtrack PROVE EofInv'
<1>1. /\ Idle /\ backtrackPositions # <<>>
      /\ backtrackPositions' = Front(backtrackPositions)
      /\ prevToks' = Front(prevToks)
      /\ UNCHANGED <<includeMacroStack, cachedTokens, calls, ret>>
  BY DEF CommitBacktrackedTokens, Backtrack, lexers, isBacktrackEnabled
<1>2. /\ StackOK /\ cachedLexPos \in Nat /\ backtrackPositions \in Seq(Nat) /\ prevToks \in Seq(Token)
      /\ Len(backtrackPositions) \in Nat /\ Len(prevToks) = Len(backtrackPositions)
      /\ Len(cachedTokens) \in Nat
  BY EofTypes
<1>3. cur'.kind = cur.kind /\ cur'.toks = cur.toks
  BY <1>2 DEF CommitBacktrackedTokens, Backtrack, lexers, recomputeCurLexerKind, StackOK, LexerState
<1>4. Ended' = Ended /\ EofInLexers' = EofInLexers /\ EndedAreEmpty' = EndedAreEmpty
  BY <1>1, <1>3 DEF Ended, EofInLexers, EndedAreEmpty
<1>5. SameEnd /\ calls' = <<>> /\ ret' = NoTok
  BY <1>1, <1>4, IdleEof DEF SameEnd
<1>6. prevToks # <<>>
  BY <1>1, <1>2
<1>7. PICK m \in Nat \ {0} :
        /\ m = Len(backtrackPositions) /\ m = Len(prevToks)
        /\ Len(backtrackPositions') = m - 1 /\ backtrackPositions' \in Seq(Nat)
        /\ \A i \in 1 .. m - 1 : backtrackPositions'[i] = backtrackPositions[i] /\ prevToks'[i] = prevToks[i]
        /\ Last(backtrackPositions) = backtrackPositions[m] /\ Last(prevToks) = prevToks[m]
  BY <1>1, <1>2, <1>6, LastFront
<1>8. /\ \A i \in 1 .. m : backtrackPositions[i] \in Nat /\ backtrackPositions[i] <= cachedLexPos
      /\ \A i, j \in 1 .. m : i <= j => backtrackPositions[i] <= backtrackPositions[j]
  BY <1>7, EofMarks
<1>9. ASSUME Ended, ~EofInLexers
      PROVE  /\ tok' = Eof \/ EofAt(cachedTokens', cachedLexPos')
             /\ MarksSee(cachedTokens', backtrackPositions', prevToks')
             /\ LastSees(cachedTokens', backtrackPositions', cachedLexPos')
  <2>1. /\ tok = Eof \/ EofAt(cachedTokens, cachedLexPos)
        /\ MarksSee(cachedTokens, backtrackPositions, prevToks)
        /\ LastSees(cachedTokens, backtrackPositions, cachedLexPos)
    BY <1>1, <1>9, IdleEof
  <2>2. MarksSee(cachedTokens, backtrackPositions', prevToks')
    <3>1. \A i \in 1 .. m - 1 : i \in 1 .. m
      BY <1>7
    <3> QED BY <1>7, <2>1, <3>1 DEF MarksSee
  <2>3. backtrackPositions' # <<>> => 1 \in 1 .. m - 1 /\ 1 \in 1 .. m /\ backtrackPositions'[1] = backtrackPositions[1]
    BY <1>7
  <2>4. CASE CommitBacktrackedTokens
    <3>1. UNCHANGED <<cachedLexPos, tok>>
      BY <2>4 DEF CommitBacktrackedTokens
    <3> QED BY <1>1, <2>1, <2>2, <2>3, <3>1 DEF LastSees
  <2>5. CASE Backtrack
    <3>1. cachedLexPos' = backtrackPositions[m] /\ tok' = prevToks[m] /\ m \in 1 .. m
      BY <1>7, <2>5 DEF Backtrack
    <3>2. tok' = Eof \/ EofAt(cachedTokens, cachedLexPos')
      BY <1>7, <2>1, <3>1 DEF MarksSee
    <3>3. LastSees(cachedTokens, backtrackPositions', cachedLexPos')
      <4> SUFFICES ASSUME backtrackPositions' # <<>>, cachedLexPos' > backtrackPositions'[1]
                   PROVE  EofAt(cachedTokens, cachedLexPos' - 1)
        BY DEF LastSees
      <4>1. /\ cachedLexPos' \in Nat /\ cachedLexPos' <= cachedLexPos /\ backtrackPositions[1] \in Nat
            /\ cachedLexPos > backtrackPositions[1]
        BY <1>2, <1>8, <2>3, <3>1
      <4>2. EofAt(cachedTokens, cachedLexPos - 1)
        BY <1>1, <2>1, <4>1 DEF LastSees
      <4> QED BY <1>2, <4>1, <4>2, EofAtBefore
    <3> QED BY <1>1, <2>2, <3>2, <3>3
  <2> QED BY <2>4, <2>5
<1> QED BY <1>5, <1>9, IdleStays

LEMMA RevertEof ==
  ASSUME IInv, EofInv, NEW n \in Nat \ {0}, NEW t, RevertCachedTokens(n, t)
  PROVE  EofInv'
<1>1. /\ Idle /\ backtrackPositions # <<>> /\ cachedLexPos - n >= Last(backtrackPositions)
      /\ cachedLexPos' = cachedLexPos - n
      /\ UNCHANGED <<cur, includeMacroStack, cachedTokens, backtrackPositions, calls, ret, prevToks>>
  BY DEF RevertCachedTokens, isBacktrackEnabled, lexers
<1>2. /\ cachedLexPos \in Nat /\ backtrackPositions \in Seq(Nat) /\ Len(cachedTokens) \in Nat
  BY EofTypes
<1>3. Ended' = Ended /\ EofInLexers' = EofInLexers /\ EndedAreEmpty' = EndedAreEmpty
  BY <1>1 DEF Ended, EofInLexers, EndedAreEmpty
<1>4. SameEnd /\ calls' = <<>> /\ ret' = NoTok
  BY <1>1, <1>3, IdleEof DEF SameEnd
<1>5. PICK m \in Nat \ {0} : m = Len(backtrackPositions) /\ Last(backtrackPositions) = backtrackPositions[m]
  BY <1>1, <1>2, LastFront
<1>6. /\ 1 \in 1 .. m /\ m \in 1 .. m /\ backtrackPositions[1] \in Nat /\ backtrackPositions[m] \in Nat
      /\ backtrackPositions[1] <= backtrackPositions[m]
  BY <1>5, EofMarks
<1>7. ASSUME Ended, ~EofInLexers
      PROVE  /\ tok' = Eof \/ EofAt(cachedTokens', cachedLexPos')
             /\ MarksSee(cachedTokens', backtrackPositions', prevToks')
             /\ LastSees(cachedTokens', backtrackPositions', cachedLexPos')
  <2>1. /\ MarksSee(cachedTokens, backtrackPositions, prevToks)
        /\ LastSees(cachedTokens, backtrackPositions, cachedLexPos)
    BY <1>1, <1>7, IdleEof
  <2>2. EofAt(cachedTokens, cachedLexPos - 1)
    BY <1>1, <1>2, <1>5, <1>6, <2>1 DEF LastSees
  <2>3. EofAt(cachedTokens, cachedLexPos - n) /\ EofAt(cachedTokens, cachedLexPos - n - 1)
    BY <1>2, <2>2, EofAtBefore
  <2> QED BY <1>1, <2>1, <2>3 DEF LastSees
<1> QED BY <1>4, <1>7, IdleStays

LEMMA EnterTokenEof ==
  ASSUME IInv, EofInv, NEW e \in {tok} \cup Synthesized, NEW t, EnterToken(e, t)
  PROVE  EofInv'
<1>1. /\ Idle /\ EnterCachingLexMode /\ (tok = Eof => e = Eof)
      /\ cachedTokens' = InsertAt(cachedTokens, cachedLexPos + 1, e)
      /\ UNCHANGED <<cachedLexPos, backtrackPositions, calls, ret, prevToks>>
  BY DEF EnterToken
<1>2. /\ StackOK /\ cachedLexPos \in Nat /\ cachedTokens \in Seq(Token) /\ Len(cachedTokens) \in Nat
      /\ cachedLexPos <= Len(cachedTokens) /\ Len(backtrackPositions) \in Nat
  BY EofTypes
<1>m. \A i \in 1 .. Len(backtrackPositions) :
        backtrackPositions[i] \in Nat /\ backtrackPositions[i] <= cachedLexPos
  BY EofMarks
<1>3. SameEnd /\ calls' = <<>> /\ ret' = NoTok
  BY <1>1, <1>2, EnterEnd, IdleEof
<1>4. e \in Token
  BY DEF IInv, TypeOK, Token
<1>5. /\ Len(cachedTokens') = Len(cachedTokens) + 1
      /\ \A i \in 1 .. cachedLexPos : cachedTokens'[i] = cachedTokens[i]
      /\ cachedTokens'[cachedLexPos + 1] = e
      /\ \A i \in cachedLexPos + 1 .. Len(cachedTokens) : cachedTokens'[i + 1] = cachedTokens[i]
  <2>1. PICK r : r = InsertAt(cachedTokens, cachedLexPos + 1, e)
    OBVIOUS
  <2>2. Len(r) = Len(cachedTokens) + 1
    BY <1>2, <1>4, <2>1, InsertAtSeq
  <2>3. /\ \A i \in 1 .. cachedLexPos : r[i] = cachedTokens[i]
        /\ r[cachedLexPos + 1] = e
        /\ \A i \in cachedLexPos + 1 .. Len(cachedTokens) : r[i + 1] = cachedTokens[i]
    BY <1>2, <1>4, <2>1, InsertAtElements
  <2> QED BY <1>1, <2>1, <2>2, <2>3
<1>6. ASSUME NEW p \in Int, EofAt(cachedTokens, p)
      PROVE  EofAt(cachedTokens', p)
  <2>1. PICK j \in 1 .. Len(cachedTokens) : j > p /\ cachedTokens[j] = Eof
    BY <1>6 DEF EofAt
  <2>2. CASE j <= cachedLexPos
    <3>1. j \in 1 .. cachedLexPos /\ j \in 1 .. Len(cachedTokens')
      BY <1>2, <1>5, <2>2
    <3> QED BY <1>5, <2>1, <3>1 DEF EofAt
  <2>3. CASE ~(j <= cachedLexPos)
    <3>1. j \in cachedLexPos + 1 .. Len(cachedTokens) /\ j + 1 \in 1 .. Len(cachedTokens') /\ j + 1 > p
      BY <1>2, <1>5, <2>1, <2>3
    <3> QED BY <1>5, <2>1, <3>1 DEF EofAt
  <2> QED BY <2>2, <2>3
<1>7. tok = Eof => EofAt(cachedTokens', cachedLexPos)
  <2>1. cachedLexPos + 1 \in 1 .. Len(cachedTokens') /\ cachedLexPos + 1 > cachedLexPos
    BY <1>2, <1>5
  <2> QED BY <1>1, <1>5, <2>1 DEF EofAt
<1>8. ASSUME Ended, ~EofInLexers
      PROVE  /\ tok' = Eof \/ EofAt(cachedTokens', cachedLexPos')
             /\ MarksSee(cachedTokens', backtrackPositions', prevToks')
             /\ LastSees(cachedTokens', backtrackPositions', cachedLexPos')
  <2>1. tok = Eof \/ EofAt(cachedTokens, cachedLexPos)
    BY <1>1, <1>8, IdleEof
  <2>2. EofAt(cachedTokens', cachedLexPos)
    BY <1>2, <1>6, <1>7, <2>1
  <2>3. Len(cachedTokens') \in Nat
    BY <1>2, <1>5
  <2>4. /\ MarksSee(cachedTokens', backtrackPositions, prevToks')
        /\ LastSees(cachedTokens', backtrackPositions, cachedLexPos)
    BY <1>2, <1>m, <2>2, <2>3, AllSee
  <2> QED BY <1>1, <2>2, <2>4
<1> QED BY <1>3, <1>8, IdleStays

LEMMA EnterTokenStreamEof ==
  ASSUME ~NestedStreams, IInv, EofInv, NEW s \in Streams, EnterTokenStream(s)
  PROVE  EofInv'
<1>1. /\ Idle /\ includeMacroStack' = Append(includeMacroStack, cur)
      /\ cur' = TokenLexer(Append(s, tok)) /\ calls' = <<LexCall>>
      /\ UNCHANGED <<cachedTokens, cachedLexPos, backtrackPositions, ret, tok, prevToks>>
  BY DEF EnterTokenStream, PushIncludeMacroStack, cache
<1>2. ~Peeking' /\ calls' # <<>>
  <2>1. LexCall.fn # "PeekAhead" /\ <<LexCall>>[1] = LexCall /\ <<LexCall>> # <<>>
    BY CallFacts
  <2> QED BY <1>1, <2>1 DEF Peeking
<1>3. cur \in LexerState /\ StackOK /\ tok \in Token /\ s \in Seq(Plain)
  BY SourcesAssumption DEF IInv, TypeOK, StackOK
<1>4. cur'.kind = "tokens" /\ cur'.toks = Append(s, tok)
  BY <1>1 DEF TokenLexer
<1>5. tok = Eof => Has(cur'.toks)
  <2>1. Len(s) + 1 \in 1 .. Len(Append(s, tok)) /\ Append(s, tok)[Len(s) + 1] = tok
    BY <1>3
  <2> QED BY <1>4, <2>1 DEF Has
<1>6. EndedAreEmpty
  BY DEF EofInv
<1>7. /\ Ended' = Ended /\ EndedAreEmpty' /\ (EofInLexers => EofInLexers')
      /\ (tok = Eof => EofInLexers')
  BY <1>1, <1>3, <1>4, <1>5, <1>6, PushEnd DEF EndedAreEmpty
<1>8. ~EofInHand'
  BY <1>1 DEF EofInHand
<1>9. ASSUME Ended PROVE EofToCome'
  BY <1>1, <1>2, <1>7, <1>8, <1>9, IdleEof DEF EofToCome, EofAhead, EofElsewhere
<1> QED BY <1>2, <1>7, <1>9 DEF EofInv

LEMMA AnnotateEof ==
  ASSUME IInv, EofInv, NEW k \in 1..MaxCached, NEW t \in Synthesized, AnnotateCachedTokens(k, t)
  PROVE  EofInv'
<1>1. /\ Idle /\ tok # Eof
      /\ UNCHANGED <<cur, includeMacroStack, backtrackPositions, calls, ret, prevToks>>
  BY DEF AnnotateCachedTokens, lexers
<1>2. /\ cachedLexPos \in Nat /\ cachedTokens \in Seq(Token) /\ Len(cachedTokens) \in Nat
      /\ Len(backtrackPositions) \in Nat /\ t \in Token /\ k \in Nat
  BY EofTypes, BoundsAssumption DEF Token
<1>3. Ended' = Ended /\ EofInLexers' = EofInLexers /\ EndedAreEmpty' = EndedAreEmpty
  BY <1>1 DEF Ended, EofInLexers, EndedAreEmpty
<1>4. SameEnd /\ calls' = <<>> /\ ret' = NoTok
  BY <1>1, <1>3, IdleEof DEF SameEnd
<1>5. /\ Len(cachedTokens') = Len(cachedTokens) - k + 1
      /\ cachedLexPos' = cachedLexPos - k + 1
      /\ \A i \in cachedLexPos + 1..Len(cachedTokens) : cachedTokens'[i - k + 1] = cachedTokens[i]
  BY <1>2, AnnotatedCache
<1>6. IInv'
  BY AnnotateStep
<1>7. /\ cachedLexPos' \in Nat /\ Len(cachedTokens') \in Nat
      /\ \A i \in 1 .. Len(backtrackPositions') :
           backtrackPositions'[i] \in Nat /\ backtrackPositions'[i] <= cachedLexPos'
  <2>1. /\ cachedLexPos' \in Nat /\ cachedTokens' \in Seq(Token) /\ backtrackPositions' \in Seq(Nat)
        /\ PositionsInCache'
    BY <1>6 DEF IInv, TypeOK
  <2>2. DOMAIN backtrackPositions' = 1 .. Len(backtrackPositions')
        /\ \A i \in 1 .. Len(backtrackPositions') : backtrackPositions'[i] \in Nat
    BY <2>1
  <2> QED BY <2>1, <2>2 DEF PositionsInCache
<1>8. ASSUME Ended, ~EofInLexers
      PROVE  /\ tok' = Eof \/ EofAt(cachedTokens', cachedLexPos')
             /\ MarksSee(cachedTokens', backtrackPositions', prevToks')
             /\ LastSees(cachedTokens', backtrackPositions', cachedLexPos')
  <2>1. EofAt(cachedTokens, cachedLexPos)
    BY <1>1, <1>8, IdleEof
  <2>2. PICK j \in 1 .. Len(cachedTokens) : j > cachedLexPos /\ cachedTokens[j] = Eof
    BY <2>1 DEF EofAt
  <2>3. j \in cachedLexPos + 1..Len(cachedTokens) /\ j - k + 1 > cachedLexPos'
        /\ j - k + 1 \in 1 .. Len(cachedTokens')
    BY <1>2, <1>5, <1>7, <2>2
  <2>4. EofAt(cachedTokens', cachedLexPos')
    BY <1>5, <2>2, <2>3 DEF EofAt
  <2>5. Len(backtrackPositions') \in Nat
    BY <1>1, <1>2
  <2> QED BY <1>7, <2>4, <2>5, AllSee
<1> QED BY <1>4, <1>8, IdleStays

LEMMA TypoCorrectEof ==
  ASSUME IInv, EofInv, NEW t, TypoCorrectToken(t)
  PROVE  EofInv'
<1>1. /\ Idle /\ tok \in Plain
      /\ \/ cachedTokens' = cachedTokens
         \/ cachedLexPos # 0 /\ cachedTokens' = [cachedTokens EXCEPT ![cachedLexPos] = t]
      /\ UNCHANGED <<cur, includeMacroStack, cachedLexPos, backtrackPositions, calls, ret, prevToks>>
  BY DEF TypoCorrectToken, lexers
<1>2. /\ cachedLexPos \in Nat /\ cachedTokens \in Seq(Token) /\ Len(cachedTokens) \in Nat
      /\ Len(backtrackPositions) \in Nat
  BY EofTypes
<1>m. \A i \in 1 .. Len(backtrackPositions) :
        backtrackPositions[i] \in Nat /\ backtrackPositions[i] <= cachedLexPos
  BY EofMarks
<1>3. Ended' = Ended /\ EofInLexers' = EofInLexers /\ EndedAreEmpty' = EndedAreEmpty
  BY <1>1 DEF Ended, EofInLexers, EndedAreEmpty
<1>4. SameEnd /\ calls' = <<>> /\ ret' = NoTok
  BY <1>1, <1>3, IdleEof DEF SameEnd
<1>5. tok # Eof
  BY <1>1, TokensAssumption
<1>6. /\ Len(cachedTokens') = Len(cachedTokens)
      /\ \A i \in 1 .. Len(cachedTokens) : i # cachedLexPos => cachedTokens'[i] = cachedTokens[i]
  BY <1>1, <1>2
<1>7. ASSUME Ended, ~EofInLexers
      PROVE  /\ tok' = Eof \/ EofAt(cachedTokens', cachedLexPos')
             /\ MarksSee(cachedTokens', backtrackPositions', prevToks')
             /\ LastSees(cachedTokens', backtrackPositions', cachedLexPos')
  <2>1. EofAt(cachedTokens, cachedLexPos)
    BY <1>1, <1>5, <1>7, IdleEof
  <2>2. PICK j \in 1 .. Len(cachedTokens) : j > cachedLexPos /\ cachedTokens[j] = Eof
    BY <2>1 DEF EofAt
  <2>3. j # cachedLexPos
    BY <1>2, <2>2
  <2>4. EofAt(cachedTokens', cachedLexPos)
    BY <1>6, <2>2, <2>3 DEF EofAt
  <2>5. Len(cachedTokens') \in Nat
    BY <1>2, <1>6
  <2>6. /\ MarksSee(cachedTokens', backtrackPositions, prevToks')
        /\ LastSees(cachedTokens', backtrackPositions, cachedLexPos)
    BY <1>2, <1>m, <2>4, <2>5, AllSee
  <2> QED BY <1>1, <2>4, <2>6
<1> QED BY <1>4, <1>7, IdleStays

-----------------------------------------------------------------------------
LEMMA EofInit == Init => EofInv
<1> SUFFICES ASSUME Init PROVE EofInv
  OBVIOUS
<1>1. cur.kind = "file" /\ includeMacroStack = <<>> /\ calls = <<>>
  BY DEF Init, FileLexer
<1> QED BY <1>1 DEF EofInv, EndedAreEmpty, Peeking, Ended

LEMMA EofNext ==
  ASSUME ~NestedStreams, UncheckedPeeks = {}, IInv, PeekedInv, EofInv, [Next]_vars
  PROVE  EofInv'
<1>1. CASE ClientCall
  <2>1. CASE \E n \in 0..MaxLookAhead : LookAhead(n)
    <3>1. PICK n \in 0..MaxLookAhead : LookAhead(n)
      BY <2>1
    <3>2. n \in Nat
      OBVIOUS
    <3> QED BY <3>1, <3>2, LookAheadEof
  <2>2. CASE \E n \in 1..MaxCached, t \in {tok} \cup Synthesized : RevertCachedTokens(n, t)
    <3>1. PICK n \in 1..MaxCached, t \in {tok} \cup Synthesized : RevertCachedTokens(n, t)
      BY <2>2
    <3>2. n \in Nat \ {0}
      OBVIOUS
    <3> QED BY <3>1, <3>2, RevertEof
  <2> QED BY <1>1, <2>1, <2>2, LexEof, EnableEof, CommitEof, EnterTokenEof, EnterTokenStreamEof,
             AnnotateEof, TypoCorrectEof DEF ClientCall
<1>2. CASE LexerStep
  BY <1>2, LexerActionsEof, CachingLexEof, CachingLexReturnEof, PeekAheadReturnEof, LexReturnEof
     DEF LexerStep
<1>3. CASE UNCHANGED vars
  <2> USE <1>3 DEF vars, lexers, cache, client
  <2>1. (Peeking' <=> Peeking) /\ Ended' = Ended /\ EndedAreEmpty' = EndedAreEmpty
        /\ EofInLexers' = EofInLexers /\ EofInHand' = EofInHand
    BY DEF Peeking, Ended, EndedAreEmpty, EofInLexers, EofInHand
  <2>2. EofToCome => EofToCome'
    BY <2>1 DEF EofToCome, EofAhead, EofElsewhere
  <2> QED BY <2>1, <2>2 DEF EofInv
<1> QED BY <1>1, <1>2, <1>3 DEF Next

(* A lexer that is not there is never asked for a token, when the parser    *)
(* looks at each token before it looks past it (UncheckedPeeks = {}):       *)
(* after the end of the primary file the eof token is on every way of the   *)
(* parser, and it stops there.  Where it peeks unchecked, the run           *)
(* PPCachingPastEof shows the way past the end.                             *)
THEOREM NothingIsReadPastEof ==
  ASSUME ~NestedStreams, UncheckedPeeks = {} PROVE Spec => []NeverPastEof
<1>1. Init => PeekedInv /\ EofInv
  BY PeekedInit, EofInit
<1>2. IInv /\ PeekedInv /\ EofInv /\ [Next]_vars => PeekedInv' /\ EofInv'
  BY PeekedNext, EofNext
<1>3. IInv /\ EofInv => NeverPastEof
  <2> SUFFICES ASSUME IInv, EofInv, Running, cur.kind = "none", ~InCachingLexMode
               PROVE  FALSE
    BY DEF NeverPastEof
  <2>1. includeMacroStack = <<>> /\ cur.toks = <<>> /\ calls # <<>> /\ ret = NoTok /\ Ended
    BY DEF InCachingLexMode, EofInv, EndedAreEmpty, Running, Ended
  <2>2. ~EofInLexers
    BY <2>1 DEF EofInLexers, Has
  <2>3. NoTok # Eof /\ Len(cachedTokens) \in Nat /\ cachedLexPos \in Nat /\ cachedTokens \in Seq(Token)
    BY EofTypes
  <2>4. ~Peeking /\ EofAt(cachedTokens, cachedLexPos)
    BY <2>1, <2>2, <2>3 DEF EofInv, EofToCome, EofAhead, EofElsewhere, EofInHand
  <2>5. cachedTokens # <<>> /\ cachedLexPos # Len(cachedTokens)
    BY <2>3, <2>4 DEF EofAt
  <2>6. AtRest
    BY <2>1, <2>4, <2>5 DEF IInv, CallShape, Peeking
  <2> QED BY <2>5, <2>6 DEF AtRest
<1> QED BY <1>1, <1>2, <1>3, Invariance, PTL DEF Spec

-----------------------------------------------------------------------------
(* The refinement of the token stream. The recursive definition of the      *)
(* tokens of a text has a solution when no macro and no header contains     *)
(* itself, directly or not.                                                 *)

(* Macros and headers have a rank: none contains itself, directly or not.   *)
IsRank(rank) ==
  /\ rank \in [Macros \cup Headers -> Nat]
  /\ \A m \in Macros \cup Headers : \A i \in 1 .. Len(Body[m]) :
       Body[m][i] \in Macros \cup Headers => rank[Body[m][i]] < rank[m]

Text == Seq(Token \cup Item)

(* What a text is expanded before: itself without its first item, and what  *)
(* this stands for.                                                         *)
Part(s) == IF Head(s) \in Token THEN {Tail(s)} ELSE {Tail(s), Body[Head(s)]}

PartOf == {p \in Text \X Text : p[2] # <<>> /\ p[1] \in Part(p[2])}

Ranked(rank, s, n) == \A i \in 1 .. Len(s) : s[i] \in Macros \cup Headers => rank[s[i]] < n

LEMMA TextHasRank ==
  ASSUME NEW rank, IsRank(rank), NEW s \in Text
  PROVE  \E n \in Nat : Ranked(rank, s, n)
<1> DEFINE S == {k \in Nat : \A t \in Text : Len(t) = k => \E n \in Nat : Ranked(rank, t, n)}
<1>1. 0 \in S
  BY DEF Ranked, Text
<1>2. ASSUME NEW k \in Nat, k \in S PROVE k + 1 \in S
  <2> SUFFICES ASSUME NEW t \in Text, Len(t) = k + 1 PROVE \E n \in Nat : Ranked(rank, t, n)
    OBVIOUS
  <2>1. t # <<>>
    BY DEF Text
  <2>2. /\ Tail(t) \in Text /\ Len(Tail(t)) = k
        /\ \A i \in 1 .. k : Tail(t)[i] = t[i + 1]
    BY <2>1, HeadTailProperties DEF Text
  <2>3. PICK n \in Nat : Ranked(rank, Tail(t), n)
    BY <1>2, <2>2
  <2>4. PICK m \in Nat : m >= n /\ (t[1] \in Macros \cup Headers => rank[t[1]] < m)
    <3>1. CASE t[1] \in Macros \cup Headers
      <4>1. rank[t[1]] \in Nat
        BY <3>1 DEF IsRank
      <4>2. n + rank[t[1]] + 1 \in Nat /\ n + rank[t[1]] + 1 >= n /\ rank[t[1]] < n + rank[t[1]] + 1
        BY <4>1
      <4> QED BY <4>2
    <3>2. CASE t[1] \notin Macros \cup Headers
      BY <3>2
    <3> QED BY <3>1, <3>2
  <2>5. ASSUME NEW i \in 1 .. Len(t), t[i] \in Macros \cup Headers
        PROVE  rank[t[i]] < m
    <3>1. CASE i = 1
      BY <2>4, <2>5, <3>1
    <3>2. CASE i # 1
      <4>1. i - 1 \in 1 .. k /\ (i - 1) + 1 = i
        BY <2>5, <3>2
      <4>2. Tail(t)[i - 1] = t[i]
        BY <2>2, <4>1
      <4>3. rank[t[i]] < n /\ rank[t[i]] \in Nat
        BY <2>2, <2>3, <2>5, <4>1, <4>2 DEF Ranked, IsRank
      <4> QED BY <2>4, <4>3
    <3> QED BY <3>1, <3>2
  <2> QED BY <2>5 DEF Ranked
<1>3. Nat \subseteq S
  BY <1>1, <1>2, SetInduction
<1>4. Len(s) \in S /\ s \in Text
  BY <1>3 DEF Text
<1> QED BY <1>4

LEMMA PartsHaveMinima ==
  ASSUME NEW rank, IsRank(rank)
  PROVE  HasMinima(PartOf, Text)
<1> SUFFICES ASSUME NEW T \in SUBSET Text, T # {}
             PROVE  \E x \in T : \A y \in T : <<y, x>> \notin PartOf
  BY DEF HasMinima
<1> DEFINE N == {n \in Nat : \E s \in T : Ranked(rank, s, n)}
<1>1. N # {}
  BY TextHasRank
<1>2. PICK n \in N : \A k \in N : n <= k
  BY <1>1, LeastElement
<1> DEFINE L == {k \in Nat : \E s \in T : Ranked(rank, s, n) /\ Len(s) = k}
<1>3. L # {}
  BY DEF Text
<1>4. PICK l \in L : \A k \in L : l <= k
  BY <1>3, LeastElement
<1>5. PICK x \in T : Ranked(rank, x, n) /\ Len(x) = l
  BY <1>4
<1>6. ASSUME NEW y \in T, <<y, x>> \in PartOf PROVE FALSE
  <2>1. x \in Text /\ x # <<>> /\ y \in Part(x)
    BY <1>6 DEF PartOf
  <2>2. /\ Head(x) = x[1] /\ 1 \in 1 .. Len(x) /\ Len(Tail(x)) = Len(x) - 1 /\ Tail(x) \in Text
        /\ \A i \in 1 .. Len(x) - 1 : Tail(x)[i] = x[i + 1] /\ i + 1 \in 1 .. Len(x)
        /\ Len(x) \in Nat \ {0} /\ x[1] \in Token \cup Item
    BY <2>1, HeadTailProperties DEF Text
  <2>3. CASE y = Tail(x)
    <3>1. Ranked(rank, y, n)
      BY <1>5, <2>2, <2>3 DEF Ranked
    <3>4. Len(y) = Len(x) - 1 /\ Len(x) - 1 \in Nat
      BY <2>2, <2>3
    <3>2. Len(x) - 1 \in L
      BY <3>1, <3>4
    <3>3. l <= Len(x) - 1
      BY <1>4, <3>2
    <3> QED BY <1>5, <2>2, <3>3
  <2>4. CASE x[1] \notin Token /\ y = Body[x[1]]
    <3>1. x[1] \in Macros \cup Headers
      BY <2>2, <2>4 DEF Item, Token
    <3>2. rank[x[1]] < n /\ rank[x[1]] \in Nat
      BY <1>5, <2>2, <3>1 DEF Ranked, IsRank
    <3>3. Ranked(rank, y, rank[x[1]])
      BY <2>4, <3>1 DEF Ranked, IsRank
    <3>4. rank[x[1]] \in N
      BY <3>2, <3>3
    <3>5. n \in Nat
      OBVIOUS
    <3> HIDE DEF N
    <3> QED BY <1>2, <3>2, <3>4, <3>5
  <2> QED BY <2>1, <2>2, <2>3, <2>4 DEF Part
<1> QED BY <1>6

(* The expansion of a text, and that of a stack of lexers, exist.           *)
Expands == TokensOf \in [Text -> Seq(Token)]
           /\ \A s \in Text :
                TokensOf[s] = IF s = <<>> THEN <<>>
                              ELSE (IF Head(s) \in Token THEN <<Head(s)>> ELSE TokensOf[Body[Head(s)]])
                                     \o TokensOf[Tail(s)]

LEMMA TextHeadTail ==
  ASSUME NEW s \in Text, s # <<>>
  PROVE  /\ Tail(s) \in Text
         /\ Head(s) \notin Token => Head(s) \in Macros \cup Headers /\ Body[Head(s)] \in Text
<1>1. Head(s) \in Token \cup Item /\ Tail(s) \in Seq(Token \cup Item)
  BY HeadTailProperties DEF Text
<1>2. Head(s) \notin Token => Head(s) \in Macros \cup Headers
  BY <1>1 DEF Item, Token
<1>3. \A m \in Macros \cup Headers : Body[m] \in Seq(Token \cup Item)
  BY SourcesAssumption
<1> QED BY <1>1, <1>2, <1>3 DEF Text

LEMMA TokensExist ==
  ASSUME NEW rank, IsRank(rank)
  PROVE  Expands
<1> DEFINE V    == Seq(Token)
           E(f, s) == IF s = <<>> THEN <<>>
                      ELSE (IF Head(s) \in Token THEN <<Head(s)>> ELSE f[Body[Head(s)]]) \o f[Tail(s)]
           step == [p \in Text \X [Text -> V] |-> E(p[2], p[1])]
<1>1. ASSUME NEW s \in Text, NEW f \in [Text -> V] PROVE E(f, s) \in V
  <2>1. CASE s = <<>>
    BY <2>1
  <2>2. CASE s # <<>>
    <3>1. f[Tail(s)] \in Seq(Token)
      BY <2>2, TextHeadTail
    <3>2. (IF Head(s) \in Token THEN <<Head(s)>> ELSE f[Body[Head(s)]]) \in Seq(Token)
      BY <2>2, TextHeadTail
    <3> QED BY <2>2, <3>1, <3>2, ConcatProperties
  <2> QED BY <2>1, <2>2
<1>2. step \in [Text \X [Text -> V] -> V]
  BY <1>1
<1>3. ASSUME NEW s \in Text, NEW f \in [Text -> V], NEW g \in [Text -> V],
             \A t \in Text : <<t, s>> \in PartOf => f[t] = g[t]
      PROVE  step[<<s, f>>] = step[<<s, g>>]
  <2>1. ASSUME s # <<>>
        PROVE  f[Tail(s)] = g[Tail(s)] /\ (Head(s) \notin Token => f[Body[Head(s)]] = g[Body[Head(s)]])
    BY <1>3, <2>1, TextHeadTail DEF PartOf, Part
  <2>2. E(f, s) = E(g, s)
    BY <2>1
  <2> QED BY <2>2
<1>4. ReadsBefore(step, PartOf, Text, V)
  <2> HIDE DEF step, V
  <2> QED BY <1>3 DEF ReadsBefore
<1>5. <<>> \in V
  OBVIOUS
<1>6. PICK f \in [Text -> V] : Solves(f, step, PartOf, Text, Text)
  <2> HIDE DEF step, V
  <2>1. HasMinima(PartOf, Text)
    BY PartsHaveMinima
  <2> QED BY <1>2, <1>4, <1>5, <2>1, RecursionExists
<1>7. \A s \in Text : step[<<s, f>>] = E(f, s)
  OBVIOUS
<1> DEFINE IsIt(h) == h = [s \in Text |-> E(h, s)]
<1>8. IsIt(f)
  <2> HIDE DEF step, V
  <2> QED BY <1>6, <1>7 DEF Solves
<1>9. TokensOf = CHOOSE h : IsIt(h)
  BY DEF TokensOf, Text
<1>10. IsIt(TokensOf)
  <2> HIDE DEF IsIt
  <2> QED BY <1>8, <1>9
<1>11. \A s \in Text : TokensOf[s] = E(TokensOf, s)
  <2> HIDE DEF E
  <2> QED BY <1>10
<1>12. TokensOf = f
  <2> DEFINE T == {s \in Text : TokensOf[s] # f[s]}
  <2>1. T = {}
    <3> SUFFICES ASSUME T # {} PROVE FALSE
      OBVIOUS
    <3>1. T \in SUBSET Text
      OBVIOUS
    <3>2. PICK x \in T : \A y \in T : <<y, x>> \notin PartOf
      BY <3>1, PartsHaveMinima DEF HasMinima
    <3>3. x \in Text /\ TokensOf[x] # f[x] /\ \A t \in Text : <<t, x>> \in PartOf => TokensOf[t] = f[t]
      BY <3>2
    <3> HIDE DEF T
    <3>4. ASSUME x # <<>>
          PROVE  /\ TokensOf[Tail(x)] = f[Tail(x)]
                 /\ Head(x) \notin Token => TokensOf[Body[Head(x)]] = f[Body[Head(x)]]
      BY <3>3, <3>4, TextHeadTail DEF PartOf, Part
    <3>5. E(TokensOf, x) = E(f, x)
      BY <3>4
    <3>6. f[x] = E(f, x)
      BY <1>6, <1>7, <3>3 DEF Solves
    <3> QED BY <1>11, <3>3, <3>5, <3>6
  <2>2. TokensOf = [s \in Text |-> TokensOf[s]] /\ f = [s \in Text |-> f[s]]
    <3>1. TokensOf = [s \in Text |-> E(TokensOf, s)]
      BY <1>10
    <3> HIDE DEF E
    <3> QED BY <3>1
  <2> QED BY <2>1, <2>2
<1> QED BY <1>11, <1>12 DEF Expands

-----------------------------------------------------------------------------
(* So has the one of what a stack of lexers still holds.                    *)

Stacks == Seq(LexerState)

BelowOf == {p \in Stacks \X Stacks : p[2] # <<>> /\ p[1] = Front(p[2])}

Holds ==
  /\ Held \in [Stacks -> Seq(Token)]
  /\ \A s \in Stacks : Held[s] = IF s = <<>> THEN <<>> ELSE TokensOf[Last(s).toks] \o Held[Front(s)]

LEMMA StacksHaveMinima == HasMinima(BelowOf, Stacks)
<1> SUFFICES ASSUME NEW T \in SUBSET Stacks, T # {}
             PROVE  \E x \in T : \A y \in T : <<y, x>> \notin BelowOf
  BY DEF HasMinima
<1> DEFINE L == {k \in Nat : \E s \in T : Len(s) = k}
<1>1. L # {}
  BY DEF Stacks
<1>2. PICK l \in L : \A k \in L : l <= k
  BY <1>1, LeastElement
<1>3. PICK x \in T : Len(x) = l
  BY <1>2
<1>4. ASSUME NEW y \in T, <<y, x>> \in BelowOf PROVE FALSE
  <2>1. x \in Stacks /\ x # <<>> /\ y = Front(x)
    BY <1>4 DEF BelowOf
  <2>2. Len(x) \in Nat \ {0} /\ Len(y) = Len(x) - 1
    BY <2>1, LastFront DEF Stacks
  <2>3. Len(y) \in L
    BY <2>2
  <2> QED BY <1>2, <1>3, <2>2, <2>3
<1> QED BY <1>4

LEMMA HeldExists == ASSUME Expands PROVE Holds
<1> DEFINE V    == Seq(Token)
           E(f, s) == IF s = <<>> THEN <<>> ELSE TokensOf[Last(s).toks] \o f[Front(s)]
           step == [p \in Stacks \X [Stacks -> V] |-> E(p[2], p[1])]
<1>0. ASSUME NEW s \in Stacks, s # <<>>
      PROVE  Front(s) \in Stacks /\ TokensOf[Last(s).toks] \in Seq(Token)
  <2>1. Front(s) \in Stacks /\ Last(s) \in LexerState
    BY <1>0, LastFront DEF Stacks
  <2>2. Last(s).toks \in Text
    BY <2>1 DEF LexerState, Text
  <2> QED BY <2>1, <2>2 DEF Expands
<1>1. ASSUME NEW s \in Stacks, NEW f \in [Stacks -> V] PROVE E(f, s) \in V
  <2>1. CASE s = <<>>
    BY <2>1
  <2>2. CASE s # <<>>
    <3>1. f[Front(s)] \in Seq(Token)
      BY <1>0, <2>2
    <3> QED BY <1>0, <2>2, <3>1, ConcatProperties
  <2> QED BY <2>1, <2>2
<1>2. step \in [Stacks \X [Stacks -> V] -> V]
  BY <1>1
<1>3. ASSUME NEW s \in Stacks, NEW f \in [Stacks -> V], NEW g \in [Stacks -> V],
             \A t \in Stacks : <<t, s>> \in BelowOf => f[t] = g[t]
      PROVE  step[<<s, f>>] = step[<<s, g>>]
  <2>1. s # <<>> => f[Front(s)] = g[Front(s)]
    BY <1>0, <1>3 DEF BelowOf
  <2>2. E(f, s) = E(g, s)
    BY <2>1
  <2> QED BY <2>2
<1>4. ReadsBefore(step, BelowOf, Stacks, V)
  <2> HIDE DEF step, V
  <2> QED BY <1>3 DEF ReadsBefore
<1>5. <<>> \in V
  OBVIOUS
<1>6. PICK f \in [Stacks -> V] : Solves(f, step, BelowOf, Stacks, Stacks)
  <2> HIDE DEF step, V
  <2> QED BY <1>2, <1>4, <1>5, StacksHaveMinima, RecursionExists
<1>7. \A s \in Stacks : step[<<s, f>>] = E(f, s)
  OBVIOUS
<1> DEFINE IsIt(h) == h = [s \in Stacks |-> E(h, s)]
<1>8. IsIt(f)
  <2> HIDE DEF step, V
  <2> QED BY <1>6, <1>7 DEF Solves
<1>9. Held = CHOOSE h : IsIt(h)
  BY DEF Held, Stacks
<1>10. IsIt(Held)
  <2> HIDE DEF IsIt
  <2> QED BY <1>8, <1>9
<1>11. \A s \in Stacks : Held[s] = E(Held, s)
  <2> HIDE DEF E
  <2> QED BY <1>10
<1>12. Held = f
  <2> DEFINE T == {s \in Stacks : Held[s] # f[s]}
  <2>1. T = {}
    <3> SUFFICES ASSUME T # {} PROVE FALSE
      OBVIOUS
    <3>1. T \in SUBSET Stacks
      OBVIOUS
    <3>2. PICK x \in T : \A y \in T : <<y, x>> \notin BelowOf
      BY <3>1, StacksHaveMinima DEF HasMinima
    <3>3. x \in Stacks /\ Held[x] # f[x] /\ \A t \in Stacks : <<t, x>> \in BelowOf => Held[t] = f[t]
      BY <3>2
    <3> HIDE DEF T
    <3>4. x # <<>> => Held[Front(x)] = f[Front(x)]
      BY <1>0, <3>3 DEF BelowOf
    <3>5. E(Held, x) = E(f, x)
      BY <3>4
    <3>6. f[x] = E(f, x)
      BY <1>6, <1>7, <3>3 DEF Solves
    <3> QED BY <1>11, <3>3, <3>5, <3>6
  <2>2. Held = [s \in Stacks |-> Held[s]] /\ f = [s \in Stacks |-> f[s]]
    <3>1. Held = [s \in Stacks |-> E(Held, s)]
      BY <1>10
    <3> HIDE DEF E
    <3> QED BY <3>1
  <2> QED BY <2>1, <2>2
<1> QED BY <1>11, <1>12 DEF Holds

(* What the steps of the lexers do to the tokens that are not read yet.     *)
LEMMA TextTokens ==
  ASSUME Expands
  PROVE  /\ TokensOf[<<>>] = <<>>
         /\ \A s \in Text : TokensOf[s] \in Seq(Token)
         /\ \A s \in Text : s # <<>> /\ Head(s) \in Token => TokensOf[s] = <<Head(s)>> \o TokensOf[Tail(s)]
         /\ \A s \in Text : s # <<>> /\ Head(s) \notin Token
              => TokensOf[s] = TokensOf[Body[Head(s)]] \o TokensOf[Tail(s)]
<1>1. <<>> \in Text
  BY DEF Text
<1> QED BY <1>1 DEF Expands

LEMMA PushedHeld ==
  ASSUME Holds, NEW s \in Stacks, NEW l \in LexerState
  PROVE  Held[Append(s, l)] = TokensOf[l.toks] \o Held[s] /\ Append(s, l) \in Stacks
<1>1. IsPushed(LexerState, Append(s, l), s, l)
  BY ElementPushed DEF Stacks
<1> DEFINE t == Append(s, l)
<1>2. t \in Stacks /\ t # <<>> /\ Last(t) = l /\ Front(t) = s
  BY <1>1 DEF IsPushed, Stacks
<1> HIDE DEF t
<1>3. Held[t] = TokensOf[l.toks] \o Held[s]
  BY <1>2 DEF Holds
<1> QED BY <1>2, <1>3 DEF t

(* A text of tokens stands for itself.                                      *)
LEMMA TokensAreThemselves ==
  ASSUME Expands, NEW s \in Seq(Token)
  PROVE  TokensOf[s] = s
<1> DEFINE S == {k \in Nat : \A t \in Seq(Token) : Len(t) = k => TokensOf[t] = t}
<1>1. 0 \in S
  BY TextTokens
<1>2. ASSUME NEW k \in Nat, k \in S PROVE k + 1 \in S
  <2> SUFFICES ASSUME NEW t \in Seq(Token), Len(t) = k + 1 PROVE TokensOf[t] = t
    OBVIOUS
  <2>1. t # <<>> /\ t \in Text
    BY DEF Text
  <2>2. Tail(t) \in Seq(Token) /\ Len(Tail(t)) = k /\ Head(t) \in Token
    BY <2>1, HeadTailProperties
  <2>3. TokensOf[Tail(t)] = Tail(t)
    BY <1>2, <2>2
  <2>4. TokensOf[t] = <<Head(t)>> \o Tail(t)
    BY <2>1, <2>2, <2>3, TextTokens
  <2>5. <<Head(t)>> \o Tail(t) = t
    <3>1. \A i \in 1 .. Len(t) : i = 1 \/ i - 1 \in 1 .. Len(t) - 1
      OBVIOUS
    <3> QED BY <2>1
  <2> QED BY <2>4, <2>5
<1>3. Nat \subseteq S
  BY <1>1, <1>2, SetInduction
<1> QED BY <1>3

-----------------------------------------------------------------------------
(* What the operations on the lexer stack do to what is left of the text.   *)

(* What the lexers of a stack hold, with the end of the primary file.       *)
EndOf(stack) == IF stack[1].kind = "file" THEN <<Eof>> ELSE <<>>
Remaining(stack) == Held[stack] \o EndOf(stack)

Expansions == Expands /\ Holds

LEMMA EndType == \A stack : EndOf(stack) \in Seq(Token)
<1>1. Eof \in Token
  BY DEF Token
<1>2. <<Eof>> \in Seq(Token) /\ <<>> \in Seq(Token)
  BY <1>1
<1> QED BY <1>2 DEF EndOf

LEMMA RemainingType ==
  ASSUME Expansions, NEW s \in Stacks
  PROVE  Remaining(s) \in Seq(Token)
<1>1. Held[s] \in Seq(Token)
  BY DEF Expansions, Holds
<1> QED BY <1>1, EndType, ConcatProperties DEF Remaining

LEMMA LexerText ==
  ASSUME Expansions, NEW l \in LexerState
  PROVE  l.toks \in Text /\ TokensOf[l.toks] \in Seq(Token)
<1>1. l.toks \in Text
  BY DEF LexerState, Text
<1> QED BY <1>1, TextTokens DEF Expansions

(* A lexer on top of others, and the only one.                              *)
LEMMA RemainingTop ==
  ASSUME Expansions, NEW s \in Stacks, NEW l \in LexerState
  PROVE  Remaining(Append(s, l)) = TokensOf[l.toks] \o (Held[s] \o EndOf(Append(s, l)))
<1>1. Held[Append(s, l)] = TokensOf[l.toks] \o Held[s]
  BY PushedHeld DEF Expansions
<1>2. Held[s] \in Seq(Token) /\ TokensOf[l.toks] \in Seq(Token) /\ EndOf(Append(s, l)) \in Seq(Token)
  BY LexerText, EndType DEF Expansions, Holds
<1>3. PICK a : a = TokensOf[l.toks]
  OBVIOUS
<1>4. PICK b : b = Held[s]
  OBVIOUS
<1>5. PICK e : e = EndOf(Append(s, l))
  OBVIOUS
<1>7. a \in Seq(Token) /\ b \in Seq(Token) /\ e \in Seq(Token)
  BY <1>2, <1>3, <1>4, <1>5
<1>6. (a \o b) \o e = a \o (b \o e)
  BY <1>7, ConcatAssociative
<1> QED BY <1>1, <1>3, <1>4, <1>5, <1>6 DEF Remaining

LEMMA RemainingPushed ==
  ASSUME Expansions, NEW s \in Stacks, s # <<>>, NEW l \in LexerState
  PROVE  Remaining(Append(s, l)) = TokensOf[l.toks] \o Remaining(s)
<1>1. EndOf(Append(s, l)) = EndOf(s)
  <2>1. Append(s, l)[1] = s[1]
    BY DEF Stacks
  <2> QED BY <2>1 DEF EndOf
<1> QED BY <1>1, RemainingTop DEF Remaining

(* A lexer reads on.                                                        *)
LEMMA RemainingRead ==
  ASSUME Expansions, NEW s \in Stacks, NEW l \in LexerState, NEW k \in LexerState,
         k.kind = l.kind, NEW x \in Seq(Token), TokensOf[l.toks] = x \o TokensOf[k.toks]
  PROVE  Remaining(Append(s, l)) = x \o Remaining(Append(s, k))
<1>1. EndOf(Append(s, l)) = EndOf(Append(s, k))
  <2>1. CASE s = <<>>
    BY <2>1 DEF EndOf
  <2>2. CASE s # <<>>
    <3>1. Append(s, l)[1] = s[1] /\ Append(s, k)[1] = s[1]
      BY <2>2 DEF Stacks
    <3> QED BY <3>1 DEF EndOf
  <2> QED BY <2>1, <2>2
<1>2. PICK r : r = Held[s] \o EndOf(Append(s, k))
  OBVIOUS
<1>3. r \in Seq(Token) /\ TokensOf[k.toks] \in Seq(Token)
  <2>1. Held[s] \in Seq(Token)
    BY DEF Expansions, Holds
  <2> QED BY <1>2, <2>1, LexerText, EndType, ConcatProperties
<1>4. Remaining(Append(s, l)) = (x \o TokensOf[k.toks]) \o r
  BY <1>1, <1>2, RemainingTop
<1>5. Remaining(Append(s, k)) = TokensOf[k.toks] \o r
  BY <1>2, RemainingTop
<1>6. PICK a : a = TokensOf[k.toks]
  OBVIOUS
<1>8. a \in Seq(Token)
  BY <1>3, <1>6
<1>7. (x \o a) \o r = x \o (a \o r)
  BY <1>3, <1>8, ConcatAssociative
<1> QED BY <1>4, <1>5, <1>6, <1>7

LEMMA UncachedType ==
  ASSUME Expansions, StackOK
  PROVE  /\ Uncached = Remaining(Append(includeMacroStack, cur))
         /\ Append(includeMacroStack, cur) \in Stacks
         /\ Uncached \in Seq(Token)
<1>1. Uncached = Remaining(Append(includeMacroStack, cur))
  BY DEF Uncached, Remaining, EndOf
<1>2. Append(includeMacroStack, cur) \in Stacks
  BY DEF StackOK, Stacks
<1> QED BY <1>1, <1>2, RemainingType

LEMMA PopKeeps ==
  ASSUME Expansions, StackOK, includeMacroStack # <<>>, PopIncludeMacroStack, cur.toks = <<>>
  PROVE  Uncached' = Uncached
<1>1. PICK s, l : s = Front(includeMacroStack) /\ l = Last(includeMacroStack)
  OBVIOUS
<1>2. s \in Stacks /\ l \in LexerState /\ includeMacroStack \in Stacks
  BY <1>1, LastFront DEF StackOK, Stacks
<1>3. Append(s, l) = includeMacroStack
  <2>1. IsPushed(LexerState, includeMacroStack, s, l)
    BY <1>1, ElementPopped DEF StackOK
  <2>2. Append(s, l) \in Seq(LexerState) /\ Len(Append(s, l)) = Len(s) + 1
        /\ Append(s, l)[Len(s) + 1] = l /\ \A i \in 1 .. Len(s) : Append(s, l)[i] = s[i]
    BY <1>2, AppendLast DEF Stacks
  <2>3. \A i \in 1 .. Len(s) + 1 : i \in 1 .. Len(s) \/ i = Len(s) + 1
    BY <1>2 DEF Stacks
  <2>4. \A i \in 1 .. Len(s) + 1 : Append(s, l)[i] = includeMacroStack[i]
    BY <2>1, <2>2, <2>3 DEF IsPushed
  <2> QED BY <2>1, <2>2, <2>4, SeqEqual DEF IsPushed
<1>4. Uncached' = Remaining(includeMacroStack)
  BY <1>1, <1>3 DEF PopIncludeMacroStack, Uncached, Remaining, EndOf
<1>5. Uncached = TokensOf[<<>>] \o Remaining(includeMacroStack)
  BY <1>2, RemainingPushed, UncachedType DEF StackOK
<1>6. TokensOf[<<>>] = <<>>
  BY TextTokens DEF Expansions
<1>7. Remaining(includeMacroStack) \in Seq(Token)
  BY <1>2, RemainingType
<1> QED BY <1>4, <1>5, <1>6, <1>7, ConcatEmptySeq

LEMMA EnterKeeps ==
  ASSUME Expansions, StackOK, EnterCachingLexMode
  PROVE  Uncached' = Uncached
<1>1. CASE InCachingLexMode
  BY <1>1 DEF EnterCachingLexMode, Uncached
<1>2. CASE ~InCachingLexMode
  <2>1. includeMacroStack' = Append(includeMacroStack, cur) /\ cur' = CachingLexer
    BY <1>2 DEF EnterCachingLexMode, PushIncludeMacroStack
  <2>2. PICK s : s = Append(includeMacroStack, cur)
    OBVIOUS
  <2>3. s \in Stacks /\ s # <<>>
    BY <2>2 DEF StackOK, Stacks
  <2>4. CachingLexer \in LexerState /\ CachingLexer.toks = <<>>
    BY DEF CachingLexer, LexerState
  <2>5. Uncached' = Remaining(Append(s, CachingLexer))
    BY <2>1, <2>2 DEF Uncached, Remaining, EndOf
  <2>6. Remaining(Append(s, CachingLexer)) = TokensOf[<<>>] \o Remaining(s)
    BY <2>3, <2>4, RemainingPushed
  <2>7. TokensOf[<<>>] = <<>> /\ Remaining(s) \in Seq(Token)
    BY <2>3, TextTokens, RemainingType DEF Expansions
  <2> QED BY <2>2, <2>5, <2>6, <2>7, UncachedType, ConcatEmptySeq
<1> QED BY <1>1, <1>2

LEMMA ExitKeeps ==
  ASSUME Expansions, StackOK, EndedAreEmpty, ExitCachingLexMode
  PROVE  Uncached' = Uncached
<1>1. CASE InCachingLexMode
  BY <1>1, PopKeeps DEF ExitCachingLexMode, InCachingLexMode, EndedAreEmpty
<1>2. CASE ~InCachingLexMode
  BY <1>2 DEF ExitCachingLexMode, Uncached
<1> QED BY <1>1, <1>2

(* Lexing leaves the sequence of tokens as it is: each is expanded where it *)
(* stands.                                                                  *)
Unread == InFlight \o Uncached

LEMMA LexersKeepTokens ==
  ASSUME Expansions, IInv,
         \/ LexToken \/ SkipEmptyMacro \/ ExpandTrivialMacro \/ EnterMacro
         \/ EnterSourceFile \/ HandleEndOfFile \/ HandleEndOfTokenLexer
  PROVE  Unread' = Unread /\ UNCHANGED <<cache, calls, client>> /\ Running
<1>1. StackOK /\ KindAgrees /\ cur \in LexerState /\ includeMacroStack \in Stacks
      /\ NoTok \notin Token
  BY TokensAssumption DEF IInv, TypeOK, StackOK, Stacks, Token
<1>2. UNCHANGED <<cache, calls, client>> /\ Running
  BY DEF LexToken, SkipEmptyMacro, ExpandTrivialMacro, EnterMacro, EnterSourceFile,
         HandleEndOfFile, HandleEndOfTokenLexer, AtItem, AtEnd
<1>3. Uncached \in Seq(Token) /\ Unread = Uncached /\ Uncached = Remaining(Append(includeMacroStack, cur))
  <2>1. Uncached \in Seq(Token) /\ Uncached = Remaining(Append(includeMacroStack, cur)) /\ InFlight = <<>>
    BY <1>1, <1>2, UncachedType DEF Running, InFlight
  <2> QED BY <2>1, ConcatEmptySeq DEF Unread
<1>4. ASSUME cur.toks # <<>>
      PROVE  /\ Advanced \in LexerState /\ Advanced.kind = cur.kind /\ Advanced.toks = Tail(cur.toks)
             /\ Tail(cur.toks) \in Text /\ cur.toks \in Text
  <2>1. cur.toks \in Seq(Token \cup Item) /\ cur \in LexerState
    BY <1>1 DEF StackOK, LexerState
  <2>2. Tail(cur.toks) \in Seq(Token \cup Item)
    BY <1>4, <2>1, HeadTailProperties
  <2> QED BY <2>1, <2>2 DEF Advanced, LexerState, Text
<1>5. ASSUME cur.toks # <<>>, includeMacroStack' = includeMacroStack, cur' = Advanced,
             NEW x \in Seq(Token), TokensOf[cur.toks] = x \o TokensOf[Tail(cur.toks)], InFlight' = x
      PROVE  Unread' = Unread
  <2>3. PICK k \in LexerState : k = Advanced /\ k.kind = cur.kind /\ k.toks = Tail(cur.toks)
    BY <1>4, <1>5
  <2>4. TokensOf[cur.toks] = x \o TokensOf[k.toks]
    BY <1>5, <2>3
  <2>5. Remaining(Append(includeMacroStack, cur)) = x \o Remaining(Append(includeMacroStack, k))
    BY <1>1, <2>3, <2>4, RemainingRead
  <2>1. Uncached = x \o Remaining(Append(includeMacroStack, Advanced))
    BY <1>3, <2>3, <2>5
  <2>2. Uncached' = Remaining(Append(includeMacroStack, Advanced))
    BY <1>5 DEF Uncached, Remaining, EndOf
  <2> QED BY <1>3, <1>5, <2>1, <2>2 DEF Unread
<1>6. CASE LexToken
  <2>1. cur.toks # <<>> /\ Head(cur.toks) \in Token /\ ret' = Head(cur.toks) /\ cur' = Advanced
        /\ includeMacroStack' = includeMacroStack
    BY <1>6 DEF LexToken, AtItem
  <2>2. TokensOf[cur.toks] = <<Head(cur.toks)>> \o TokensOf[Tail(cur.toks)]
    BY <1>4, <2>1, TextTokens DEF Expansions
  <2>3. InFlight' = <<Head(cur.toks)>> /\ <<Head(cur.toks)>> \in Seq(Token)
    BY <1>1, <2>1 DEF InFlight
  <2> QED BY <1>2, <1>5, <2>1, <2>2, <2>3
<1>7. ASSUME AtItem(Macros \cup Headers)
      PROVE  /\ cur.toks # <<>> /\ Head(cur.toks) \notin Token /\ Body[Head(cur.toks)] \in Text
             /\ TokensOf[cur.toks] = TokensOf[Body[Head(cur.toks)]] \o TokensOf[Tail(cur.toks)]
             /\ TokensOf[Body[Head(cur.toks)]] \in Seq(Token)
  <2>1. cur.toks # <<>> /\ Head(cur.toks) \in Macros \cup Headers
    BY <1>7 DEF AtItem
  <2>2. Head(cur.toks) \notin Token
    BY <2>1, TokensAssumption DEF Token
  <2>3. Body[Head(cur.toks)] \in Text
    BY <1>4, <2>1, <2>2, TextHeadTail
  <2> QED BY <1>4, <2>1, <2>2, <2>3, TextTokens DEF Expansions
<1>8. CASE SkipEmptyMacro
  <2>1. AtItem(Macros \cup Headers) /\ Body[Head(cur.toks)] = <<>> /\ cur' = Advanced
        /\ includeMacroStack' = includeMacroStack /\ ret' = ret
    BY <1>8 DEF SkipEmptyMacro, AtItem
  <2>2. TokensOf[<<>>] = <<>> /\ <<>> \in Seq(Token)
    BY TextTokens DEF Expansions
  <2>3. InFlight' = <<>>
    BY <1>2, <2>1 DEF InFlight, Running
  <2> QED BY <1>2, <1>5, <1>7, <2>1, <2>2, <2>3
<1>9. CASE ExpandTrivialMacro
  <2> DEFINE b == Body[Head(cur.toks)]
  <2>1. AtItem(Macros \cup Headers) /\ Len(b) = 1 /\ Head(b) \in Plain /\ cur' = Advanced
        /\ includeMacroStack' = includeMacroStack /\ ret' = Head(b)
    BY <1>9 DEF ExpandTrivialMacro, AtItem, Trivial
  <2>2. b \in Text
    BY <1>7, <2>1
  <2>3. b = <<Head(b)>> /\ <<Head(b)>> \in Seq(Token) /\ Head(b) \in Token
    <3> HIDE DEF b
    <3>1. Head(b) \in Token
      BY <2>1 DEF Token
    <3>2. b = <<b[1]>> /\ Head(b) = b[1]
      BY <2>1, <2>2 DEF Text
    <3> QED BY <3>1, <3>2
  <2>4. TokensOf[b] = <<Head(b)>>
    <3> HIDE DEF b
    <3> QED BY <2>3, TokensAreThemselves DEF Expansions
  <2>5. InFlight' = <<Head(b)>>
    BY <1>1, <2>1, <2>3 DEF InFlight
  <2> QED BY <1>2, <1>5, <1>7, <2>1, <2>3, <2>4, <2>5
<1>10. CASE EnterMacro \/ EnterSourceFile
  <2> DEFINE b == Body[Head(cur.toks)]
  <2>1. AtItem(Macros \cup Headers) /\ includeMacroStack' = Append(includeMacroStack, Advanced)
        /\ (cur' = TokenLexer(b) \/ cur' = FileLexer(b)) /\ ret' = ret
    BY <1>10 DEF EnterMacro, EnterSourceFile, AtItem
  <2>2. b \in Text /\ TokensOf[b] \in Seq(Token) /\ cur.toks # <<>>
        /\ TokensOf[cur.toks] = TokensOf[b] \o TokensOf[Tail(cur.toks)]
    BY <1>7, <2>1
  <2> HIDE DEF b
  <2>3. cur' \in LexerState /\ cur'.toks = b
    BY <2>1, <2>2 DEF TokenLexer, FileLexer, LexerState, Text
  <2>4. PICK s : s = Append(includeMacroStack, Advanced)
    OBVIOUS
  <2>5. s \in Stacks /\ s # <<>>
    BY <1>1, <1>4, <2>2, <2>4 DEF Stacks
  <2>6. PICK l \in LexerState : l = cur'
    BY <2>3
  <2>7. Uncached' = Remaining(Append(s, l))
    BY <2>1, <2>4, <2>6 DEF Uncached, Remaining, EndOf
  <2>8. Remaining(Append(s, l)) = TokensOf[b] \o Remaining(s)
    BY <2>3, <2>5, <2>6, RemainingPushed
  <2>9. Uncached = TokensOf[b] \o Remaining(s)
    <3>1. PICK k \in LexerState : k = Advanced /\ k.kind = cur.kind /\ k.toks = Tail(cur.toks)
      BY <1>4, <2>2
    <3>2. PICK x \in Seq(Token) : x = TokensOf[b]
      BY <2>2
    <3>3. TokensOf[cur.toks] = x \o TokensOf[k.toks]
      BY <2>2, <3>1, <3>2
    <3>4. Remaining(Append(includeMacroStack, cur)) = x \o Remaining(Append(includeMacroStack, k))
      BY <1>1, <3>1, <3>3, RemainingRead
    <3> QED BY <1>3, <2>4, <3>1, <3>2, <3>4
  <2>10. Unread' = Uncached'
    <3>1. InFlight' = <<>>
      BY <1>2, <2>1 DEF InFlight, Running
    <3>2. Uncached' \in Seq(Token)
      BY <1>3, <2>7, <2>8, <2>9
    <3> QED BY <3>1, <3>2, ConcatEmptySeq DEF Unread
  <2> QED BY <1>2, <1>3, <2>7, <2>8, <2>9, <2>10
<1>11. CASE HandleEndOfTokenLexer \/ (HandleEndOfFile /\ includeMacroStack # <<>>)
  <2>1. cur.toks = <<>> /\ includeMacroStack # <<>> /\ PopIncludeMacroStack /\ ret' = ret
    BY <1>1, <1>11 DEF HandleEndOfTokenLexer, HandleEndOfFile, AtEnd, KindAgrees
  <2>2. Uncached' = Uncached
    BY <1>1, <2>1, PopKeeps
  <2> QED BY <1>2, <2>1, <2>2 DEF Unread, InFlight
<1>12. CASE HandleEndOfFile /\ includeMacroStack = <<>>
  <2>1. ret' = Eof /\ cur' = [clk |-> cur.clk, kind |-> "none", toks |-> <<>>]
        /\ includeMacroStack' = <<>> /\ cur.kind = "file" /\ cur.toks = <<>> /\ includeMacroStack = <<>>
    BY <1>12 DEF HandleEndOfFile, AtEnd
  <2>2. TokensOf[<<>>] = <<>>
    BY TextTokens DEF Expansions
  <2>3. Held[<<>>] = <<>>
    <3>1. <<>> \in Stacks
      BY DEF Stacks
    <3> QED BY <3>1 DEF Expansions, Holds
  <2>4. Append(<<>>, cur)[1] = cur /\ Append(<<>>, cur')[1] = cur'
    OBVIOUS
  <2>5. cur' \in LexerState /\ <<>> \in Stacks /\ cur'.toks = <<>> /\ cur'.kind = "none"
    BY <1>1, <2>1 DEF LexerState, Stacks
  <2>6. PICK l \in LexerState : l = cur'
    BY <2>5
  <2>10. <<>> \o <<>> = <<>>
    OBVIOUS
  <2>11. Holds
    BY DEF Expansions
  <2>12. Held[Append(<<>>, cur)] = TokensOf[cur.toks] \o Held[<<>>]
    BY <1>1, <2>5, <2>11, PushedHeld
  <2>13. Held[Append(<<>>, l)] = TokensOf[l.toks] \o Held[<<>>]
    BY <2>5, <2>11, PushedHeld
  <2>7. Held[Append(<<>>, cur)] = <<>> /\ Held[Append(<<>>, l)] = <<>>
    BY <2>1, <2>2, <2>3, <2>5, <2>6, <2>10, <2>12, <2>13
  <2>8. Uncached = <<>> \o <<Eof>> /\ Uncached' = <<>> \o <<>>
    BY <2>1, <2>4, <2>5, <2>6, <2>7 DEF Uncached
  <2>9. InFlight' = <<Eof>>
    BY <2>1, TokensAssumption DEF InFlight
  <2> QED BY <1>2, <1>3, <2>8, <2>9 DEF Unread
<1> QED BY <1>6, <1>8, <1>9, <1>10, <1>11, <1>12, <1>2

-----------------------------------------------------------------------------
(* What the abstract stream is, in terms of the cache and of the lexers.    *)

(* Where PeekAhead runs, the placeholder is behind the reading position.    *)
PeekRoom == Peeking => cachedLexPos < Len(cachedTokens)

RefInv == EndedAreEmpty /\ PeekRoom

LEMMA LexerActionsEnd ==
  ASSUME IInv, EndedAreEmpty,
         \/ LexToken \/ SkipEmptyMacro \/ ExpandTrivialMacro \/ EnterMacro
         \/ EnterSourceFile \/ HandleEndOfFile \/ HandleEndOfTokenLexer
  PROVE  EndedAreEmpty'
<1>1. StackOK /\ KindAgrees /\ cur \in LexerState
  BY DEF IInv, TypeOK, StackOK
<1>2. CASE LexToken \/ SkipEmptyMacro \/ ExpandTrivialMacro
  <2>1. includeMacroStack' = includeMacroStack /\ cur' = Advanced /\ cur.kind # "none"
    BY <1>2 DEF LexToken, SkipEmptyMacro, ExpandTrivialMacro, AtItem
  <2>2. cur'.kind # "none"
    BY <1>1, <2>1 DEF Advanced, LexerState
  <2> QED BY <2>1, <2>2 DEF EndedAreEmpty
<1>3. CASE EnterMacro \/ EnterSourceFile
  <2>1. includeMacroStack' = Append(includeMacroStack, Advanced) /\ cur.kind # "none" /\ cur.toks # <<>>
        /\ (cur' = TokenLexer(Body[Head(cur.toks)]) \/ cur' = FileLexer(Body[Head(cur.toks)]))
    BY <1>3 DEF EnterMacro, EnterSourceFile, AtItem
  <2>2. cur'.kind # "none"
    BY <2>1 DEF TokenLexer, FileLexer
  <2>3. cur.toks \in Seq(Token \cup Item)
    BY <1>1 DEF LexerState
  <2>4. Tail(cur.toks) \in Seq(Token \cup Item)
    BY <2>1, <2>3, HeadTailProperties
  <2>6. Advanced \in LexerState /\ Advanced.kind = cur.kind
    BY <1>1, <2>4 DEF Advanced, LexerState
  <2>5. PICK l \in LexerState : l = Advanced /\ l.kind = cur.kind
    BY <2>6
  <2> QED BY <1>1, <2>1, <2>2, <2>5, PushEnd
<1>4. CASE HandleEndOfTokenLexer \/ (HandleEndOfFile /\ includeMacroStack # <<>>)
  <2>1. cur.toks = <<>> /\ includeMacroStack # <<>> /\ PopIncludeMacroStack
    BY <1>1, <1>4 DEF HandleEndOfTokenLexer, HandleEndOfFile, AtEnd, KindAgrees
  <2> QED BY <1>1, <2>1, PopEnd DEF SameEnd
<1>5. CASE HandleEndOfFile /\ includeMacroStack = <<>>
  BY <1>5 DEF HandleEndOfFile, EndedAreEmpty
<1> QED BY <1>2, <1>3, <1>4, <1>5

LEMMA RefInvInit == Init => RefInv
BY DEF Init, RefInv, EndedAreEmpty, PeekRoom, Peeking, FileLexer

LEMMA RefInvNext == ASSUME ~NestedStreams, IInv, RefInv, [Next]_vars PROVE RefInv'
<1>1. StackOK /\ KindAgrees /\ EndedAreEmpty /\ cur \in LexerState /\ cachedTokens \in Seq(Token) /\ cachedLexPos \in Nat
      /\ cachedLexPos <= Len(cachedTokens)
  BY DEF IInv, TypeOK, StackOK, RefInv, PositionsInCache
<1>2. CASE UNCHANGED vars
  BY <1>2 DEF vars, lexers, cache, RefInv, EndedAreEmpty, PeekRoom, Peeking
<1>3. CASE \/ LexToken \/ SkipEmptyMacro \/ ExpandTrivialMacro \/ EnterMacro
           \/ EnterSourceFile \/ HandleEndOfFile \/ HandleEndOfTokenLexer
  <2>1. UNCHANGED <<cache, calls>>
    BY <1>3 DEF LexToken, SkipEmptyMacro, ExpandTrivialMacro, EnterMacro, EnterSourceFile,
           HandleEndOfFile, HandleEndOfTokenLexer
  <2> QED BY <1>1, <1>3, <2>1, LexerActionsEnd DEF cache, RefInv, PeekRoom, Peeking
<1>4. CASE CachingLex
  <2>1. calls = <<LexCall>>
    BY <1>4 DEF CachingLex, Running, IInv, CallShape
  <2>2. ~Peeking'
    <3>1. calls' = calls \/ calls' = <<LexCall, CachingLexCall>>
      BY <1>4, <2>1, CallFacts DEF CachingLex
    <3>2. calls'[1] = LexCall
      BY <2>1, <3>1
    <3> QED BY <3>2, CallFacts DEF Peeking
  <2>3. EndedAreEmpty'
    BY <1>1, <1>4, ExitEnd DEF CachingLex, SameEnd, EndedAreEmpty
  <2> QED BY <2>2, <2>3 DEF RefInv, PeekRoom
<1>5. CASE CachingLexReturn
  <2>1. calls = <<LexCall, CachingLexCall>>
    <3>1. Last(calls).fn = "CachingLex" /\ calls # <<>>
      BY <1>5 DEF CachingLexReturn, Returning
    <3>2. CASE Len(calls) = 1 /\ calls[1].fn = "PeekAhead"
      BY <3>1, <3>2, OneCall
    <3> QED BY <3>1, <3>2, CallFacts DEF IInv, CallShape
  <2>2. ~Peeking'
    <3>1. calls' = <<LexCall>>
      BY <1>5, <2>1, CallFacts DEF CachingLexReturn
    <3> QED BY <3>1, CallFacts DEF Peeking
  <2>3. EndedAreEmpty'
    BY <1>1, <1>5, EnterEnd DEF CachingLexReturn, SameEnd, EndedAreEmpty
  <2> QED BY <2>2, <2>3 DEF RefInv, PeekRoom
<1>6. CASE PeekAheadReturn
  <2>1. EndedAreEmpty'
    BY <1>1, <1>6, EnterEnd DEF PeekAheadReturn, SameEnd, EndedAreEmpty
  <2>2. Len(calls) = 1 /\ calls[1].fn = "PeekAhead"
    <3>1. Last(calls).fn = "PeekAhead" /\ calls # <<>>
      BY <1>6 DEF PeekAheadReturn, Returning
    <3> QED BY <3>1, CallFacts DEF IInv, CallShape
  <2>3. PeekRoom'
    <3>1. CASE Last(calls).c > 1
      <4>1. cachedTokens' = Append([cachedTokens EXCEPT ![Len(cachedTokens)] = ret], Unknown)
            /\ cachedLexPos' = cachedLexPos
        BY <1>6, <3>1 DEF PeekAheadReturn
      <4>2. PICK f : f = [cachedTokens EXCEPT ![Len(cachedTokens)] = ret]
        OBVIOUS
      <4>4. Len(f) = Len(cachedTokens)
        BY <1>1, <4>2
      <4>3. Len(cachedTokens') = Len(cachedTokens) + 1
        BY <4>1, <4>2, <4>4
      <4> QED BY <1>1, <4>1, <4>3 DEF PeekRoom
    <3>2. CASE ~(Last(calls).c > 1)
      <4>1. calls' = <<>>
        BY <1>6, <2>2, <3>2, OneCall DEF PeekAheadReturn
      <4> QED BY <4>1 DEF PeekRoom, Peeking
    <3> QED BY <3>1, <3>2
  <2> QED BY <2>1, <2>3 DEF RefInv
<1>7. CASE LexReturn
  <2>1. calls = <<LexCall>>
    <3>1. Last(calls).fn = "Lex" /\ calls # <<>>
      BY <1>7 DEF LexReturn, Returning
    <3>2. CASE Len(calls) = 1 /\ calls[1].fn = "PeekAhead"
      BY <3>1, <3>2, OneCall
    <3> QED BY <3>1, <3>2, CallFacts DEF IInv, CallShape
  <2>2. calls' = <<>> /\ UNCHANGED lexers
    BY <1>7, <2>1, CallFacts DEF LexReturn
  <2> QED BY <2>2 DEF lexers, RefInv, PeekRoom, Peeking, EndedAreEmpty
<1>8. CASE ClientCall
  <2>1. calls = <<>>
    BY <1>8 DEF ClientCall, Lex, LookAhead, EnableBacktrackAtThisPos, CommitBacktrackedTokens, Backtrack,
         RevertCachedTokens, EnterToken, EnterTokenStream, AnnotateCachedTokens, TypoCorrectToken, Idle
  <2>2. CASE Lex
    <3>1. ~Peeking' /\ UNCHANGED lexers
      BY <2>2, CallFacts DEF Lex, Peeking
    <3> QED BY <3>1 DEF lexers, RefInv, PeekRoom, EndedAreEmpty
  <2>3. CASE \E n \in 0 .. MaxLookAhead : LookAhead(n)
    <3>1. PICK n \in 0 .. MaxLookAhead : LookAhead(n)
      BY <2>3
    <3>2. EndedAreEmpty'
      BY <1>1, <3>1, ExitEnd DEF LookAhead, SameEnd, EndedAreEmpty
    <3>3. PeekRoom'
      <4>1. CASE cachedLexPos + n < Len(cachedTokens)
        BY <2>1, <3>1, <4>1 DEF LookAhead, PeekRoom, Peeking
      <4>2. CASE ~(cachedLexPos + n < Len(cachedTokens))
        <5>1. cachedTokens' = Append(cachedTokens, Unknown) /\ cachedLexPos' = cachedLexPos
          BY <3>1, <4>2 DEF LookAhead
        <5>2. Len(cachedTokens') = Len(cachedTokens) + 1
          BY <1>1, <5>1
        <5> QED BY <1>1, <5>1, <5>2 DEF PeekRoom
      <4> QED BY <4>1, <4>2
    <3> QED BY <3>2, <3>3 DEF RefInv
  <2>4. CASE EnableBacktrackAtThisPos \/ \E e \in {tok} \cup Synthesized, t \in Synthesized : EnterToken(e, t)
    <3>1. calls' = calls /\ EnterCachingLexMode
      BY <2>4 DEF EnableBacktrackAtThisPos, EnterToken
    <3> QED BY <1>1, <2>1, <3>1, EnterEnd DEF SameEnd, RefInv, PeekRoom, Peeking
  <2>5. CASE \/ CommitBacktrackedTokens
             \/ \E n \in 1..MaxCached, t \in {tok} \cup Synthesized : RevertCachedTokens(n, t)
             \/ \E k \in 1..MaxCached, t \in Synthesized : AnnotateCachedTokens(k, t)
             \/ \E t \in Synthesized : TypoCorrectToken(t)
    <3>1. calls' = calls /\ UNCHANGED lexers
      BY <2>5 DEF CommitBacktrackedTokens, RevertCachedTokens, AnnotateCachedTokens, TypoCorrectToken
    <3> QED BY <2>1, <3>1 DEF lexers, RefInv, PeekRoom, Peeking, EndedAreEmpty
  <2>6. CASE Backtrack
    <3>1. calls' = calls /\ includeMacroStack' = includeMacroStack /\ recomputeCurLexerKind
      BY <2>6 DEF Backtrack
    <3>2. cur'.kind = cur.kind /\ cur'.toks = cur.toks
      BY <1>1, <3>1 DEF recomputeCurLexerKind, LexerState
    <3> QED BY <1>1, <2>1, <3>1, <3>2 DEF RefInv, PeekRoom, Peeking, EndedAreEmpty
  <2>7. CASE \E s \in Streams : EnterTokenStream(s)
    <3>1. PICK s \in Streams : EnterTokenStream(s)
      BY <2>7
    <3>2. includeMacroStack' = Append(includeMacroStack, cur) /\ cur' = TokenLexer(Append(s, tok))
          /\ calls' = <<LexCall>>
      BY <3>1 DEF EnterTokenStream, PushIncludeMacroStack
    <3>3. cur'.kind = "tokens" /\ ~Peeking'
      BY <3>2, CallFacts DEF TokenLexer, Peeking
    <3>4. EndedAreEmpty'
      BY <1>1, <3>2, <3>3, PushEnd DEF EndedAreEmpty
    <3> QED BY <3>3, <3>4 DEF RefInv, PeekRoom
  <2> QED BY <1>8, <2>2, <2>3, <2>4, <2>5, <2>6, <2>7 DEF ClientCall
<1> QED BY <1>2, <1>3, <1>4, <1>5, <1>6, <1>7, <1>8 DEF Next, LexerStep

(* What the stream and the marks are made of: the cache from a position on, *)
(* and what lies behind the cache.                                          *)
MarksOf(c, b, u) == [i \in DOMAIN b |-> Beyond(c, b[i]) \o u]

Behind == IF FromCache THEN Uncached ELSE Unread

Shown ==
  /\ Cached \in Seq(Token) /\ Uncached \in Seq(Token) /\ Unread \in Seq(Token) /\ Behind \in Seq(Token)
  /\ cachedLexPos \in Nat /\ cachedLexPos <= Len(Cached)
  /\ backtrackPositions \in Seq(Nat)
  /\ \A i \in DOMAIN backtrackPositions : backtrackPositions[i] <= cachedLexPos
  /\ \A i, j \in DOMAIN backtrackPositions : i <= j => backtrackPositions[i] <= backtrackPositions[j]
  /\ Future = (IF FromCache THEN <<ret>> ELSE <<>>) \o (Beyond(Cached, cachedLexPos) \o Behind)
  /\ Marks = MarksOf(Cached, backtrackPositions, Behind)

LEMMA CachedType ==
  ASSUME IInv, PeekRoom
  PROVE  /\ Cached \in Seq(Token) /\ cachedLexPos <= Len(Cached)
         /\ Peeking => Len(Cached) = Len(cachedTokens) - 1
<1>1. cachedTokens \in Seq(Token) /\ cachedLexPos \in Nat /\ cachedLexPos <= Len(cachedTokens)
      /\ Len(cachedTokens) \in Nat
  BY DEF IInv, TypeOK, PositionsInCache
<1>2. CASE Peeking
  <2>1. cachedTokens # <<>> /\ cachedLexPos < Len(cachedTokens)
    BY <1>1, <1>2 DEF PeekRoom
  <2>2. Front(cachedTokens) \in Seq(Token) /\ Len(Front(cachedTokens)) = Len(cachedTokens) - 1
    BY <1>1, <2>1, LastFront
  <2> QED BY <1>1, <1>2, <2>1, <2>2 DEF Cached
<1>3. CASE ~Peeking
  BY <1>1, <1>3 DEF Cached
<1> QED BY <1>2, <1>3

LEMMA ShownHolds == Expansions => (IInv /\ RefInv => Shown)
<1> SUFFICES ASSUME Expansions, IInv, RefInv PROVE Shown
  OBVIOUS
<1>1. /\ Cached \in Seq(Token) /\ cachedLexPos \in Nat /\ cachedLexPos <= Len(Cached)
      /\ backtrackPositions \in Seq(Nat) /\ PositionsInCache /\ StackOK
      /\ ret \in Token \cup {NoTok} /\ NoTok \notin Token
  BY CachedType, TokensAssumption DEF IInv, TypeOK, StackOK, RefInv, Token
<1>2. Uncached \in Seq(Token)
  BY <1>1, UncachedType
<1>3. InFlight \in Seq(Token)
  BY <1>1 DEF InFlight
<1>4. Unread \in Seq(Token) /\ Behind \in Seq(Token)
  BY <1>2, <1>3, ConcatProperties DEF Unread, Behind
<1>5. \A b \in Nat : b <= cachedLexPos => Beyond(Cached, b) \in Seq(Token)
  BY <1>1, BeyondType
<1>6. ASSUME ret # NoTok, ~Peeking, ~FromCache
      PROVE  Beyond(Cached, cachedLexPos) = <<>>
  <2>1. cachedLexPos = Len(cachedTokens)
    <3>4. /\ <<LexCall>> # <<LexCall, CachingLexCall>> /\ <<LexCall>> # <<>>
          /\ calls # <<>> => calls = <<LexCall>> \/ calls = <<LexCall, CachingLexCall>>
      BY <1>6, CallIs
    <3>5. CallShape /\ cachedTokens \in Seq(Token) /\ cachedLexPos \in Nat
      BY DEF IInv, TypeOK
    <3>1. CASE calls = <<LexCall>>
      <4>1. ~InCachingLexMode
        BY <1>6, <3>1, CallFacts DEF FromCache
      <4>2. cachedTokens = <<>>
        BY <1>6, <3>1, <3>4, <3>5, <4>1 DEF CallShape, AtRest, Peeking
      <4> QED BY <1>1, <1>6, <4>2 DEF Cached
    <3>2. CASE calls = <<LexCall, CachingLexCall>>
      BY <1>6, <3>2, <3>4, <3>5 DEF CallShape, Peeking
    <3>3. calls # <<>>
      <4>1. <<LexCall, CachingLexCall>> # <<>> /\ Len(<<>>) = 0
        OBVIOUS
      <4>2. ASSUME Len(calls) = 1 PROVE calls # <<>>
        BY <4>1, <4>2
      <4>3. ret # NoTok /\ CallShape
        BY <1>6, <3>5
      <4> QED BY <3>4, <4>1, <4>2, <4>3, Zenon DEF CallShape
    <3> QED BY <3>1, <3>2, <3>3, <3>4
  <2>2. Cached = cachedTokens /\ cachedLexPos <= Len(Cached)
    BY <1>1, <1>6 DEF Cached
  <2> QED BY <1>1, <2>1, <2>2, SliceEnds
<1>7. \A b : From(b) = Beyond(Cached, b)
  BY DEF From, Beyond
<1>8. Future = (IF FromCache THEN <<ret>> ELSE <<>>) \o (Beyond(Cached, cachedLexPos) \o Behind)
  <2>1. PICK x : x = Beyond(Cached, cachedLexPos)
    OBVIOUS
  <2>2. x \in Seq(Token)
    BY <1>1, <1>5, <2>1
  <2>3. PICK y : y = x \o Behind
    OBVIOUS
  <2>4. y \in Seq(Token) /\ <<>> \o y = y /\ x \o <<>> = x /\ <<>> \o x = x
    BY <1>4, <2>2, <2>3, ConcatProperties, ConcatEmptySeq
  <2>5. CASE Peeking
    <3>1. ~FromCache
      BY <2>5, CallIs, OneCall DEF FromCache, Peeking
    <3>2. Future = (x \o InFlight) \o Uncached
      BY <1>7, <2>1, <2>5 DEF Future
    <3>3. (x \o InFlight) \o Uncached = x \o (InFlight \o Uncached)
      BY <1>2, <1>3, <2>2, ConcatAssociative
    <3> QED BY <2>1, <2>3, <2>4, <3>1, <3>2, <3>3 DEF Behind, Unread
  <2>6. CASE ~Peeking /\ ret = NoTok
    <3>1. InFlight = <<>> /\ ~FromCache
      BY <2>6 DEF InFlight, FromCache
    <3>2. Future = (<<>> \o x) \o Uncached
      BY <1>7, <2>1, <2>6, <3>1 DEF Future
    <3>3. Unread = Uncached
      BY <1>2, <3>1, ConcatEmptySeq DEF Unread
    <3> QED BY <2>1, <2>3, <2>4, <3>1, <3>2, <3>3 DEF Behind
  <2>7. CASE ~Peeking /\ ret # NoTok /\ ~FromCache
    <3>1. x = <<>>
      BY <1>6, <2>1, <2>7
    <3>2. Future = (InFlight \o <<>>) \o Uncached
      BY <1>7, <2>1, <2>7, <3>1 DEF Future
    <3>3. InFlight \o <<>> = InFlight /\ <<>> \o Unread = Unread
      BY <1>3, <1>4, ConcatEmptySeq
    <3> QED BY <2>1, <2>3, <2>4, <2>7, <3>1, <3>2, <3>3 DEF Behind, Unread
  <2>8. CASE ~Peeking /\ ret # NoTok /\ FromCache
    <3>1. InFlight = <<ret>> /\ Behind = Uncached
      BY <2>8 DEF InFlight, Behind
    <3>2. Future = (<<ret>> \o x) \o Uncached
      BY <1>7, <2>1, <2>8, <3>1 DEF Future
    <3>4. <<ret>> \in Seq(Token)
      BY <1>3, <3>1
    <3>3. (<<ret>> \o x) \o Uncached = <<ret>> \o (x \o Uncached)
      BY <1>2, <2>2, <3>4, ConcatAssociative
    <3> QED BY <2>1, <2>8, <3>1, <3>2, <3>3
  <2> QED BY <2>5, <2>6, <2>7, <2>8
<1>9. ASSUME NEW i \in DOMAIN backtrackPositions
      PROVE  Mark(backtrackPositions[i]) = Beyond(Cached, backtrackPositions[i]) \o Behind
  <2>1. PICK b \in Nat : b = backtrackPositions[i] /\ b <= cachedLexPos
    BY <1>1 DEF PositionsInCache
  <2>2. PICK x \in Seq(Token) : x = Beyond(Cached, b)
    BY <1>5, <2>1
  <2>3. (x \o InFlight) \o Uncached = x \o (InFlight \o Uncached)
    BY <1>2, <1>3, <2>2, ConcatAssociative
  <2> QED BY <1>7, <2>1, <2>2, <2>3 DEF Mark, Behind, Unread
<1>10. Marks = MarksOf(Cached, backtrackPositions, Behind)
  BY <1>9 DEF Marks, MarksOf
<1> QED BY <1>1, <1>2, <1>4, <1>8, <1>10 DEF Shown, PositionsInCache

LEMMA ShownNext == ASSUME Expansions, IInv', RefInv' PROVE Shown'
<1>1. (Expansions => (IInv /\ RefInv => Shown))'
  BY ShownHolds, PTL
<1> QED BY <1>1

-----------------------------------------------------------------------------
(* Rewriting tokens that were read rewrites what each mark has in front of  *)
(* it.                                                                      *)

LEMMA TokensConcat ==
  \A x, y, z \in Seq(Token) : x \o y \in Seq(Token) /\ (x \o y) \o z = x \o (y \o z)
<1> SUFFICES ASSUME NEW x \in Seq(Token), NEW y \in Seq(Token), NEW z \in Seq(Token)
             PROVE  x \o y \in Seq(Token) /\ (x \o y) \o z = x \o (y \o z)
  OBVIOUS
<1> QED BY ConcatProperties, ConcatAssociative

(* A token goes from behind the cache to the end of it.                     *)
LEMMA Stored ==
  ASSUME NEW c \in Seq(Token), NEW e \in Token, NEW u \in Seq(Token), NEW p \in Nat, p <= Len(c)
  PROVE  Beyond(Append(c, e), p) \o u = Beyond(c, p) \o (<<e>> \o u)
<1>1. PICK x : x = Beyond(c, p)
  OBVIOUS
<1>2. x \in Seq(Token) /\ <<e>> \in Seq(Token)
  BY <1>1, BeyondType
<1>3. Beyond(Append(c, e), p) = x \o <<e>>
  BY <1>1, BeyondAppend
<1>4. (x \o <<e>>) \o u = x \o (<<e>> \o u)
  BY <1>2, ConcatAssociative
<1> QED BY <1>1, <1>3, <1>4

LEMMA MarksStored ==
  ASSUME NEW c \in Seq(Token), NEW e \in Token, NEW u \in Seq(Token), NEW b \in Seq(Nat),
         \A i \in DOMAIN b : b[i] <= Len(c)
  PROVE  MarksOf(Append(c, e), b, u) = MarksOf(c, b, <<e>> \o u)
<1>1. ASSUME NEW i \in DOMAIN b
      PROVE  Beyond(Append(c, e), b[i]) \o u = Beyond(c, b[i]) \o (<<e>> \o u)
  <2>1. PICK p \in Nat : p = b[i] /\ p <= Len(c)
    OBVIOUS
  <2>2. Beyond(Append(c, e), p) \o u = Beyond(c, p) \o (<<e>> \o u)
    BY <2>1, Stored
  <2> QED BY <2>1, <2>2
<1> QED BY <1>1 DEF MarksOf

LEMMA MarksType ==
  ASSUME NEW c \in Seq(Token), NEW u \in Seq(Token), NEW b \in Seq(Nat),
         \A i \in DOMAIN b : b[i] <= Len(c)
  PROVE  /\ MarksOf(c, b, u) \in Seq(Seq(Token)) /\ Len(MarksOf(c, b, u)) = Len(b)
         /\ DOMAIN MarksOf(c, b, u) = DOMAIN b
         /\ \A i \in DOMAIN b : /\ MarksOf(c, b, u)[i] = Beyond(c, b[i]) \o u
                                /\ MarksOf(c, b, u)[i] \in Seq(Token)
                                /\ Len(MarksOf(c, b, u)[i]) = Len(c) - b[i] + Len(u)
<1>1. ASSUME NEW i \in DOMAIN b
      PROVE  /\ Beyond(c, b[i]) \o u \in Seq(Token)
             /\ Len(Beyond(c, b[i]) \o u) = Len(c) - b[i] + Len(u)
  <2>1. PICK p \in Nat : p = b[i] /\ p <= Len(c)
    OBVIOUS
  <2>2. PICK x : x = Beyond(c, p)
    OBVIOUS
  <2>3. x \in Seq(Token) /\ Len(x) = Len(c) - p
    BY <2>1, <2>2, BeyondType
  <2>5. x \in Seq(Token)
    BY <2>3
  <2>4. x \o u \in Seq(Token) /\ Len(x \o u) = Len(x) + Len(u)
    BY <2>5, ConcatProperties
  <2> QED BY <2>1, <2>2, <2>3, <2>4
<1>2. DOMAIN b = 1 .. Len(b) /\ Len(b) \in Nat
  OBVIOUS
<1>3. /\ MarksOf(c, b, u) = [i \in 1 .. Len(b) |-> Beyond(c, b[i]) \o u]
      /\ \A i \in DOMAIN b : MarksOf(c, b, u)[i] = Beyond(c, b[i]) \o u
      /\ DOMAIN MarksOf(c, b, u) = DOMAIN b
  BY <1>2 DEF MarksOf
<1>4. PICK f : f = MarksOf(c, b, u)
  OBVIOUS
<1>5. f \in Seq(Seq(Token)) /\ Len(f) = Len(b)
  <2>1. f = [i \in 1 .. Len(b) |-> f[i]] /\ \A i \in 1 .. Len(b) : f[i] \in Seq(Token)
    BY <1>1, <1>2, <1>3, <1>4
  <2> QED BY <1>2, <2>1
<1> QED BY <1>1, <1>3, <1>4, <1>5

(* Replacing the last tokens that have been read: what TokenStream's        *)
(* Rewrite does to the futures the marks saved.                             *)
Rewriting(m, f, k, s) ==
  [i \in DOMAIN m |-> IF Len(m[i]) - Len(f) >= k
                      THEN SubSeq(m[i], 1, Len(m[i]) - Len(f) - k) \o s \o f
                      ELSE m[i]]

LEMMA Rewritten ==
  ASSUME NEW c \in Seq(Token), NEW t \in Token, NEW u \in Seq(Token), NEW b \in Seq(Nat),
         NEW p \in Nat, NEW q \in Nat, q <= p, p <= Len(c),
         \A i \in DOMAIN b : b[i] <= q \/ (b[i] = p /\ p = q + 1)
  PROVE  MarksOf(Spliced(c, q, p, t), b, u)
           = Rewriting(MarksOf(c, b, u), Beyond(c, p) \o u, p - q, <<t>>)
<1>0. Len(c) \in Nat /\ Len(u) \in Nat
  OBVIOUS
<1>1. PICK m : m = MarksOf(c, b, u)
  OBVIOUS
<1>2. PICK y : y = Beyond(c, p)
  OBVIOUS
<1>3. y \in Seq(Token) /\ Len(y) = Len(c) - p
  BY <1>2, BeyondType
<1>4. PICK f : f = y \o u
  OBVIOUS
<1>5. f \in Seq(Token) /\ Len(f) = Len(c) - p + Len(u)
  <2>1. Len(f) = Len(y) + Len(u) /\ f \in Seq(Token)
    BY <1>3, <1>4, ConcatProperties
  <2> QED BY <1>3, <2>1
<1>6. /\ DOMAIN m = DOMAIN b
      /\ \A i \in DOMAIN b : m[i] = Beyond(c, b[i]) \o u /\ Len(m[i]) = Len(c) - b[i] + Len(u)
  <2>1. \A i \in DOMAIN b : b[i] \in Nat /\ b[i] <= Len(c)
    BY <1>0
  <2>2. \A i \in DOMAIN b : b[i] <= Len(c)
    BY <2>1
  <2>3. /\ MarksOf(c, b, u) \in Seq(Seq(Token)) /\ Len(MarksOf(c, b, u)) = Len(b)
        /\ DOMAIN MarksOf(c, b, u) = DOMAIN b
        /\ \A i \in DOMAIN b : /\ MarksOf(c, b, u)[i] = Beyond(c, b[i]) \o u
                               /\ MarksOf(c, b, u)[i] \in Seq(Token)
                               /\ Len(MarksOf(c, b, u)[i]) = Len(c) - b[i] + Len(u)
    BY <2>2, MarksType
  <2> QED BY <1>1, <2>3
<1>7. ASSUME NEW i \in DOMAIN b
      PROVE  Beyond(Spliced(c, q, p, t), b[i]) \o u
               = IF Len(m[i]) - Len(f) >= p - q
                 THEN SubSeq(m[i], 1, Len(m[i]) - Len(f) - (p - q)) \o <<t>> \o f
                 ELSE m[i]
  <2>1. PICK a \in Nat : a = b[i] /\ a <= p /\ (a <= q \/ (a = p /\ p = q + 1))
    OBVIOUS
  <2>2. Len(m[i]) - Len(f) = p - a
    <3>1. Len(m[i]) = Len(c) - a + Len(u) /\ Len(f) = Len(c) - p + Len(u)
      BY <1>5, <1>6, <2>1
    <3> QED BY <1>0, <3>1
  <2>3. CASE a <= q
    <3>1. p - a >= p - q /\ p - a - (p - q) = q - a
      BY <2>3
    <3>2. Beyond(Spliced(c, q, p, t), a) = (Slice(c, a, q) \o <<t>>) \o y
      <4>1. IsSplice(Token, Spliced(c, q, p, t), c, q, p, t, a)
        BY <2>3, SplicedFacts
      <4> QED BY <1>2, <4>1 DEF IsSplice
    <3>3. q <= Len(c)
      BY <1>0
    <3>4. SubSeq(Beyond(c, a) \o u, 1, q - a) = Slice(c, a, q)
      BY <2>3, <3>3, BeyondBeyond
    <3>5. PICK x : x = Slice(c, a, q) \o <<t>>
      OBVIOUS
    <3>6. x \in Seq(Token)
      <4>1. IsSlice(Token, Slice(c, a, q), c, a, q)
        BY <2>3, <3>3, SliceFacts
      <4>2. Slice(c, a, q) \in Seq(Token) /\ <<t>> \in Seq(Token)
        BY <4>1 DEF IsSlice
      <4> QED BY <3>5, <4>2, ConcatProperties
    <3>9. y \in Seq(Token)
      BY <1>3
    <3>10. (x \o y) \o u = x \o (y \o u)
      BY <3>6, <3>9, TokensConcat
    <3>7. (x \o y) \o u = x \o f
      BY <1>4, <3>10
    <3>8. m[i] = Beyond(c, a) \o u
      BY <1>6, <2>1
    <3> QED BY <2>1, <2>2, <3>1, <3>2, <3>4, <3>5, <3>7, <3>8
  <2>4. CASE ~(a <= q)
    <3>1. a = q + 1 /\ ~(p - a >= p - q) /\ a = p
      BY <2>1, <2>4
    <3>2. Beyond(Spliced(c, q, p, t), a) = y
      <4>1. q <= q
        OBVIOUS
      <4>2. IsSplice(Token, Spliced(c, q, p, t), c, q, p, t, q)
        BY <4>1, SplicedFacts
      <4> QED BY <1>2, <3>1, <4>2 DEF IsSplice
    <3>3. m[i] = Beyond(c, a) \o u
      BY <1>6, <2>1
    <3> QED BY <1>2, <2>1, <2>2, <3>1, <3>2, <3>3
  <2> QED BY <2>3, <2>4
<1> QED BY <1>1, <1>2, <1>4, <1>6, <1>7 DEF MarksOf, Rewriting

-----------------------------------------------------------------------------
(* The steps inside a call: they leave the stream alone until it returns.   *)

(* No token in flight, and no placeholder: the cache, then the lexers.      *)
Quiet ==
  /\ cachedTokens \in Seq(Token) /\ Uncached \in Seq(Token)
  /\ cachedLexPos \in Nat /\ cachedLexPos <= Len(cachedTokens)
  /\ backtrackPositions \in Seq(Nat)
  /\ \A i \in DOMAIN backtrackPositions : backtrackPositions[i] <= cachedLexPos
  /\ \A i, j \in DOMAIN backtrackPositions : i <= j => backtrackPositions[i] <= backtrackPositions[j]
  /\ Future = Beyond(cachedTokens, cachedLexPos) \o Uncached
  /\ Marks = MarksOf(cachedTokens, backtrackPositions, Uncached)

Still == Future' = Future /\ Marks' = Marks /\ UNCHANGED client

LEMMA ShownQuiet ==
  ASSUME Shown, ret = NoTok
  PROVE  /\ ~FromCache /\ Behind = Uncached
         /\ Future = Beyond(Cached, cachedLexPos) \o Uncached
         /\ Marks = MarksOf(Cached, backtrackPositions, Uncached)
         /\ ~Peeking => Quiet
<1>1. ~FromCache /\ InFlight = <<>>
  BY DEF FromCache, InFlight
<1>2. Unread = Uncached /\ Behind = Uncached
  <2>1. <<>> \o Uncached = Uncached
    BY ConcatEmptySeq DEF Shown
  <2> QED BY <1>1, <2>1 DEF Unread, Behind
<1>3. Beyond(Cached, cachedLexPos) \o Uncached \in Seq(Token)
  <2>1. PICK x : x = Beyond(Cached, cachedLexPos)
    OBVIOUS
  <2>2. x \in Seq(Token)
    BY <2>1, BeyondType DEF Shown
  <2> QED BY <2>1, <2>2, TokensConcat DEF Shown
<1>4. Future = Beyond(Cached, cachedLexPos) \o Uncached
  <2>1. Future = <<>> \o (Beyond(Cached, cachedLexPos) \o Uncached)
    BY <1>1, <1>2 DEF Shown
  <2>2. PICK y \in Seq(Token) : y = Beyond(Cached, cachedLexPos) \o Uncached
    BY <1>3
  <2>3. <<>> \o y = y
    BY ConcatEmptySeq
  <2> QED BY <2>1, <2>2, <2>3
<1>5. Marks = MarksOf(Cached, backtrackPositions, Uncached)
  BY <1>2 DEF Shown
<1>6. ASSUME ~Peeking PROVE Quiet
  <2>1. Cached = cachedTokens
    BY <1>6 DEF Cached
  <2> QED BY <1>4, <1>5, <2>1 DEF Shown, Quiet
<1> QED BY <1>1, <1>2, <1>4, <1>5, <1>6

LEMMA ShownIsQuiet ==
  Shown => (ret = NoTok => /\ Future = Beyond(Cached, cachedLexPos) \o Uncached
                           /\ Marks = MarksOf(Cached, backtrackPositions, Uncached))
BY ShownQuiet

LEMMA QuietHolds == Shown => (ret = NoTok /\ ~Peeking => Quiet)
BY ShownQuiet

LEMMA QuietNext ==
  ASSUME Expansions, IInv', RefInv', ret' = NoTok, ~Peeking'
  PROVE  Quiet'
<1>1. Shown'
  BY ShownNext
<1>2. (Shown => (ret = NoTok /\ ~Peeking => Quiet))'
  BY QuietHolds, PTL
<1> QED BY <1>1, <1>2

LEMMA LexersAreSilent ==
  ASSUME Expansions, IInv, RefInv, IInv', RefInv',
         \/ LexToken \/ SkipEmptyMacro \/ ExpandTrivialMacro \/ EnterMacro
         \/ EnterSourceFile \/ HandleEndOfFile \/ HandleEndOfTokenLexer
  PROVE  Still
<1>1. Shown /\ Shown'
  BY ShownHolds, ShownNext
<1>2. Unread' = Unread /\ UNCHANGED <<cache, calls, client>> /\ Running
  BY LexersKeepTokens
<1>3. ret = NoTok /\ ~FromCache /\ Behind = Unread
  BY <1>2 DEF Running, FromCache, Behind
<1>4. ret' # NoTok => ~InCachingLexMode'
  <2>1. CASE LexToken \/ ExpandTrivialMacro
    <3>1. cur' = Advanced /\ cur.kind # "none" /\ cur \in LexerState
      BY <2>1 DEF LexToken, ExpandTrivialMacro, AtItem, IInv, TypeOK
    <3>2. cur'.kind # "none"
      BY <3>1 DEF Advanced, LexerState
    <3> QED BY <3>2 DEF InCachingLexMode
  <2>2. CASE SkipEmptyMacro \/ EnterMacro \/ EnterSourceFile \/ HandleEndOfTokenLexer
    BY <1>3, <2>2 DEF SkipEmptyMacro, EnterMacro, EnterSourceFile, HandleEndOfTokenLexer
  <2>3. CASE HandleEndOfFile
    BY <1>3, <2>3 DEF HandleEndOfFile, InCachingLexMode
  <2> QED BY <2>1, <2>2, <2>3
<1>5. ~FromCache' /\ Behind' = Unread'
  BY <1>4 DEF FromCache, Behind
<1>6. Cached' = Cached /\ cachedLexPos' = cachedLexPos /\ backtrackPositions' = backtrackPositions
  BY <1>2 DEF cache, Cached, Peeking
<1> QED BY <1>1, <1>2, <1>3, <1>5, <1>6 DEF Shown, Still

LEMMA CallsOfLex ==
  ASSUME IInv, Running, cur.clk = "CachingLexer"
  PROVE  calls = <<LexCall>> /\ ret = NoTok /\ ~Peeking
<1>1. calls = <<LexCall>> /\ ret = NoTok
  BY DEF Running, IInv, CallShape
<1> QED BY <1>1, CallIs

LEMMA CachingLexIsSilent ==
  ASSUME Expansions, IInv, RefInv, IInv', RefInv', CachingLex
  PROVE  Still
<1>1. /\ calls = <<LexCall>> /\ ret = NoTok /\ ~Peeking /\ InCachingLexMode /\ UNCHANGED client
      /\ cachedTokens' = cachedTokens /\ backtrackPositions' = backtrackPositions
  BY CallsOfLex DEF CachingLex
<1>2. Quiet
  BY <1>1, ShownHolds, QuietHolds
<1>3. CASE cachedLexPos < Len(cachedTokens)
  <2>1. /\ ret' = cachedTokens[cachedLexPos + 1] /\ cachedLexPos' = cachedLexPos + 1
        /\ UNCHANGED <<cur, includeMacroStack, calls>>
    BY <1>3 DEF CachingLex
  <2>2. ret' \in Token /\ NoTok \notin Token
    <3>1. cachedLexPos + 1 \in 1 .. Len(cachedTokens)
      BY <1>2, <1>3 DEF Quiet
    <3> QED BY <1>2, <2>1, <3>1, TokensAssumption DEF Quiet, Token
  <2>3. FromCache'
    BY <1>1, <2>1, <2>2, CallFacts DEF FromCache, InCachingLexMode
  <2>4. Uncached' = Uncached /\ Cached' = cachedTokens /\ Behind' = Uncached'
    BY <1>1, <2>1, <2>3 DEF Uncached, Cached, Peeking, Behind
  <2>5. Shown'
    BY ShownNext
  <2>6. Future' = <<ret'>> \o (Beyond(cachedTokens, cachedLexPos + 1) \o Uncached)
    BY <2>1, <2>3, <2>4, <2>5 DEF Shown
  <2>7. Future = <<ret'>> \o (Beyond(cachedTokens, cachedLexPos + 1) \o Uncached)
    <3>1. Beyond(cachedTokens, cachedLexPos) = <<ret'>> \o Beyond(cachedTokens, cachedLexPos + 1)
      BY <1>2, <1>3, <2>1, BeyondNext DEF Quiet
    <3>2. PICK x : x = Beyond(cachedTokens, cachedLexPos + 1)
      OBVIOUS
    <3>3. x \in Seq(Token)
      <4>1. cachedLexPos + 1 \in Nat /\ cachedLexPos + 1 <= Len(cachedTokens) /\ cachedTokens \in Seq(Token)
        BY <1>2, <1>3 DEF Quiet
      <4> QED BY <3>2, <4>1, BeyondType
    <3>4. <<ret'>> \in Seq(Token) /\ Uncached \in Seq(Token)
      BY <1>2, <2>2 DEF Quiet
    <3>5. (<<ret'>> \o x) \o Uncached = <<ret'>> \o (x \o Uncached)
      BY <3>3, <3>4, TokensConcat
    <3> QED BY <1>2, <3>1, <3>2, <3>5 DEF Quiet
  <2>8. Marks' = Marks
    BY <1>1, <1>2, <2>4, <2>5 DEF Shown, Quiet
  <2> QED BY <1>1, <2>6, <2>7, <2>8 DEF Still
<1>4. CASE ~(cachedLexPos < Len(cachedTokens))
  <2>1. /\ ExitCachingLexMode /\ calls' = <<LexCall, CachingLexCall>>
        /\ UNCHANGED <<ret, cachedLexPos>>
    BY <1>1, <1>4, CallFacts DEF CachingLex
  <2>2. ~Peeking'
    <3>1. calls'[1] = LexCall
      BY <2>1
    <3> QED BY <3>1, CallFacts DEF Peeking
  <2>3. Quiet'
    BY <1>1, <2>1, <2>2, QuietNext
  <2>4. Uncached' = Uncached
    BY <2>1, ExitKeeps DEF IInv, TypeOK, StackOK, RefInv
  <2> QED BY <1>1, <1>2, <2>1, <2>3, <2>4 DEF Quiet, Still
<1> QED BY <1>3, <1>4

(* A cache that has been read to its end, or that is not read.              *)
LEMMA BehindNothing ==
  ASSUME NEW c \in Seq(Token), NEW p \in Nat, p = Len(c), NEW u \in Seq(Token)
  PROVE  Beyond(c, p) \o u = u
<1>1. Beyond(c, p) = <<>>
  BY SliceEnds
<1> QED BY <1>1, ConcatEmptySeq

LEMMA CachingLexReturnIsSilent ==
  ASSUME Expansions, IInv, RefInv, IInv', RefInv', CachingLexReturn
  PROVE  Still
<1>1. calls = <<LexCall, CachingLexCall>> /\ ret # NoTok
  <2>1. Last(calls).fn = "CachingLex" /\ calls # <<>> /\ ret # NoTok
    BY DEF CachingLexReturn, Returning
  <2>2. CASE Len(calls) = 1 /\ calls[1].fn = "PeekAhead"
    BY <2>1, <2>2, OneCall
  <2> QED BY <2>1, <2>2, CallFacts DEF IInv, CallShape
<1>2. ~Peeking /\ ~FromCache /\ cur.clk # "CachingLexer" /\ cachedLexPos = Len(cachedTokens)
  <2>1. Last(calls).fn = "CachingLex"
    BY DEF CachingLexReturn, Returning
  <2>2. ~Peeking
    BY <1>1, CallIs
  <2>3. CallShape
    BY DEF IInv
  <2>4. cur.clk # "CachingLexer" /\ cachedLexPos = Len(cachedTokens)
    <3>1. <<LexCall, CachingLexCall>> # <<LexCall>> /\ <<LexCall, CachingLexCall>> # <<>>
          /\ Len(<<LexCall, CachingLexCall>>) = 2
      OBVIOUS
    <3> QED BY <1>1, <2>3, <3>1 DEF CallShape
  <2> QED BY <2>1, <2>2, <2>4 DEF FromCache
<1>3. Shown /\ Shown' /\ Cached = cachedTokens
  BY <1>2, ShownHolds, ShownNext DEF Cached
<1>4. /\ InFlight = <<ret>> /\ Behind = <<ret>> \o Uncached /\ Behind = Unread
      /\ cachedTokens \in Seq(Token) /\ Uncached \in Seq(Token) /\ cachedLexPos \in Nat
      /\ Behind \in Seq(Token)
  BY <1>1, <1>2, <1>3 DEF InFlight, Behind, Unread, Shown
<1>5. Future = Behind /\ Marks = MarksOf(cachedTokens, backtrackPositions, Behind)
  <2>1. Beyond(cachedTokens, cachedLexPos) \o Behind = Behind
    BY <1>2, <1>4, BehindNothing
  <2>2. Future = <<>> \o (Beyond(cachedTokens, cachedLexPos) \o Behind)
    BY <1>2, <1>3 DEF Shown
  <2>3. <<>> \o Behind = Behind
    BY <1>4, ConcatEmptySeq
  <2> QED BY <1>3, <2>1, <2>2, <2>3 DEF Shown
<1>6. /\ calls' = <<LexCall>> /\ ret' = ret /\ UNCHANGED client /\ backtrackPositions' = backtrackPositions
      /\ ~Peeking' /\ ret \in Token
  <2>1. calls' = <<LexCall>>
    BY <1>1, CallFacts DEF CachingLexReturn
  <2>2. ~Peeking'
    BY <2>1, CallFacts DEF Peeking
  <2> QED BY <1>1, <2>1, <2>2 DEF CachingLexReturn, IInv, TypeOK
<1>7. CASE isBacktrackEnabled
  <2>1. /\ EnterCachingLexMode /\ cachedTokens' = Append(cachedTokens, ret)
        /\ cachedLexPos' = cachedLexPos + 1
    BY <1>7 DEF CachingLexReturn
  <2>2. StackOK /\ KindAgrees
    BY DEF IInv, TypeOK, StackOK
  <2>3. Uncached' = Uncached /\ InCachingLexMode'
    BY <2>1, <2>2, EnterKeeps, EnterMode
  <2>4. FromCache' /\ Behind' = Uncached /\ Cached' = Append(cachedTokens, ret)
    BY <1>1, <1>6, <2>1, <2>3, CallFacts DEF FromCache, Behind, Cached
  <2>5. Future' = Future
    <3>1. Future' = <<ret>> \o (Beyond(Append(cachedTokens, ret), cachedLexPos + 1) \o Uncached)
      BY <1>3, <1>6, <2>1, <2>4 DEF Shown
    <3>2. PICK c \in Seq(Token) : c = Append(cachedTokens, ret) /\ Len(c) = cachedLexPos + 1
      <4>1. Append(cachedTokens, ret) \in Seq(Token) /\ Len(Append(cachedTokens, ret)) = Len(cachedTokens) + 1
        BY <1>4, <1>6
      <4> QED BY <1>2, <4>1
    <3>3. Beyond(c, cachedLexPos + 1) \o Uncached = Uncached
      <4>1. cachedLexPos + 1 \in Nat
        BY <1>4
      <4> QED BY <1>4, <3>2, <4>1, BehindNothing
    <3> QED BY <1>4, <1>5, <3>1, <3>2, <3>3
  <2>6. Marks' = Marks
    <3>1. Marks' = MarksOf(Append(cachedTokens, ret), backtrackPositions, Uncached)
      BY <1>3, <1>6, <2>4 DEF Shown
    <3>2. backtrackPositions \in Seq(Nat) /\ \A i \in DOMAIN backtrackPositions : backtrackPositions[i] <= Len(cachedTokens)
      BY <1>2, <1>3 DEF Shown
    <3>3. MarksOf(Append(cachedTokens, ret), backtrackPositions, Uncached)
            = MarksOf(cachedTokens, backtrackPositions, <<ret>> \o Uncached)
      BY <1>4, <1>6, <3>2, MarksStored
    <3> QED BY <1>4, <1>5, <3>1, <3>3
  <2> QED BY <1>6, <2>5, <2>6 DEF Still
<1>8. CASE ~isBacktrackEnabled
  <2>1. cachedTokens' = <<>> /\ cachedLexPos' = 0 /\ UNCHANGED <<cur, includeMacroStack>>
    BY <1>2, <1>4, <1>8 DEF CachingLexReturn
  <2>2. ~InCachingLexMode /\ KindAgrees
    BY <1>2 DEF IInv, KindAgrees
  <2>3. ~FromCache' /\ Behind' = Behind /\ Cached' = <<>>
    BY <1>4, <1>6, <2>1, <2>2 DEF FromCache, InCachingLexMode, Behind, Unread, InFlight, Uncached, Cached
  <2>4. Future' = Future
    <3>1. Future' = <<>> \o (Beyond(<<>>, 0) \o Behind)
      BY <1>3, <2>1, <2>3 DEF Shown
    <3>2. Beyond(<<>>, 0) \o Behind = Behind /\ <<>> \o Behind = Behind
      <4>1. <<>> \in Seq(Token) /\ Len(<<>>) = 0 /\ 0 \in Nat
        OBVIOUS
      <4> QED BY <1>4, <4>1, BehindNothing, ConcatEmptySeq
    <3> QED BY <1>5, <3>1, <3>2
  <2>5. Marks' = Marks
    <3>1. backtrackPositions = <<>> /\ DOMAIN backtrackPositions = {} /\ backtrackPositions' = <<>>
      BY <1>6, <1>8 DEF isBacktrackEnabled
    <3> QED BY <1>3, <3>1 DEF Shown, MarksOf
  <2> QED BY <1>6, <2>4, <2>5 DEF Still
<1> QED BY <1>7, <1>8

LEMMA FilledIs ==
  ASSUME NEW s \in Seq(Token), s # <<>>, NEW e \in Token
  PROVE  [s EXCEPT ![Len(s)] = e] = Append(Front(s), e)
<1>1. PICK n \in Nat \ {0} : n = Len(s)
  OBVIOUS
<1>2. PICK f : f = Front(s)
  OBVIOUS
<1>3. f \in Seq(Token) /\ Len(f) = n - 1 /\ \A i \in 1 .. n - 1 : f[i] = s[i]
  BY <1>1, <1>2, LastFront
<1>4. PICK r : r = Append(f, e)
  OBVIOUS
<1>5. r \in Seq(Token) /\ Len(r) = n /\ r[n] = e /\ \A i \in 1 .. n - 1 : r[i] = s[i]
  <2>1. n - 1 + 1 = n
    BY <1>1
  <2> QED BY <1>1, <1>3, <1>4, <2>1, AppendLast
<1>6. PICK g : g = [s EXCEPT ![n] = e]
  OBVIOUS
<1>7. g \in Seq(Token) /\ Len(g) = n /\ g[n] = e /\ \A i \in 1 .. n - 1 : g[i] = s[i]
  BY <1>1, <1>6
<1>8. \A i \in 1 .. n : i = n \/ i \in 1 .. n - 1
  BY <1>1
<1>9. g = r
  BY <1>5, <1>7, <1>8, SeqEqual
<1> QED BY <1>1, <1>2, <1>4, <1>6, <1>9

LEMMA FrontOfAppend ==
  ASSUME NEW s \in Seq(Token), NEW e \in Token
  PROVE  Front(Append(s, e)) = s /\ Append(s, e) \in Seq(Token)
<1>1. IsPushed(Token, Append(s, e), s, e)
  BY ElementPushed
<1> QED BY <1>1 DEF IsPushed

(* One turn of PeekAhead's loop moves its token into the cache; the last    *)
(* one answers.                                                             *)
Answered(n) ==
  /\ n < Len(Future)
  /\ peeked' = [n |-> n, t |-> Future[n + 1]]
  /\ Future' = Future /\ Marks' = Marks /\ tok' = tok /\ prevToks' = prevToks

LEMMA PeekAheadReturnAnswers ==
  ASSUME Expansions, IInv, PeekedInv, RefInv, IInv', RefInv', PeekAheadReturn
  PROVE  Still \/ \E n \in Nat : Answered(n)
<1>1. /\ Peeking /\ ret # NoTok /\ calls = <<calls[1]>> /\ calls[1] \in Call /\ Last(calls) = calls[1]
      /\ Front(calls) = <<>> /\ cachedTokens # <<>> /\ calls[1].fn = "PeekAhead"
  <2>1. Last(calls).fn = "PeekAhead" /\ calls # <<>> /\ ret # NoTok
    BY DEF PeekAheadReturn, Returning
  <2>2. Len(calls) = 1 /\ calls[1].fn = "PeekAhead" /\ cachedTokens # <<>>
    BY <2>1, CallFacts DEF IInv, CallShape
  <2> QED BY <2>1, <2>2, OneCall DEF Peeking
<1>2. ~FromCache
  BY <1>1 DEF FromCache
<1>3. Shown /\ Shown' /\ Cached = Front(cachedTokens)
  BY <1>1, ShownHolds, ShownNext DEF Cached
<1>4. /\ cachedTokens \in Seq(Token) /\ ret \in Token /\ Unknown \in Token /\ cachedLexPos \in Nat
      /\ Len(cachedTokens) \in Nat
  BY <1>1 DEF IInv, TypeOK, Token
<1>5. PICK c \in Seq(Token) : c = Front(cachedTokens) /\ Len(c) = Len(cachedTokens) - 1
  <2>1. Front(cachedTokens) \in Seq(Token) /\ Len(Front(cachedTokens)) = Len(cachedTokens) - 1
    BY <1>1, <1>4, LastFront
  <2> QED BY <2>1
<1>6. /\ Behind = <<ret>> \o Uncached /\ Uncached \in Seq(Token) /\ cachedLexPos <= Len(c)
      /\ Future = Beyond(c, cachedLexPos) \o (<<ret>> \o Uncached)
      /\ Marks = MarksOf(c, backtrackPositions, <<ret>> \o Uncached)
      /\ backtrackPositions \in Seq(Nat) /\ \A i \in DOMAIN backtrackPositions : backtrackPositions[i] <= Len(c)
  <2>1. Behind = <<ret>> \o Uncached
    BY <1>1, <1>2 DEF Behind, Unread, InFlight
  <2>2. PICK x : x = Beyond(c, cachedLexPos)
    OBVIOUS
  <2>3. x \in Seq(Token) /\ Behind \in Seq(Token)
    BY <1>3, <1>5, <2>2, BeyondType DEF Shown
  <2>4. x \o Behind \in Seq(Token)
    BY <2>3, TokensConcat
  <2>5. <<>> \o (x \o Behind) = x \o Behind
    BY <2>4, ConcatEmptySeq
  <2>6. Future = <<>> \o (x \o Behind)
    BY <1>2, <1>3, <1>5, <2>2 DEF Shown
  <2>7. \A i \in DOMAIN backtrackPositions : backtrackPositions[i] <= Len(c)
    <3>1. /\ backtrackPositions \in Seq(Nat) /\ cachedLexPos \in Nat /\ cachedLexPos <= Len(c)
          /\ \A i \in DOMAIN backtrackPositions : backtrackPositions[i] <= cachedLexPos
      BY <1>3, <1>5 DEF Shown
    <3>2. Len(c) \in Nat /\ \A i \in DOMAIN backtrackPositions : backtrackPositions[i] \in Nat
      BY <3>1
    <3> QED BY <3>1, <3>2
  <2> QED BY <1>3, <1>5, <2>1, <2>2, <2>5, <2>6, <2>7 DEF Shown
<1>7. PICK d : d = Append(c, ret)
  OBVIOUS
<1>8. /\ d \in Seq(Token) /\ [cachedTokens EXCEPT ![Len(cachedTokens)] = ret] = d
      /\ Beyond(d, cachedLexPos) \o Uncached = Future
      /\ MarksOf(d, backtrackPositions, Uncached) = Marks
  <2>1. d \in Seq(Token)
    BY <1>4, <1>7
  <2>2. [cachedTokens EXCEPT ![Len(cachedTokens)] = ret] = d
    BY <1>1, <1>4, <1>5, <1>7, FilledIs
  <2>3. Beyond(d, cachedLexPos) \o Uncached = Future
    BY <1>4, <1>6, <1>7, Stored
  <2>4. MarksOf(d, backtrackPositions, Uncached) = Marks
    BY <1>4, <1>6, <1>7, MarksStored
  <2> QED BY <2>1, <2>2, <2>3, <2>4
<1>9. /\ ret' = NoTok /\ cachedLexPos' = cachedLexPos /\ backtrackPositions' = backtrackPositions
      /\ tok' = tok /\ prevToks' = prevToks
  BY DEF PeekAheadReturn
<1>10. ASSUME Cached' = d, Uncached' = Uncached
       PROVE  Future' = Future /\ Marks' = Marks
  <2>1. /\ Future' = Beyond(Cached, cachedLexPos)' \o Uncached'
        /\ Marks' = MarksOf(Cached, backtrackPositions, Uncached)'
    <3>1. (Shown => (ret = NoTok => /\ Future = Beyond(Cached, cachedLexPos) \o Uncached
                                    /\ Marks = MarksOf(Cached, backtrackPositions, Uncached)))'
      BY ShownIsQuiet, PTL
    <3> QED BY <1>3, <1>9, <3>1
  <2> QED BY <1>8, <1>9, <1>10, <2>1
<1>11. CASE calls[1].c > 1
  <2>1. /\ cachedTokens' = Append(d, Unknown)
        /\ calls' = Append(Front(calls), [calls[1] EXCEPT !.c = @ - 1])
        /\ UNCHANGED <<cur, includeMacroStack, peeked>>
    BY <1>1, <1>8, <1>11 DEF PeekAheadReturn
  <2>2. Peeking'
    <3>1. calls' = <<[calls[1] EXCEPT !.c = @ - 1]>>
      BY <1>1, <2>1
    <3>2. calls' # <<>> /\ calls'[1].fn = calls[1].fn
      BY <1>1, <3>1 DEF Call
    <3> QED BY <1>1, <3>2 DEF Peeking
  <2>3. Cached' = d
    BY <1>4, <1>8, <2>1, <2>2, FrontOfAppend DEF Cached
  <2>4. Uncached' = Uncached
    BY <2>1 DEF Uncached
  <2> QED BY <1>9, <1>10, <2>1, <2>3, <2>4 DEF Still, client
<1>12. CASE ~(calls[1].c > 1)
  <2>1. /\ cachedTokens' = d /\ EnterCachingLexMode /\ calls' = <<>>
        /\ peeked' = [n |-> calls[1].n, t |-> ret]
    BY <1>1, <1>8, <1>12 DEF PeekAheadReturn
  <2>2. Cached' = d
    BY <2>1 DEF Cached, Peeking
  <2>3. Uncached' = Uncached
    BY <2>1, EnterKeeps DEF IInv, TypeOK, StackOK
  <2>4. PICK n \in Nat : n = calls[1].n /\ cachedLexPos + n = Len(c)
    <3>1. calls[1].c >= 1 /\ cachedLexPos + calls[1].n + 2 = Len(cachedTokens) + calls[1].c
          /\ calls[1].c \in Nat /\ calls[1].n \in Nat
      BY <1>1 DEF PeekedInv, PeekAheadInv, Call
    <3> QED BY <1>4, <1>5, <1>12, <3>1
  <2>5. n < Len(Future) /\ Future[n + 1] = ret
    <3>1. PICK x : x = Beyond(c, cachedLexPos)
      OBVIOUS
    <3>2. x \in Seq(Token) /\ Len(x) = n
      <4>1. x \in Seq(Token) /\ Len(x) = Len(c) - cachedLexPos
        BY <1>4, <1>6, <3>1, BeyondType
      <4>2. Len(c) \in Nat
        OBVIOUS
      <4>3. Len(c) - cachedLexPos = n
        BY <1>4, <2>4, <4>2
      <4> QED BY <4>1, <4>3
    <3>3. PICK y : y = <<ret>> \o Uncached
      OBVIOUS
    <3>4. y \in Seq(Token) /\ Len(y) = 1 + Len(Uncached) /\ y[1] = ret
      <4>1. <<ret>> \in Seq(Token) /\ Len(<<ret>>) = 1 /\ <<ret>>[1] = ret /\ Len(Uncached) \in Nat
        BY <1>4, <1>6
      <4>2. y \in Seq(Token) /\ Len(y) = Len(<<ret>>) + Len(Uncached)
            /\ \A i \in 1 .. Len(<<ret>>) + Len(Uncached) :
                 y[i] = IF i <= Len(<<ret>>) THEN <<ret>>[i] ELSE Uncached[i - Len(<<ret>>)]
        BY <1>6, <3>3, <4>1, ConcatProperties
      <4> QED BY <4>1, <4>2
    <3>5. Future = x \o y
      BY <1>6, <3>1, <3>3
    <3>6. Len(x \o y) = Len(x) + Len(y)
          /\ \A i \in 1 .. Len(x) + Len(y) : (x \o y)[i] = IF i <= Len(x) THEN x[i] ELSE y[i - Len(x)]
      <4>1. x \in Seq(Token) /\ y \in Seq(Token)
        BY <3>2, <3>4
      <4> QED BY <4>1, ConcatProperties
    <3>7. Len(Uncached) \in Nat
      BY <1>6
    <3>8. n + 1 \in 1 .. Len(x) + Len(y) /\ ~(n + 1 <= Len(x)) /\ (n + 1) - Len(x) = 1 /\ n < Len(x) + Len(y)
      BY <3>2, <3>4, <3>7
    <3> QED BY <3>4, <3>5, <3>6, <3>8
  <2> QED BY <1>9, <1>10, <2>1, <2>2, <2>3, <2>4, <2>5 DEF Answered
<1> QED BY <1>11, <1>12

-----------------------------------------------------------------------------
(* A call of Lex returns the next token of the stream.                      *)

(* The marks, when one is set or dropped.                                   *)
LEMMA MarksPushed ==
  ASSUME NEW c \in Seq(Token), NEW u \in Seq(Token), NEW b \in Seq(Nat), NEW p \in Nat, p <= Len(c),
         \A i \in DOMAIN b : b[i] <= Len(c)
  PROVE  MarksOf(c, Append(b, p), u) = Append(MarksOf(c, b, u), Beyond(c, p) \o u)
<1>1. PICK m : m = MarksOf(c, b, u)
  OBVIOUS
<1>2. PICK d : d = Append(b, p)
  OBVIOUS
<1>3. PICK n \in Nat : n = Len(b)
  OBVIOUS
<1>4. /\ d \in Seq(Nat) /\ Len(d) = n + 1 /\ d[n + 1] = p
      /\ \A i \in 1 .. n : d[i] = b[i]
  BY <1>2, <1>3, AppendLast
<1>5. \A i \in 1 .. n + 1 : i = n + 1 \/ i \in 1 .. n
  OBVIOUS
<1>6. \A i \in DOMAIN d : d[i] <= Len(c)
  <2>1. DOMAIN d = 1 .. n + 1 /\ DOMAIN b = 1 .. n
    BY <1>3, <1>4
  <2> QED BY <1>4, <1>5, <2>1
<1>7. /\ m \in Seq(Seq(Token)) /\ Len(m) = n
      /\ \A i \in 1 .. n : m[i] = Beyond(c, b[i]) \o u
  <2>1. /\ MarksOf(c, b, u) \in Seq(Seq(Token)) /\ Len(MarksOf(c, b, u)) = Len(b)
        /\ DOMAIN MarksOf(c, b, u) = DOMAIN b
        /\ \A i \in DOMAIN b : /\ MarksOf(c, b, u)[i] = Beyond(c, b[i]) \o u
                               /\ MarksOf(c, b, u)[i] \in Seq(Token)
                               /\ Len(MarksOf(c, b, u)[i]) = Len(c) - b[i] + Len(u)
    BY MarksType
  <2>2. DOMAIN b = 1 .. n
    BY <1>3
  <2> QED BY <1>1, <1>3, <2>1, <2>2
<1>8. PICK g : g = MarksOf(c, d, u)
  OBVIOUS
<1>9. /\ g \in Seq(Seq(Token)) /\ Len(g) = n + 1
      /\ \A i \in 1 .. n + 1 : g[i] = Beyond(c, d[i]) \o u /\ g[i] \in Seq(Token)
  <2>1. /\ MarksOf(c, d, u) \in Seq(Seq(Token)) /\ Len(MarksOf(c, d, u)) = Len(d)
        /\ DOMAIN MarksOf(c, d, u) = DOMAIN d
        /\ \A i \in DOMAIN d : /\ MarksOf(c, d, u)[i] = Beyond(c, d[i]) \o u
                               /\ MarksOf(c, d, u)[i] \in Seq(Token)
                               /\ Len(MarksOf(c, d, u)[i]) = Len(c) - d[i] + Len(u)
    BY <1>4, <1>6, MarksType
  <2>2. DOMAIN d = 1 .. n + 1
    BY <1>4
  <2> QED BY <1>4, <1>8, <2>1, <2>2
<1>10. PICK e : e = Beyond(c, p) \o u
  OBVIOUS
<1>11. g[n + 1] = e /\ e \in Seq(Token)
  <2>1. n + 1 \in 1 .. n + 1
    OBVIOUS
  <2> QED BY <1>4, <1>9, <1>10, <2>1
<1>12. PICK r : r = Append(m, e)
  OBVIOUS
<1>13. /\ r \in Seq(Seq(Token)) /\ Len(r) = n + 1 /\ r[n + 1] = e
       /\ \A i \in 1 .. n : r[i] = m[i]
  BY <1>7, <1>11, <1>12, AppendLast
<1>14. \A i \in 1 .. n + 1 : g[i] = r[i]
  <2>1. \A i \in 1 .. n : i \in 1 .. n + 1
    OBVIOUS
  <2>2. \A i \in 1 .. n : g[i] = m[i]
    BY <1>4, <1>7, <1>9, <2>1
  <2> QED BY <1>5, <1>11, <1>13, <2>2
<1>15. g = r
  BY <1>9, <1>13, <1>14, SeqEqual
<1> QED BY <1>1, <1>2, <1>8, <1>10, <1>12, <1>15

LEMMA MarksPopped ==
  ASSUME NEW c \in Seq(Token), NEW u \in Seq(Token), NEW b \in Seq(Nat), b # <<>>,
         \A i \in DOMAIN b : b[i] <= Len(c)
  PROVE  /\ MarksOf(c, b, u) # <<>>
         /\ MarksOf(c, Front(b), u) = Front(MarksOf(c, b, u))
         /\ Last(MarksOf(c, b, u)) = Beyond(c, Last(b)) \o u
         /\ Last(b) \in Nat /\ Last(b) <= Len(c)
<1>1. PICK a : a = Front(b)
  OBVIOUS
<1>2. PICK p : p = Last(b)
  OBVIOUS
<1>3. IsPushed(Nat, b, a, p)
  BY <1>1, <1>2, ElementPopped
<1>4. /\ b \in Seq(Nat) /\ Len(b) = Len(a) + 1 /\ Len(a) \in Nat
      /\ \A i \in 1 .. Len(a) : b[i] = a[i]
      /\ b[Len(a) + 1] = p
  BY <1>3 DEF IsPushed
<1>5. a \in Seq(Nat) /\ p \in Nat
  BY <1>1, <1>2, LastFront
<1>6. /\ DOMAIN b = 1 .. Len(a) + 1 /\ DOMAIN a = 1 .. Len(a)
      /\ Len(a) + 1 \in 1 .. Len(a) + 1 /\ \A i \in 1 .. Len(a) : i \in 1 .. Len(a) + 1
  BY <1>4, <1>5
<1>7. p <= Len(c) /\ \A i \in DOMAIN a : a[i] <= Len(c)
  BY <1>4, <1>6
<1>8. b = Append(a, p)
  <2>1. PICK d : d = Append(a, p)
    OBVIOUS
  <2>2. d \in Seq(Nat) /\ Len(d) = Len(a) + 1 /\ d[Len(a) + 1] = p /\ \A i \in 1 .. Len(a) : d[i] = a[i]
    BY <1>5, <2>1, AppendLast
  <2>3. \A i \in 1 .. Len(a) + 1 : i = Len(a) + 1 \/ i \in 1 .. Len(a)
    BY <1>4
  <2>4. \A i \in 1 .. Len(a) + 1 : d[i] = b[i]
    BY <1>4, <2>2, <2>3
  <2> QED BY <1>4, <2>1, <2>2, <2>4, SeqEqual
<1>9. PICK m : m = MarksOf(c, a, u)
  OBVIOUS
<1>10. PICK e : e = Beyond(c, p) \o u
  OBVIOUS
<1>11. MarksOf(c, b, u) = Append(m, e)
  <2>1. MarksOf(c, Append(a, p), u) = Append(MarksOf(c, a, u), Beyond(c, p) \o u)
    BY <1>5, <1>7, MarksPushed
  <2> QED BY <1>8, <1>9, <1>10, <2>1
<1>12. m \in Seq(Seq(Token)) /\ e \in Seq(Token)
  <2>1. MarksOf(c, a, u) \in Seq(Seq(Token))
    BY <1>5, <1>7, MarksType
  <2>2. Beyond(c, p) \in Seq(Token)
    BY <1>5, <1>7, BeyondType
  <2>3. PICK y : y = Beyond(c, p)
    OBVIOUS
  <2> QED BY <1>9, <1>10, <2>1, <2>2, <2>3, TokensConcat
<1>13. IsPushed(Seq(Token), Append(m, e), m, e)
  BY <1>12, ElementPushed
<1>14. Append(m, e) # <<>> /\ Front(Append(m, e)) = m /\ Last(Append(m, e)) = e
  BY <1>13 DEF IsPushed
<1> QED BY <1>1, <1>2, <1>5, <1>7, <1>9, <1>10, <1>11, <1>14

(* No mark is set.                                                          *)
LEMMA NoMarks == \A c, u : MarksOf(c, <<>>, u) = <<>>
<1>1. DOMAIN <<>> = {} /\ <<>> = [i \in {} |-> {}]
  OBVIOUS
<1> QED BY <1>1 DEF MarksOf

-----------------------------------------------------------------------------
LEMMA HeadOfConcat ==
  \A y \in Seq(Token) : \A e \in Token : <<e>> \o y # <<>> /\ Head(<<e>> \o y) = e /\ Tail(<<e>> \o y) = y
<1> SUFFICES ASSUME NEW y \in Seq(Token), NEW e \in Token
             PROVE  <<e>> \o y # <<>> /\ Head(<<e>> \o y) = e /\ Tail(<<e>> \o y) = y
  OBVIOUS
<1>1. PICK z : z = <<e>> \o y
  OBVIOUS
<1>2. PICK n \in Nat : n = Len(y)
  OBVIOUS
<1>3. z \in Seq(Token) /\ Len(z) = n + 1 /\ z[1] = e /\ \A i \in 1 .. n : z[i + 1] = y[i]
  BY <1>1, <1>2
<1>4. z # <<>> /\ Head(z) = z[1]
  BY <1>3
<1>5. /\ Tail(z) \in Seq(Token) /\ Len(Tail(z)) = Len(z) - 1
      /\ \A i \in 1 .. Len(Tail(z)) : Tail(z)[i] = z[i + 1]
  BY <1>3, <1>4, HeadTailProperties
<1>6. PICK t : t = Tail(z)
  OBVIOUS
<1>7. t \in Seq(Token) /\ Len(t) = n /\ \A i \in 1 .. n : t[i] = y[i]
  BY <1>3, <1>5, <1>6
<1>8. t = y
  BY <1>2, <1>7, SeqEqual
<1> QED BY <1>1, <1>3, <1>4, <1>6, <1>8

LEMMA LexReturnIsLex ==
  ASSUME Expansions, IInv, RefInv, IInv', RefInv', LexReturn
  PROVE  Stream!Lex
<1>1. calls = <<LexCall>> /\ ret # NoTok /\ ret \in Token
  <2>1. Last(calls).fn = "Lex" /\ calls # <<>> /\ ret # NoTok
    BY DEF LexReturn, Returning
  <2>2. CASE Len(calls) = 1 /\ calls[1].fn = "PeekAhead"
    BY <2>1, <2>2, OneCall
  <2>3. ret \in Token
    BY <2>1 DEF IInv, TypeOK
  <2> QED BY <2>1, <2>2, <2>3, CallFacts DEF IInv, CallShape
<1>2. calls' = <<>> /\ ret' = NoTok /\ tok' = ret /\ peeked' = NoPeek /\ prevToks' = prevToks
      /\ UNCHANGED <<lexers, cache>> /\ ~Peeking' /\ ~Peeking
  BY <1>1, CallFacts, CallIs DEF LexReturn, Peeking
<1>3. Shown /\ Quiet' /\ Cached = cachedTokens /\ Uncached' = Uncached
  BY <1>2, ShownHolds, QuietNext DEF Cached, lexers, Uncached
<1>4. PICK x : x = Beyond(cachedTokens, cachedLexPos) \o Uncached
  OBVIOUS
<1>5. Future' = x /\ Marks' = MarksOf(cachedTokens, backtrackPositions, Uncached)
      /\ cachedTokens \in Seq(Token) /\ Uncached \in Seq(Token) /\ cachedLexPos \in Nat
      /\ cachedLexPos <= Len(cachedTokens)
  BY <1>2, <1>3, <1>4 DEF cache, Quiet, Shown
<1>6. x \in Seq(Token)
  <2>1. PICK y : y = Beyond(cachedTokens, cachedLexPos)
    OBVIOUS
  <2>2. y \in Seq(Token)
    BY <1>5, <2>1, BeyondType
  <2> QED BY <1>4, <1>5, <2>1, <2>2, TokensConcat
<1>7. Future = <<ret>> \o x /\ Marks' = Marks
  <2>1. CASE FromCache
    <3>1. Behind = Uncached
      BY <2>1 DEF Behind
    <3> QED BY <1>3, <1>4, <1>5, <2>1, <3>1 DEF Shown
  <2>2. CASE ~FromCache
    <3>1. ~InCachingLexMode
      BY <1>1, <2>2, CallFacts DEF FromCache
    <3>2. AtRest
      <4>1. <<LexCall>> # <<>> /\ <<LexCall, CachingLexCall>> # <<LexCall>> /\ CallShape
            /\ <<LexCall>>[1] = LexCall
        BY DEF IInv
      <4> QED BY <1>1, <4>1, CallFacts DEF CallShape
    <3>3. cachedTokens = <<>> /\ backtrackPositions = <<>>
      BY <3>1, <3>2 DEF AtRest
    <3>4. cachedLexPos = Len(cachedTokens)
      BY <1>5, <3>3
    <3>5. Behind = <<ret>> \o Uncached /\ Behind \in Seq(Token)
      BY <1>1, <1>3, <2>2 DEF Behind, Unread, InFlight, Shown
    <3>6. x = Uncached /\ Beyond(cachedTokens, cachedLexPos) \o Behind = Behind
      BY <1>4, <1>5, <3>4, <3>5, BehindNothing
    <3>7. Future = <<>> \o Behind
      BY <1>3, <2>2, <3>6 DEF Shown
    <3>8. <<>> \o Behind = Behind
      BY <3>5, ConcatEmptySeq
    <3>9. Marks' = <<>> /\ Marks = <<>>
      BY <1>3, <1>5, <3>3, NoMarks DEF Shown
    <3> QED BY <3>5, <3>6, <3>7, <3>8, <3>9
  <2> QED BY <2>1, <2>2
<1>8. Future # <<>> /\ Head(Future) = ret /\ Tail(Future) = x
  BY <1>1, <1>6, <1>7, HeadOfConcat
<1> QED BY <1>2, <1>5, <1>7, <1>8 DEF Stream!Lex, Stream!NoPeek, NoPeek

-----------------------------------------------------------------------------
(* Calls outside and inside caching mode, and marks set, dropped and gone   *)
(* back to.                                                                 *)

(* Between two calls the stream is the cache and the lexers.                *)
LEMMA IdleQuiet ==
  ASSUME Expansions, IInv, RefInv, Idle
  PROVE  Quiet /\ ret = NoTok /\ calls = <<>> /\ ~Peeking /\ AtRest
<1>1. calls = <<>>
  BY DEF Idle
<1>2. ret = NoTok /\ AtRest
  <2>1. <<LexCall>> # <<>> /\ <<LexCall, CachingLexCall>> # <<>> /\ Len(<<>>) = 0 /\ CallShape
    BY DEF IInv
  <2> QED BY <1>1, <2>1 DEF CallShape
<1>3. ~Peeking
  BY <1>1 DEF Peeking
<1> QED BY <1>1, <1>2, <1>3, ShownHolds, QuietHolds

LEMMA StillIdle ==
  ASSUME Expansions, IInv', RefInv', ret' = NoTok, calls' = <<>>
  PROVE  Quiet'
BY QuietNext DEF Peeking

LEMMA QuietMarks ==
  ASSUME Quiet
  PROVE  /\ \A i \in DOMAIN backtrackPositions : backtrackPositions[i] \in Nat /\ backtrackPositions[i] <= Len(cachedTokens)
         /\ Len(cachedTokens) \in Nat
         /\ backtrackPositions # <<>> =>
              /\ Last(backtrackPositions) \in Nat /\ Last(backtrackPositions) <= cachedLexPos
              /\ \A i \in DOMAIN backtrackPositions : backtrackPositions[i] <= Last(backtrackPositions)
<1>1. /\ cachedTokens \in Seq(Token) /\ cachedLexPos \in Nat /\ cachedLexPos <= Len(cachedTokens)
      /\ backtrackPositions \in Seq(Nat)
      /\ \A i \in DOMAIN backtrackPositions : backtrackPositions[i] <= cachedLexPos
      /\ \A i, j \in DOMAIN backtrackPositions : i <= j => backtrackPositions[i] <= backtrackPositions[j]
  BY DEF Quiet
<1>2. Len(cachedTokens) \in Nat /\ \A i \in DOMAIN backtrackPositions : backtrackPositions[i] \in Nat
  BY <1>1
<1>3. \A i \in DOMAIN backtrackPositions : backtrackPositions[i] <= Len(cachedTokens)
  BY <1>1, <1>2
<1>4. ASSUME backtrackPositions # <<>>
      PROVE  /\ Last(backtrackPositions) \in Nat /\ Last(backtrackPositions) <= cachedLexPos
             /\ \A i \in DOMAIN backtrackPositions : backtrackPositions[i] <= Last(backtrackPositions)
  <2>1. PICK n \in Nat \ {0} : n = Len(backtrackPositions) /\ DOMAIN backtrackPositions = 1 .. n
                               /\ Last(backtrackPositions) = backtrackPositions[n]
    <3>1. Len(backtrackPositions) \in Nat \ {0} /\ Last(backtrackPositions) = backtrackPositions[Len(backtrackPositions)]
      BY <1>1, <1>4, LastFront
    <3>2. DOMAIN backtrackPositions = 1 .. Len(backtrackPositions)
      BY <1>1
    <3> QED BY <3>1, <3>2
  <2>2. n \in 1 .. n /\ \A i \in 1 .. n : i <= n
    BY <2>1
  <2> QED BY <1>1, <1>2, <2>1, <2>2
<1> QED BY <1>2, <1>3, <1>4

LEMMA LexIsSilent ==
  ASSUME Expansions, IInv, RefInv, IInv', RefInv', Lex
  PROVE  Still
<1>1. Quiet /\ ret = NoTok
  BY IdleQuiet DEF Lex
<1>2. calls' = <<LexCall>> /\ UNCHANGED <<lexers, cache, ret, client>>
  BY DEF Lex
<1>3. ~Peeking'
  BY <1>2, CallFacts DEF Peeking
<1>4. Quiet' /\ Uncached' = Uncached
  BY <1>1, <1>2, <1>3, QuietNext DEF lexers, Uncached
<1> QED BY <1>1, <1>2, <1>4 DEF Quiet, cache, Still

LEMMA QuietFuture ==
  ASSUME Quiet
  PROVE  /\ Future \in Seq(Token) /\ Len(Future) = Len(cachedTokens) - cachedLexPos + Len(Uncached)
         /\ \A n \in Nat : cachedLexPos + n < Len(cachedTokens) => Future[n + 1] = cachedTokens[cachedLexPos + n + 1]
<1>1. PICK p \in Nat, l \in Nat : p = cachedLexPos /\ l = Len(cachedTokens) /\ p <= l
  <2>1. cachedTokens \in Seq(Token) /\ cachedLexPos \in Nat /\ cachedLexPos <= Len(cachedTokens)
    BY DEF Quiet
  <2>2. Len(cachedTokens) \in Nat
    BY <2>1
  <2> QED BY <2>1, <2>2
<1>2. PICK x : x = Beyond(cachedTokens, p)
  OBVIOUS
<1>3. cachedTokens \in Seq(Token) /\ Uncached \in Seq(Token) /\ Future = x \o Uncached
  BY <1>1, <1>2 DEF Quiet
<1>4. x \in Seq(Token) /\ Len(x) = l - p /\ \A i \in 1 .. l - p : x[i] = cachedTokens[p + i]
  <2>1. IsSlice(Token, Slice(cachedTokens, p, l), cachedTokens, p, l)
    BY <1>1, <1>3, SliceFacts
  <2>2. x = Slice(cachedTokens, p, l)
    BY <1>1, <1>2 DEF Slice, Beyond
  <2> QED BY <2>1, <2>2 DEF IsSlice
<1>5. x \in Seq(Token)
  BY <1>4
<1>6. /\ x \o Uncached \in Seq(Token)
      /\ Len(x \o Uncached) = Len(x) + Len(Uncached)
      /\ \A i \in 1 .. Len(x) + Len(Uncached) :
           (x \o Uncached)[i] = IF i <= Len(x) THEN x[i] ELSE Uncached[i - Len(x)]
  BY <1>3, <1>5, ConcatProperties
<1>7. Len(Uncached) \in Nat
  BY <1>3
<1>8. ASSUME NEW n \in Nat, p + n < l PROVE Future[n + 1] = cachedTokens[p + n + 1]
  <2>1. n + 1 \in 1 .. Len(x) + Len(Uncached) /\ n + 1 <= Len(x) /\ n + 1 \in 1 .. l - p
        /\ p + (n + 1) = p + n + 1
    BY <1>4, <1>7, <1>8
  <2> QED BY <1>3, <1>4, <1>6, <2>1
<1> QED BY <1>1, <1>3, <1>4, <1>6, <1>8

LEMMA LookAheadAnswers ==
  ASSUME Expansions, IInv, RefInv, IInv', RefInv', NEW n \in Nat, LookAhead(n)
  PROVE  Still \/ Answered(n)
<1>1. Quiet /\ ret = NoTok /\ calls = <<>> /\ StackOK
  BY IdleQuiet DEF LookAhead, IInv, TypeOK, StackOK
<1>2. UNCHANGED <<cachedLexPos, backtrackPositions, ret, tok, prevToks>>
  BY DEF LookAhead
<1>3. cachedTokens \in Seq(Token) /\ cachedLexPos \in Nat /\ Len(cachedTokens) \in Nat /\ Unknown \in Token
      /\ Len(Uncached) \in Nat
  BY <1>1 DEF Quiet, Token
<1>4. CASE cachedLexPos + n < Len(cachedTokens)
  <2>1. /\ peeked' = [n |-> n, t |-> cachedTokens[cachedLexPos + n + 1]]
        /\ UNCHANGED <<cur, includeMacroStack, cachedTokens, calls>>
    BY <1>4 DEF LookAhead
  <2>2. Quiet' /\ Uncached' = Uncached
    BY <1>1, <1>2, <2>1, StillIdle DEF Uncached
  <2>3. Future' = Future /\ Marks' = Marks
    BY <1>1, <1>2, <2>1, <2>2 DEF Quiet
  <2>4. n < Len(Future) /\ Future[n + 1] = cachedTokens[cachedLexPos + n + 1]
    <3>1. Len(Future) = Len(cachedTokens) - cachedLexPos + Len(Uncached)
          /\ Future[n + 1] = cachedTokens[cachedLexPos + n + 1]
      BY <1>1, <1>4, QuietFuture
    <3> QED BY <1>3, <1>4, <3>1
  <2> QED BY <1>2, <2>1, <2>3, <2>4 DEF Answered
<1>5. CASE ~(cachedLexPos + n < Len(cachedTokens))
  <2>1. /\ ExitCachingLexMode /\ cachedTokens' = Append(cachedTokens, Unknown) /\ peeked' = peeked
        /\ calls' = <<[fn |-> "PeekAhead", n |-> n, c |-> cachedLexPos + n + 1 - Len(cachedTokens)]>>
    BY <1>5 DEF LookAhead
  <2>2. Peeking'
    BY <2>1 DEF Peeking
  <2>3. Cached' = cachedTokens
    BY <1>3, <2>1, <2>2, FrontOfAppend DEF Cached
  <2>4. Uncached' = Uncached
    BY <1>1, <2>1, ExitKeeps DEF RefInv
  <2>5. /\ Future' = Beyond(Cached, cachedLexPos)' \o Uncached'
        /\ Marks' = MarksOf(Cached, backtrackPositions, Uncached)'
    <3>1. (Shown => (ret = NoTok => /\ Future = Beyond(Cached, cachedLexPos) \o Uncached
                                    /\ Marks = MarksOf(Cached, backtrackPositions, Uncached)))'
      BY ShownIsQuiet, PTL
    <3>2. Shown' /\ ret' = NoTok
      BY <1>1, <1>2, ShownNext
    <3> QED BY <3>1, <3>2
  <2> QED BY <1>1, <1>2, <2>1, <2>3, <2>4, <2>5 DEF Quiet, Still, client
<1> QED BY <1>4, <1>5

LEMMA StreamEnds == \A s : Stream!Front(s) = Front(s) /\ Stream!Last(s) = Last(s)
BY DEF Stream!Front, Front, Stream!Last, Last

LEMMA EnableIsEnable ==
  ASSUME Expansions, IInv, RefInv, IInv', RefInv', EnableBacktrackAtThisPos
  PROVE  Stream!Enable
<1>1. Quiet /\ ret = NoTok /\ calls = <<>> /\ StackOK
  BY IdleQuiet DEF EnableBacktrackAtThisPos, IInv, TypeOK, StackOK
<1>2. /\ backtrackPositions' = Append(backtrackPositions, cachedLexPos) /\ prevToks' = Append(prevToks, tok)
      /\ EnterCachingLexMode /\ UNCHANGED <<cachedTokens, cachedLexPos, calls, ret, tok, peeked>>
  BY DEF EnableBacktrackAtThisPos
<1>3. Quiet' /\ Uncached' = Uncached
  BY <1>1, <1>2, StillIdle, EnterKeeps
<1>4. /\ cachedTokens \in Seq(Token) /\ Uncached \in Seq(Token) /\ backtrackPositions \in Seq(Nat)
      /\ cachedLexPos \in Nat /\ cachedLexPos <= Len(cachedTokens)
      /\ \A i \in DOMAIN backtrackPositions : backtrackPositions[i] <= Len(cachedTokens)
      /\ Future = Beyond(cachedTokens, cachedLexPos) \o Uncached
      /\ Marks = MarksOf(cachedTokens, backtrackPositions, Uncached)
  BY <1>1, QuietMarks DEF Quiet
<1>5. /\ Future' = Beyond(cachedTokens, cachedLexPos) \o Uncached
      /\ Marks' = MarksOf(cachedTokens, Append(backtrackPositions, cachedLexPos), Uncached)
  BY <1>2, <1>3 DEF Quiet
<1>6. Marks' = Append(Marks, Future)
  BY <1>4, <1>5, MarksPushed
<1> QED BY <1>2, <1>4, <1>5, <1>6 DEF Stream!Enable

(* The innermost mark is dropped.                                           *)
LEMMA InnermostMark ==
  ASSUME Quiet, backtrackPositions # <<>>
  PROVE  /\ Marks # <<>>
         /\ MarksOf(cachedTokens, Front(backtrackPositions), Uncached) = Front(Marks)
         /\ Last(Marks) = Beyond(cachedTokens, Last(backtrackPositions)) \o Uncached
<1>1. /\ cachedTokens \in Seq(Token) /\ Uncached \in Seq(Token) /\ backtrackPositions \in Seq(Nat)
      /\ \A i \in DOMAIN backtrackPositions : backtrackPositions[i] <= Len(cachedTokens)
      /\ Marks = MarksOf(cachedTokens, backtrackPositions, Uncached)
  BY QuietMarks DEF Quiet
<1> QED BY <1>1, MarksPopped

LEMMA CommitIsCommit ==
  ASSUME Expansions, IInv, RefInv, IInv', RefInv', CommitBacktrackedTokens
  PROVE  Stream!Commit
<1>1. Quiet /\ ret = NoTok /\ calls = <<>>
  BY IdleQuiet DEF CommitBacktrackedTokens
<1>2. /\ backtrackPositions # <<>> /\ backtrackPositions' = Front(backtrackPositions) /\ prevToks' = Front(prevToks)
      /\ UNCHANGED <<lexers, cachedTokens, cachedLexPos, calls, ret, tok, peeked>>
  BY DEF CommitBacktrackedTokens, isBacktrackEnabled
<1>3. Quiet' /\ Uncached' = Uncached
  BY <1>1, <1>2, StillIdle DEF lexers, Uncached
<1>4. /\ Future' = Future
      /\ Marks' = MarksOf(cachedTokens, Front(backtrackPositions), Uncached)
  BY <1>1, <1>2, <1>3 DEF Quiet
<1> QED BY <1>1, <1>2, <1>4, InnermostMark, StreamEnds DEF Stream!Commit

LEMMA BacktrackIsBacktrack ==
  ASSUME Expansions, IInv, RefInv, IInv', RefInv', Backtrack
  PROVE  Stream!Backtrack
<1>1. Quiet /\ ret = NoTok /\ calls = <<>> /\ AtRest
  BY IdleQuiet DEF Backtrack
<1>2. /\ backtrackPositions # <<>> /\ backtrackPositions' = Front(backtrackPositions) /\ prevToks' = Front(prevToks)
      /\ cachedLexPos' = Last(backtrackPositions) /\ recomputeCurLexerKind /\ tok' = Last(prevToks)
      /\ peeked' = NoPeek
      /\ UNCHANGED <<includeMacroStack, cachedTokens, calls, ret>>
  BY DEF Backtrack, isBacktrackEnabled
<1>3. cur' = cur
  <2>1. InCachingLexMode /\ KindAgrees /\ cur \in LexerState
    BY <1>1, <1>2 DEF AtRest, IInv, TypeOK
  <2>2. cur.clk = "CachingLexer" /\ cur.kind = "none"
    BY <2>1 DEF KindAgrees, InCachingLexMode
  <2>3. cur' = [cur EXCEPT !.clk = "CachingLexer"]
    BY <1>2, <2>2 DEF recomputeCurLexerKind
  <2> QED BY <2>1, <2>2, <2>3 DEF LexerState
<1>4. Quiet' /\ Uncached' = Uncached
  BY <1>1, <1>2, <1>3, StillIdle DEF Uncached
<1>5. /\ Future' = Beyond(cachedTokens, Last(backtrackPositions)) \o Uncached
      /\ Marks' = MarksOf(cachedTokens, Front(backtrackPositions), Uncached)
  BY <1>2, <1>4 DEF Quiet
<1> QED BY <1>1, <1>2, <1>5, InnermostMark, StreamEnds DEF Stream!Backtrack, Stream!NoPeek, NoPeek

LEMMA Subtraction == \A l, p, b, n \in Nat : (l - b + n) - (l - p + n) = p - b
OBVIOUS

(* How many tokens have been read since the innermost mark.                 *)
LEMMA TakenSinceMark ==
  ASSUME Quiet, backtrackPositions # <<>>
  PROVE  Stream!Taken(Last(Marks)) = cachedLexPos - Last(backtrackPositions)
<1>1. PICK l \in Nat, p \in Nat, b \in Nat, n \in Nat :
        l = Len(cachedTokens) /\ p = cachedLexPos /\ b = Last(backtrackPositions) /\ n = Len(Uncached)
        /\ b <= p /\ p <= l
  <2>1. cachedTokens \in Seq(Token) /\ Uncached \in Seq(Token) /\ cachedLexPos \in Nat
        /\ cachedLexPos <= Len(cachedTokens)
    BY DEF Quiet
  <2>2. Len(cachedTokens) \in Nat /\ Len(Uncached) \in Nat
    BY <2>1
  <2>3. Last(backtrackPositions) \in Nat /\ Last(backtrackPositions) <= cachedLexPos
    BY QuietMarks
  <2> QED BY <2>1, <2>2, <2>3
<1>2. PICK x : x = Beyond(cachedTokens, b)
  OBVIOUS
<1>3. x \in Seq(Token) /\ Len(x) = l - b /\ Uncached \in Seq(Token)
  <2>1. b <= l /\ cachedTokens \in Seq(Token) /\ Uncached \in Seq(Token)
    BY <1>1 DEF Quiet
  <2> QED BY <1>1, <1>2, <2>1, BeyondType
<1>4. x \in Seq(Token)
  BY <1>3
<1>5. Len(x \o Uncached) = Len(x) + Len(Uncached)
  BY <1>3, <1>4, ConcatProperties
<1>6. Last(Marks) = x \o Uncached
  BY <1>1, <1>2, InnermostMark
<1>7. Len(Future) = l - p + n
  BY <1>1, QuietFuture
<1>8. Len(Last(Marks)) = l - b + n
  BY <1>1, <1>3, <1>5, <1>6
<1>9. (l - b + n) - (l - p + n) = p - b
  BY Subtraction
<1> QED BY <1>1, <1>7, <1>8, <1>9 DEF Stream!Taken

LEMMA RevertIsRevert ==
  ASSUME Expansions, IInv, RefInv, IInv', RefInv', NEW n \in 1 .. MaxCached,
         NEW t \in {tok} \cup Synthesized, RevertCachedTokens(n, t)
  PROVE  Stream!Revert
<1>1. Quiet /\ ret = NoTok /\ calls = <<>>
  BY IdleQuiet DEF RevertCachedTokens
<1>2. /\ backtrackPositions # <<>> /\ cachedLexPos - n >= Last(backtrackPositions)
      /\ cachedLexPos' = cachedLexPos - n /\ tok' = t /\ peeked' = NoPeek
      /\ UNCHANGED <<lexers, cachedTokens, backtrackPositions, calls, ret, prevToks>>
  BY DEF RevertCachedTokens, isBacktrackEnabled
<1>3. Quiet' /\ Uncached' = Uncached
  BY <1>1, <1>2, StillIdle DEF lexers, Uncached
<1>4. Future' = Beyond(cachedTokens, cachedLexPos - n) \o Uncached /\ Marks' = Marks
  BY <1>1, <1>2, <1>3 DEF Quiet
<1>5. PICK b \in Nat, q \in Nat : b = Last(backtrackPositions) /\ q = cachedLexPos - n /\ b <= q /\ q <= Len(cachedTokens)
  <2>1. n \in Nat /\ n >= 1 /\ MaxCached \in Nat
    BY BoundsAssumption
  <2> QED BY <1>1, <1>2, <2>1, QuietMarks DEF Quiet
<1>6. Last(Marks) = Beyond(cachedTokens, b) \o Uncached
  BY <1>1, <1>2, <1>5, InnermostMark
<1>7. cachedTokens \in Seq(Token) /\ Uncached \in Seq(Token) /\ cachedLexPos \in Nat
  BY <1>1 DEF Quiet
<1>8. Beyond(Last(Marks), q - b) = Beyond(cachedTokens, q) \o Uncached
  <2>1. Beyond(Beyond(cachedTokens, b) \o Uncached, q - b) = Beyond(cachedTokens, q) \o Uncached
    BY <1>5, <1>7, BeyondBeyond
  <2> QED BY <1>6, <2>1
<1>9. PICK k : k = Stream!Taken(Last(Marks))
  OBVIOUS
<1>10. n \in Nat /\ n >= 1
  BY BoundsAssumption
<1>11. k = cachedLexPos - b
  BY <1>1, <1>2, <1>5, <1>9, TakenSinceMark
<1>12. n \in 1 .. k /\ k - n + 1 = (q - b) + 1
  BY <1>5, <1>7, <1>10, <1>11
<1>13. Future' = SubSeq(Last(Marks), k - n + 1, Len(Last(Marks)))
  BY <1>4, <1>5, <1>8, <1>12 DEF Beyond
<1> QED BY <1>1, <1>2, <1>4, <1>9, <1>12, <1>13, InnermostMark, StreamEnds DEF Stream!Revert, Stream!NoPeek, NoPeek

-----------------------------------------------------------------------------
(* Tokens entered, annotated and corrected.                                 *)

LEMMA RewriteIs ==
  ASSUME NEW k, NEW s, Marks' = Rewriting(Marks, Future, k, s)
  PROVE  Stream!Rewrite(k, s)
BY DEF Rewriting, Stream!Rewrite, Stream!Taken

(* A step between two calls that puts a token into the cache in place of    *)
(* those from a position on that have been read.                            *)
LEMMA CacheRewritten ==
  ASSUME Quiet, Quiet', Uncached' = Uncached, backtrackPositions' = backtrackPositions,
         NEW q \in Nat, q <= cachedLexPos, NEW t \in Token,
         cachedTokens' = Spliced(cachedTokens, q, cachedLexPos, t),
         \A i \in DOMAIN backtrackPositions :
           backtrackPositions[i] <= q \/ (backtrackPositions[i] = cachedLexPos /\ cachedLexPos = q + 1)
  PROVE  /\ Marks' = Rewriting(Marks, Future, cachedLexPos - q, <<t>>)
         /\ cachedLexPos' = q + 1 => Future' = Future
         /\ cachedLexPos' = q /\ q = cachedLexPos => Future' = <<t>> \o Future
<1>1. PICK c \in Seq(Token), u \in Seq(Token), b \in Seq(Nat), p \in Nat :
        /\ c = cachedTokens /\ u = Uncached /\ b = backtrackPositions /\ p = cachedLexPos /\ p <= Len(c)
        /\ Future = Beyond(c, p) \o u /\ Marks = MarksOf(c, b, u)
  BY DEF Quiet
<1>2. PICK d : d = Spliced(c, q, p, t)
  OBVIOUS
<1>3. Marks' = MarksOf(d, b, u) /\ Future' = Beyond(d, cachedLexPos') \o u
  BY <1>1, <1>2 DEF Quiet
<1>4. Marks' = Rewriting(Marks, Future, cachedLexPos - q, <<t>>)
  <2>1. q <= p /\ \A i \in DOMAIN b : b[i] <= q \/ (b[i] = p /\ p = q + 1)
    BY <1>1
  <2>2. MarksOf(Spliced(c, q, p, t), b, u)
          = Rewriting(MarksOf(c, b, u), Beyond(c, p) \o u, p - q, <<t>>)
    BY <1>1, <2>1, Rewritten
  <2> QED BY <1>1, <1>2, <1>3, <2>2
<1>5. /\ Beyond(d, q) = (Slice(c, q, q) \o <<t>>) \o Beyond(c, p)
      /\ Beyond(d, q + 1) = Beyond(c, p)
  <2>1. q <= p /\ q <= q
    BY <1>1
  <2>2. IsSplice(Token, Spliced(c, q, p, t), c, q, p, t, q)
    BY <1>1, <2>1, SplicedFacts
  <2> QED BY <1>2, <2>2 DEF IsSplice
<1>6. ASSUME cachedLexPos' = q + 1 PROVE Future' = Future
  BY <1>1, <1>3, <1>5, <1>6
<1>7. ASSUME cachedLexPos' = q, q = cachedLexPos PROVE Future' = <<t>> \o Future
  <2>1. Slice(c, q, q) = <<>>
    BY <1>1, <1>7, SliceEnds
  <2>2. PICK y : y = Beyond(c, p)
    OBVIOUS
  <2>3. y \in Seq(Token)
    BY <1>1, <2>2, BeyondType
  <2>4. <<t>> \in Seq(Token) /\ <<>> \o <<t>> = <<t>>
    OBVIOUS
  <2>5. (<<t>> \o y) \o u = <<t>> \o (y \o u)
    BY <2>3, <2>4, TokensConcat
  <2> QED BY <1>1, <1>3, <1>5, <1>7, <2>1, <2>2, <2>4, <2>5
<1> QED BY <1>4, <1>6, <1>7

LEMMA EnterTokenIsEnter ==
  ASSUME Expansions, IInv, RefInv, IInv', RefInv',
         NEW e \in {tok} \cup Synthesized, NEW t \in Synthesized, EnterToken(e, t)
  PROVE  Stream!Enter
<1>1. Quiet /\ ret = NoTok /\ calls = <<>> /\ StackOK
  BY IdleQuiet DEF EnterToken, IInv, TypeOK, StackOK
<1>2. /\ EnterCachingLexMode /\ cachedTokens' = InsertAt(cachedTokens, cachedLexPos + 1, e)
      /\ tok' = t /\ peeked' = NoPeek
      /\ UNCHANGED <<cachedLexPos, backtrackPositions, calls, ret, prevToks>>
  BY DEF EnterToken
<1>3. Quiet' /\ Uncached' = Uncached
  BY <1>1, <1>2, StillIdle, EnterKeeps
<1>4. e \in Token
  BY DEF IInv, TypeOK, Token
<1>5. cachedLexPos \in Nat /\ \A i \in DOMAIN backtrackPositions : backtrackPositions[i] <= cachedLexPos
  BY <1>1 DEF Quiet
<1>6. cachedTokens' = Spliced(cachedTokens, cachedLexPos, cachedLexPos, e)
  <2>1. PICK k : k = cachedLexPos + 1 /\ k - 1 = cachedLexPos
    BY <1>5
  <2>2. cachedTokens' = SubSeq(cachedTokens, 1, k - 1) \o <<e>> \o SubSeq(cachedTokens, k, Len(cachedTokens))
    BY <1>2, <2>1 DEF InsertAt
  <2> QED BY <2>1, <2>2 DEF Spliced, Beyond
<1>7. cachedLexPos <= cachedLexPos /\ cachedLexPos - cachedLexPos = 0 /\ cachedLexPos' = cachedLexPos
  BY <1>2, <1>5
<1>8. /\ Marks' = Rewriting(Marks, Future, cachedLexPos - cachedLexPos, <<e>>)
      /\ cachedLexPos' = cachedLexPos + 1 => Future' = Future
      /\ cachedLexPos' = cachedLexPos /\ cachedLexPos = cachedLexPos => Future' = <<e>> \o Future
  BY <1>1, <1>2, <1>3, <1>4, <1>5, <1>6, <1>7, CacheRewritten
<1>9. Stream!Rewrite(0, <<e>>) /\ Future' = <<e>> \o Future
  BY <1>7, <1>8, RewriteIs
<1> QED BY <1>2, <1>9 DEF Stream!Enter, Stream!NoPeek, NoPeek

LEMMA EnterTokenStreamIsEnterStream ==
  ASSUME ~NestedStreams, Expansions, IInv, RefInv, IInv', RefInv', NEW s \in Streams, EnterTokenStream(s)
  PROVE  Stream!EnterStream
<1>1. Quiet /\ ret = NoTok /\ calls = <<>> /\ StackOK /\ AtRest
  BY IdleQuiet DEF EnterTokenStream, IInv, TypeOK, StackOK
<1>2. /\ ~InCachingLexMode /\ includeMacroStack' = Append(includeMacroStack, cur)
      /\ cur' = TokenLexer(Append(s, tok)) /\ calls' = <<LexCall>> /\ peeked' = NoPeek
      /\ UNCHANGED <<cache, ret, tok, prevToks>>
  BY DEF EnterTokenStream, PushIncludeMacroStack
<1>3. cachedTokens = <<>> /\ backtrackPositions = <<>> /\ cachedLexPos = 0
  <2>1. cachedTokens = <<>> /\ backtrackPositions = <<>>
    BY <1>1, <1>2 DEF AtRest
  <2>2. cachedLexPos \in Nat /\ cachedLexPos <= Len(<<>>) /\ Len(<<>>) = 0
    BY <1>1, <2>1 DEF Quiet
  <2> QED BY <2>1, <2>2
<1>4. ~Peeking'
  BY <1>2, CallFacts DEF Peeking
<1>5. Quiet'
  BY <1>1, <1>2, <1>4, QuietNext
<1>6. Future = Uncached /\ Future' = Uncached' /\ Marks = <<>> /\ Marks' = <<>>
      /\ Uncached \in Seq(Token)
  <2>1. \A u \in Seq(Token) : Beyond(<<>>, 0) \o u = u
    <3>1. <<>> \in Seq(Token) /\ Len(<<>>) = 0 /\ 0 \in Nat
      OBVIOUS
    <3> QED BY <3>1, BehindNothing
  <2>2. Uncached \in Seq(Token) /\ Future = Beyond(<<>>, 0) \o Uncached /\ Marks = MarksOf(<<>>, <<>>, Uncached)
    BY <1>1, <1>3 DEF Quiet
  <2>3. Uncached' \in Seq(Token) /\ Future' = Beyond(<<>>, 0) \o Uncached' /\ Marks' = MarksOf(<<>>, <<>>, Uncached')
    BY <1>2, <1>3, <1>5 DEF Quiet, cache
  <2> QED BY <2>1, <2>2, <2>3, NoMarks
<1>7. PICK r \in Seq(Token) : r = Append(s, tok)
  <2>1. tok \in Token /\ s \in Seq(Token)
    BY SourcesAssumption DEF IInv, TypeOK, Token
  <2>2. Append(s, tok) \in Seq(Token)
    BY <2>1
  <2> QED BY <2>2
<1>8. PICK a : a = Append(includeMacroStack, cur)
  OBVIOUS
<1>9. a \in Stacks /\ a # <<>>
  BY <1>1, <1>8 DEF StackOK, Stacks
<1>10. PICK l \in LexerState : l = TokenLexer(r) /\ l.toks = r
  <2>1. r \in Seq(Token \cup Item)
    OBVIOUS
  <2>2. TokenLexer(r) \in LexerState /\ TokenLexer(r).toks = r
    BY <2>1 DEF TokenLexer, LexerState
  <2> QED BY <2>2
<1>11. Uncached' = Remaining(Append(a, l))
  BY <1>2, <1>7, <1>8, <1>10 DEF Uncached, Remaining, EndOf
<1>12. Remaining(Append(a, l)) = TokensOf[r] \o Remaining(a)
  BY <1>9, <1>10, RemainingPushed
<1>13. TokensOf[r] = r
  BY TokensAreThemselves DEF Expansions
<1>14. Remaining(a) = Uncached
  BY <1>1, <1>8, UncachedType
<1>15. Future' = Append(s, tok) \o Future
  BY <1>6, <1>7, <1>11, <1>12, <1>13, <1>14
<1> QED BY <1>2, <1>6, <1>15 DEF Stream!EnterStream, Stream!NoPeek, NoPeek

LEMMA AnnotateIsAnnotate ==
  ASSUME Expansions, IInv, RefInv, IInv', RefInv', NEW k \in 1 .. MaxCached, NEW t \in Synthesized,
         AnnotateCachedTokens(k, t)
  PROVE  Stream!Annotate
<1>1. Quiet /\ ret = NoTok /\ calls = <<>>
  BY IdleQuiet DEF AnnotateCachedTokens
<1>2. /\ backtrackPositions # <<>> /\ cachedLexPos - k >= Last(backtrackPositions)
      /\ cachedTokens' = Append(SubSeq(cachedTokens, 1, cachedLexPos - k), t)
                           \o SubSeq(cachedTokens, cachedLexPos + 1, Len(cachedTokens))
      /\ cachedLexPos' = cachedLexPos - k + 1 /\ tok' = t
      /\ UNCHANGED <<lexers, backtrackPositions, calls, ret, prevToks, peeked>>
  BY DEF AnnotateCachedTokens, isBacktrackEnabled
<1>3. Quiet' /\ Uncached' = Uncached
  BY <1>1, <1>2, StillIdle DEF lexers, Uncached
<1>4. t \in Token /\ k \in Nat /\ k >= 1
  BY BoundsAssumption DEF Token
<1>5. cachedLexPos \in Nat /\ cachedTokens \in Seq(Token) /\ cachedLexPos <= Len(cachedTokens)
      /\ Len(cachedTokens) \in Nat
  BY <1>1 DEF Quiet
<1>6. PICK q \in Nat : /\ q = cachedLexPos - k /\ q <= cachedLexPos /\ cachedLexPos - q = k
                       /\ q >= Last(backtrackPositions) /\ q <= Len(cachedTokens)
  BY <1>1, <1>2, <1>4, <1>5, QuietMarks
<1>7. cachedTokens' = Spliced(cachedTokens, q, cachedLexPos, t)
  <2>1. PICK x : x = SubSeq(cachedTokens, 1, q)
    OBVIOUS
  <2>2. x \in Seq(Token)
    <3>1. 0 \in Nat /\ 0 <= q /\ 0 + 1 = 1
      BY <1>6
    <3>2. IsSlice(Token, Slice(cachedTokens, 0, q), cachedTokens, 0, q)
      BY <1>5, <1>6, <3>1, SliceFacts
    <3>3. x = Slice(cachedTokens, 0, q)
      BY <2>1, <3>1 DEF Slice
    <3> QED BY <3>2, <3>3 DEF IsSlice
  <2>3. Append(x, t) = x \o <<t>>
    BY <1>4, <2>2
  <2> QED BY <1>2, <1>6, <2>1, <2>3 DEF Spliced, Beyond
<1>8. \A i \in DOMAIN backtrackPositions :
        backtrackPositions[i] <= q \/ (backtrackPositions[i] = cachedLexPos /\ cachedLexPos = q + 1)
  <2>1. \A i \in DOMAIN backtrackPositions : backtrackPositions[i] \in Nat
          /\ backtrackPositions[i] <= Last(backtrackPositions)
    BY <1>1, <1>2, QuietMarks
  <2>2. Last(backtrackPositions) \in Nat
    BY <1>1, <1>2, QuietMarks
  <2> QED BY <1>6, <2>1, <2>2
<1>9. /\ Marks' = Rewriting(Marks, Future, cachedLexPos - q, <<t>>)
      /\ cachedLexPos' = q + 1 => Future' = Future
      /\ cachedLexPos' = q /\ q = cachedLexPos => Future' = <<t>> \o Future
  BY <1>1, <1>2, <1>3, <1>4, <1>6, <1>7, <1>8, CacheRewritten
<1>10. Stream!Rewrite(k, <<t>>)
  BY <1>6, <1>9, RewriteIs
<1>11. Future' = Future
  BY <1>2, <1>6, <1>9
<1>12. k \in 1 .. Stream!Taken(Stream!Last(Marks)) /\ Marks # <<>>
  <2>1. Stream!Taken(Last(Marks)) = cachedLexPos - Last(backtrackPositions) /\ Marks # <<>>
    BY <1>1, <1>2, TakenSinceMark, InnermostMark
  <2>2. Last(backtrackPositions) \in Nat
    BY <1>1, <1>2, QuietMarks
  <2>3. k \in 1 .. cachedLexPos - Last(backtrackPositions)
    BY <1>4, <1>5, <1>6, <2>2
  <2> QED BY <2>1, <2>3, StreamEnds
<1> QED BY <1>2, <1>10, <1>11, <1>12 DEF Stream!Annotate

LEMMA Corrected ==
  ASSUME NEW s \in Seq(Token), NEW p \in Nat \ {0}, p <= Len(s), NEW t \in Token
  PROVE  [s EXCEPT ![p] = t] = Spliced(s, p - 1, p, t)
<1>1. PICK q \in Nat, l \in Nat : q = p - 1 /\ l = Len(s) /\ q <= l /\ p = q + 1 /\ p <= l
  <2>1. p - 1 \in Nat /\ Len(s) \in Nat /\ p - 1 <= Len(s) /\ p = (p - 1) + 1
    OBVIOUS
  <2> QED BY <2>1
<1>2. PICK x : x = SubSeq(s, 1, q)
  OBVIOUS
<1>3. x \in Seq(Token) /\ Len(x) = q /\ \A i \in 1 .. q : x[i] = s[i]
  <2>1. 0 \in Nat /\ 0 <= q /\ q - 0 = q /\ 0 + 1 = 1 /\ \A i \in 1 .. q : 0 + i = i
    OBVIOUS
  <2>2. IsSlice(Token, Slice(s, 0, q), s, 0, q)
    BY <1>1, <2>1, SliceFacts
  <2>3. x = Slice(s, 0, q)
    BY <1>2, <2>1 DEF Slice
  <2> QED BY <2>1, <2>2, <2>3 DEF IsSlice
<1>4. PICK y : y = Beyond(s, p)
  OBVIOUS
<1>5. y \in Seq(Token) /\ Len(y) = l - p /\ \A i \in 1 .. l - p : y[i] = s[p + i]
  <2>1. IsSlice(Token, Slice(s, p, l), s, p, l)
    BY <1>1, SliceFacts
  <2>2. y = Slice(s, p, l)
    BY <1>1, <1>4 DEF Slice, Beyond
  <2> QED BY <2>1, <2>2 DEF IsSlice
<1>6. PICK a : a = x \o <<t>>
  OBVIOUS
<1>7. a \in Seq(Token) /\ Len(a) = p /\ a[p] = t /\ \A i \in 1 .. q : a[i] = s[i]
  <2>1. x \in Seq(Token) /\ <<t>> \in Seq(Token) /\ Len(<<t>>) = 1 /\ <<t>>[1] = t
    BY <1>3
  <2>2. /\ x \o <<t>> \in Seq(Token)
        /\ Len(x \o <<t>>) = Len(x) + Len(<<t>>)
        /\ \A i \in 1 .. Len(x) + Len(<<t>>) :
             (x \o <<t>>)[i] = IF i <= Len(x) THEN x[i] ELSE <<t>>[i - Len(x)]
    BY <2>1, ConcatProperties
  <2>3. p \in 1 .. q + 1 /\ ~(p <= q) /\ p - q = 1 /\ \A i \in 1 .. q : i \in 1 .. q + 1 /\ i <= q
    BY <1>1
  <2> QED BY <1>1, <1>3, <1>6, <2>1, <2>2, <2>3
<1>8. PICK r : r = a \o y
  OBVIOUS
<1>9. /\ r \in Seq(Token) /\ Len(r) = l /\ r[p] = t /\ \A i \in 1 .. l : i # p => r[i] = s[i]
  <2>1. a \in Seq(Token) /\ y \in Seq(Token)
    BY <1>5, <1>7
  <2>2. /\ a \o y \in Seq(Token)
        /\ Len(a \o y) = Len(a) + Len(y)
        /\ \A i \in 1 .. Len(a) + Len(y) : (a \o y)[i] = IF i <= Len(a) THEN a[i] ELSE y[i - Len(a)]
    BY <2>1, ConcatProperties
  <2>3. Len(a) + Len(y) = l /\ Len(a) = p
    BY <1>1, <1>5, <1>7
  <2>4. p \in 1 .. l /\ p <= p
    BY <1>1
  <2>5. ASSUME NEW i \in 1 .. l, i # p PROVE r[i] = s[i]
    <3>1. CASE i <= p
      <4>1. i \in 1 .. q
        BY <1>1, <2>5, <3>1
      <4> QED BY <1>7, <1>8, <2>2, <2>3, <2>5, <3>1, <4>1
    <3>2. CASE ~(i <= p)
      <4>1. i - p \in 1 .. l - p /\ p + (i - p) = i
        BY <1>1, <2>5, <3>2
      <4> QED BY <1>5, <1>8, <2>2, <2>3, <2>5, <3>2, <4>1
    <3> QED BY <3>1, <3>2
  <2> QED BY <1>7, <1>8, <2>2, <2>3, <2>4, <2>5
<1>10. PICK g : g = [s EXCEPT ![p] = t]
  OBVIOUS
<1>11. g \in Seq(Token) /\ Len(g) = l /\ g[p] = t /\ \A i \in 1 .. l : i # p => g[i] = s[i]
  BY <1>1, <1>10
<1>12. \A i \in 1 .. l : g[i] = r[i]
  BY <1>9, <1>11
<1>13. g = r
  BY <1>9, <1>11, <1>12, SeqEqual
<1> QED BY <1>1, <1>2, <1>4, <1>6, <1>8, <1>10, <1>13 DEF Spliced

LEMMA TypoCorrectIsAnnotate ==
  ASSUME Expansions, IInv, RefInv, IInv', RefInv', NEW t \in Synthesized, TypoCorrectToken(t)
  PROVE  Stream!Annotate
<1>1. Quiet /\ ret = NoTok /\ calls = <<>>
  BY IdleQuiet DEF TypoCorrectToken
<1>2. /\ cachedTokens' = IF cachedLexPos # 0 /\ isBacktrackEnabled
                         THEN [cachedTokens EXCEPT ![cachedLexPos] = t]
                         ELSE cachedTokens
      /\ tok' = t
      /\ UNCHANGED <<lexers, cachedLexPos, backtrackPositions, calls, ret, prevToks, peeked>>
  BY DEF TypoCorrectToken
<1>3. Quiet' /\ Uncached' = Uncached
  BY <1>1, <1>2, StillIdle DEF lexers, Uncached
<1>4. t \in Token
  BY DEF Token
<1>5. cachedLexPos \in Nat /\ cachedTokens \in Seq(Token) /\ cachedLexPos <= Len(cachedTokens)
  BY <1>1 DEF Quiet
<1>6. CASE cachedLexPos # 0 /\ isBacktrackEnabled
  <2>1. PICK q \in Nat : q = cachedLexPos - 1 /\ q <= cachedLexPos /\ cachedLexPos - q = 1 /\ cachedLexPos = q + 1
    <3>1. cachedLexPos - 1 \in Nat /\ cachedLexPos - 1 <= cachedLexPos /\ cachedLexPos - (cachedLexPos - 1) = 1
          /\ cachedLexPos = (cachedLexPos - 1) + 1
      BY <1>5, <1>6
    <3> QED BY <3>1
  <2>2. cachedTokens' = Spliced(cachedTokens, q, cachedLexPos, t)
    <3>1. cachedLexPos \in Nat \ {0}
      BY <1>5, <1>6
    <3>2. [cachedTokens EXCEPT ![cachedLexPos] = t] = Spliced(cachedTokens, cachedLexPos - 1, cachedLexPos, t)
      BY <1>4, <1>5, <3>1, Corrected
    <3> QED BY <1>2, <1>6, <2>1, <3>2
  <2>3. \A i \in DOMAIN backtrackPositions :
          backtrackPositions[i] <= q \/ (backtrackPositions[i] = cachedLexPos /\ cachedLexPos = q + 1)
    <3>1. \A i \in DOMAIN backtrackPositions : backtrackPositions[i] \in Nat /\ backtrackPositions[i] <= cachedLexPos
      BY <1>1, QuietMarks DEF Quiet
    <3> QED BY <1>5, <2>1, <3>1
  <2>4. /\ Marks' = Rewriting(Marks, Future, cachedLexPos - q, <<t>>)
        /\ cachedLexPos' = q + 1 => Future' = Future
        /\ cachedLexPos' = q /\ q = cachedLexPos => Future' = <<t>> \o Future
    BY <1>1, <1>2, <1>3, <1>4, <2>1, <2>2, <2>3, CacheRewritten
  <2>5. Stream!Rewrite(1, <<t>>) /\ Future' = Future
    BY <1>2, <2>1, <2>4, RewriteIs
  <2> QED BY <1>2, <2>5 DEF Stream!Annotate
<1>7. CASE ~(cachedLexPos # 0 /\ isBacktrackEnabled)
  <2>1. cachedTokens' = cachedTokens
    BY <1>2, <1>7
  <2>2. Future' = Future /\ Marks' = Marks
    BY <1>1, <1>2, <1>3, <2>1 DEF Quiet
  <2>3. \A i \in DOMAIN Marks : ~(Len(Marks[i]) - Len(Future) >= 1)
    <3>1. CASE backtrackPositions = <<>>
      <4>1. Marks = <<>> /\ DOMAIN <<>> = {}
        BY <1>1, <3>1, NoMarks DEF Quiet
      <4> QED BY <4>1
    <3>2. CASE cachedLexPos = 0
      <4>1. PICK c \in Seq(Token), u \in Seq(Token), b \in Seq(Nat) :
              /\ c = cachedTokens /\ u = Uncached /\ b = backtrackPositions
              /\ Marks = MarksOf(c, b, u) /\ \A i \in DOMAIN b : b[i] <= 0 /\ b[i] <= Len(c)
        BY <1>1, <3>2, QuietMarks DEF Quiet
      <4>2. /\ DOMAIN MarksOf(c, b, u) = DOMAIN b
            /\ \A i \in DOMAIN b : Len(MarksOf(c, b, u)[i]) = Len(c) - b[i] + Len(u)
        BY <4>1, MarksType
      <4>3. \A i \in DOMAIN b : b[i] = 0
        BY <4>1
      <4>4. Len(Future) = Len(c) - 0 + Len(u)
        BY <1>1, <3>2, <4>1, QuietFuture
      <4>5. Len(c) \in Nat /\ Len(u) \in Nat
        OBVIOUS
      <4> QED BY <4>1, <4>2, <4>3, <4>4, <4>5
    <3> QED BY <1>7, <3>1, <3>2 DEF isBacktrackEnabled
  <2>4. Marks = [i \in DOMAIN Marks |-> Marks[i]]
    BY DEF Marks
  <2>5. Marks' = Rewriting(Marks, Future, 1, <<t>>)
    BY <2>2, <2>3, <2>4 DEF Rewriting
  <2>6. Stream!Rewrite(1, <<t>>)
    BY <2>5, RewriteIs
  <2> QED BY <1>2, <2>2, <2>6 DEF Stream!Annotate
<1> QED BY <1>6, <1>7

-----------------------------------------------------------------------------
(* Every step of the token cache is a step of the token stream, or none.    *)

LEMMA InitIsInit == ASSUME Expansions, Init PROVE Stream!Init
<1>1. PICK f \in MainFiles : cur = FileLexer(f)
  BY DEF Init
<1>2. /\ includeMacroStack = <<>> /\ cachedTokens = <<>> /\ cachedLexPos = 0 /\ backtrackPositions = <<>>
      /\ calls = <<>> /\ ret = NoTok /\ tok = Unknown /\ prevToks = <<>> /\ peeked = NoPeek
  BY DEF Init
<1>3. Quiet
  <2>1. IInv /\ RefInv
    BY IInvInit, RefInvInit
  <2>2. Idle
    BY <1>2 DEF Idle
  <2> QED BY <2>1, <2>2, IdleQuiet
<1>4. Future = Uncached /\ Marks = <<>>
  <2>1. <<>> \in Seq(Token) /\ Len(<<>>) = 0 /\ 0 \in Nat
    OBVIOUS
  <2>2. Beyond(<<>>, 0) \o Uncached = Uncached
    BY <1>3, <2>1, BehindNothing DEF Quiet
  <2> QED BY <1>2, <1>3, <2>2, NoMarks DEF Quiet
<1>5. PICK l \in LexerState : l = FileLexer(f) /\ l.toks = f /\ l.kind = "file"
  <2>1. f \in Seq(Token \cup Item)
    BY SourcesAssumption DEF Token, Item
  <2>2. FileLexer(f) \in LexerState /\ FileLexer(f).toks = f /\ FileLexer(f).kind = "file"
    BY <2>1 DEF FileLexer, LexerState
  <2> QED BY <2>2
<1>6. Uncached = Held[Append(<<>>, l)] \o <<Eof>>
  <2>1. Append(<<>>, l)[1] = l
    OBVIOUS
  <2> QED BY <1>1, <1>2, <1>5, <2>1 DEF Uncached
<1>7. Held[Append(<<>>, l)] = TokensOf[f] /\ TokensOf[f] \in Seq(Token)
  <2>1. <<>> \in Stacks /\ Holds
    BY DEF Stacks, Expansions
  <2>2. Held[Append(<<>>, l)] = TokensOf[l.toks] \o Held[<<>>]
    BY <2>1, PushedHeld
  <2>3. Held[<<>>] = <<>>
    BY <2>1 DEF Holds
  <2>4. TokensOf[f] \in Seq(Token)
    BY <1>5, LexerText
  <2>5. TokensOf[f] \o <<>> = TokensOf[f]
    BY <2>4, ConcatEmptySeq
  <2> QED BY <1>5, <2>2, <2>3, <2>4, <2>5
<1>8. Future = Append(TokensOf[f], Eof)
  <2>1. PICK s \in Seq(Token) : s = TokensOf[f]
    BY <1>7
  <2>2. Eof \in Token
    BY DEF Token
  <2>3. s \o <<Eof>> = Append(s, Eof)
    BY <2>2
  <2> QED BY <1>4, <1>6, <1>7, <2>1, <2>3
<1>9. Future \in Inputs
  BY <1>8 DEF Inputs
<1> QED BY <1>2, <1>4, <1>9 DEF Stream!Init, Stream!NoPeek, NoPeek

LEMMA AnsweredIsLookAhead ==
  ASSUME Shown, NEW n \in Nat, Answered(n)
  PROVE  \E m \in 0 .. Len(Future) : Stream!LookAhead(m)
<1>1. Len(Future) \in Nat
  <2>1. PICK x : x = Beyond(Cached, cachedLexPos)
    OBVIOUS
  <2>2. x \in Seq(Token) /\ Behind \in Seq(Token)
    BY <2>1, BeyondType DEF Shown
  <2>3. PICK y : y = x \o Behind
    OBVIOUS
  <2>4. y \in Seq(Token)
    BY <2>2, <2>3, TokensConcat
  <2>5. Future = (IF FromCache THEN <<ret>> ELSE <<>>) \o y
    BY <2>1, <2>3 DEF Shown
  <2>6. <<ret>> \in Seq({ret}) /\ <<>> \in Seq({ret})
    OBVIOUS
  <2>7. PICK r \in Seq({ret}) : Future = r \o y
    BY <2>5, <2>6
  <2>8. r \in Seq(Token \cup {ret}) /\ y \in Seq(Token \cup {ret})
    BY <2>4
  <2>9. r \o y \in Seq(Token \cup {ret})
    BY <2>8, ConcatProperties
  <2> QED BY <2>7, <2>9
<1>2. n \in 0 .. Len(Future)
  BY <1>1 DEF Answered
<1>3. Stream!LookAhead(n)
  BY DEF Answered, Stream!LookAhead
<1> QED BY <1>2, <1>3

LEMMA NextIsNext ==
  ASSUME ~NestedStreams, Expansions, IInv, PeekedInv, RefInv, [Next]_vars
  PROVE  [Stream!Next]_(Stream!vars)
<1>1. IInv' /\ RefInv' /\ Shown
  BY IInvNext, RefInvNext, ShownHolds
<1>2. Still => UNCHANGED Stream!vars
  BY DEF Still, client, Stream!vars
<1>3. (\E n \in Nat : Answered(n)) => Stream!Next
  BY <1>1, AnsweredIsLookAhead DEF Stream!Next
<1>4. CASE UNCHANGED vars
  <2>1. UNCHANGED <<cur, includeMacroStack, cachedTokens, cachedLexPos, backtrackPositions, calls, ret, client>>
    BY <1>4 DEF vars, lexers, cache
  <2>2. Peeking' = Peeking /\ InFlight' = InFlight /\ Uncached' = Uncached
    BY <2>1 DEF Peeking, InFlight, Uncached
  <2>3. Cached' = Cached /\ FromCache' = FromCache
    BY <2>1, <2>2 DEF Cached, FromCache, InCachingLexMode
  <2>4. Future' = Future
    BY <2>1, <2>2, <2>3 DEF Future, From
  <2>5. Marks' = Marks
    BY <2>1, <2>2, <2>3 DEF Marks, Mark, From
  <2> QED BY <1>2, <2>1, <2>4, <2>5 DEF Still
<1>5. CASE \/ LexToken \/ SkipEmptyMacro \/ ExpandTrivialMacro \/ EnterMacro
           \/ EnterSourceFile \/ HandleEndOfFile \/ HandleEndOfTokenLexer
  BY <1>1, <1>2, <1>5, LexersAreSilent
<1>6. CASE CachingLex \/ CachingLexReturn
  BY <1>1, <1>2, <1>6, CachingLexIsSilent, CachingLexReturnIsSilent
<1>7. CASE PeekAheadReturn
  BY <1>1, <1>2, <1>3, <1>7, PeekAheadReturnAnswers
<1>8. CASE LexReturn
  BY <1>1, <1>8, LexReturnIsLex DEF Stream!Next
<1>9. CASE Lex
  BY <1>1, <1>2, <1>9, LexIsSilent
<1>10. CASE \E n \in 0 .. MaxLookAhead : LookAhead(n)
  <2>1. PICK n \in 0 .. MaxLookAhead : LookAhead(n)
    BY <1>10
  <2>2. n \in Nat
    BY BoundsAssumption
  <2>3. Still \/ Answered(n)
    BY <1>1, <2>1, <2>2, LookAheadAnswers
  <2> QED BY <1>2, <1>3, <2>2, <2>3
<1>11. CASE EnableBacktrackAtThisPos
  BY <1>1, <1>11, EnableIsEnable DEF Stream!Next
<1>12. CASE CommitBacktrackedTokens
  BY <1>1, <1>12, CommitIsCommit DEF Stream!Next
<1>13. CASE Backtrack
  BY <1>1, <1>13, BacktrackIsBacktrack DEF Stream!Next
<1>14. CASE \E n \in 1 .. MaxCached, t \in {tok} \cup Synthesized : RevertCachedTokens(n, t)
  BY <1>1, <1>14, RevertIsRevert DEF Stream!Next
<1>15. CASE \E e \in {tok} \cup Synthesized, t \in Synthesized : EnterToken(e, t)
  BY <1>1, <1>15, EnterTokenIsEnter DEF Stream!Next
<1>16. CASE \E s \in Streams : EnterTokenStream(s)
  BY <1>1, <1>16, EnterTokenStreamIsEnterStream DEF Stream!Next
<1>17. CASE \E k \in 1 .. MaxCached, t \in Synthesized : AnnotateCachedTokens(k, t)
  BY <1>1, <1>17, AnnotateIsAnnotate DEF Stream!Next
<1>18. CASE \E t \in Synthesized : TypoCorrectToken(t)
  BY <1>1, <1>18, TypoCorrectIsAnnotate DEF Stream!Next
<1> QED BY <1>4, <1>5, <1>6, <1>7, <1>8, <1>9, <1>10, <1>11, <1>12, <1>13, <1>14, <1>15, <1>16, <1>17, <1>18
        DEF Next, ClientCall, LexerStep

THEOREM TokenStreamImplemented ==
  ASSUME ~NestedStreams, NEW rank, IsRank(rank)
  PROVE  Spec => RefinesTokenStream
<1>1. Expansions
  <2>1. Expands
    BY TokensExist
  <2> QED BY <2>1, HeldExists DEF Expansions
<1>2. Init => IInv /\ PeekedInv /\ RefInv /\ Stream!Init
  BY <1>1, IInvInit, PeekedInit, RefInvInit, InitIsInit
<1>3. IInv /\ PeekedInv /\ RefInv /\ [Next]_vars
        => (IInv /\ PeekedInv /\ RefInv)' /\ [Stream!Next]_(Stream!vars)
  BY <1>1, IInvNext, PeekedNext, RefInvNext, NextIsNext
<1> QED BY <1>2, <1>3, PTL DEF Spec, RefinesTokenStream, Stream!Spec
=============================================================================
