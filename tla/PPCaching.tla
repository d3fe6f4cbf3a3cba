------------------------------ MODULE PPCaching ------------------------------
(***************************************************************************)
(* The token stream of lfort's Preprocessor: the stack of lexers that      *)
(* #include, macro expansion and entered token streams build, and the      *)
(* token cache that gives the parser lookahead and tentative parsing       *)
(* (lib/Lex/PPCaching.cpp, lib/Lex/PPLexerChange.cpp,                      *)
(* include/lfort/Lex/Preprocessor.h).                                      *)
(*                                                                         *)
(* The client is the Parser: it calls Lex, LookAhead, the backtracking     *)
(* operations, EnterToken, EnterTokenStream and the annotation operations, *)
(* one at a time.  A call of Lex or PeekAhead is not atomic: it re-enters  *)
(* Preprocessor::Lex through the lexer stack, so "calls" holds the         *)
(* activation records between which the stack and the cache change, and    *)
(* every step of the stack machine is an action.                           *)
(*                                                                         *)
(* Characters, locations and token payloads are abstracted: a file or a    *)
(* macro body is a sequence of items, each a token, a macro name or an     *)
(* #include of a header.                                                   *)
(***************************************************************************)
EXTENDS Integers, Sequences, SequencesExt

CONSTANTS
  Plain,               \* tokens written in files, macro bodies and streams
  Synthesized,         \* tokens the parser makes: annotations, corrections
  Eof,                 \* tok::eof
  Unknown,             \* Token(), the placeholder PeekAhead fills in
  NoTok,               \* no token has been returned yet
  Macros, Headers,     \* the items that push a lexer
  Body,                \* what a macro expands to, what a header contains
  MainFiles,           \* possible contents of the primary source file
  Streams,             \* token sequences the parser re-enters
  TokenLexerCacheSize, \* Preprocessor.h:347
  MaxCached,           \* bound: length of the cache when a call starts
  MaxMarks,            \* bound: nesting of tentative parsing actions
  MaxDepth,            \* bound: lexer stack depth when a stream is entered
  MaxLookAhead,        \* bound: largest argument of LookAhead
  NestedStreams,       \* the parser enters a stream in caching mode
  UncheckedPeeks       \* distances the parser peeks without looking before

ASSUME TokensAssumption ==
  /\ {Eof, Unknown, NoTok} \cap (Plain \cup Synthesized \cup Macros \cup Headers) = {}
  /\ Eof # Unknown /\ Eof # NoTok /\ Unknown # NoTok
  /\ (Plain \cup Synthesized) \cap (Macros \cup Headers) = {}
  /\ Macros \cap Headers = {}

Item == Plain \cup Macros \cup Headers

ASSUME SourcesAssumption ==
  /\ Body \in [Macros \cup Headers -> Seq(Item)]
  /\ MainFiles \subseteq Seq(Item)
  /\ Streams \subseteq Seq(Plain)

ASSUME BoundsAssumption ==
  /\ {TokenLexerCacheSize, MaxCached, MaxMarks, MaxDepth, MaxLookAhead} \subseteq Nat
  /\ UncheckedPeeks \subseteq Nat
  /\ NestedStreams \in BOOLEAN

VARIABLES
  cur,                  \* CurLexerKind and the current lexer pointers
  includeMacroStack,    \* IncludeMacroStack, bottom first
  numCachedTokenLexers, \* NumCachedTokenLexers
  cachedTokens,         \* CachedTokens
  cachedLexPos,         \* CachedLexPos: tokens of the cache already delivered
  backtrackPositions,   \* BacktrackPositions
  calls,                \* activation records of Lex, CachingLex, PeekAhead
  ret,                  \* the token the innermost Lex has produced
  tok,                  \* Parser::Tok
  prevToks,             \* TentativeParsingAction::PrevTok, one per mark
  peeked                \* last LookAhead still standing: distance and token

lexers == <<cur, includeMacroStack, numCachedTokenLexers>>
cache  == <<cachedTokens, cachedLexPos, backtrackPositions>>
client == <<tok, prevToks, peeked>>
vars   == <<lexers, cache, calls, ret, client>>

Token == Plain \cup Synthesized \cup {Eof, Unknown}

(* An IncludeStackInfo: the lexer kind with the lexer it stands for.  kind  *)
(* says which pointer is set: "file" CurPPLexer, "tokens" CurTokenLexer,    *)
(* "none" neither of them.                                                  *)
LexerState == [clk  : {"Lexer", "TokenLexer", "CachingLexer"},
               kind : {"file", "tokens", "none"},
               toks : Seq(Token \cup Item)]

FileLexer(s)  == [clk |-> "Lexer", kind |-> "file", toks |-> s]
TokenLexer(s) == [clk |-> "TokenLexer", kind |-> "tokens", toks |-> s]
CachingLexer  == [clk |-> "CachingLexer", kind |-> "none", toks |-> <<>>]

(* An activation record: n is PeekAhead's distance less one, c the tokens   *)
(* its loop has still to lex.                                               *)
Call == [fn : {"Lex", "CachingLex", "PeekAhead"}, n : Nat, c : Nat]

LexCall        == [fn |-> "Lex", n |-> 0, c |-> 0]
CachingLexCall == [fn |-> "CachingLex", n |-> 0, c |-> 0]

NoPeek  == [n |-> 0, t |-> NoTok]

Init ==
  /\ \E f \in MainFiles : cur = FileLexer(f)
  /\ includeMacroStack = <<>>
  /\ numCachedTokenLexers = 0
  /\ cachedTokens = <<>>
  /\ cachedLexPos = 0
  /\ backtrackPositions = <<>>
  /\ calls = <<>>
  /\ ret = NoTok
  /\ tok = Unknown
  /\ prevToks = <<>>
  /\ peeked = NoPeek

-----------------------------------------------------------------------------
(* The lexer stack.                                                         *)

InCachingLexMode == cur.kind = "none" /\ includeMacroStack # <<>>

isBacktrackEnabled == backtrackPositions # <<>>

PushIncludeMacroStack == includeMacroStack' = Append(includeMacroStack, cur)

PopIncludeMacroStack ==
  /\ cur' = Last(includeMacroStack)
  /\ includeMacroStack' = Front(includeMacroStack)

(* Mutant: pushes a caching level though one is there.                      *)
EnterCachingLexModeTwice == PushIncludeMacroStack /\ cur' = CachingLexer

EnterCachingLexMode ==
  IF InCachingLexMode
  THEN UNCHANGED <<cur, includeMacroStack>>
  ELSE PushIncludeMacroStack /\ cur' = CachingLexer

ExitCachingLexMode ==
  IF InCachingLexMode
  THEN PopIncludeMacroStack
  ELSE UNCHANGED <<cur, includeMacroStack>>

(* A TokenLexer is taken from the free list when one is there.              *)
TakeTokenLexer ==
  numCachedTokenLexers' = IF numCachedTokenLexers = 0 THEN 0
                          ELSE numCachedTokenLexers - 1

ReleaseTokenLexer ==
  numCachedTokenLexers' = IF numCachedTokenLexers = TokenLexerCacheSize
                          THEN numCachedTokenLexers
                          ELSE numCachedTokenLexers + 1

(* The current lexer after it has consumed its first item.                  *)
Advanced == [cur EXCEPT !.toks = Tail(@)]

Idle    == calls = <<>>
Running == calls # <<>> /\ ret = NoTok
Returning(fn) == calls # <<>> /\ ret # NoTok /\ Last(calls).fn = fn

AtItem(S) == Running /\ cur.kind # "none" /\ cur.toks # <<>> /\ Head(cur.toks) \in S
AtEnd(k)  == Running /\ cur.kind = k /\ cur.toks = <<>>

(* Lexer::Lex and TokenLexer::Lex return the next token they hold.          *)
LexToken ==
  /\ AtItem(Token)
  /\ ret' = Head(cur.toks)
  /\ cur' = Advanced
  /\ UNCHANGED <<includeMacroStack, numCachedTokenLexers, cache, calls, client>>

(* HandleMacroExpandedIdentifier on a macro that expands to no token: the   *)
(* lexer goes on with its next item.                                        *)
SkipEmptyMacro ==
  /\ AtItem(Macros)
  /\ Body[Head(cur.toks)] = <<>>
  /\ cur' = Advanced
  /\ UNCHANGED <<includeMacroStack, numCachedTokenLexers, cache, calls, ret, client>>

(* A macro that stands for one token which is no macro itself is replaced   *)
(* in place.                                                                *)
Trivial(s) == Len(s) = 1 /\ Head(s) \in Plain

ExpandTrivialMacro ==
  /\ AtItem(Macros)
  /\ Trivial(Body[Head(cur.toks)])
  /\ ret' = Head(Body[Head(cur.toks)])
  /\ cur' = Advanced
  /\ UNCHANGED <<includeMacroStack, numCachedTokenLexers, cache, calls, client>>

(* Any other macro: EnterMacro, and lexing goes on in the expansion.        *)
EnterMacro ==
  /\ AtItem(Macros)
  /\ Body[Head(cur.toks)] # <<>>
  /\ ~Trivial(Body[Head(cur.toks)])
  /\ TakeTokenLexer
  /\ includeMacroStack' = Append(includeMacroStack, Advanced)
  /\ cur' = TokenLexer(Body[Head(cur.toks)])
  /\ UNCHANGED <<cache, calls, ret, client>>

(* An include: EnterSourceFileWithLexer, and lexing goes on in the header.  *)
EnterSourceFile ==
  /\ AtItem(Headers)
  /\ includeMacroStack' = Append(includeMacroStack, Advanced)
  /\ cur' = FileLexer(Body[Head(cur.toks)])
  /\ UNCHANGED <<numCachedTokenLexers, cache, calls, ret, client>>

(* The end of an included file pops the stack; the end of the primary file  *)
(* is the eof token, after which there is no lexer.                         *)
HandleEndOfFile ==
  /\ AtEnd("file")
  /\ IF includeMacroStack # <<>>
     THEN PopIncludeMacroStack /\ UNCHANGED ret
     ELSE /\ ret' = Eof
          /\ cur' = [clk |-> cur.clk, kind |-> "none", toks |-> <<>>]
          /\ UNCHANGED includeMacroStack
  /\ UNCHANGED <<numCachedTokenLexers, cache, calls, client>>

(* Mutant: the exhausted token lexer stays on the stack.                    *)
HandleEndOfTokenLexerNoPop ==
  /\ AtEnd("tokens")
  /\ ReleaseTokenLexer
  /\ UNCHANGED <<cur, includeMacroStack, cache, calls, ret, client>>

HandleEndOfTokenLexer ==
  /\ AtEnd("tokens")
  /\ ReleaseTokenLexer
  /\ PopIncludeMacroStack
  /\ UNCHANGED <<cache, calls, ret, client>>

-----------------------------------------------------------------------------
(* The token cache.                                                         *)

(* Mutant: the last cached token is taken for consumed.                     *)
CachingLexOffByOne ==
  /\ Running
  /\ cur.clk = "CachingLexer"
  /\ InCachingLexMode
  /\ IF cachedLexPos + 1 < Len(cachedTokens)
     THEN /\ ret' = cachedTokens[cachedLexPos + 1]
          /\ cachedLexPos' = cachedLexPos + 1
          /\ UNCHANGED <<cur, includeMacroStack, calls>>
     ELSE /\ ExitCachingLexMode
          /\ calls' = Append(calls, CachingLexCall)
          /\ UNCHANGED <<ret, cachedLexPos>>
  /\ UNCHANGED <<numCachedTokenLexers, cachedTokens, backtrackPositions, client>>

(* CachingLex up to its inner Lex.  Called out of caching mode it would     *)
(* return no token; KindAgrees says that this does not happen.              *)
CachingLex ==
  /\ Running
  /\ cur.clk = "CachingLexer"
  /\ InCachingLexMode
  /\ IF cachedLexPos < Len(cachedTokens)
     THEN /\ ret' = cachedTokens[cachedLexPos + 1]
          /\ cachedLexPos' = cachedLexPos + 1
          /\ UNCHANGED <<cur, includeMacroStack, calls>>
     ELSE /\ ExitCachingLexMode
          /\ calls' = Append(calls, CachingLexCall)
          /\ UNCHANGED <<ret, cachedLexPos>>
  /\ UNCHANGED <<numCachedTokenLexers, cachedTokens, backtrackPositions, client>>

(* CachingLex after its inner Lex.                                          *)
CachingLexReturn ==
  /\ Returning("CachingLex")
  /\ calls' = Front(calls)
  /\ IF isBacktrackEnabled
     THEN /\ EnterCachingLexMode
          /\ cachedTokens' = Append(cachedTokens, ret)
          /\ cachedLexPos' = cachedLexPos + 1
     ELSE IF cachedLexPos < Len(cachedTokens)
     THEN EnterCachingLexMode /\ UNCHANGED <<cachedTokens, cachedLexPos>>
     ELSE /\ cachedTokens' = <<>>
          /\ cachedLexPos' = 0
          /\ UNCHANGED <<cur, includeMacroStack>>
  /\ UNCHANGED <<numCachedTokenLexers, backtrackPositions, ret, client>>

(* Mutant: the token is lexed beside the placeholder, not into it.          *)
PeekAheadReturnUnfilled ==
  /\ Returning("PeekAhead")
  /\ Last(calls).c = 1
  /\ EnterCachingLexMode
  /\ calls' = Front(calls)
  /\ peeked' = [n |-> Last(calls).n, t |-> ret]
  /\ ret' = NoTok
  /\ UNCHANGED <<numCachedTokenLexers, cache, tok, prevToks>>

(* One turn of PeekAhead's loop ends: the placeholder at the back of the    *)
(* cache is the token just lexed.  The last turn re-enters caching mode.    *)
PeekAheadReturn ==
  /\ Returning("PeekAhead")
  /\ LET call   == Last(calls)
         filled == [cachedTokens EXCEPT ![Len(cachedTokens)] = ret]
     IN IF call.c > 1
        THEN /\ cachedTokens' = Append(filled, Unknown)
             /\ calls' = Append(Front(calls), [call EXCEPT !.c = @ - 1])
             /\ UNCHANGED <<cur, includeMacroStack, peeked>>
        ELSE /\ cachedTokens' = filled
             /\ EnterCachingLexMode
             /\ calls' = Front(calls)
             /\ peeked' = [n |-> call.n, t |-> ret]
  /\ ret' = NoTok
  /\ UNCHANGED <<numCachedTokenLexers, cachedLexPos, backtrackPositions, tok, prevToks>>

(* The parser's call of Lex is over: ConsumeToken has set Tok.              *)
LexReturn ==
  /\ Returning("Lex")
  /\ calls' = Front(calls)
  /\ ret' = NoTok
  /\ tok' = ret
  /\ peeked' = NoPeek
  /\ UNCHANGED <<lexers, cache, prevToks>>

-----------------------------------------------------------------------------
(* The operations the parser calls.                                         *)

Lex ==
  /\ Idle
  /\ tok # Eof
  /\ Len(cachedTokens) < MaxCached
  /\ calls' = <<LexCall>>
  /\ UNCHANGED <<lexers, cache, ret, client>>

(* The parser looks n tokens ahead only once it has seen that none of the   *)
(* tokens before is the end of the file.                                    *)
LookedBefore(n) ==
  \/ n \in UncheckedPeeks
  \/ \A j \in 1..n : /\ cachedLexPos + j <= Len(cachedTokens)
                     /\ cachedTokens[cachedLexPos + j] # Eof

(* LookAhead answers from the cache or starts PeekAhead(n + 1).             *)
LookAhead(n) ==
  /\ Idle
  /\ tok # Eof
  /\ LookedBefore(n)
  /\ IF cachedLexPos + n < Len(cachedTokens)
     THEN /\ peeked' = [n |-> n, t |-> cachedTokens[cachedLexPos + n + 1]]
          /\ UNCHANGED <<cur, includeMacroStack, cachedTokens, calls>>
     ELSE /\ Len(cachedTokens) < MaxCached
          /\ ExitCachingLexMode
          /\ cachedTokens' = Append(cachedTokens, Unknown)
          /\ calls' = <<[fn |-> "PeekAhead", n |-> n,
                         c |-> cachedLexPos + n + 1 - Len(cachedTokens)]>>
          /\ UNCHANGED peeked
  /\ UNCHANGED <<numCachedTokenLexers, cachedLexPos, backtrackPositions, ret, tok, prevToks>>

(* Mutant: tentative parsing does not turn caching on.                      *)
EnableBacktrackWithoutCaching ==
  /\ Idle
  /\ Len(backtrackPositions) < MaxMarks
  /\ backtrackPositions' = Append(backtrackPositions, cachedLexPos)
  /\ prevToks' = Append(prevToks, tok)
  /\ UNCHANGED <<lexers, cachedTokens, cachedLexPos, calls, ret, tok, peeked>>

(* A TentativeParsingAction starts.                                         *)
EnableBacktrackAtThisPos ==
  /\ Idle
  /\ Len(backtrackPositions) < MaxMarks
  /\ backtrackPositions' = Append(backtrackPositions, cachedLexPos)
  /\ prevToks' = Append(prevToks, tok)
  /\ EnterCachingLexMode
  /\ UNCHANGED <<numCachedTokenLexers, cachedTokens, cachedLexPos, calls, ret, tok, peeked>>

CommitBacktrackedTokens ==
  /\ Idle
  /\ isBacktrackEnabled
  /\ backtrackPositions' = Front(backtrackPositions)
  /\ prevToks' = Front(prevToks)
  /\ UNCHANGED <<lexers, cachedTokens, cachedLexPos, calls, ret, tok, peeked>>

recomputeCurLexerKind ==
  cur' = [cur EXCEPT !.clk = CASE cur.kind = "file"   -> "Lexer"
                               [] cur.kind = "tokens" -> "TokenLexer"
                               [] OTHER               -> "CachingLexer"]

(* Mutant: rewinds to the outermost mark.                                   *)
BacktrackToFirst ==
  /\ Idle
  /\ isBacktrackEnabled
  /\ cachedLexPos' = Head(backtrackPositions)
  /\ backtrackPositions' = Front(backtrackPositions)
  /\ recomputeCurLexerKind
  /\ tok' = Last(prevToks)
  /\ prevToks' = Front(prevToks)
  /\ peeked' = NoPeek
  /\ UNCHANGED <<includeMacroStack, numCachedTokenLexers, cachedTokens, calls, ret>>

(* Revert of a TentativeParsingAction.                                      *)
Backtrack ==
  /\ Idle
  /\ isBacktrackEnabled
  /\ cachedLexPos' = Last(backtrackPositions)
  /\ backtrackPositions' = Front(backtrackPositions)
  /\ recomputeCurLexerKind
  /\ tok' = Last(prevToks)
  /\ prevToks' = Front(prevToks)
  /\ peeked' = NoPeek
  /\ UNCHANGED <<includeMacroStack, numCachedTokenLexers, cachedTokens, calls, ret>>

(* The parser takes back its last n tokens; its own token stays or becomes  *)
(* the annotation of those before.  The assertion is the parser's duty.     *)
RevertCachedTokens(n, t) ==
  /\ Idle
  /\ isBacktrackEnabled
  /\ cachedLexPos - n >= Last(backtrackPositions)
  /\ cachedLexPos' = cachedLexPos - n
  /\ tok' = t
  /\ peeked' = NoPeek
  /\ UNCHANGED <<lexers, cachedTokens, backtrackPositions, calls, ret, prevToks>>

(* The parser puts its token back, or a token it makes, and goes on with t. *)
EnterToken(e, t) ==
  /\ Idle
  /\ tok # Unknown
  /\ tok = Eof => e = Eof
  /\ Len(cachedTokens) < MaxCached
  /\ EnterCachingLexMode
  /\ cachedTokens' = InsertAt(cachedTokens, cachedLexPos + 1, e)
  /\ tok' = t
  /\ peeked' = NoPeek
  /\ UNCHANGED <<numCachedTokenLexers, cachedLexPos, backtrackPositions, calls, ret, prevToks>>

(* The parser re-enters tokens it has stored, its current token last, and   *)
(* consumes the first of them (ConsumeAnyToken after EnterTokenStream).     *)
EnterTokenStream(s) ==
  /\ Idle
  /\ NestedStreams \/ ~InCachingLexMode
  /\ tok # Unknown
  /\ Len(includeMacroStack) < MaxDepth
  /\ TakeTokenLexer
  /\ PushIncludeMacroStack
  /\ cur' = TokenLexer(Append(s, tok))
  /\ calls' = <<LexCall>>
  /\ peeked' = NoPeek
  /\ UNCHANGED <<cache, ret, tok, prevToks>>

(* Mutant: the reading position is not moved back to the annotation.        *)
AnnotateCachedTokensKeepPos(k, t) ==
  /\ Idle
  /\ tok # Eof
  /\ isBacktrackEnabled
  /\ cachedLexPos # 0
  /\ cachedLexPos - k >= Last(backtrackPositions)
  /\ cachedTokens' = Append(SubSeq(cachedTokens, 1, cachedLexPos - k), t)
                       \o SubSeq(cachedTokens, cachedLexPos + 1, Len(cachedTokens))
  /\ tok' = t
  /\ UNCHANGED <<lexers, cachedLexPos, backtrackPositions, calls, ret, prevToks, peeked>>

(* AnnotateCachedTokens for an annotation that covers the last k tokens.    *)
(* One that begins before the cache does leaves the cache alone.            *)
AnnotateCachedTokens(k, t) ==
  /\ Idle
  /\ tok # Eof
  /\ isBacktrackEnabled
  /\ cachedLexPos # 0
  /\ cachedLexPos - k >= Last(backtrackPositions)
  /\ cachedTokens' = Append(SubSeq(cachedTokens, 1, cachedLexPos - k), t)
                       \o SubSeq(cachedTokens, cachedLexPos + 1, Len(cachedTokens))
  /\ cachedLexPos' = cachedLexPos - k + 1
  /\ tok' = t
  /\ UNCHANGED <<lexers, backtrackPositions, calls, ret, prevToks, peeked>>

(* TypoCorrectToken and ReplaceLastTokenWithAnnotation: the parser changes  *)
(* its token and the cache follows when it may be lexed again.              *)
TypoCorrectToken(t) ==
  /\ Idle
  /\ tok \in Plain
  /\ cachedTokens' = IF cachedLexPos # 0 /\ isBacktrackEnabled
                     THEN [cachedTokens EXCEPT ![cachedLexPos] = t]
                     ELSE cachedTokens
  /\ tok' = t
  /\ UNCHANGED <<lexers, cachedLexPos, backtrackPositions, calls, ret, prevToks, peeked>>

-----------------------------------------------------------------------------
ClientCall ==
  \/ Lex
  \/ \E n \in 0..MaxLookAhead : LookAhead(n)
  \/ EnableBacktrackAtThisPos
  \/ CommitBacktrackedTokens
  \/ Backtrack
  \/ \E n \in 1..MaxCached, t \in {tok} \cup Synthesized : RevertCachedTokens(n, t)
  \/ \E e \in {tok} \cup Synthesized, t \in Synthesized : EnterToken(e, t)
  \/ \E s \in Streams : EnterTokenStream(s)
  \/ \E k \in 1..MaxCached, t \in Synthesized : AnnotateCachedTokens(k, t)
  \/ \E t \in Synthesized : TypoCorrectToken(t)

LexerStep ==
  \/ LexToken
  \/ SkipEmptyMacro
  \/ ExpandTrivialMacro
  \/ EnterMacro
  \/ EnterSourceFile
  \/ HandleEndOfFile
  \/ HandleEndOfTokenLexer
  \/ CachingLex
  \/ CachingLexReturn
  \/ PeekAheadReturn
  \/ LexReturn

Next == ClientCall \/ LexerStep

Spec == Init /\ [][Next]_vars

(* A call of the preprocessor is ordinary sequential code: once made it     *)
(* keeps running.  Whether the parser ever calls again is its own affair.   *)
FairSpec == Spec /\ WF_vars(LexerStep)

-----------------------------------------------------------------------------
(* Properties.                                                              *)

(* Every variable has its type; Preprocessor.h:263-382.                     *)
TypeOK ==
  /\ cur \in LexerState
  /\ includeMacroStack \in Seq(LexerState)
  /\ numCachedTokenLexers \in 0..TokenLexerCacheSize
  /\ cachedTokens \in Seq(Token)
  /\ cachedLexPos \in Nat
  /\ backtrackPositions \in Seq(Nat)
  /\ calls \in Seq(Call)
  /\ ret \in Token \cup {NoTok}
  /\ tok \in Token
  /\ prevToks \in Seq(Token)
  /\ peeked \in [n : Nat, t : Token \cup {NoTok}]

(* No position points outside the cache, however calls, marks and edits of  *)
(* the cache interleave: the marks are in stack order, none is after the    *)
(* reading position, and that is not after the end.  Clearing the cache,    *)
(* erasing annotated tokens and reverting each move one of the three.       *)
PositionsInCache ==
  /\ cachedLexPos <= Len(cachedTokens)
  /\ \A i \in DOMAIN backtrackPositions : backtrackPositions[i] <= cachedLexPos
  /\ \A i, j \in DOMAIN backtrackPositions :
       i <= j => backtrackPositions[i] <= backtrackPositions[j]

(* Between two calls of the parser, caching mode is on whenever it has to   *)
(* be: while a token is cached or a mark is set, Lex goes through the       *)
(* cache.  PeekAhead and CachingLex leave caching mode on the way.          *)
CachingWhileNeeded ==
  Idle /\ (cachedTokens # <<>> \/ isBacktrackEnabled) => InCachingLexMode

(* The lexer kind, which Lex dispatches on, names the pointer that is set   *)
(* in the current lexer and in every lexer of the stack; a caching level is *)
(* never buried under another lexer, and only the primary file can have     *)
(* ended below one.                                                         *)
LexerAgrees(l) ==
  /\ l.kind = "file" => l.clk = "Lexer"
  /\ l.kind = "tokens" => l.clk = "TokenLexer"

KindAgrees ==
  /\ LexerAgrees(cur)
  /\ cur.clk = "CachingLexer" <=> InCachingLexMode
  /\ cur.kind = "tokens" => includeMacroStack # <<>>
  /\ \A i \in DOMAIN includeMacroStack :
       /\ LexerAgrees(includeMacroStack[i])
       /\ includeMacroStack[i].clk # "CachingLexer"
       /\ includeMacroStack[i].kind = "none" => i = 1
       /\ includeMacroStack[i].kind = "tokens" => i > 1

(* Lex never dispatches to a lexer that is not there: the parser's checks   *)
(* for eof keep every call, PeekAhead's loop included, from reading past    *)
(* the end of the primary file, after which CurLexer is null.               *)
NeverPastEof == Running => cur.kind # "none" \/ InCachingLexMode

(* A token that is read for the parser is delivered: no call returns the    *)
(* placeholder that PeekAhead puts at the back of the cache.                *)
PlaceholderNeverSeen ==
  /\ ret # Unknown
  /\ Idle => \A i \in DOMAIN cachedTokens : cachedTokens[i] # Unknown

(* What LookAhead(0) answered is what the next Lex returns, when the parser *)
(* has not entered, reverted or backtracked in between (Preprocessor.h:755).*)
LookAheadIsNextToken ==
  [][tok' # tok /\ peeked.t # NoTok /\ peeked.n = 0 /\ Returning("Lex")
       => tok' = peeked.t]_vars

(* Every call of Lex or LookAhead returns to the parser.                    *)
EveryCallReturns == ~Idle ~> Idle
=============================================================================
