------------------------ MODULE PPCachingRefinement ------------------------
(***************************************************************************)
(* The mapping under which PPCaching implements TokenStream: the stream is *)
(* what the cache, the token in flight and the stack of lexers hold        *)
(* between them.                                                           *)
(***************************************************************************)
EXTENDS PPCaching

(* What a sequence of items stands for once macros and headers are expanded.*)
TokensOf[s \in Seq(Token \cup Item)] ==
  IF s = <<>> THEN <<>>
  ELSE (IF Head(s) \in Token THEN <<Head(s)>> ELSE TokensOf[Body[Head(s)]])
         \o TokensOf[Tail(s)]

(* What the lexers of a stack, bottom first, still hold.                    *)
Held[stack \in Seq(LexerState)] ==
  IF stack = <<>> THEN <<>>
  ELSE TokensOf[Last(stack).toks] \o Held[Front(stack)]

(* The lexers from the current one down to the primary file; the end of     *)
(* that file is eof when it has not been reached.                           *)
Uncached ==
  LET stack == Append(includeMacroStack, cur)
  IN Held[stack] \o IF stack[1].kind = "file" THEN <<Eof>> ELSE <<>>

InFlight == IF ret = NoTok THEN <<>> ELSE <<ret>>

Peeking == calls # <<>> /\ calls[1].fn = "PeekAhead"

(* The cache without the placeholder PeekAhead is filling.                  *)
Cached == IF Peeking THEN Front(cachedTokens) ELSE cachedTokens

From(pos) == SubSeq(Cached, pos + 1, Len(Cached))

(* A token CachingLex delivers from the cache is counted by its position    *)
(* there; in flight it stands before the rest.                              *)
Future == IF Peeking THEN From(cachedLexPos) \o InFlight \o Uncached
                     ELSE InFlight \o From(cachedLexPos) \o Uncached

FromCache == ret # NoTok /\ Last(calls).fn = "Lex" /\ InCachingLexMode

Mark(b) == IF FromCache THEN From(b) \o Uncached
                        ELSE From(b) \o InFlight \o Uncached

Marks == [i \in DOMAIN backtrackPositions |-> Mark(backtrackPositions[i])]

Inputs == {Append(TokensOf[f], Eof) : f \in MainFiles}

Stream == INSTANCE TokenStream WITH
  future <- Future,
  marks  <- Marks

(* The cache, the caching mode and the lexer stack are invisible to the     *)
(* parser: whatever it interleaves of Lex, LookAhead, tentative parsing,    *)
(* entered and annotated tokens, it sees one stream of tokens, each once,   *)
(* in source order.                                                         *)
RefinesTokenStream == Stream!Spec
=============================================================================
