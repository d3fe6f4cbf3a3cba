-------------------------- MODULE PPDirectivesProofs --------------------------
(***************************************************************************)
(* Proofs about PPDirectives, for every set of files with any contents.    *)
(* IInv: the variables keep their types and the assertions about skipped   *)
(* conditional blocks hold. TextInv: the state of each lexer agrees with   *)
(* the lines it has read, so exactly the selected groups are read and the  *)
(* include-guard state machine recognises exactly the guards. CountOK: the *)
(* files that are to be read once are remembered.                          *)
(***************************************************************************)
EXTENDS PPDirectivesProperties, SequenceLemmas, TLAPS

-----------------------------------------------------------------------------
(* The include-guard operations stay inside MultipleIncludeOpt.             *)
LEMMA MIOptFacts ==
  ASSUME NEW opt \in MultipleIncludeOpt, NEW m \in Macros
  PROVE  /\ ReadToken(opt) \in MultipleIncludeOpt
         /\ ExpandedMacro(opt) \in MultipleIncludeOpt
         /\ EnterTopLevelIFNDEF(opt, m) \in MultipleIncludeOpt
         /\ EnterTopLevelConditional(opt) \in MultipleIncludeOpt
         /\ ExitTopLevelConditional(opt) \in MultipleIncludeOpt
  BY DEF MultipleIncludeOpt, ReadToken, ExpandedMacro, EnterTopLevelIFNDEF,
         EnterTopLevelConditional, ExitTopLevelConditional, Invalidate

-----------------------------------------------------------------------------
(* The operations on a lexer: each yields a lexer, and says what it does to *)
(* the conditional stack and the mode.                                      *)
Same(lex, l) == /\ l.conditionalStack = lex.conditionalStack
                /\ l.lexingRawMode = lex.lexingRawMode

LEMMA AdvanceFacts ==
  ASSUME NEW lex \in Lexer
  PROVE  Advance(lex) \in Lexer /\ Same(lex, Advance(lex))
<1>1. ReadToken(lex.MIOpt) \in MultipleIncludeOpt
  BY DEF Lexer, ReadToken, MultipleIncludeOpt
<1>2. lex.pos + 1 \in Nat \ {0}
  BY DEF Lexer
<1>3. Advance(lex) = [lex EXCEPT !.pos = lex.pos + 1, !.MIOpt = ReadToken(lex.MIOpt)]
  BY DEF Advance
<1> HIDE DEF Advance
<1> QED BY <1>1, <1>2, <1>3 DEF Lexer, Same

LEMMA NewLexerFacts ==
  ASSUME NEW f \in Files
  PROVE  NewLexer(f) \in Lexer /\ SkipShape(NewLexer(f)) /\ ~NewLexer(f).lexingRawMode
  BY DEF NewLexer, Lexer, MultipleIncludeOpt, SkipShape

LEMMA PushFacts ==
  ASSUME NEW lex \in Lexer, NEW ci \in PPConditionalInfo,
         NEW l, l = [lex EXCEPT !.conditionalStack = Append(@, ci)],
         NEW s, s = lex.conditionalStack
  PROVE  /\ l \in Lexer
         /\ l.lexingRawMode = lex.lexingRawMode
         /\ Len(s) \in Nat
         /\ Len(l.conditionalStack) = Len(s) + 1
         /\ \A i \in 1 .. Len(s) : l.conditionalStack[i] = s[i]
         /\ l.conditionalStack[Len(s) + 1] = ci
<1>1. s \in Seq(PPConditionalInfo)
  BY DEF Lexer
<1>2. /\ Append(s, ci) \in Seq(PPConditionalInfo)
      /\ Len(s) \in Nat
      /\ Len(Append(s, ci)) = Len(s) + 1
      /\ \A i \in 1 .. Len(s) : Append(s, ci)[i] = s[i]
      /\ Append(s, ci)[Len(s) + 1] = ci
  BY <1>1
<1>3. /\ l \in Lexer
      /\ l.conditionalStack = Append(s, ci)
      /\ l.lexingRawMode = lex.lexingRawMode
  BY <1>2 DEF Lexer
<1> QED BY <1>2, <1>3

LEMMA PopFacts ==
  ASSUME NEW lex \in Lexer, NEW s, s = lex.conditionalStack, s # << >>,
         NEW l, l = PopConditionalLevel(lex)
  PROVE  /\ l \in Lexer
         /\ l.lexingRawMode = lex.lexingRawMode
         /\ Len(s) \in Nat \ {0}
         /\ Len(l.conditionalStack) = Len(s) - 1
         /\ \A i \in 1 .. Len(s) - 1 : l.conditionalStack[i] = s[i]
         /\ Last(s) \in PPConditionalInfo
         /\ Last(s) = s[Len(s)]
<1> DEFINE front == Front(s)
<1>1. s \in Seq(PPConditionalInfo) /\ s # << >>
  BY DEF Lexer
<1>2. l = [lex EXCEPT !.conditionalStack = front]
  BY DEF PopConditionalLevel
<1> HIDE DEF front
<1>3. /\ front \in Seq(PPConditionalInfo)
      /\ Len(s) \in Nat \ {0}
      /\ Len(front) = Len(s) - 1
      /\ \A i \in 1 .. Len(s) - 1 : front[i] = s[i]
      /\ Last(s) \in PPConditionalInfo
      /\ Last(s) = s[Len(s)]
  BY <1>1, LastFront DEF front
<1>4. /\ l \in Lexer
      /\ l.lexingRawMode = lex.lexingRawMode
      /\ l.conditionalStack = front
  BY <1>2, <1>3 DEF Lexer
<1> QED BY <1>3, <1>4

(* A lexer between two lines, reading or skipping.                          *)
LexOK(lex) == lex \in Lexer /\ SkipShape(lex)

LEMMA SameShape ==
  ASSUME NEW lex \in Lexer, NEW l \in Lexer, Same(lex, l), SkipShape(lex)
  PROVE  LexOK(l)
  BY DEF Same, SkipShape, LexOK

(* A group that is read, or skipped, under a new entry of the stack.        *)
LEMMA PushShape ==
  ASSUME NEW lex \in Lexer, SkipShape(lex), ~lex.lexingRawMode,
         NEW loc \in Nat, NEW found \in BOOLEAN, NEW else \in BOOLEAN
  PROVE  /\ LexOK(PushConditionalLevel(lex, loc, FALSE, found, else))
         /\ LexOK(SkipExcludedConditionalBlock(lex, loc, found, else))
<1>1. PICK l : l = PushConditionalLevel(lex, loc, FALSE, found, else)
  OBVIOUS
<1>2. PICK r : r = SkipExcludedConditionalBlock(lex, loc, found, else)
  OBVIOUS
<1>3. PICK s : s = lex.conditionalStack
  OBVIOUS
<1>4. /\ l \in Lexer
      /\ l.lexingRawMode = lex.lexingRawMode
      /\ Len(s) \in Nat
      /\ Len(l.conditionalStack) = Len(s) + 1
      /\ \A i \in 1 .. Len(s) : l.conditionalStack[i] = s[i]
      /\ ~l.conditionalStack[Len(s) + 1].wasSkipping
  <2>1. PICK ci : ci = [ifLoc |-> loc, wasSkipping |-> FALSE,
                        foundNonSkip |-> found, foundElse |-> else]
    OBVIOUS
  <2>2. ci \in PPConditionalInfo /\ ~ci.wasSkipping
    BY <2>1 DEF PPConditionalInfo
  <2>3. l = [lex EXCEPT !.conditionalStack = Append(@, ci)]
    BY <1>1, <2>1, Zenon DEF PushConditionalLevel
  <2> QED BY <1>3, <2>2, <2>3, PushFacts
<1>5. \A i \in 1 .. Len(l.conditionalStack) : ~l.conditionalStack[i].wasSkipping
  <2>1. \A i \in 1 .. Len(s) : ~s[i].wasSkipping
    BY <1>3 DEF SkipShape
  <2> QED BY <1>4, <2>1
<1>6. LexOK(l)
  BY <1>4, <1>5 DEF LexOK, SkipShape
<1>7. r \in Lexer /\ r.lexingRawMode = TRUE /\ r.conditionalStack = l.conditionalStack
  BY <1>1, <1>2, <1>4 DEF SkipExcludedConditionalBlock, Lexer
<1>8. SkipShape(r)
  <2>1. Len(s) + 1 \in 1 .. Len(r.conditionalStack)
    BY <1>4, <1>7
  <2>2. \A i \in 1 .. Len(r.conditionalStack) :
          r.conditionalStack[i].wasSkipping <=> i > Len(s) + 1
    BY <1>4, <1>5, <1>7
  <2> QED BY <1>7, <2>1, <2>2 DEF SkipShape
<1> QED BY <1>1, <1>2, <1>6, <1>7, <1>8 DEF LexOK

LEMMA NoteTopLevelFacts ==
  ASSUME NEW lex \in Lexer, NEW c \in Macros \cup {None}
  PROVE  NoteTopLevel(lex, c) \in Lexer /\ Same(lex, NoteTopLevel(lex, c))
<1>1. lex.MIOpt \in MultipleIncludeOpt
  BY DEF Lexer
<1>2. /\ c # None => EnterTopLevelIFNDEF(lex.MIOpt, c) \in MultipleIncludeOpt
      /\ EnterTopLevelConditional(lex.MIOpt) \in MultipleIncludeOpt
  BY <1>1 DEF MultipleIncludeOpt, EnterTopLevelIFNDEF, EnterTopLevelConditional, Invalidate
<1> QED BY <1>2 DEF NoteTopLevel, Lexer, Same

LEMMA EnterGroupFacts ==
  ASSUME NEW lex \in Lexer, SkipShape(lex), ~lex.lexingRawMode,
         NEW b \in BOOLEAN, lexer \in Lexer
  PROVE  LexOK(EnterGroup(lex, b))
<1>1. lexer.pos \in Nat
  BY DEF Lexer
<1> QED BY <1>1, PushShape DEF EnterGroup

(* What an expression expands to, and the macro it may be a guard for.      *)
LEMMA ExprFacts ==
  ASSUME TypeOK, NEW e \in Expr
  PROVE  Evaluate(e) \in BOOLEAN /\ IfNDefMacro(e) \in Macros \cup {None}
<1>1. Expansion(e) \in Expr
  BY DEF Expansion, Expr, TypeOK, Use, Constant, NotDefined, Body
<1>2. CASE \E m \in Macros : Expansion(e) = NotDefined(m)
  BY <1>2 DEF NotDefined, Evaluate, IfNDefMacro
<1>3. CASE \E b \in BOOLEAN : Expansion(e) = Constant(b)
  BY <1>3 DEF Constant, Evaluate, IfNDefMacro
<1>4. CASE \E m \in Macros : Expansion(e) = Use(m)
  BY <1>4 DEF Use, Evaluate, IfNDefMacro
<1> QED BY <1>1, <1>2, <1>3, <1>4 DEF Expr, Body

LEMMA EvaluatedFacts ==
  ASSUME NEW lex \in Lexer, NEW e \in Expr, lexer \in Lexer
  PROVE  Evaluated(lex, e) \in Lexer /\ Same(lex, Evaluated(lex, e))
<1>1. /\ lex.MIOpt \in MultipleIncludeOpt
      /\ ExpandedMacro(lex.MIOpt) \in MultipleIncludeOpt
  BY DEF Lexer, MultipleIncludeOpt, ExpandedMacro
<1>2. lex.truth \in SUBSET Nat /\ lex.truth \cup {lexer.pos} \in SUBSET Nat
  BY DEF Lexer
<1> QED BY <1>1, <1>2 DEF Evaluated, Lexer, Same

(* Popping an entry outside raw mode, and skipping the rest of a section.   *)
LEMMA PopShape ==
  ASSUME NEW lex \in Lexer, SkipShape(lex), ~lex.lexingRawMode,
         lex.conditionalStack # << >>
  PROVE  LexOK(PopConditionalLevel(lex)) /\ ~PopConditionalLevel(lex).lexingRawMode
<1>1. PICK l : l = PopConditionalLevel(lex)
  OBVIOUS
<1>2. PICK s : s = lex.conditionalStack
  OBVIOUS
<1>3. /\ l \in Lexer
      /\ l.lexingRawMode = lex.lexingRawMode
      /\ Len(s) \in Nat \ {0}
      /\ Len(l.conditionalStack) = Len(s) - 1
      /\ \A i \in 1 .. Len(s) - 1 : l.conditionalStack[i] = s[i]
  BY <1>1, <1>2, PopFacts
<1>4. \A i \in 1 .. Len(s) : ~s[i].wasSkipping
  BY <1>2 DEF SkipShape
<1>5. \A i \in 1 .. Len(l.conditionalStack) : ~l.conditionalStack[i].wasSkipping
  BY <1>3, <1>4
<1> QED BY <1>1, <1>3, <1>5 DEF LexOK, SkipShape

LEMMA SkipRestShape ==
  ASSUME NEW lex \in Lexer, SkipShape(lex), ~lex.lexingRawMode,
         lex.conditionalStack # << >>, NEW ci \in PPConditionalInfo, NEW else \in BOOLEAN
  PROVE  LexOK(SkipRest(lex, ci, else))
<1> DEFINE l == PopConditionalLevel(lex)
           t == NoteTopLevel(l, None)
<1>1. LexOK(l) /\ ~l.lexingRawMode
  BY PopShape
<1>2. t \in Lexer /\ Same(l, t)
  BY <1>1, NoteTopLevelFacts DEF LexOK
<1>3. LexOK(t) /\ ~t.lexingRawMode
  BY <1>1, <1>2, SameShape DEF LexOK, Same
<1>4. ci.ifLoc \in Nat
  BY DEF PPConditionalInfo
<1> QED BY <1>3, <1>4, PushShape DEF SkipRest, LexOK

(* An update of the top entry that does not touch wasSkipping.              *)
LEMMA UpdateTopShape ==
  ASSUME NEW lex \in Lexer, SkipShape(lex), lex.lexingRawMode,
         NEW enter \in BOOLEAN, NEW else \in BOOLEAN,
         enter => ~Last(lex.conditionalStack).wasSkipping
  PROVE  LexOK(UpdateTop(lex, enter, else))
<1>1. PICK s : s = lex.conditionalStack
  OBVIOUS
<1>2. PICK k \in 1 .. Len(s) : \A i \in 1 .. Len(s) : s[i].wasSkipping <=> i > k
  BY <1>1 DEF SkipShape
<1>3. s \in Seq(PPConditionalInfo) /\ s # << >>
  BY <1>1, <1>2 DEF Lexer
<1>4. PICK ci : ci = Divided(Last(s), enter, else)
  OBVIOUS
<1>5. /\ Len(s) \in Nat \ {0} /\ Last(s) = s[Len(s)]
      /\ Front(s) \in Seq(PPConditionalInfo) /\ Len(Front(s)) = Len(s) - 1
      /\ \A i \in 1 .. Len(s) - 1 : Front(s)[i] = s[i]
      /\ Last(s) \in PPConditionalInfo
  BY <1>3, LastFront
<1>6. ci \in PPConditionalInfo /\ ci.wasSkipping = s[Len(s)].wasSkipping
  BY <1>4, <1>5 DEF PPConditionalInfo, Divided
<1>7. PICK t : t = Append(Front(s), ci)
  OBVIOUS
<1>8. /\ t \in Seq(PPConditionalInfo) /\ Len(t) = Len(s)
      /\ \A i \in 1 .. Len(s) - 1 : t[i] = s[i]
      /\ t[Len(s)] = ci
  BY <1>5, <1>6, <1>7, AppendLast
<1>9. \A i \in 1 .. Len(s) : t[i].wasSkipping = s[i].wasSkipping
  BY <1>5, <1>6, <1>8
<1>10. PICK l : l = UpdateTop(lex, enter, else)
  OBVIOUS
<1>11. l = [lex EXCEPT !.conditionalStack = t, !.lexingRawMode = ~enter]
  BY <1>1, <1>4, <1>7, <1>10 DEF UpdateTop
<1>12. l \in Lexer /\ l.conditionalStack = t /\ l.lexingRawMode = ~enter
  BY <1>8, <1>11 DEF Lexer
<1>13. CASE enter
  <2>1. k = Len(s)
    BY <1>1, <1>2, <1>5, <1>13
  <2>2. \A i \in 1 .. Len(t) : ~t[i].wasSkipping
    BY <1>2, <1>5, <1>8, <1>9, <2>1
  <2> QED BY <1>10, <1>12, <1>13, <2>2 DEF LexOK, SkipShape
<1>14. CASE ~enter
  <2>1. /\ k \in 1 .. Len(t)
        /\ \A i \in 1 .. Len(t) : t[i].wasSkipping <=> i > k
    BY <1>2, <1>8, <1>9
  <2> QED BY <1>10, <1>12, <1>14, <2>1 DEF LexOK, SkipShape
<1> QED BY <1>13, <1>14

-----------------------------------------------------------------------------
(* The inductive invariant.                                                 *)
IInv == TypeOK /\ SkippingAssertions

LEMMA IInvInit == Init => IInv
<1> SUFFICES ASSUME Init PROVE IInv
  OBVIOUS
<1>1. LexOK(lexer)
  BY FilesAssumption, NewLexerFacts DEF Init, LexOK
<1>2. info \in [Files -> HeaderFileInfo]
  BY DEF Init, HeaderFileInfo
<1>3. text \in [Files -> Seq(Line)]
  BY FilesAssumption DEF Init
<1>4. /\ includeMacroStack = << >> /\ includeMacroStack \in Seq(Lexer)
      /\ Len(includeMacroStack) = 0
  BY DEF Init
<1>5. macros \in [Macros -> Body \cup {None}]
  BY DEF Init
<1>6. TypeOK
  BY <1>1, <1>2, <1>3, <1>4, <1>5 DEF Init, TypeOK, LexOK
<1>7. SkippingAssertions
  BY <1>1, <1>4 DEF SkippingAssertions, LexOK
<1> QED BY <1>6, <1>7 DEF IInv

(* What the line at which the lexer stands may hold.                        *)
LEMMA LineFacts ==
  ASSUME TypeOK, ~AtEndOfFile
  PROVE  /\ CurLine.op = "define" => CurLine.macro \in Macros /\ CurLine.body \in Body
         /\ CurLine.op \in {"undef", "ifdef", "ifndef"} => CurLine.macro \in Macros
         /\ CurLine.op \in {"if", "elif"} => CurLine.cond \in Expr
         /\ CurLine.op \in {"include", "import"} => CurLine.file \in Files
<1>1. lexer.file \in Files /\ lexer.pos \in Nat \ {0}
  BY DEF TypeOK, Lexer
<1>2. text[lexer.file] \in Seq(Line) /\ lexer.pos \in 1 .. Len(text[lexer.file])
  BY <1>1 DEF TypeOK, AtEndOfFile
<1>3. CurLine \in Line
  BY <1>2 DEF CurLine
<1> QED BY <1>3 DEF Line

(* A step that changes the current lexer, perhaps the macros and the        *)
(* diagnostics, and nothing else.                                           *)
LEMMA LexerStep ==
  ASSUME IInv, LexOK(lexer'),
         UNCHANGED <<text, includeMacroStack, info, finished, once>>,
         macros' \in [Macros -> Body \cup {None}],
         diags' \subseteq Files \X Nat \X {"misplaced", "unterminated"}
  PROVE  IInv'
  BY DEF IInv, TypeOK, SkippingAssertions, LexOK, SkipShape

LEMMA DiagnosedFacts ==
  ASSUME TypeOK, NEW b \in BOOLEAN, Diagnosed(b)
  PROVE  diags' \subseteq Files \X Nat \X {"misplaced", "unterminated"}
<1>1. lexer.file \in Files /\ lexer.pos \in Nat
  BY DEF TypeOK, Lexer
<1> QED BY <1>1 DEF Diagnosed, TypeOK

-----------------------------------------------------------------------------
(* Every step preserves it.  The lines that leave the conditional stack     *)
(* alone come first.                                                        *)
LEMMA PlainLineStep ==
  ASSUME IInv, \/ ReadText \/ HandleDefineDirective
               \/ HandleUndefDirective \/ SkipLine
  PROVE  IInv'
<1>1. ~AtEndOfFile /\ lexer' = Advance(lexer)
  BY DEF ReadText, HandleDefineDirective, HandleUndefDirective, SkipLine,
         ReadsLive, ReadsSkipped, Reads
<1>2. LexOK(lexer')
  BY <1>1, AdvanceFacts, SameShape DEF IInv, TypeOK, SkippingAssertions
<1>3. macros' \in [Macros -> Body \cup {None}]
  BY <1>1, LineFacts DEF IInv, TypeOK, ReadText, HandleDefineDirective,
       HandleUndefDirective, SkipLine, ReadsLive, Reads
<1>4. /\ UNCHANGED <<text, includeMacroStack, info, finished, once, diags>>
      /\ diags \subseteq Files \X Nat \X {"misplaced", "unterminated"}
  BY DEF ReadText, HandleDefineDirective, HandleUndefDirective, SkipLine, IInv, TypeOK
<1> QED BY <1>2, <1>3, <1>4, LexerStep

LEMMA PragmaOnceStep == ASSUME IInv, HandlePragmaOnce PROVE IInv'
<1>1. LexOK(lexer')
  BY AdvanceFacts, SameShape DEF IInv, TypeOK, SkippingAssertions, HandlePragmaOnce
<1>2. lexer.file \in Files
  BY DEF IInv, TypeOK, Lexer
<1>3. info' \in [Files -> HeaderFileInfo] /\ once' \subseteq Files
  <2>1. PICK h : h = [info[lexer.file] EXCEPT !.isImport = TRUE]
    OBVIOUS
  <2>2. h \in HeaderFileInfo
    BY <1>2, <2>1 DEF IInv, TypeOK, HeaderFileInfo
  <2>3. [info EXCEPT ![lexer.file].isImport = TRUE] = [info EXCEPT ![lexer.file] = h]
    BY <2>1
  <2>4. info \in [Files -> HeaderFileInfo] /\ once \subseteq Files
    BY DEF IInv, TypeOK
  <2>5. info' \in {info, [info EXCEPT ![lexer.file] = h]} /\ once' \subseteq once \cup {lexer.file}
    BY <2>3 DEF HandlePragmaOnce
  <2> QED BY <1>2, <2>2, <2>4, <2>5
<1> QED BY <1>1, <1>3 DEF IInv, TypeOK, SkippingAssertions, SkipShape, LexOK, HandlePragmaOnce

(* The directives that open a section.                                      *)
LEMMA OpenStep ==
  ASSUME IInv, HandleIfdefDirective \/ HandleIfdefNoName \/ HandleIfDirective
  PROVE  IInv'
<1> DEFINE adv == Advance(lexer)
<1>1. /\ ~AtEndOfFile /\ ~lexer.lexingRawMode /\ TypeOK
      /\ lexer \in Lexer /\ SkipShape(lexer) /\ lexer.pos \in Nat
  BY DEF IInv, TypeOK, SkippingAssertions, HandleIfdefDirective, HandleIfdefNoName,
         HandleIfDirective, ReadsLive, Reads, Lexer
<1>2. adv \in Lexer /\ SkipShape(adv) /\ ~adv.lexingRawMode
  BY <1>1, AdvanceFacts, SameShape DEF LexOK, Same
<1> HIDE DEF adv
<1>3. CASE HandleIfdefDirective
  <2>1. PICK m, c, b, t :
          /\ m = CurLine.macro /\ c \in {m, None} /\ b \in BOOLEAN
          /\ t = NoteTopLevel(adv, c)
          /\ lexer' = EnterGroup([t EXCEPT !.truth = IF b THEN @ \cup {lexer.pos} ELSE @], b)
    BY <1>3 DEF HandleIfdefDirective, adv
  <2>2. c \in Macros \cup {None}
    BY <1>1, <1>3, <2>1, LineFacts DEF HandleIfdefDirective, ReadsLive, Reads
  <2>3. t \in Lexer /\ Same(adv, t)
    BY <1>2, <2>1, <2>2, NoteTopLevelFacts
  <2>4. PICK u : u = [t EXCEPT !.truth = IF b THEN @ \cup {lexer.pos} ELSE @]
    OBVIOUS
  <2>5. u \in Lexer /\ Same(adv, u)
    BY <1>1, <2>3, <2>4 DEF Lexer, Same
  <2>6. SkipShape(u) /\ ~u.lexingRawMode
    BY <1>2, <2>5, SameShape DEF LexOK, Same
  <2>7. lexer' = EnterGroup(u, b)
    BY <2>1, <2>4, Zenon
  <2>8. LexOK(lexer')
    BY <1>1, <2>1, <2>5, <2>6, <2>7, EnterGroupFacts
  <2> QED BY <1>1, <1>3, <2>8, LexerStep DEF HandleIfdefDirective, TypeOK
<1>4. CASE HandleIfdefNoName
  <2>1. LexOK(lexer')
    BY <1>1, <1>2, <1>4, PushShape DEF HandleIfdefNoName, adv
  <2> QED BY <1>1, <1>4, <2>1, LexerStep DEF HandleIfdefNoName, TypeOK
<1>5. CASE HandleIfDirective
  <2>1. PICK e, c, b, t :
          /\ e = CurLine.cond /\ c \in {IfNDefMacro(e), None} /\ b = Evaluate(e)
          /\ t = Evaluated(adv, e)
          /\ lexer' = EnterGroup(NoteTopLevel(t, c), b)
    BY <1>5 DEF HandleIfDirective, adv
  <2>2. e \in Expr
    BY <1>1, <1>5, <2>1, LineFacts DEF HandleIfDirective, ReadsLive, Reads
  <2>3. c \in Macros \cup {None} /\ b \in BOOLEAN
    BY <1>1, <2>1, <2>2, ExprFacts
  <2>4. t \in Lexer /\ Same(adv, t)
    BY <1>1, <1>2, <2>1, <2>2, EvaluatedFacts
  <2>5. PICK u : u = NoteTopLevel(t, c)
    OBVIOUS
  <2>6. u \in Lexer /\ Same(t, u)
    BY <2>3, <2>4, <2>5, NoteTopLevelFacts
  <2>7. SkipShape(u) /\ ~u.lexingRawMode
    BY <1>2, <2>4, <2>6, SameShape DEF LexOK, Same
  <2>8. LexOK(lexer')
    BY <1>1, <2>1, <2>3, <2>5, <2>6, <2>7, EnterGroupFacts
  <2> QED BY <1>1, <1>5, <2>8, LexerStep DEF HandleIfDirective, TypeOK
<1> QED BY <1>3, <1>4, <1>5

(* The directives that continue or end a section that is being read.        *)
LEMMA DivideStep ==
  ASSUME IInv, HandleElseDirective \/ HandleElifDirective \/ HandleEndifDirective
  PROVE  IInv'
<1> DEFINE adv == Advance(lexer)
           ci == Last(lexer.conditionalStack)
           rest == PopConditionalLevel(adv)
<1>1. /\ ~lexer.lexingRawMode /\ TypeOK /\ lexer \in Lexer /\ SkipShape(lexer)
  BY DEF IInv, TypeOK, SkippingAssertions, HandleElseDirective, HandleElifDirective,
         HandleEndifDirective, ReadsLive
<1>2. /\ adv \in Lexer /\ SkipShape(adv) /\ ~adv.lexingRawMode
      /\ adv.conditionalStack = lexer.conditionalStack
  BY <1>1, AdvanceFacts, SameShape DEF LexOK, Same
<1>3. PICK b \in BOOLEAN : Diagnosed(b)
  <2>1. Diagnosed(TRUE) \/ Diagnosed(TopLevel(lexer)) \/ Diagnosed(ci.foundElse)
    BY DEF HandleElseDirective, HandleElifDirective, HandleEndifDirective
  <2> QED BY <2>1 DEF Diagnosed
<1>4. diags' \subseteq Files \X Nat \X {"misplaced", "unterminated"}
  BY <1>1, <1>3, DiagnosedFacts
<1>5. ASSUME ~TopLevel(lexer)
      PROVE  /\ adv.conditionalStack # << >>
             /\ ci \in PPConditionalInfo /\ ci.foundElse \in BOOLEAN
             /\ LexOK(rest) /\ ~rest.lexingRawMode
  <2>1. adv.conditionalStack # << >>
    BY <1>2, <1>5 DEF TopLevel
  <2>2. ci \in PPConditionalInfo
    BY <1>2, <2>1, PopFacts
  <2>3. LexOK(rest) /\ ~rest.lexingRawMode
    BY <1>2, <2>1, PopShape
  <2> QED BY <2>1, <2>2, <2>3 DEF PPConditionalInfo
<1>6. ASSUME NEW else \in BOOLEAN, ~TopLevel(lexer)
      PROVE  LexOK(SkipRest(adv, ci, else))
  BY <1>2, <1>5, <1>6, SkipRestShape
<1>7. LexOK(adv)
  BY <1>2 DEF LexOK
<1>8. ASSUME ~TopLevel(lexer)
      PROVE  LexOK([rest EXCEPT !.MIOpt = ExitTopLevelConditional(@)])
  <2>1. rest \in Lexer /\ SkipShape(rest) /\ rest.MIOpt \in MultipleIncludeOpt
    BY <1>5, <1>8 DEF LexOK, Lexer
  <2>2. ExitTopLevelConditional(rest.MIOpt) \in MultipleIncludeOpt
    BY <2>1 DEF MultipleIncludeOpt, ExitTopLevelConditional, Invalidate
  <2>3. PICK l : l = [rest EXCEPT !.MIOpt = ExitTopLevelConditional(@)]
    OBVIOUS
  <2> HIDE DEF rest
  <2>4. l \in Lexer /\ Same(rest, l)
    BY <2>1, <2>2, <2>3 DEF Lexer, Same
  <2> QED BY <2>1, <2>3, <2>4, SameShape
<1>9. LexOK(lexer')
  <2>1. CASE HandleElseDirective
    BY <1>6, <1>7, <2>1 DEF HandleElseDirective
  <2>2. CASE HandleElifDirective
    BY <1>5, <1>6, <1>7, <2>2 DEF HandleElifDirective
  <2>3. CASE HandleEndifDirective
    BY <1>5, <1>7, <1>8, <2>3 DEF HandleEndifDirective
  <2> QED BY <2>1, <2>2, <2>3
<1> QED BY <1>1, <1>4, <1>9, LexerStep
       DEF HandleElseDirective, HandleElifDirective, HandleEndifDirective, TypeOK

(* Entering a file, and leaving it.                                         *)
StackOK == /\ includeMacroStack \in Seq(Lexer)
           /\ \A i \in 1 .. Len(includeMacroStack) :
                SkipShape(includeMacroStack[i]) /\ ~includeMacroStack[i].lexingRawMode

LEMMA IncludeStep == ASSUME IInv, HandleIncludeDirective PROVE IInv'
<1> DEFINE f == CurLine.file
           isImport == CurLine.op = "import"
           adv == Advance(lexer)
<1>1. /\ TypeOK /\ StackOK /\ ~AtEndOfFile /\ ~lexer.lexingRawMode
      /\ SkipShape(lexer) /\ lexer \in Lexer
  BY DEF IInv, TypeOK, SkippingAssertions, StackOK, HandleIncludeDirective, ReadsLive, Reads
<1>2. f \in Files
  BY <1>1, LineFacts DEF HandleIncludeDirective, ReadsLive, Reads
<1>3. LexOK(adv) /\ ~adv.lexingRawMode
  BY <1>1, AdvanceFacts, SameShape DEF LexOK, Same
<1>4. LexOK(NewLexer(f))
  BY <1>2, NewLexerFacts DEF LexOK
<1>5. PICK h : h = IncludedInfo(f, isImport)
  OBVIOUS
<1>6. h \in HeaderFileInfo
  <2>1. info[f] \in HeaderFileInfo
    BY <1>1, <1>2 DEF TypeOK
  <2>2. (info[f].numIncludes + 1) % NumIncludesModulus \in Nat
    BY <2>1, LimitsAssumption DEF HeaderFileInfo
  <2> QED BY <1>5, <2>1, <2>2 DEF IncludedInfo, HeaderFileInfo
<1>7. info' \in [Files -> HeaderFileInfo] /\ once' \subseteq Files
  <2>1. info' \in {info, [info EXCEPT ![f] = h]} /\ once' \subseteq once \cup {f}
    BY <1>5 DEF HandleIncludeDirective
  <2>2. info \in [Files -> HeaderFileInfo] /\ once \subseteq Files
    BY <1>1 DEF TypeOK
  <2> HIDE DEF f
  <2> QED BY <1>2, <1>6, <2>1, <2>2
<1> HIDE DEF adv, f
<1>8. LexOK(lexer') /\ StackOK'
  <2>1. CASE lexer' = adv /\ includeMacroStack' = includeMacroStack
    BY <1>1, <1>3, <2>1 DEF StackOK, SkipShape
  <2>2. CASE lexer' = NewLexer(f) /\ includeMacroStack' = Append(includeMacroStack, adv)
    <3> DEFINE s == includeMacroStack
               t == includeMacroStack'
    <3>1. adv \in Lexer /\ s \in Seq(Lexer)
      BY <1>1, <1>3 DEF LexOK, StackOK
    <3>2. /\ t \in Seq(Lexer) /\ Len(s) \in Nat /\ Len(t) = Len(s) + 1
          /\ \A i \in 1 .. Len(s) : t[i] = s[i]
          /\ t[Len(s) + 1] = adv
      BY <2>2, <3>1, AppendLast
    <3>3. \A i \in 1 .. Len(s) : SkipShape(s[i]) /\ ~s[i].lexingRawMode
      BY <1>1 DEF StackOK
    <3> HIDE DEF s, t
    <3>4. ASSUME NEW i \in 1 .. Len(t)
          PROVE  SkipShape(t[i]) /\ ~t[i].lexingRawMode
      <4>1. CASE i = Len(s) + 1
        BY <1>3, <3>2, <4>1 DEF LexOK
      <4>2. CASE i \in 1 .. Len(s)
        BY <3>2, <3>3, <4>2
      <4> QED BY <3>2, <4>1, <4>2
    <3> QED BY <1>4, <2>2, <3>2, <3>4 DEF StackOK, LexOK, SkipShape, t
  <2> QED BY <2>1, <2>2 DEF HandleIncludeDirective, adv, f
<1> QED BY <1>1, <1>7, <1>8
       DEF HandleIncludeDirective, IInv, TypeOK, SkippingAssertions, StackOK, LexOK

LEMMA UnterminatedFacts ==
  ASSUME NEW lex \in Lexer
  PROVE  Unterminated(lex) \subseteq Files \X Nat \X {"misplaced", "unterminated"}
<1>1. ASSUME NEW i \in 1 .. Len(lex.conditionalStack)
      PROVE  lex.conditionalStack[i].ifLoc \in Nat /\ lex.file \in Files
  <2>1. lex.conditionalStack \in Seq(PPConditionalInfo) /\ lex.file \in Files
    BY DEF Lexer
  <2>2. lex.conditionalStack[i] \in PPConditionalInfo
    BY <1>1, <2>1
  <2> QED BY <2>1, <2>2 DEF PPConditionalInfo
<1> QED BY <1>1 DEF Unterminated

(* Giving up the entries of an unterminated section.                        *)
LEMMA ClearedFacts ==
  ASSUME NEW lex \in Lexer, NEW l, l.lexingRawMode = FALSE,
         \/ l = [lex EXCEPT !.conditionalStack = << >>]
         \/ l = [lex EXCEPT !.conditionalStack = << >>, !.lexingRawMode = FALSE]
  PROVE  LexOK(l)
<1>1. << >> \in Seq(PPConditionalInfo)
  OBVIOUS
<1>2. l \in Lexer /\ l.conditionalStack = << >>
  <2>1. CASE l = [lex EXCEPT !.conditionalStack = << >>]
    BY <1>1, <2>1 DEF Lexer
  <2>2. CASE l = [lex EXCEPT !.conditionalStack = << >>, !.lexingRawMode = FALSE]
    BY <1>1, <2>2 DEF Lexer
  <2> QED BY <2>1, <2>2
<1>3. SkipShape(l)
  BY <1>2 DEF SkipShape
<1> QED BY <1>2, <1>3 DEF LexOK

LEMMA EndOfFileStep == ASSUME IInv, LexEndOfFile PROVE IInv'
<1>1. /\ TypeOK /\ StackOK /\ ~lexer.lexingRawMode
      /\ SkipShape(lexer) /\ lexer \in Lexer /\ lexer.file \in Files
  BY DEF IInv, TypeOK, SkippingAssertions, StackOK, LexEndOfFile, Lexer
<1>2. diags' \subseteq Files \X Nat \X {"misplaced", "unterminated"}
  BY <1>1, UnterminatedFacts DEF LexEndOfFile, TypeOK
<1>3. info' \in [Files -> HeaderFileInfo]
  <2>1. PICK m : m = GetControllingMacroAtEndOfFile(lexer.MIOpt)
    OBVIOUS
  <2>2. m \in Macros \cup {None}
    BY <1>1, <2>1 DEF GetControllingMacroAtEndOfFile, Lexer, MultipleIncludeOpt
  <2>3. PICK h : h = [info[lexer.file] EXCEPT !.controllingMacro = m]
    OBVIOUS
  <2>4. h \in HeaderFileInfo
    BY <1>1, <2>2, <2>3 DEF TypeOK, HeaderFileInfo
  <2>5. info' \in {info, [info EXCEPT ![lexer.file] = h]}
    BY <2>1, <2>3 DEF LexEndOfFile
  <2>6. info \in [Files -> HeaderFileInfo]
    BY <1>1 DEF TypeOK
  <2> QED BY <1>1, <2>4, <2>5, <2>6
<1>4. LexOK(lexer') /\ StackOK'
  <2>1. CASE includeMacroStack = << >>
    <3>1. lexer' = [lexer EXCEPT !.conditionalStack = << >>]
          /\ includeMacroStack' = includeMacroStack
      BY <2>1 DEF LexEndOfFile
    <3>2. lexer'.lexingRawMode = FALSE
      BY <1>1, <3>1 DEF Lexer
    <3>3. LexOK(lexer')
      BY <1>1, <3>1, <3>2, ClearedFacts
    <3> QED BY <1>1, <3>1, <3>3 DEF StackOK
  <2>2. CASE includeMacroStack # << >>
    <3> DEFINE s == includeMacroStack
               t == includeMacroStack'
    <3>1. /\ s \in Seq(Lexer) /\ s # << >> /\ t = Front(s) /\ lexer' = Last(s)
          /\ \A i \in 1 .. Len(s) : SkipShape(s[i]) /\ ~s[i].lexingRawMode
      BY <1>1, <2>2 DEF LexEndOfFile, StackOK
    <3> HIDE DEF s, t
    <3>2. /\ Len(s) \in Nat \ {0} /\ Last(s) = s[Len(s)] /\ Last(s) \in Lexer
          /\ t \in Seq(Lexer) /\ Len(t) = Len(s) - 1
          /\ \A i \in 1 .. Len(s) - 1 : t[i] = s[i]
      BY <3>1, LastFront
    <3>3. \A i \in 1 .. Len(t) : SkipShape(t[i]) /\ ~t[i].lexingRawMode
      BY <3>1, <3>2
    <3>4. LexOK(lexer')
      BY <3>1, <3>2 DEF LexOK
    <3> QED BY <3>2, <3>3, <3>4 DEF StackOK, SkipShape, t
  <2> QED BY <2>1, <2>2
<1>5. /\ text' = text /\ macros' = macros /\ once' = once /\ finished' \in BOOLEAN
  BY <1>1 DEF LexEndOfFile, TypeOK
<1> QED BY <1>1, <1>2, <1>3, <1>4, <1>5
       DEF IInv, TypeOK, SkippingAssertions, StackOK, LexOK

-----------------------------------------------------------------------------
(* The lines of a skipped group.                                            *)
LEMMA SkipIfStep == ASSUME IInv, SkipIf PROVE IInv'
<1>1. /\ lexer.lexingRawMode /\ TypeOK /\ SkipShape(lexer) /\ lexer \in Lexer
      /\ lexer.pos \in Nat
  BY DEF IInv, TypeOK, SkippingAssertions, SkipIf, ReadsSkipped, Lexer
<1>2. PICK adv : adv = Advance(lexer)
  OBVIOUS
<1>3. adv \in Lexer /\ SkipShape(adv) /\ adv.lexingRawMode
  BY <1>1, <1>2, AdvanceFacts, SameShape DEF LexOK, Same
<1>4. PICK s : s = adv.conditionalStack
  OBVIOUS
<1>5. PICK ci : ci = [ifLoc |-> lexer.pos, wasSkipping |-> TRUE,
                      foundNonSkip |-> FALSE, foundElse |-> FALSE]
  OBVIOUS
<1>6. ci \in PPConditionalInfo /\ ci.wasSkipping
  BY <1>1, <1>5 DEF PPConditionalInfo
<1>7. PICK l : l = lexer'
  OBVIOUS
<1>8. l = [adv EXCEPT !.conditionalStack = Append(@, ci)]
  BY <1>2, <1>5, <1>7 DEF SkipIf, PushSkipped, PushConditionalLevel
<1>9. /\ l \in Lexer
      /\ l.lexingRawMode = adv.lexingRawMode
      /\ Len(s) \in Nat
      /\ Len(l.conditionalStack) = Len(s) + 1
      /\ \A i \in 1 .. Len(s) : l.conditionalStack[i] = s[i]
      /\ l.conditionalStack[Len(s) + 1] = ci
  <2>1. adv \in Lexer /\ ci \in PPConditionalInfo
    BY <1>3, <1>6
  <2> QED BY <1>4, <1>8, <2>1, PushFacts
<1>10. PICK k \in 1 .. Len(s) : \A i \in 1 .. Len(s) : s[i].wasSkipping <=> i > k
  BY <1>3, <1>4 DEF SkipShape
<1>11. /\ k \in 1 .. Len(l.conditionalStack)
       /\ \A i \in 1 .. Len(l.conditionalStack) :
            l.conditionalStack[i].wasSkipping <=> i > k
  BY <1>6, <1>9, <1>10
<1>12. LexOK(l)
  BY <1>3, <1>9, <1>11 DEF LexOK, SkipShape
<1> QED BY <1>1, <1>7, <1>12, LexerStep DEF SkipIf, TypeOK

LEMMA SkipEndifStep == ASSUME IInv, SkipEndif PROVE IInv'
<1>1. lexer.lexingRawMode /\ TypeOK /\ SkipShape(lexer) /\ lexer \in Lexer
  BY DEF IInv, TypeOK, SkippingAssertions, SkipEndif, ReadsSkipped
<1>2. PICK adv : adv = Advance(lexer)
  OBVIOUS
<1>3. /\ adv \in Lexer /\ SkipShape(adv) /\ adv.lexingRawMode
      /\ adv.conditionalStack = lexer.conditionalStack
  BY <1>1, <1>2, AdvanceFacts, SameShape DEF LexOK, Same
<1>4. PICK s : s = adv.conditionalStack
  OBVIOUS
<1>5. PICK k \in 1 .. Len(s) : \A i \in 1 .. Len(s) : s[i].wasSkipping <=> i > k
  BY <1>3, <1>4 DEF SkipShape
<1>6. s # << >>
  BY <1>5
<1>7. PICK r : r = PopConditionalLevel(adv)
  OBVIOUS
<1>8. /\ r \in Lexer
      /\ Len(s) \in Nat \ {0}
      /\ Len(r.conditionalStack) = Len(s) - 1
      /\ \A i \in 1 .. Len(s) - 1 : r.conditionalStack[i] = s[i]
      /\ Last(s) \in PPConditionalInfo
      /\ Last(s) = s[Len(s)]
  BY <1>3, <1>4, <1>6, <1>7, PopFacts
<1>9. PICK b : b = Last(s).wasSkipping
  OBVIOUS
<1>10. b \in BOOLEAN /\ (b <=> Len(s) > k)
  <2>1. b \in BOOLEAN
    BY <1>8, <1>9 DEF PPConditionalInfo
  <2>2. s[Len(s)].wasSkipping <=> Len(s) > k
    BY <1>5, <1>8
  <2> QED BY <1>8, <1>9, <2>1, <2>2
<1>11. lexer' = [r EXCEPT !.lexingRawMode = b]
  BY <1>2, <1>3, <1>4, <1>7, <1>9 DEF SkipEndif
<1>12. /\ lexer' \in Lexer /\ lexer'.lexingRawMode = b
       /\ lexer'.conditionalStack = r.conditionalStack
  BY <1>8, <1>10, <1>11 DEF Lexer
<1>13. CASE b
  <2>1. /\ k \in 1 .. Len(r.conditionalStack)
        /\ \A i \in 1 .. Len(r.conditionalStack) : r.conditionalStack[i].wasSkipping <=> i > k
    BY <1>5, <1>8, <1>10, <1>13
  <2>2. LexOK(lexer')
    BY <1>12, <1>13, <2>1 DEF LexOK, SkipShape
  <2> QED BY <1>1, <2>2, LexerStep DEF SkipEndif, TypeOK
<1>14. CASE ~b
  <2>1. \A i \in 1 .. Len(r.conditionalStack) : ~r.conditionalStack[i].wasSkipping
    BY <1>5, <1>8, <1>10, <1>14
  <2>2. LexOK(lexer')
    BY <1>12, <1>14, <2>1 DEF LexOK, SkipShape
  <2> QED BY <1>1, <2>2, LexerStep DEF SkipEndif, TypeOK
<1> QED BY <1>13, <1>14

LEMMA SkipDivideStep == ASSUME IInv, SkipElse \/ SkipElif PROVE IInv'
<1>1. /\ lexer.lexingRawMode /\ TypeOK /\ SkipShape(lexer) /\ lexer \in Lexer
      /\ ~AtEndOfFile
  BY DEF IInv, TypeOK, SkippingAssertions, SkipElse, SkipElif, ReadsSkipped, Reads
<1>2. PICK adv : adv = Advance(lexer)
  OBVIOUS
<1>3. /\ adv \in Lexer /\ SkipShape(adv) /\ adv.lexingRawMode
      /\ adv.conditionalStack = lexer.conditionalStack
  BY <1>1, <1>2, AdvanceFacts, SameShape DEF LexOK, Same
<1>4. PICK ci : ci = Last(lexer.conditionalStack)
  OBVIOUS
<1>5. ci \in PPConditionalInfo
  <2>1. lexer.conditionalStack # << >>
    BY <1>1 DEF SkipShape
  <2> QED BY <1>1, <1>4, <2>1, PopFacts
<1>6. diags' \subseteq Files \X Nat \X {"misplaced", "unterminated"}
  <2>1. ci.foundElse \in BOOLEAN /\ Diagnosed(ci.foundElse)
    BY <1>4, <1>5 DEF PPConditionalInfo, SkipElse, SkipElif
  <2> QED BY <1>1, <2>1, DiagnosedFacts
<1>7. LexOK(lexer')
  <2>1. CASE SkipElse
    <3>1. PICK enter \in BOOLEAN : enter = (~ci.wasSkipping /\ ~ci.foundNonSkip)
      OBVIOUS
    <3>2. PICK else \in BOOLEAN : else = TRUE
      OBVIOUS
    <3>3. lexer' = UpdateTop(adv, enter, else)
      BY <1>2, <1>4, <2>1, <3>1, <3>2, Zenon DEF SkipElse
    <3>4. enter => ~Last(adv.conditionalStack).wasSkipping
      BY <1>3, <1>4, <3>1
    <3> QED BY <1>3, <3>3, <3>4, UpdateTopShape
  <2>2. CASE SkipElif /\ (ci.wasSkipping \/ ci.foundNonSkip)
    BY <1>2, <1>3, <1>4, <2>2 DEF SkipElif, LexOK
  <2>3. CASE SkipElif /\ ~(ci.wasSkipping \/ ci.foundNonSkip)
    <3>1. PICK e : e = CurLine.cond
      OBVIOUS
    <3>2. e \in Expr
      BY <1>1, <2>3, <3>1, LineFacts DEF SkipElif, ReadsSkipped, Reads
    <3>3. PICK enter \in BOOLEAN : enter = Evaluate(e)
      BY <1>1, <3>2, ExprFacts
    <3>4. PICK else \in BOOLEAN : else = FALSE
      OBVIOUS
    <3>5. PICK t : t = Evaluated(adv, e)
      OBVIOUS
    <3>6. t \in Lexer /\ Same(adv, t)
      BY <1>1, <1>3, <3>2, <3>5, EvaluatedFacts
    <3>7. SkipShape(t) /\ t.lexingRawMode /\ ~Last(t.conditionalStack).wasSkipping
      BY <1>3, <1>4, <2>3, <3>6, SameShape DEF Same, LexOK
    <3>8. lexer' = UpdateTop(t, enter, else)
      BY <1>2, <1>4, <2>3, <3>1, <3>3, <3>4, <3>5, Zenon DEF SkipElif
    <3> QED BY <3>6, <3>7, <3>8, UpdateTopShape
  <2> QED BY <2>1, <2>2, <2>3
<1> QED BY <1>1, <1>6, <1>7, LexerStep DEF SkipElse, SkipElif, TypeOK

LEMMA SkipEndOfFileStep == ASSUME IInv, SkipEndOfFile PROVE IInv'
<1>1. TypeOK /\ lexer \in Lexer
  BY DEF IInv, TypeOK
<1>2. diags' \subseteq Files \X Nat \X {"misplaced", "unterminated"}
  BY <1>1, UnterminatedFacts DEF SkipEndOfFile, TypeOK
<1>3. lexer' = [lexer EXCEPT !.conditionalStack = << >>, !.lexingRawMode = FALSE]
  BY DEF SkipEndOfFile, EndSkipping
<1>4. lexer'.lexingRawMode = FALSE
  BY <1>1, <1>3 DEF Lexer
<1>5. LexOK(lexer')
  BY <1>1, <1>3, <1>4, ClearedFacts
<1> QED BY <1>1, <1>2, <1>5, LexerStep DEF SkipEndOfFile, TypeOK

-----------------------------------------------------------------------------
LEMMA IInvNext == ASSUME IInv, [Next]_vars PROVE IInv'
<1>1. CASE \/ ReadText \/ HandleDefineDirective \/ HandleUndefDirective \/ SkipLine
  BY <1>1, PlainLineStep
<1>2. CASE HandlePragmaOnce
  BY <1>2, PragmaOnceStep
<1>3. CASE HandleIfdefDirective \/ HandleIfdefNoName \/ HandleIfDirective
  BY <1>3, OpenStep
<1>4. CASE HandleElseDirective \/ HandleElifDirective \/ HandleEndifDirective
  BY <1>4, DivideStep
<1>5. CASE HandleIncludeDirective
  BY <1>5, IncludeStep
<1>6. CASE LexEndOfFile
  BY <1>6, EndOfFileStep
<1>7. CASE SkipIf
  BY <1>7, SkipIfStep
<1>8. CASE SkipEndif
  BY <1>8, SkipEndifStep
<1>9. CASE SkipElse \/ SkipElif
  BY <1>9, SkipDivideStep
<1>10. CASE SkipEndOfFile
  BY <1>10, SkipEndOfFileStep
<1>11. CASE UNCHANGED vars
  BY <1>11 DEF vars, IInv, TypeOK, SkippingAssertions, SkipShape
<1> QED BY <1>1, <1>2, <1>3, <1>4, <1>5, <1>6, <1>7, <1>8, <1>9, <1>10, <1>11 DEF Next

(* The invariant holds of every execution, for files with any contents.     *)
THEOREM Invariance == Spec => []IInv
<1>1. Init => IInv
  BY IInvInit
<1>2. IInv /\ [Next]_vars => IInv'
  BY IInvNext
<1> QED BY <1>1, <1>2, PTL DEF Spec

(* Every variable keeps its type.                                           *)
THEOREM TypeCorrect == Spec => []TypeOK
<1>1. IInv => TypeOK
  BY DEF IInv
<1> QED BY <1>1, Invariance, PTL

(* The assertions about skipped blocks hold: whatever the files contain,    *)
(* skipping ends at the section it began with and nowhere else.             *)
THEOREM SkippingCorrect == Spec => []SkippingAssertions
<1>1. IInv => SkippingAssertions
  BY DEF IInv
<1> QED BY <1>1, Invariance, PTL

-----------------------------------------------------------------------------
(* The depth after a line, from that before it.                             *)
Deeper(d, line) ==
  IF Opens(line) THEN d + 1 ELSE IF line.op = "endif" /\ d > 0 THEN d - 1 ELSE d

(* The recursion that defines Depth has a solution, so that Depth is one.   *)
LEMMA DepthFacts ==
  ASSUME NEW lines, Len(lines) \in Nat
  PROVE  /\ Depth(lines)[0] = 0
         /\ \A n \in 1 .. Len(lines) :
              Depth(lines)[n] = Deeper(Depth(lines)[n - 1], lines[n])
<1> DEFINE Value(d, n) == IF n = 0 THEN 0 ELSE Deeper(d[n-1], lines[n])
           S == {N \in Nat : N <= Len(lines) =>
                   \E d : d = [n \in 0 .. N |-> Value(d, n)]}
<1>1. 0 \in S
  <2>1. [n \in 0 .. 0 |-> 0] = [n \in 0 .. 0 |-> Value([k \in 0 .. 0 |-> 0], n)]
    OBVIOUS
  <2> QED BY <2>1
<1>2. ASSUME NEW N \in Nat, N \in S
      PROVE  N + 1 \in S
  <2> SUFFICES ASSUME N + 1 <= Len(lines)
               PROVE  \E d : d = [n \in 0 .. N + 1 |-> Value(d, n)]
    OBVIOUS
  <2>1. PICK d : d = [n \in 0 .. N |-> Value(d, n)]
    BY <1>2
  <2> DEFINE e == [n \in 0 .. N + 1 |-> IF n <= N THEN d[n] ELSE Deeper(d[N], lines[N+1])]
  <2>2. ASSUME NEW n \in 0 .. N + 1 PROVE e[n] = Value(e, n)
    <3>1. CASE n = N + 1
      <4>1. e[n - 1] = d[N]
        BY <3>1
      <4> QED BY <3>1, <4>1
    <3>2. CASE n \in 1 .. N
      <4>1. e[n] = d[n] /\ e[n - 1] = d[n - 1]
        BY <3>2
      <4> HIDE DEF e
      <4> QED BY <2>1, <3>2, <4>1
    <3>3. CASE n = 0
      BY <2>1, <3>3
    <3> QED BY <3>1, <3>2, <3>3
  <2>3. e = [n \in 0 .. N + 1 |-> Value(e, n)]
    BY <2>2
  <2> QED BY <2>3
<1>3. Len(lines) \in S
  <2> HIDE DEF S
  <2> QED BY <1>1, <1>2, SetInduction
<1>4. PICK d : d = [n \in 0 .. Len(lines) |-> Value(d, n)]
  BY <1>3
<1>5. Depth(lines) = [n \in 0 .. Len(lines) |-> Value(Depth(lines), n)]
  BY <1>4, Zenon DEF Depth, Deeper
<1> QED BY <1>5

-----------------------------------------------------------------------------
(* Which sections are open, and which groups they have, line by line.  s is *)
(* a conditional stack: its entries are the open sections.                  *)
Entries(lines, n, s) ==
  /\ Depth(lines)[n - 1] = Len(s)
  /\ Enclosing(lines, n) = {s[i].ifLoc : i \in 1 .. Len(s)}
  /\ \A i \in 1 .. Len(s) : s[i].ifLoc \in 1 .. n - 1 /\ Depth(lines)[s[i].ifLoc] = i
  /\ \A i, j \in 1 .. Len(s) : i < j => s[i].ifLoc < s[j].ifLoc

LEMMA EntriesPlain ==
  ASSUME NEW lines, Len(lines) \in Nat, NEW n \in 1 .. Len(lines),
         NEW s \in Seq(PPConditionalInfo), Entries(lines, n, s),
         ~Opens(lines[n]), lines[n].op = "endif" => Len(s) = 0
  PROVE  Entries(lines, n + 1, s) /\ Enclosing(lines, n + 1) = Enclosing(lines, n)
<1>1. Depth(lines)[n] = Len(s)
  BY DepthFacts DEF Entries, Deeper
<1>2. Enclosing(lines, n + 1) = Enclosing(lines, n)
  <2>1. ASSUME NEW o \in Enclosing(lines, n + 1) PROVE o \in Enclosing(lines, n)
    BY DEF Enclosing
  <2>2. ASSUME NEW o \in Enclosing(lines, n) PROVE o \in Enclosing(lines, n + 1)
    BY <1>1 DEF Enclosing, Entries
  <2> QED BY <2>1, <2>2
<1> QED BY <1>1, <1>2 DEF Entries

LEMMA EntriesOpen ==
  ASSUME NEW lines, Len(lines) \in Nat, NEW n \in 1 .. Len(lines),
         NEW s \in Seq(PPConditionalInfo), Entries(lines, n, s), Opens(lines[n]),
         NEW t \in Seq(PPConditionalInfo), Len(t) = Len(s) + 1,
         \A i \in 1 .. Len(s) : t[i].ifLoc = s[i].ifLoc, t[Len(s) + 1].ifLoc = n
  PROVE  /\ Entries(lines, n + 1, t)
         /\ Enclosing(lines, n + 1) = Enclosing(lines, n) \cup {n}
<1>1. Depth(lines)[n] = Len(s) + 1 /\ Len(s) \in Nat
  BY DepthFacts DEF Entries, Deeper
<1>2. Enclosing(lines, n + 1) = Enclosing(lines, n) \cup {n}
  <2>1. ASSUME NEW o \in Enclosing(lines, n + 1), o # n PROVE o \in Enclosing(lines, n)
    BY <2>1 DEF Enclosing
  <2>2. ASSUME NEW o \in Enclosing(lines, n) PROVE o \in Enclosing(lines, n + 1)
    <3>1. /\ o \in 1 .. n - 1 /\ Opens(lines[o])
          /\ \A k \in o .. n - 1 : Depth(lines)[k] >= Depth(lines)[o]
      BY <2>2 DEF Enclosing
    <3>2. PICK i \in 1 .. Len(s) : o = s[i].ifLoc /\ Depth(lines)[o] = i
      BY DEF Entries
    <3>3. \A k \in o .. n : Depth(lines)[k] >= Depth(lines)[o]
      BY <1>1, <3>1, <3>2
    <3> QED BY <3>1, <3>3 DEF Enclosing
  <2>3. n \in Enclosing(lines, n + 1)
    BY <1>1 DEF Enclosing
  <2> QED BY <2>1, <2>2, <2>3
<1>3. {t[i].ifLoc : i \in 1 .. Len(t)} = {s[i].ifLoc : i \in 1 .. Len(s)} \cup {n}
  <2>1. 1 .. Len(t) = (1 .. Len(s)) \cup {Len(s) + 1}
    BY <1>1
  <2> QED BY <2>1
<1>4. ASSUME NEW i \in 1 .. Len(t)
      PROVE  t[i].ifLoc \in 1 .. n /\ Depth(lines)[t[i].ifLoc] = i
  <2>1. CASE i = Len(s) + 1
    BY <1>1, <2>1
  <2>2. CASE i \in 1 .. Len(s)
    BY <2>2 DEF Entries
  <2> QED BY <1>1, <2>1, <2>2
<1>5. ASSUME NEW i \in 1 .. Len(t), NEW j \in 1 .. Len(t), i < j
      PROVE  t[i].ifLoc < t[j].ifLoc
  <2>1. CASE j = Len(s) + 1
    <3>1. i \in 1 .. Len(s)
      BY <1>1, <1>5, <2>1
    <3> QED BY <2>1, <3>1 DEF Entries
  <2>2. CASE j \in 1 .. Len(s)
    <3>1. i \in 1 .. Len(s)
      BY <1>1, <1>5, <2>2
    <3> QED BY <1>5, <2>2, <3>1 DEF Entries
  <2> QED BY <1>1, <2>1, <2>2
<1>6. (n + 1) - 1 = n /\ Len(t) = Len(s) + 1
  OBVIOUS
<1>7. Enclosing(lines, n + 1) = {t[i].ifLoc : i \in 1 .. Len(t)}
  BY <1>2, <1>3 DEF Entries
<1> QED BY <1>1, <1>2, <1>4, <1>5, <1>6, <1>7 DEF Entries

LEMMA EntriesClose ==
  ASSUME NEW lines, Len(lines) \in Nat, NEW n \in 1 .. Len(lines),
         NEW s \in Seq(PPConditionalInfo), Entries(lines, n, s),
         lines[n].op = "endif", Len(s) # 0,
         NEW t \in Seq(PPConditionalInfo), Len(t) = Len(s) - 1,
         \A i \in 1 .. Len(t) : t[i].ifLoc = s[i].ifLoc
  PROVE  /\ Entries(lines, n + 1, t)
         /\ Enclosing(lines, n + 1) = Enclosing(lines, n) \ {s[Len(s)].ifLoc}
<1>1. Depth(lines)[n] = Len(t) /\ Len(s) \in Nat \ {0} /\ Len(t) \in Nat
  <2>1. ~Opens(lines[n]) /\ Len(s) \in Nat \ {0} /\ Len(t) \in Nat
    BY DEF Opens
  <2>2. Depth(lines)[n - 1] = Len(s)
    BY DEF Entries
  <2>3. Depth(lines)[n] = Deeper(Len(s), lines[n])
    BY <2>2, DepthFacts
  <2> QED BY <2>1, <2>3 DEF Deeper
<1> DEFINE top == s[Len(s)].ifLoc
<1>2. top \in 1 .. n - 1 /\ Depth(lines)[top] = Len(s)
  BY <1>1 DEF Entries
<1>3. ASSUME NEW o \in Enclosing(lines, n + 1) PROVE o \in Enclosing(lines, n) /\ o # top
  <2>1. ~Opens(lines[n])
    BY DEF Opens
  <2>2. /\ o \in 1 .. n /\ Opens(lines[o])
        /\ \A k \in o .. n : Depth(lines)[k] >= Depth(lines)[o]
    BY <1>3 DEF Enclosing
  <2>3. o \in 1 .. n - 1
    BY <2>1, <2>2
  <2>4. Depth(lines)[n] >= Depth(lines)[o]
    <3>1. n \in o .. n
      BY <2>2
    <3> QED BY <2>2, <3>1
  <2> QED BY <1>1, <1>2, <2>2, <2>3, <2>4 DEF Enclosing
<1>4. ASSUME NEW o \in Enclosing(lines, n), o # top PROVE o \in Enclosing(lines, n + 1)
  <2>1. /\ o \in 1 .. n - 1 /\ Opens(lines[o])
        /\ \A k \in o .. n - 1 : Depth(lines)[k] >= Depth(lines)[o]
    BY <1>4 DEF Enclosing
  <2>2. PICK i \in 1 .. Len(s) : o = s[i].ifLoc /\ Depth(lines)[o] = i
    BY DEF Entries
  <2>3. i < Len(s)
    BY <1>1, <1>4, <2>2
  <2>4. \A k \in o .. n : Depth(lines)[k] >= Depth(lines)[o]
    BY <1>1, <2>1, <2>2, <2>3
  <2> QED BY <2>1, <2>4 DEF Enclosing
<1>5. Enclosing(lines, n + 1) = Enclosing(lines, n) \ {top}
  BY <1>2, <1>3, <1>4
<1>6. Enclosing(lines, n) \ {top} = {t[i].ifLoc : i \in 1 .. Len(t)}
  <2>1. Enclosing(lines, n) = {s[i].ifLoc : i \in 1 .. Len(s)}
    BY DEF Entries
  <2>2. 1 .. Len(s) = (1 .. Len(t)) \cup {Len(s)} /\ \A i \in 1 .. Len(t) : i < Len(s)
    BY <1>1
  <2>3. \A i \in 1 .. Len(t) : s[i].ifLoc # top
    BY <1>1, <2>2 DEF Entries
  <2>4. {s[i].ifLoc : i \in 1 .. Len(s)} = {s[i].ifLoc : i \in 1 .. Len(t)} \cup {top}
    BY <2>2
  <2>5. {s[i].ifLoc : i \in 1 .. Len(t)} = {t[i].ifLoc : i \in 1 .. Len(t)}
    OBVIOUS
  <2> QED BY <2>1, <2>3, <2>4, <2>5
<1>7. \A i \in 1 .. Len(t) : t[i].ifLoc \in 1 .. n /\ Depth(lines)[t[i].ifLoc] = i
  BY <1>1 DEF Entries
<1>8. \A i, j \in 1 .. Len(t) : i < j => t[i].ifLoc < t[j].ifLoc
  BY <1>1 DEF Entries
<1>9. (n + 1) - 1 = n
  OBVIOUS
<1> HIDE DEF top
<1> QED BY <1>1, <1>5, <1>6, <1>7, <1>8, <1>9 DEF Entries, top

(* The entry on top of the stack is the innermost section.                  *)
LEMMA InnermostFacts ==
  ASSUME NEW lines, NEW n \in Nat, NEW s \in Seq(PPConditionalInfo), Entries(lines, n, s)
  PROVE  /\ Enclosing(lines, n) = {} <=> Len(s) = 0
         /\ Len(s) # 0 => Innermost(lines, n) = s[Len(s)].ifLoc
<1>1. Len(s) \in Nat
  OBVIOUS
<1>2. Enclosing(lines, n) = {} <=> Len(s) = 0
  <2>1. /\ Len(s) = 0 => 1 .. Len(s) = {}
        /\ Len(s) # 0 => 1 \in 1 .. Len(s)
    BY <1>1
  <2>2. Enclosing(lines, n) = {s[i].ifLoc : i \in 1 .. Len(s)}
    BY DEF Entries
  <2> QED BY <2>1, <2>2
<1>3. ASSUME Len(s) # 0
      PROVE  Innermost(lines, n) = s[Len(s)].ifLoc
  <2> DEFINE E == Enclosing(lines, n)
             top == s[Len(s)].ifLoc
  <2>1. E = {s[i].ifLoc : i \in 1 .. Len(s)} /\ Len(s) \in 1 .. Len(s)
    BY <1>1, <1>3 DEF Entries
  <2>2. \A i \in 1 .. Len(s) : s[i].ifLoc \in Int /\ s[i].ifLoc <= top
    BY <1>1, <2>1 DEF Entries
  <2>3. top \in E /\ \A p \in E : p <= top /\ p \in Int
    BY <2>1, <2>2
  <2>4. \A o \in E : (\A p \in E : p <= o) => o = top
    BY <2>3
  <2> QED BY <2>3, <2>4 DEF Innermost
<1> QED BY <1>2, <1>3

LEMMA GroupsSame ==
  ASSUME NEW lines, NEW n \in Nat, NEW o \in 1 .. n - 1,
         ~Divides(lines[n]) \/ Enclosing(lines, n) = {} \/ Innermost(lines, n) # o
  PROVE  Groups(lines, o, n + 1) = Groups(lines, o, n)
<1>1. o + 1 .. (n + 1) - 1 = (o + 1 .. n - 1) \cup {n}
  OBVIOUS
<1> QED BY <1>1 DEF Groups

LEMMA GroupsGrow ==
  ASSUME NEW lines, NEW n \in Nat, NEW o \in 1 .. n - 1,
         Divides(lines[n]), Enclosing(lines, n) # {}, Innermost(lines, n) = o
  PROVE  Groups(lines, o, n + 1) = Groups(lines, o, n) \cup {n}
<1>1. o + 1 .. (n + 1) - 1 = (o + 1 .. n - 1) \cup {n}
  OBVIOUS
<1> QED BY <1>1 DEF Groups

LEMMA GroupsStart ==
  ASSUME NEW lines, NEW n \in Nat
  PROVE  Groups(lines, n, n + 1) = {n}
  BY DEF Groups

-----------------------------------------------------------------------------
(* What the stack says of the groups that the standard selects.             *)
Holds(lines, truth, g) == g \in truth \/ lines[g].op = "else"

IsLast(gs, g) == g \in gs /\ \A h \in gs : h <= g

HasTrue(lines, truth, o, n) == \E g \in Groups(lines, o, n) : Holds(lines, truth, g)

(* The group of entry i is read: in raw mode, the last entry that was not   *)
(* pushed while skipping is the one whose group is not.                     *)
IsRead(s, raw, i) == raw => i < Len(s) /\ ~s[i + 1].wasSkipping

(* The entries of s, which a lexer has before line n, against the text.     *)
EntryOK(lines, n, s, raw, truth, i) ==
  LET o == s[i].ifLoc
  IN /\ \E g \in Groups(lines, o, n) : IsLast(Groups(lines, o, n), g)
     /\ ~s[i].wasSkipping =>
          /\ s[i].foundNonSkip <=> HasTrue(lines, truth, o, n)
          /\ Selected(lines, truth, o, n) <=> IsRead(s, raw, i)

AgreeAt(lines, n, s, raw, truth) ==
  /\ truth \subseteq 1 .. n - 1
  /\ Entries(lines, n, s)
  /\ \A i \in 1 .. Len(s) : EntryOK(lines, n, s, raw, truth, i)

LEMMA GroupsBefore ==
  ASSUME NEW lines, NEW n \in Nat, NEW o \in 1 .. n - 1
  PROVE  Groups(lines, o, n) \subseteq 1 .. n - 1
  BY DEF Groups

LEMMA SelectedByLast ==
  ASSUME NEW lines, NEW truth, NEW n \in Nat, NEW o \in 1 .. n - 1,
         NEW g, IsLast(Groups(lines, o, n), g)
  PROVE  Selected(lines, truth, o, n) <=>
           /\ Holds(lines, truth, g)
           /\ \A h \in Groups(lines, o, n) \ {g} : ~Holds(lines, truth, h)
<1> DEFINE gs == Groups(lines, o, n)
<1>1. gs \subseteq Int
  BY GroupsBefore
<1>2. \A h \in gs : (\A k \in gs : k <= h) => h = g
  BY <1>1 DEF IsLast
<1>3. (CHOOSE h \in gs : \A k \in gs : k <= h) = g
  BY <1>2 DEF IsLast
<1> QED BY <1>3, Zenon DEF Selected, Holds

(* The line is none of this section's: what is known of it stays.           *)
LEMMA OtherSection ==
  ASSUME NEW lines, NEW n \in Nat, NEW o \in 1 .. n - 1,
         NEW truth, NEW t, truth \subseteq t, t \subseteq truth \cup {n},
         Groups(lines, o, n + 1) = Groups(lines, o, n),
         NEW g, IsLast(Groups(lines, o, n), g)
  PROVE  /\ IsLast(Groups(lines, o, n + 1), g)
         /\ HasTrue(lines, t, o, n + 1) <=> HasTrue(lines, truth, o, n)
         /\ Selected(lines, t, o, n + 1) <=> Selected(lines, truth, o, n)
<1>1. \A h \in Groups(lines, o, n) : h # n /\ (Holds(lines, t, h) <=> Holds(lines, truth, h))
  BY GroupsBefore DEF Holds
<1>2. n + 1 \in Nat /\ o \in 1 .. (n + 1) - 1
  OBVIOUS
<1>3. IsLast(Groups(lines, o, n + 1), g)
  OBVIOUS
<1>4. Selected(lines, t, o, n + 1) <=>
           /\ Holds(lines, t, g)
           /\ \A h \in Groups(lines, o, n) \ {g} : ~Holds(lines, t, h)
  BY <1>2, <1>3, SelectedByLast
<1>5. Selected(lines, truth, o, n) <=>
           /\ Holds(lines, truth, g)
           /\ \A h \in Groups(lines, o, n) \ {g} : ~Holds(lines, truth, h)
  BY SelectedByLast
<1>6. HasTrue(lines, t, o, n + 1) <=> HasTrue(lines, truth, o, n)
  BY <1>1 DEF HasTrue
<1> QED BY <1>1, <1>3, <1>4, <1>5, <1>6 DEF IsLast

(* The line starts the next group of the section.                           *)
LEMMA NextGroup ==
  ASSUME NEW lines, NEW n \in Nat, NEW o \in 1 .. n - 1,
         NEW truth, NEW t, truth \subseteq t, t \subseteq truth \cup {n},
         Groups(lines, o, n + 1) = Groups(lines, o, n) \cup {n}
  PROVE  /\ IsLast(Groups(lines, o, n + 1), n)
         /\ HasTrue(lines, t, o, n + 1) <=>
              HasTrue(lines, truth, o, n) \/ Holds(lines, t, n)
         /\ Selected(lines, t, o, n + 1) <=>
              ~HasTrue(lines, truth, o, n) /\ Holds(lines, t, n)
<1>1. \A h \in Groups(lines, o, n) :
        /\ h # n /\ h <= n
        /\ Holds(lines, t, h) <=> Holds(lines, truth, h)
  BY GroupsBefore DEF Holds
<1>2. n + 1 \in Nat /\ o \in 1 .. (n + 1) - 1
  OBVIOUS
<1>3. IsLast(Groups(lines, o, n + 1), n)
  BY <1>1 DEF IsLast
<1>4. Selected(lines, t, o, n + 1) <=>
           /\ Holds(lines, t, n)
           /\ \A h \in Groups(lines, o, n + 1) \ {n} : ~Holds(lines, t, h)
  BY <1>2, <1>3, SelectedByLast
<1>5. Groups(lines, o, n + 1) \ {n} = Groups(lines, o, n)
  BY <1>1
<1> QED BY <1>1, <1>3, <1>4, <1>5 DEF HasTrue

(* A line that opens a section starts its first group.                      *)
LEMMA FirstGroup ==
  ASSUME NEW lines, NEW n \in Nat \ {0}, NEW t
  PROVE  /\ IsLast(Groups(lines, n, n + 1), n)
         /\ HasTrue(lines, t, n, n + 1) <=> Holds(lines, t, n)
         /\ Selected(lines, t, n, n + 1) <=> Holds(lines, t, n)
<1>1. Groups(lines, n, n + 1) = {n}
  BY GroupsStart
<1>2. IsLast(Groups(lines, n, n + 1), n)
  BY <1>1 DEF IsLast
<1>3. Selected(lines, t, n, n + 1) <=>
           /\ Holds(lines, t, n)
           /\ \A h \in Groups(lines, n, n + 1) \ {n} : ~Holds(lines, t, h)
  BY <1>2, SelectedByLast
<1> QED BY <1>1, <1>2, <1>3 DEF HasTrue

-----------------------------------------------------------------------------
(* One line: the stack agrees with the text before it, and after it.        *)
Shape(s, raw) ==
  IF raw THEN \E k \in 1 .. Len(s) : \A i \in 1 .. Len(s) : s[i].wasSkipping <=> i > k
         ELSE \A i \in 1 .. Len(s) : ~s[i].wasSkipping

(* An entry of another section stays right when its group stays read, or    *)
(* skipped.                                                                 *)
LEMMA EntryStays ==
  ASSUME NEW lines, NEW n \in Nat \ {0},
         NEW s \in Seq(PPConditionalInfo), NEW raw, NEW truth,
         NEW i \in 1 .. Len(s), EntryOK(lines, n, s, raw, truth, i), s[i].ifLoc \in 1 .. n - 1,
         NEW t \in Seq(PPConditionalInfo), NEW rawt \in BOOLEAN, NEW trutht, i \in 1 .. Len(t),
         t[i].ifLoc = s[i].ifLoc, t[i].wasSkipping = s[i].wasSkipping,
         t[i].foundNonSkip = s[i].foundNonSkip,
         truth \subseteq trutht, trutht \subseteq truth \cup {n},
         Groups(lines, s[i].ifLoc, n + 1) = Groups(lines, s[i].ifLoc, n),
         ~s[i].wasSkipping => (IsRead(t, rawt, i) <=> IsRead(s, raw, i))
  PROVE  EntryOK(lines, n + 1, t, rawt, trutht, i)
<1> DEFINE o == s[i].ifLoc
<1>1. PICK g : IsLast(Groups(lines, o, n), g)
  BY DEF EntryOK
<1>2. /\ IsLast(Groups(lines, o, n + 1), g)
      /\ HasTrue(lines, trutht, o, n + 1) <=> HasTrue(lines, truth, o, n)
      /\ Selected(lines, trutht, o, n + 1) <=> Selected(lines, truth, o, n)
  BY <1>1, OtherSection
<1>3. /\ ~s[i].wasSkipping =>
          /\ s[i].foundNonSkip <=> HasTrue(lines, truth, o, n)
          /\ Selected(lines, truth, o, n) <=> IsRead(s, raw, i)
  BY DEF EntryOK
<1>4. \E h \in Groups(lines, o, n + 1) : IsLast(Groups(lines, o, n + 1), h)
  BY <1>2 DEF IsLast
<1> QED BY <1>2, <1>3, <1>4 DEF EntryOK

LEMMA AgreePlain ==
  ASSUME NEW lines, Len(lines) \in Nat, NEW n \in 1 .. Len(lines),
         NEW s \in Seq(PPConditionalInfo), NEW raw \in BOOLEAN, NEW truth,
         AgreeAt(lines, n, s, raw, truth), ~Opens(lines[n]),
         lines[n].op \in {"endif", "else", "elif"} => Len(s) = 0
  PROVE  AgreeAt(lines, n + 1, s, raw, truth)
<1>1. Entries(lines, n + 1, s) /\ truth \subseteq 1 .. (n + 1) - 1
  BY EntriesPlain DEF AgreeAt
<1>2. ASSUME NEW i \in 1 .. Len(s)
      PROVE  EntryOK(lines, n + 1, s, raw, truth, i)
  <2>1. s[i].ifLoc \in 1 .. n - 1 /\ EntryOK(lines, n, s, raw, truth, i)
    BY DEF AgreeAt, Entries
  <2>2. ~Divides(lines[n])
    BY DEF Divides
  <2>3. Groups(lines, s[i].ifLoc, n + 1) = Groups(lines, s[i].ifLoc, n)
    BY <2>1, <2>2, GroupsSame
  <2>4. n \in Nat \ {0}
    OBVIOUS
  <2> QED BY <2>1, <2>3, <2>4, EntryStays
<1> QED BY <1>1, <1>2 DEF AgreeAt

LEMMA AgreeOpen ==
  ASSUME NEW lines, Len(lines) \in Nat, NEW n \in 1 .. Len(lines),
         NEW s \in Seq(PPConditionalInfo), NEW raw \in BOOLEAN, NEW truth,
         AgreeAt(lines, n, s, raw, truth), Shape(s, raw), Opens(lines[n]),
         NEW t \in Seq(PPConditionalInfo), NEW rawt \in BOOLEAN, NEW trutht,
         Len(t) = Len(s) + 1, \A i \in 1 .. Len(s) : t[i] = s[i],
         t[Len(s) + 1].ifLoc = n, t[Len(s) + 1].wasSkipping = raw,
         NEW b \in BOOLEAN, n \in trutht <=> b,
         truth \subseteq trutht, trutht \subseteq truth \cup {n},
         t[Len(s) + 1].foundNonSkip = b, rawt <=> ~b, raw => ~b
  PROVE  AgreeAt(lines, n + 1, t, rawt, trutht)
<1>0. Len(s) \in Nat
  OBVIOUS
<1>1. Entries(lines, n + 1, t)
  BY EntriesOpen DEF AgreeAt
<1>2. trutht \subseteq 1 .. (n + 1) - 1
  BY DEF AgreeAt
<1>3. ASSUME NEW i \in 1 .. Len(s)
      PROVE  EntryOK(lines, n + 1, t, rawt, trutht, i)
  <2>1. s[i].ifLoc \in 1 .. n - 1 /\ EntryOK(lines, n, s, raw, truth, i)
    BY DEF AgreeAt, Entries
  <2>a. ~Divides(lines[n]) /\ n \in Nat
    BY DEF Divides, Opens
  <2>2. Groups(lines, s[i].ifLoc, n + 1) = Groups(lines, s[i].ifLoc, n)
    BY <2>a, <2>1, GroupsSame
  <2>3. IsRead(t, rawt, i) <=> IsRead(s, raw, i)
    <3>1. CASE i = Len(s)
      BY <1>0, <3>1 DEF IsRead
    <3>2. CASE i # Len(s)
      <4>1. i + 1 \in 1 .. Len(s)
        BY <1>0, <3>2
      <4>2. ~raw => ~s[i + 1].wasSkipping
        BY <4>1 DEF Shape
      <4> QED BY <1>0, <4>1, <4>2 DEF IsRead
    <3> QED BY <3>1, <3>2
  <2>4. /\ i \in 1 .. Len(t) /\ n \in Nat \ {0} /\ t[i] = s[i]
        /\ t[i].ifLoc = s[i].ifLoc /\ t[i].wasSkipping = s[i].wasSkipping
        /\ t[i].foundNonSkip = s[i].foundNonSkip
    BY <1>0
  <2> QED BY <1>2, <2>1, <2>2, <2>3, <2>4, EntryStays
<1>4. EntryOK(lines, n + 1, t, rawt, trutht, Len(s) + 1)
  <2>1. n \in Nat \ {0} /\ lines[n].op # "else"
    BY DEF Opens
  <2>2. /\ IsLast(Groups(lines, n, n + 1), n)
        /\ HasTrue(lines, trutht, n, n + 1) <=> Holds(lines, trutht, n)
        /\ Selected(lines, trutht, n, n + 1) <=> Holds(lines, trutht, n)
    BY <2>1, FirstGroup
  <2>3. Holds(lines, trutht, n) <=> b
    BY <2>1 DEF Holds, AgreeAt
  <2>4. IsRead(t, rawt, Len(s) + 1) <=> b
    <3>1. ~(Len(s) + 1 < Len(t))
      BY <1>0
    <3> QED BY <3>1 DEF IsRead
  <2> QED BY <2>2, <2>3, <2>4 DEF EntryOK, IsLast
<1>5. \A i \in 1 .. Len(t) : i \in 1 .. Len(s) \/ i = Len(s) + 1
  BY <1>0
<1> QED BY <1>1, <1>2, <1>3, <1>4, <1>5 DEF AgreeAt

LEMMA AgreeClose ==
  ASSUME NEW lines, Len(lines) \in Nat, NEW n \in 1 .. Len(lines),
         NEW s \in Seq(PPConditionalInfo), NEW raw \in BOOLEAN, NEW truth,
         AgreeAt(lines, n, s, raw, truth), Shape(s, raw),
         lines[n].op = "endif", Len(s) # 0,
         NEW t \in Seq(PPConditionalInfo), NEW rawt \in BOOLEAN,
         Len(t) = Len(s) - 1, \A i \in 1 .. Len(t) : t[i] = s[i],
         rawt <=> raw /\ s[Len(s)].wasSkipping
  PROVE  AgreeAt(lines, n + 1, t, rawt, truth)
<1>0. Len(s) \in Nat \ {0} /\ Len(t) \in Nat
  OBVIOUS
<1>1. Entries(lines, n + 1, t) /\ truth \subseteq 1 .. (n + 1) - 1
  <2>1. \A i \in 1 .. Len(t) : t[i].ifLoc = s[i].ifLoc
    OBVIOUS
  <2>2. Entries(lines, n, s) /\ truth \subseteq 1 .. n - 1
    BY DEF AgreeAt
  <2>3. Entries(lines, n + 1, t)
    BY <2>1, <2>2, EntriesClose
  <2> QED BY <2>2, <2>3
<1>2. ASSUME NEW i \in 1 .. Len(t)
      PROVE  EntryOK(lines, n + 1, t, rawt, truth, i)
  <2>1. i \in 1 .. Len(s) /\ i + 1 \in 1 .. Len(s)
    BY <1>0
  <2>2. s[i].ifLoc \in 1 .. n - 1 /\ EntryOK(lines, n, s, raw, truth, i)
    BY <2>1 DEF AgreeAt, Entries
  <2>3. Groups(lines, s[i].ifLoc, n + 1) = Groups(lines, s[i].ifLoc, n)
    <3>1. ~Divides(lines[n]) /\ n \in Nat
      BY DEF Divides
    <3> QED BY <2>2, <3>1, GroupsSame
  <2>4. ~s[i].wasSkipping => (IsRead(t, rawt, i) <=> IsRead(s, raw, i))
    <3>1. CASE ~raw
      BY <3>1 DEF IsRead
    <3>2. CASE raw /\ s[Len(s)].wasSkipping
      <4>1. CASE i = Len(t)
        <5>1. i + 1 = Len(s) /\ ~(i < Len(t)) /\ rawt /\ raw
          BY <1>0, <3>2, <4>1
        <5> QED BY <3>2, <5>1 DEF IsRead
      <4>2. CASE i # Len(t)
        <5>1. i + 1 \in 1 .. Len(t) /\ i < Len(t) /\ i < Len(s) /\ rawt /\ raw
          BY <1>0, <3>2, <4>2
        <5> QED BY <5>1 DEF IsRead
      <4> QED BY <4>1, <4>2
    <3>3. CASE raw /\ ~s[Len(s)].wasSkipping
      <4>1. PICK k \in 1 .. Len(s) : \A j \in 1 .. Len(s) : s[j].wasSkipping <=> j > k
        BY <3>3 DEF Shape
      <4>2. ~s[i + 1].wasSkipping
        BY <1>0, <2>1, <3>3, <4>1
      <4>3. ~rawt /\ i < Len(s)
        BY <1>0, <2>1, <3>3
      <4> QED BY <4>2, <4>3 DEF IsRead
    <3> QED BY <3>1, <3>2, <3>3
  <2>5. n \in Nat \ {0} /\ t[i] = s[i] /\ truth \subseteq truth \cup {n}
    OBVIOUS
  <2> QED BY <2>1, <2>2, <2>3, <2>4, <2>5, EntryStays
<1> QED BY <1>1, <1>2 DEF AgreeAt

(* b: the new group is the first of its section that holds.                 *)
LEMMA AgreeDivide ==
  ASSUME NEW lines, Len(lines) \in Nat, NEW n \in 1 .. Len(lines),
         NEW s \in Seq(PPConditionalInfo), NEW raw \in BOOLEAN, NEW truth,
         AgreeAt(lines, n, s, raw, truth), Shape(s, raw),
         Divides(lines[n]), Len(s) # 0,
         NEW t \in Seq(PPConditionalInfo), NEW rawt \in BOOLEAN, NEW trutht,
         Len(t) = Len(s), \A i \in 1 .. Len(s) - 1 : t[i] = s[i],
         t[Len(s)].ifLoc = s[Len(s)].ifLoc,
         t[Len(s)].wasSkipping = s[Len(s)].wasSkipping,
         truth \subseteq trutht, trutht \subseteq truth \cup {n},
         NEW b \in BOOLEAN, rawt = ~b,
         b => raw /\ ~s[Len(s)].wasSkipping /\ ~s[Len(s)].foundNonSkip,
         ~raw => s[Len(s)].foundNonSkip,
         t[Len(s)].foundNonSkip = (s[Len(s)].foundNonSkip \/ b),
         ~s[Len(s)].wasSkipping /\ ~s[Len(s)].foundNonSkip => (Holds(lines, trutht, n) <=> b)
  PROVE  AgreeAt(lines, n + 1, t, rawt, trutht)
<1>0. Len(s) \in Nat \ {0}
  OBVIOUS
<1>1. Entries(lines, n + 1, t)
  <2>1. ~Opens(lines[n]) /\ lines[n].op # "endif"
    BY DEF Divides, Opens
  <2>2. \A i \in 1 .. Len(s) : t[i].ifLoc = s[i].ifLoc
    BY <1>0
  <2>3. Entries(lines, n, t)
    <3>1. Entries(lines, n, s) /\ Len(t) = Len(s)
      BY DEF AgreeAt
    <3>2. {t[i].ifLoc : i \in 1 .. Len(t)} = {s[i].ifLoc : i \in 1 .. Len(s)}
      BY <2>2
    <3> QED BY <2>2, <3>1, <3>2 DEF Entries
  <2> QED BY <2>1, <2>3, EntriesPlain
<1>2. trutht \subseteq 1 .. (n + 1) - 1
  BY DEF AgreeAt
<1>3. Enclosing(lines, n) # {} /\ Innermost(lines, n) = s[Len(s)].ifLoc
  BY <1>0, InnermostFacts DEF AgreeAt
<1>4. ASSUME NEW i \in 1 .. Len(s) - 1
      PROVE  EntryOK(lines, n + 1, t, rawt, trutht, i)
  <2>1. i \in 1 .. Len(s) /\ i + 1 \in 1 .. Len(s) /\ i < Len(s)
    BY <1>0
  <2>2. s[i].ifLoc \in 1 .. n - 1 /\ EntryOK(lines, n, s, raw, truth, i)
    BY <2>1 DEF AgreeAt, Entries
  <2>3. s[i].ifLoc # s[Len(s)].ifLoc
    BY <1>0, <2>1 DEF AgreeAt, Entries
  <2>4. Groups(lines, s[i].ifLoc, n + 1) = Groups(lines, s[i].ifLoc, n)
    BY <1>3, <2>2, <2>3, GroupsSame
  <2>5. t[i + 1].wasSkipping = s[i + 1].wasSkipping
    BY <1>0, <2>1
  <2>6. IsRead(t, rawt, i) <=> IsRead(s, raw, i)
    <3>1. CASE ~raw
      <4>1. ~s[i + 1].wasSkipping
        BY <2>1, <3>1 DEF Shape
      <4> QED BY <2>1, <2>5, <3>1, <4>1 DEF IsRead
    <3>2. CASE raw /\ ~b
      BY <2>1, <2>5, <3>2 DEF IsRead
    <3>3. CASE raw /\ b
      <4>1. PICK k \in 1 .. Len(s) : \A j \in 1 .. Len(s) : s[j].wasSkipping <=> j > k
        BY <3>3 DEF Shape
      <4>2. ~s[i + 1].wasSkipping
        BY <1>0, <2>1, <3>3, <4>1
      <4> QED BY <2>1, <2>5, <3>3, <4>2 DEF IsRead
    <3> QED BY <3>1, <3>2, <3>3
  <2>7. n \in Nat \ {0} /\ t[i] = s[i] /\ i \in 1 .. Len(t)
    BY <2>1
  <2> QED BY <2>1, <2>2, <2>4, <2>6, <2>7, EntryStays
<1>5. EntryOK(lines, n + 1, t, rawt, trutht, Len(s))
  <2> DEFINE o == s[Len(s)].ifLoc
  <2>1. Len(s) \in 1 .. Len(s)
    BY <1>0
  <2>2. o \in 1 .. n - 1 /\ EntryOK(lines, n, s, raw, truth, Len(s))
    BY <2>1 DEF AgreeAt, Entries
  <2>3. Groups(lines, o, n + 1) = Groups(lines, o, n) \cup {n}
    BY <1>3, <2>2, GroupsGrow
  <2>4. /\ IsLast(Groups(lines, o, n + 1), n)
        /\ HasTrue(lines, trutht, o, n + 1) <=>
              HasTrue(lines, truth, o, n) \/ Holds(lines, trutht, n)
        /\ Selected(lines, trutht, o, n + 1) <=>
              ~HasTrue(lines, truth, o, n) /\ Holds(lines, trutht, n)
    <3>1. n \in Nat
      OBVIOUS
    <3> HIDE DEF o
    <3> QED BY <2>2, <2>3, <3>1, NextGroup
  <2>5. IsRead(t, rawt, Len(s)) <=> b
    <3>1. ~(Len(s) < Len(t))
      BY <1>0
    <3> QED BY <3>1 DEF IsRead
  <2>6. ~s[Len(s)].wasSkipping => (s[Len(s)].foundNonSkip <=> HasTrue(lines, truth, o, n))
    BY <2>2 DEF EntryOK
  <2>7. t[Len(s)].foundNonSkip \in BOOLEAN /\ s[Len(s)].foundNonSkip \in BOOLEAN
    <3>1. t[Len(s)] \in PPConditionalInfo /\ s[Len(s)] \in PPConditionalInfo
      BY <2>1
    <3> QED BY <3>1 DEF PPConditionalInfo
  <2> QED BY <2>4, <2>5, <2>6, <2>7 DEF EntryOK, IsLast
<1>6. \A i \in 1 .. Len(t) : i \in 1 .. Len(s) - 1 \/ i = Len(s)
  BY <1>0
<1> QED BY <1>1, <1>2, <1>4, <1>5, <1>6 DEF AgreeAt

(* Agreement is what the property asks for.                                 *)
LEMMA AgreeIsLive ==
  ASSUME NEW lines, NEW n \in Nat, NEW s \in Seq(PPConditionalInfo),
         NEW raw \in BOOLEAN, NEW truth, AgreeAt(lines, n, s, raw, truth), Shape(s, raw)
  PROVE  raw <=> ~Live(lines, truth, n)
<1>1. Enclosing(lines, n) = {s[i].ifLoc : i \in 1 .. Len(s)}
  BY DEF AgreeAt, Entries
<1>2. \A i \in 1 .. Len(s) : ~s[i].wasSkipping =>
        (Selected(lines, truth, s[i].ifLoc, n) <=> IsRead(s, raw, i))
  BY DEF AgreeAt, EntryOK
<1>3. CASE raw
  <2>1. PICK k \in 1 .. Len(s) : \A i \in 1 .. Len(s) : s[i].wasSkipping <=> i > k
    BY <1>3 DEF Shape
  <2>2. ~s[k].wasSkipping /\ (k < Len(s) => s[k + 1].wasSkipping)
    BY <2>1
  <2>3. ~Selected(lines, truth, s[k].ifLoc, n)
    BY <1>2, <1>3, <2>1, <2>2 DEF IsRead
  <2> QED BY <1>1, <1>3, <2>3 DEF Live
<1>4. CASE ~raw
  <2>1. \A i \in 1 .. Len(s) : Selected(lines, truth, s[i].ifLoc, n)
    BY <1>2, <1>4 DEF Shape, IsRead
  <2> QED BY <1>1, <1>4, <2>1 DEF Live
<1> QED BY <1>3, <1>4

-----------------------------------------------------------------------------
(* What a lexer's MIOpt knows of the text it has read.                      *)
Fresh == [readAnyTokens |-> FALSE, didMacroExpansion |-> FALSE, theMacro |-> None]

(* Lines 1 to n - 1 are an include guard's section, still open.             *)
Guarded(lines, n) ==
  /\ n >= 2 /\ Groups(lines, 1, n) = {1}
  /\ \A k \in 2 .. n : 1 \in Enclosing(lines, k)

(* theMacro is set only if the file is a guarded section so far, or was one *)
(* with something behind it that does not open a section.                   *)
GuardOK(lines, n, truth, opt) ==
  /\ opt.theMacro = None => n = 1 \/ opt.readAnyTokens
  /\ opt.theMacro # None =>
       /\ GuardOf(lines[1]) = opt.theMacro
       /\ \/ Guarded(lines, n) /\ 1 \in truth /\ opt.readAnyTokens
          \/ Enclosing(lines, n) = {} /\ opt.readAnyTokens
          \/ /\ Enclosing(lines, n) = {} /\ ~opt.readAnyTokens
             /\ n >= 3 /\ lines[n - 1].op = "endif"
             /\ Guarded(lines, n - 1) /\ Enclosing(lines, n - 1) = {1}

(* And in a guarded file it is set.                                         *)
Recognised(lines, n, truth, opt) ==
  GuardMacro(lines) # None /\ n >= 2 /\ 1 \in truth =>
    /\ opt.theMacro = GuardMacro(lines)
    /\ n = Len(lines) + 1 => ~opt.readAnyTokens

NoNameless(lines) == \A n \in 1 .. Len(lines) : lines[n].op # "ifdef_noname"

MIOptOK(lines, n, truth, opt) ==
  /\ n = 1 => opt = Fresh
  /\ Recognised(lines, n, truth, opt)
  /\ NoNameless(lines) => GuardOK(lines, n, truth, opt)

(* What a line does to MIOpt.                                               *)
Keeps(o, p) == p.theMacro = o.theMacro /\ p.readAnyTokens
Drops(p) == p.theMacro = None /\ p.readAnyTokens

LEMMA GuardMacroFacts ==
  ASSUME NEW lines, Len(lines) \in Nat, GuardMacro(lines) # None
  PROVE  /\ Len(lines) >= 2 /\ Guarded(lines, Len(lines))
         /\ Enclosing(lines, Len(lines)) = {1} /\ lines[Len(lines)].op = "endif"
         /\ GuardMacro(lines) = GuardOf(lines[1])
         /\ \A n \in 2 .. Len(lines) : Guarded(lines, n)
<1>1. /\ Len(lines) >= 2
      /\ Enclosing(lines, Len(lines)) = {1} /\ lines[Len(lines)].op = "endif"
      /\ \A n \in 2 .. Len(lines) : 1 \in Enclosing(lines, n)
      /\ Groups(lines, 1, Len(lines)) = {1}
      /\ GuardMacro(lines) = GuardOf(lines[1])
  BY Zenon DEF GuardMacro
<1>2. ASSUME NEW n \in 2 .. Len(lines) PROVE Guarded(lines, n)
  <2>1. Groups(lines, 1, n) \subseteq Groups(lines, 1, Len(lines)) /\ 1 \in Groups(lines, 1, n)
    BY DEF Groups
  <2>2. \A k \in 2 .. n : 1 \in Enclosing(lines, k)
    BY <1>1
  <2> QED BY <1>1, <2>1, <2>2 DEF Guarded
<1>3. Len(lines) \in 2 .. Len(lines)
  BY <1>1
<1> QED BY <1>1, <1>2, <1>3

(* The first entry of the stack is the guard's, and its group is read.      *)
LEMMA GuardEntry ==
  ASSUME NEW lines, NEW n \in Nat, NEW s \in Seq(PPConditionalInfo),
         NEW raw \in BOOLEAN, NEW truth,
         AgreeAt(lines, n, s, raw, truth), Shape(s, raw), Guarded(lines, n)
  PROVE  /\ Len(s) \in Nat \ {0} /\ s[1].ifLoc = 1
         /\ Len(s) = 1 <=> Enclosing(lines, n) = {1}
         /\ Len(s) = 1 <=> Innermost(lines, n) = 1
         /\ Len(s) = 1 /\ 1 \in truth => ~raw
<1>1. 1 \in Enclosing(lines, n)
  BY DEF Guarded
<1>2. Entries(lines, n, s)
  BY DEF AgreeAt
<1>3. PICK i \in 1 .. Len(s) : s[i].ifLoc = 1
  BY <1>1, <1>2 DEF Entries
<1>4. Len(s) \in Nat \ {0} /\ 1 \in 1 .. Len(s)
  BY <1>3
<1>5. i = 1
  BY <1>2, <1>3, <1>4 DEF Entries
<1>6. Innermost(lines, n) = s[Len(s)].ifLoc
  BY <1>2, <1>4, InnermostFacts
<1>7. ASSUME Len(s) # 1 PROVE s[Len(s)].ifLoc # 1
  <2>1. 1 \in 1 .. Len(s) /\ Len(s) \in 1 .. Len(s) /\ 1 < Len(s)
    <3>1. \A l \in Nat \ {0} : l # 1 => 1 \in 1 .. l /\ l \in 1 .. l /\ 1 < l
      OBVIOUS
    <3> QED BY <1>4, <1>7, <3>1
  <2>2. s[1].ifLoc < s[Len(s)].ifLoc /\ s[Len(s)].ifLoc \in Int
    BY <1>2, <2>1 DEF Entries
  <2> QED BY <1>3, <1>5, <2>2
<1>8. Len(s) = 1 <=> Enclosing(lines, n) = {1}
  <2>1. Enclosing(lines, n) = {s[j].ifLoc : j \in 1 .. Len(s)}
    BY <1>2 DEF Entries
  <2>2. Len(s) = 1 => 1 .. Len(s) = {1}
    OBVIOUS
  <2>3. Len(s) \in 1 .. Len(s)
    BY <1>4
  <2> QED BY <1>3, <1>5, <1>7, <2>1, <2>2, <2>3
<1>9. ASSUME Len(s) = 1, 1 \in truth PROVE ~raw
  <2>1. CASE raw
    <3>1. ~s[1].wasSkipping
      <4>1. PICK k \in 1 .. Len(s) : \A j \in 1 .. Len(s) : s[j].wasSkipping <=> j > k
        BY <2>1 DEF Shape
      <4> QED BY <1>4, <1>9, <4>1
    <3>2. Selected(lines, truth, 1, n) <=> IsRead(s, raw, 1)
      BY <1>3, <1>4, <1>5, <3>1 DEF AgreeAt, EntryOK
    <3>3. ~IsRead(s, raw, 1)
      BY <1>9, <2>1 DEF IsRead
    <3>4. IsLast(Groups(lines, 1, n), 1) /\ 1 \in 1 .. n - 1
      BY DEF Guarded, IsLast
    <3>5. Selected(lines, truth, 1, n)
      <4>1. Groups(lines, 1, n) \ {1} = {} /\ Holds(lines, truth, 1)
        BY <1>9 DEF Guarded, Holds
      <4> QED BY <3>4, <4>1, SelectedByLast
    <3> QED BY <3>2, <3>3, <3>5
  <2> QED BY <2>1
<1> QED BY <1>3, <1>4, <1>5, <1>6, <1>7, <1>8, <1>9

(* A line within the section leaves it so.                                  *)
LEMMA GuardedNext ==
  ASSUME NEW lines, NEW n \in Nat, Guarded(lines, n), 1 \in Enclosing(lines, n + 1),
         ~Divides(lines[n]) \/ Innermost(lines, n) # 1
  PROVE  Guarded(lines, n + 1)
<1>1. 1 \in 1 .. n - 1 /\ n + 1 >= 2
  BY DEF Guarded
<1>2. Groups(lines, 1, n + 1) = Groups(lines, 1, n)
  BY <1>1, GroupsSame
<1>3. \A k \in 2 .. n + 1 : k \in 2 .. n \/ k = n + 1
  OBVIOUS
<1> QED BY <1>1, <1>2, <1>3 DEF Guarded

LEMMA GuardStays ==
  ASSUME NEW lines, NEW n \in Nat \ {0}, NEW truth, NEW t, truth \subseteq t,
         NEW o, NEW p, GuardOK(lines, n, truth, o), Keeps(o, p),
         Guarded(lines, n) /\ 1 \in truth => Guarded(lines, n + 1),
         o.theMacro # None /\ Enclosing(lines, n) = {} => Enclosing(lines, n + 1) = {}
  PROVE  GuardOK(lines, n + 1, t, p)
  BY DEF GuardOK, Keeps

LEMMA GuardDropped ==
  ASSUME NEW lines, NEW n, NEW t, NEW p, Drops(p)
  PROVE  GuardOK(lines, n, t, p)
  BY DEF GuardOK, Drops

(* Before the last line of a guarded file, and after its first one.         *)
LEMMA RecognisedStays ==
  ASSUME NEW lines, Len(lines) \in Nat, NEW n \in 1 .. Len(lines), n # 1,
         NEW truth, NEW t, t \subseteq truth \cup {n},
         NEW o, NEW p, Recognised(lines, n, truth, o), Keeps(o, p),
         n # Len(lines) \/ GuardMacro(lines) = None
  PROVE  Recognised(lines, n + 1, t, p)
  BY DEF Recognised, Keeps

(* A line that leaves the stack alone.                                      *)
LEMMA MIOptPlain ==
  ASSUME NEW lines, Len(lines) \in Nat, NEW n \in 1 .. Len(lines),
         NEW s \in Seq(PPConditionalInfo), NEW raw \in BOOLEAN, NEW truth,
         AgreeAt(lines, n, s, raw, truth), Shape(s, raw), ~Opens(lines[n]),
         lines[n].op \in {"endif", "else", "elif"} => Len(s) = 0,
         NEW o, NEW p, MIOptOK(lines, n, truth, o), Keeps(o, p)
  PROVE  MIOptOK(lines, n + 1, truth, p)
<1>1. Enclosing(lines, n + 1) = Enclosing(lines, n) /\ Entries(lines, n, s)
  BY EntriesPlain DEF AgreeAt
<1>2. n \in Nat \ {0} /\ n + 1 # 1
  OBVIOUS
<1>3. Recognised(lines, n + 1, truth, p)
  <2>1. ASSUME GuardMacro(lines) # None PROVE n # 1 /\ n # Len(lines)
    <3>1. n # 1
      <4>1. 2 \in 2 .. Len(lines)
        BY <2>1, GuardMacroFacts
      <4>2. 1 \in Enclosing(lines, 2)
        BY <2>1, <4>1, GuardMacroFacts DEF Guarded
      <4> QED BY <4>2 DEF Enclosing
    <3>2. ASSUME n = Len(lines) PROVE FALSE
      <4>1. Enclosing(lines, n) = {1} /\ lines[n].op = "endif"
        BY <2>1, <3>2, GuardMacroFacts
      <4> QED BY <1>1, <1>2, <4>1, InnermostFacts
    <3> QED BY <3>1, <3>2
  <2> QED BY <2>1, RecognisedStays DEF MIOptOK, Recognised
<1>4. ASSUME NoNameless(lines) PROVE GuardOK(lines, n + 1, truth, p)
  <2>1. ASSUME Guarded(lines, n) PROVE Guarded(lines, n + 1)
    <3>1. 1 \in Enclosing(lines, n)
      BY <2>1 DEF Guarded
    <3>2. Len(s) # 0
      BY <1>1, <1>2, <3>1, InnermostFacts
    <3>3. ~Divides(lines[n])
      BY <3>2 DEF Divides
    <3> QED BY <1>1, <1>2, <2>1, <3>1, <3>3, GuardedNext
  <2>2. GuardOK(lines, n, truth, o)
    BY <1>4 DEF MIOptOK
  <2> QED BY <1>1, <1>2, <2>1, <2>2, GuardStays
<1> QED BY <1>2, <1>3, <1>4 DEF MIOptOK

(* What line n does to MIOpt when it opens a section at that depth.         *)
Opened(lines, n, depth, truth, o, p) ==
  /\ depth # 0 => Keeps(o, p)
  /\ depth = 0 /\ lines[n].op # "ifdef_noname" =>
       \/ Drops(p)
       \/ /\ o.theMacro = None /\ ~o.readAnyTokens /\ n \in truth
          /\ p.theMacro = GuardOf(lines[n]) /\ p.theMacro # None /\ p.readAnyTokens
  /\ o = Fresh /\ depth = 0 /\ n \in truth => GuardOf(lines[n]) \in {None, p.theMacro}

(* A line that opens a section.                                             *)
LEMMA MIOptOpen ==
  ASSUME NEW lines, Len(lines) \in Nat, NEW n \in 1 .. Len(lines),
         NEW s \in Seq(PPConditionalInfo), NEW raw \in BOOLEAN, NEW truth,
         AgreeAt(lines, n, s, raw, truth), Shape(s, raw), Opens(lines[n]),
         NEW t \in Seq(PPConditionalInfo), Len(t) = Len(s) + 1,
         \A i \in 1 .. Len(s) : t[i] = s[i], t[Len(s) + 1].ifLoc = n,
         NEW trutht,
         truth \subseteq trutht, trutht \subseteq truth \cup {n},
         NEW o, NEW p, MIOptOK(lines, n, truth, o),
         Opened(lines, n, Len(s), trutht, o, p)
  PROVE  MIOptOK(lines, n + 1, trutht, p)
<1>1. Enclosing(lines, n + 1) = Enclosing(lines, n) \cup {n} /\ Entries(lines, n, s)
  <2>1. \A i \in 1 .. Len(s) : t[i].ifLoc = s[i].ifLoc
    OBVIOUS
  <2> QED BY <2>1, EntriesOpen DEF AgreeAt
<1>2. n \in Nat \ {0} /\ n + 1 # 1 /\ Len(s) \in Nat
  OBVIOUS
<1>3. /\ Enclosing(lines, n) = {} <=> Len(s) = 0
      /\ n = 1 => Len(s) = 0
  <2>1. Enclosing(lines, n) = {} <=> Len(s) = 0
    BY <1>1, <1>2, InnermostFacts
  <2>2. n = 1 => Enclosing(lines, n) = {}
    BY DEF Enclosing
  <2> QED BY <2>1, <2>2
<1>4. trutht \subseteq truth \cup {n} /\ truth \subseteq trutht
  OBVIOUS
<1>5. Recognised(lines, n + 1, trutht, p)
  <2> SUFFICES ASSUME GuardMacro(lines) # None, 1 \in trutht
               PROVE  p.theMacro = GuardMacro(lines) /\ n + 1 # Len(lines) + 1
    BY DEF Recognised
  <2>1. n # Len(lines)
    BY GuardMacroFacts DEF Opens
  <2>2. CASE n = 1
    <3>1. n \in trutht
      BY <2>2
    <3>2. GuardMacro(lines) = GuardOf(lines[n]) /\ o = Fresh
      BY <2>2, GuardMacroFacts DEF MIOptOK
    <3>3. GuardOf(lines[n]) # None /\ Len(s) = 0
      BY <1>3, <2>2, <3>2
    <3>4. p.theMacro = GuardOf(lines[n])
      BY <3>1, <3>2, <3>3 DEF Opened
    <3>5. n + 1 # Len(lines) + 1
      BY <2>1
    <3> QED BY <3>2, <3>4, <3>5
  <2>3. CASE n # 1
    <3>1. n \in 2 .. Len(lines)
      BY <2>3
    <3>2. 1 \in Enclosing(lines, n)
      BY <3>1, GuardMacroFacts DEF Guarded
    <3>3. Keeps(o, p) /\ 1 \in truth
      BY <1>3, <1>4, <2>3, <3>2 DEF Opened
    <3> QED BY <2>1, <3>1, <3>3 DEF MIOptOK, Recognised, Keeps
  <2> QED BY <2>2, <2>3
<1>6. ASSUME NoNameless(lines) PROVE GuardOK(lines, n + 1, trutht, p)
  <2>1. GuardOK(lines, n, truth, o) /\ lines[n].op # "ifdef_noname"
    BY <1>6 DEF MIOptOK, NoNameless
  <2>2. CASE Len(s) # 0
    <3>1. ASSUME Guarded(lines, n) PROVE Guarded(lines, n + 1)
      <4>1. 1 \in Enclosing(lines, n + 1) /\ ~Divides(lines[n])
        BY <1>1, <3>1 DEF Guarded, Divides, Opens
      <4> QED BY <1>2, <3>1, <4>1, GuardedNext
    <3>2. Keeps(o, p)
      BY <2>2 DEF Opened
    <3> QED BY <1>2, <1>3, <1>4, <2>1, <2>2, <3>1, <3>2, GuardStays
  <2>3. CASE Len(s) = 0 /\ Drops(p)
    BY <2>3, GuardDropped
  <2>4. CASE Len(s) = 0 /\ ~Drops(p)
    <3>1. /\ o.theMacro = None /\ ~o.readAnyTokens /\ n \in trutht
          /\ p.theMacro = GuardOf(lines[n]) /\ p.theMacro # None /\ p.readAnyTokens
      BY <2>1, <2>4 DEF Opened
    <3>2. n = 1
      BY <2>1, <3>1 DEF GuardOK
    <3>3. Guarded(lines, 2)
      <4>1. \A k \in 2 .. 2 : 1 \in Enclosing(lines, k)
        BY <1>1, <3>2
      <4>2. Groups(lines, 1, 2) = {1}
        <5>1. 1 + 1 = 2 /\ 1 \in Nat
          OBVIOUS
        <5> QED BY <5>1, GroupsStart
      <4> QED BY <4>1, <4>2 DEF Guarded
    <3>4. 1 \in trutht /\ n + 1 = 2
      BY <3>1, <3>2
    <3> QED BY <3>1, <3>2, <3>3, <3>4 DEF GuardOK
  <2> QED BY <2>2, <2>3, <2>4
<1> QED BY <1>2, <1>5, <1>6 DEF MIOptOK

(* An #endif.                                                               *)
LEMMA MIOptClose ==
  ASSUME NEW lines, Len(lines) \in Nat, NEW n \in 1 .. Len(lines),
         NEW s \in Seq(PPConditionalInfo), NEW raw \in BOOLEAN, NEW truth,
         AgreeAt(lines, n, s, raw, truth), Shape(s, raw),
         lines[n].op = "endif", Len(s) # 0,
         NEW t \in Seq(PPConditionalInfo), Len(t) = Len(s) - 1,
         \A i \in 1 .. Len(t) : t[i] = s[i],
         NEW o, NEW p, MIOptOK(lines, n, truth, o),
         raw \/ Len(s) # 1 => Keeps(o, p),
         ~raw /\ Len(s) = 1 /\ o.theMacro = None => Drops(p),
         ~raw /\ Len(s) = 1 /\ o.theMacro # None =>
           p.theMacro = o.theMacro /\ ~p.readAnyTokens
  PROVE  MIOptOK(lines, n + 1, truth, p)
<1>1. Entries(lines, n, s)
  BY DEF AgreeAt
<1>2. Enclosing(lines, n + 1) = Enclosing(lines, n) \ {s[Len(s)].ifLoc}
  <2>1. \A i \in 1 .. Len(t) : t[i].ifLoc = s[i].ifLoc
    OBVIOUS
  <2> QED BY <1>1, <2>1, EntriesClose
<1>3. n \in Nat \ {0} /\ n + 1 # 1 /\ Len(s) \in Nat \ {0} /\ n \in Nat
  OBVIOUS
<1>4. Enclosing(lines, n) # {} /\ Innermost(lines, n) = s[Len(s)].ifLoc
  BY <1>1, <1>3, InnermostFacts
<1>5. n # 1
  BY <1>4 DEF Enclosing
<1>6. Recognised(lines, n + 1, truth, p)
  <2> SUFFICES ASSUME GuardMacro(lines) # None, 1 \in truth
               PROVE  /\ p.theMacro = GuardMacro(lines)
                      /\ n + 1 = Len(lines) + 1 => ~p.readAnyTokens
    BY DEF Recognised
  <2>1. n \in 2 .. Len(lines) /\ n >= 2
    BY <1>5
  <2>2. o.theMacro = GuardMacro(lines) /\ Guarded(lines, n)
    BY <2>1, GuardMacroFacts DEF MIOptOK, Recognised
  <2>3. CASE n = Len(lines)
    <3>1. Enclosing(lines, n) = {1}
      BY <2>3, GuardMacroFacts
    <3>2. Len(s) = 1 /\ ~raw
      BY <1>3, <2>2, <3>1, GuardEntry
    <3> QED BY <2>2, <3>2
  <2>4. CASE n # Len(lines)
    <3>1. n + 1 \in 2 .. Len(lines) /\ n + 1 \in 2 .. n + 1
      BY <2>1, <2>4
    <3>2. 1 \in Enclosing(lines, n + 1)
      BY <3>1, GuardMacroFacts DEF Guarded
    <3>3. Len(s) # 1
      BY <1>2, <1>3, <1>4, <2>2, <3>2, GuardEntry
    <3> QED BY <2>2, <2>4, <3>3 DEF Keeps
  <2> QED BY <2>3, <2>4
<1>7. ASSUME NoNameless(lines) PROVE GuardOK(lines, n + 1, truth, p)
  <2>1. GuardOK(lines, n, truth, o)
    BY <1>7 DEF MIOptOK
  <2>2. CASE raw \/ Len(s) # 1
    <3>1. ASSUME Guarded(lines, n), 1 \in truth PROVE Guarded(lines, n + 1)
      <4>1. Len(s) # 1
        BY <1>3, <2>2, <3>1, GuardEntry
      <4>2. s[Len(s)].ifLoc # 1
        BY <1>3, <1>4, <3>1, <4>1, GuardEntry
      <4>3. 1 \in Enclosing(lines, n + 1) /\ ~Divides(lines[n])
        BY <1>2, <3>1, <4>2 DEF Guarded, Divides
      <4> QED BY <1>3, <3>1, <4>3, GuardedNext
    <3>2. truth \subseteq truth
      OBVIOUS
    <3> QED BY <1>3, <1>4, <2>1, <2>2, <3>1, <3>2, GuardStays
  <2>3. CASE ~raw /\ Len(s) = 1 /\ o.theMacro = None
    BY <2>3, GuardDropped
  <2>4. CASE ~raw /\ Len(s) = 1 /\ o.theMacro # None
    <3>1. GuardOf(lines[1]) = o.theMacro /\ Guarded(lines, n)
      BY <1>4, <2>1, <2>4 DEF GuardOK
    <3>2. Enclosing(lines, n) = {1}
      BY <1>3, <2>4, <3>1, GuardEntry
    <3>3. Innermost(lines, n) = 1
      BY <1>3, <2>4, <3>1, GuardEntry
    <3>4. Enclosing(lines, n + 1) = {} /\ n + 1 >= 3 /\ (n + 1) - 1 = n
      BY <1>2, <1>4, <1>5, <3>2, <3>3
    <3> QED BY <2>4, <3>1, <3>2, <3>4 DEF GuardOK
  <2> QED BY <2>2, <2>3, <2>4
<1> QED BY <1>3, <1>6, <1>7 DEF MIOptOK

(* An #else or #elif.                                                       *)
LEMMA MIOptDivide ==
  ASSUME NEW lines, Len(lines) \in Nat, NEW n \in 1 .. Len(lines),
         NEW s \in Seq(PPConditionalInfo), NEW raw \in BOOLEAN, NEW truth,
         AgreeAt(lines, n, s, raw, truth), Shape(s, raw),
         Divides(lines[n]), Len(s) # 0,
         NEW trutht, truth \subseteq trutht, trutht \subseteq truth \cup {n},
         NEW o, NEW p, MIOptOK(lines, n, truth, o),
         raw \/ Len(s) # 1 => Keeps(o, p),
         ~raw /\ Len(s) = 1 => Drops(p)
  PROVE  MIOptOK(lines, n + 1, trutht, p)
<1>1. Entries(lines, n, s)
  BY DEF AgreeAt
<1>2. Enclosing(lines, n + 1) = Enclosing(lines, n)
  <2>1. ~Opens(lines[n]) /\ lines[n].op # "endif"
    BY DEF Divides, Opens
  <2> QED BY <1>1, <2>1, EntriesPlain
<1>3. n \in Nat \ {0} /\ n + 1 # 1 /\ Len(s) \in Nat \ {0} /\ n \in Nat
  OBVIOUS
<1>4. Enclosing(lines, n) # {} /\ Innermost(lines, n) = s[Len(s)].ifLoc
  BY <1>1, <1>3, InnermostFacts
<1>5. n # 1
  BY <1>4 DEF Enclosing
<1>6. Recognised(lines, n + 1, trutht, p)
  <2> SUFFICES ASSUME GuardMacro(lines) # None, 1 \in trutht
               PROVE  p.theMacro = GuardMacro(lines) /\ n + 1 # Len(lines) + 1
    BY DEF Recognised
  <2>1. n \in 2 .. Len(lines) /\ n >= 2 /\ 1 \in truth
    BY <1>5
  <2>2. o.theMacro = GuardMacro(lines) /\ Guarded(lines, n)
    BY <2>1, GuardMacroFacts DEF MIOptOK, Recognised
  <2>3. n # Len(lines)
    BY GuardMacroFacts DEF Divides
  <2>4. Len(s) # 1
    <3>1. ASSUME Innermost(lines, n) = 1 PROVE FALSE
      <4>1. Groups(lines, 1, n + 1) = Groups(lines, 1, n) \cup {n}
        <5>1. 1 \in 1 .. n - 1
          BY <2>1
        <5> QED BY <1>3, <1>4, <3>1, <5>1, GroupsGrow
      <4>2. n + 1 \in 2 .. Len(lines)
        BY <2>1, <2>3
      <4>3. Groups(lines, 1, n + 1) = {1}
        BY <4>2, GuardMacroFacts DEF Guarded
      <4> QED BY <1>5, <4>1, <4>3
    <3> QED BY <1>3, <2>2, <3>1, GuardEntry
  <2> QED BY <1>3, <2>2, <2>3, <2>4 DEF Keeps
<1>7. ASSUME NoNameless(lines) PROVE GuardOK(lines, n + 1, trutht, p)
  <2>1. GuardOK(lines, n, truth, o)
    BY <1>7 DEF MIOptOK
  <2>2. CASE raw \/ Len(s) # 1
    <3>1. ASSUME Guarded(lines, n), 1 \in truth PROVE Guarded(lines, n + 1)
      <4>1. Len(s) # 1
        BY <1>3, <2>2, <3>1, GuardEntry
      <4>2. Innermost(lines, n) # 1
        BY <1>3, <3>1, <4>1, GuardEntry
      <4>3. 1 \in Enclosing(lines, n + 1)
        BY <1>2, <3>1 DEF Guarded
      <4> QED BY <1>3, <3>1, <4>2, <4>3, GuardedNext
    <3> QED BY <1>3, <1>4, <2>1, <2>2, <3>1, GuardStays
  <2>3. CASE ~raw /\ Len(s) = 1
    BY <2>3, GuardDropped
  <2> QED BY <2>2, <2>3
<1> QED BY <1>3, <1>6, <1>7 DEF MIOptOK

-----------------------------------------------------------------------------
(* What a lexer knows is right for the text of its file.                    *)
LineOK(lex, lines) ==
  /\ lex.pos \in 1 .. Len(lines) + 1
  /\ lex.pos <= Len(lines) =>
       AgreeAt(lines, lex.pos, lex.conditionalStack, lex.lexingRawMode, lex.truth)
  /\ MIOptOK(lines, lex.pos, lex.truth, lex.MIOpt)

SkipIsShape(lex) == SkipShape(lex) <=> Shape(lex.conditionalStack, lex.lexingRawMode)

LEMMA SkipShapeIsShape == ASSUME NEW lex PROVE SkipIsShape(lex)
  BY Zenon DEF SkipIsShape, SkipShape, Shape

(* The lexer l stands one line behind lex, which is not at the end.         *)
Follows(lex, l, lines) ==
  /\ lex \in Lexer /\ SkipShape(lex) /\ LineOK(lex, lines)
  /\ lex.pos <= Len(lines)
  /\ l \in Lexer /\ l.pos = lex.pos + 1

LEMMA FollowsFacts ==
  ASSUME NEW lines, Len(lines) \in Nat, NEW lex, NEW l, Follows(lex, l, lines)
  PROVE  /\ lex.pos \in 1 .. Len(lines) /\ lex.pos + 1 \in 1 .. Len(lines) + 1
         /\ lex.conditionalStack \in Seq(PPConditionalInfo)
         /\ lex.lexingRawMode \in BOOLEAN
         /\ AgreeAt(lines, lex.pos, lex.conditionalStack, lex.lexingRawMode, lex.truth)
         /\ Shape(lex.conditionalStack, lex.lexingRawMode)
         /\ MIOptOK(lines, lex.pos, lex.truth, lex.MIOpt)
         /\ l.conditionalStack \in Seq(PPConditionalInfo) /\ l.lexingRawMode \in BOOLEAN
<1>1. lex.pos \in 1 .. Len(lines) /\ lex.pos + 1 \in 1 .. Len(lines) + 1
  BY DEF Follows, Lexer
<1>2. Shape(lex.conditionalStack, lex.lexingRawMode)
  BY SkipShapeIsShape DEF Follows, SkipIsShape
<1>3. /\ lex.conditionalStack \in Seq(PPConditionalInfo)
      /\ lex.lexingRawMode \in BOOLEAN
      /\ l.conditionalStack \in Seq(PPConditionalInfo) /\ l.lexingRawMode \in BOOLEAN
  BY DEF Follows, Lexer
<1> QED BY <1>1, <1>2, <1>3 DEF Follows, LineOK

LEMMA PlainLine ==
  ASSUME NEW lines, Len(lines) \in Nat, NEW lex, NEW l, Follows(lex, l, lines),
         ~Opens(lines[lex.pos]),
         lines[lex.pos].op \in {"endif", "else", "elif"} => Len(lex.conditionalStack) = 0,
         Same(lex, l), l.truth = lex.truth, Keeps(lex.MIOpt, l.MIOpt)
  PROVE  LineOK(l, lines)
<1>1. AgreeAt(lines, lex.pos + 1, l.conditionalStack, l.lexingRawMode, l.truth)
  BY FollowsFacts, AgreePlain DEF Same
<1>2. MIOptOK(lines, lex.pos + 1, l.truth, l.MIOpt)
  BY FollowsFacts, MIOptPlain
<1>3. l.pos = lex.pos + 1
  BY DEF Follows
<1> QED BY <1>1, <1>2, <1>3, FollowsFacts DEF LineOK

(* l has one entry more than lex, for the line before it.                   *)
Pushed(lex, l) ==
  LET s == lex.conditionalStack
      t == l.conditionalStack
  IN /\ Len(t) = Len(s) + 1
     /\ \A i \in 1 .. Len(s) : t[i] = s[i]
     /\ t[Len(s) + 1].ifLoc = lex.pos
     /\ t[Len(s) + 1].wasSkipping = lex.lexingRawMode

LEMMA OpenLine ==
  ASSUME NEW lines, Len(lines) \in Nat, NEW lex, NEW l, Follows(lex, l, lines),
         Opens(lines[lex.pos]), Pushed(lex, l), NEW b \in BOOLEAN,
         lex.pos \in l.truth <=> b,
         lex.truth \subseteq l.truth, l.truth \subseteq lex.truth \cup {lex.pos},
         l.conditionalStack[Len(lex.conditionalStack) + 1].foundNonSkip = b,
         l.lexingRawMode = ~b, lex.lexingRawMode => ~b,
         Opened(lines, lex.pos, Len(lex.conditionalStack), l.truth, lex.MIOpt, l.MIOpt)
  PROVE  LineOK(l, lines)
<1>0. PICK n, s, raw, truth, o, t, rawt, trutht, p :
        /\ n = lex.pos /\ s = lex.conditionalStack /\ raw = lex.lexingRawMode
        /\ truth = lex.truth /\ o = lex.MIOpt
        /\ t = l.conditionalStack /\ rawt = l.lexingRawMode
        /\ trutht = l.truth /\ p = l.MIOpt
  OBVIOUS
<1>1. /\ n \in 1 .. Len(lines) /\ s \in Seq(PPConditionalInfo) /\ raw \in BOOLEAN
      /\ AgreeAt(lines, n, s, raw, truth) /\ Shape(s, raw) /\ MIOptOK(lines, n, truth, o)
      /\ t \in Seq(PPConditionalInfo) /\ rawt \in BOOLEAN
  BY <1>0, FollowsFacts
<1>2. /\ Len(t) = Len(s) + 1 /\ \A i \in 1 .. Len(s) : t[i] = s[i]
      /\ t[Len(s) + 1].ifLoc = n /\ t[Len(s) + 1].wasSkipping = raw
      /\ (n \in trutht <=> b) /\ truth \subseteq trutht /\ trutht \subseteq truth \cup {n}
      /\ t[Len(s) + 1].foundNonSkip = b /\ (rawt <=> ~b) /\ (raw => ~b)
      /\ Opens(lines[n])
      /\ Opened(lines, n, Len(s), trutht, o, p)
  BY <1>0 DEF Pushed
<1>3. AgreeAt(lines, n + 1, t, rawt, trutht)
  BY <1>1, <1>2, AgreeOpen
<1>4. MIOptOK(lines, n + 1, trutht, p)
  BY <1>1, <1>2, MIOptOpen
<1>5. l.pos = lex.pos + 1
  BY DEF Follows
<1> QED BY <1>0, <1>3, <1>4, <1>5, FollowsFacts DEF LineOK

LEMMA CloseLine ==
  ASSUME NEW lines, Len(lines) \in Nat, NEW lex, NEW l, Follows(lex, l, lines),
         lines[lex.pos].op = "endif", Len(lex.conditionalStack) # 0,
         Len(l.conditionalStack) = Len(lex.conditionalStack) - 1,
         \A i \in 1 .. Len(lex.conditionalStack) - 1 : l.conditionalStack[i] = lex.conditionalStack[i],
         l.lexingRawMode <=> lex.lexingRawMode /\ lex.conditionalStack[Len(lex.conditionalStack)].wasSkipping,
         l.truth = lex.truth,
         lex.lexingRawMode \/ Len(lex.conditionalStack) # 1 => Keeps(lex.MIOpt, l.MIOpt),
         ~lex.lexingRawMode /\ Len(lex.conditionalStack) = 1 /\ lex.MIOpt.theMacro = None => Drops(l.MIOpt),
         ~lex.lexingRawMode /\ Len(lex.conditionalStack) = 1 /\ lex.MIOpt.theMacro # None =>
           l.MIOpt.theMacro = lex.MIOpt.theMacro /\ ~l.MIOpt.readAnyTokens
  PROVE  LineOK(l, lines)
<1>0. PICK n, s, raw, truth, o, t, rawt, trutht, p :
        /\ n = lex.pos /\ s = lex.conditionalStack /\ raw = lex.lexingRawMode
        /\ truth = lex.truth /\ o = lex.MIOpt
        /\ t = l.conditionalStack /\ rawt = l.lexingRawMode
        /\ trutht = l.truth /\ p = l.MIOpt
  OBVIOUS
<1>1. /\ n \in 1 .. Len(lines) /\ s \in Seq(PPConditionalInfo) /\ raw \in BOOLEAN
      /\ AgreeAt(lines, n, s, raw, truth) /\ Shape(s, raw) /\ MIOptOK(lines, n, truth, o)
      /\ t \in Seq(PPConditionalInfo) /\ rawt \in BOOLEAN
  BY <1>0, FollowsFacts
<1>2. /\ lines[n].op = "endif" /\ Len(s) # 0
      /\ Len(t) = Len(s) - 1 /\ \A i \in 1 .. Len(t) : t[i] = s[i]
      /\ rawt <=> raw /\ s[Len(s)].wasSkipping
      /\ trutht = truth
      /\ raw \/ Len(s) # 1 => Keeps(o, p)
      /\ ~raw /\ Len(s) = 1 /\ o.theMacro = None => Drops(p)
      /\ ~raw /\ Len(s) = 1 /\ o.theMacro # None =>
           p.theMacro = o.theMacro /\ ~p.readAnyTokens
  BY <1>0
<1>3. AgreeAt(lines, n + 1, t, rawt, trutht)
  BY <1>1, <1>2, AgreeClose
<1>4. MIOptOK(lines, n + 1, trutht, p)
  BY <1>1, <1>2, MIOptClose
<1>5. l.pos = lex.pos + 1
  BY DEF Follows
<1> QED BY <1>0, <1>3, <1>4, <1>5, FollowsFacts DEF LineOK

(* The top entry of l is that of lex for the next group, read if b.         *)
Regrouped(lex, l, b) ==
  LET s == lex.conditionalStack
      t == l.conditionalStack
      top == s[Len(s)]
  IN /\ Len(t) = Len(s) /\ \A i \in 1 .. Len(s) - 1 : t[i] = s[i]
     /\ t[Len(s)].ifLoc = top.ifLoc /\ t[Len(s)].wasSkipping = top.wasSkipping
     /\ t[Len(s)].foundNonSkip = (top.foundNonSkip \/ b)
     /\ l.lexingRawMode = ~b
     /\ b => lex.lexingRawMode /\ ~top.wasSkipping /\ ~top.foundNonSkip
     /\ ~lex.lexingRawMode => top.foundNonSkip

LEMMA DivideLine ==
  ASSUME NEW lines, Len(lines) \in Nat, NEW lex, NEW l, Follows(lex, l, lines),
         Divides(lines[lex.pos]), Len(lex.conditionalStack) # 0,
         NEW b \in BOOLEAN, Regrouped(lex, l, b),
         lex.truth \subseteq l.truth, l.truth \subseteq lex.truth \cup {lex.pos},
         LET top == Last(lex.conditionalStack)
         IN ~top.wasSkipping /\ ~top.foundNonSkip => (Holds(lines, l.truth, lex.pos) <=> b),
         lex.lexingRawMode \/ Len(lex.conditionalStack) # 1 => Keeps(lex.MIOpt, l.MIOpt),
         ~lex.lexingRawMode /\ Len(lex.conditionalStack) = 1 => Drops(l.MIOpt)
  PROVE  LineOK(l, lines)
<1>0. PICK n, s, raw, truth, o, t, rawt, trutht, p :
        /\ n = lex.pos /\ s = lex.conditionalStack /\ raw = lex.lexingRawMode
        /\ truth = lex.truth /\ o = lex.MIOpt
        /\ t = l.conditionalStack /\ rawt = l.lexingRawMode
        /\ trutht = l.truth /\ p = l.MIOpt
  OBVIOUS
<1>1. /\ n \in 1 .. Len(lines) /\ s \in Seq(PPConditionalInfo) /\ raw \in BOOLEAN
      /\ AgreeAt(lines, n, s, raw, truth) /\ Shape(s, raw) /\ MIOptOK(lines, n, truth, o)
      /\ t \in Seq(PPConditionalInfo) /\ rawt \in BOOLEAN
  BY <1>0, FollowsFacts
<1>2. /\ Divides(lines[n]) /\ Len(s) # 0
      /\ Len(t) = Len(s) /\ \A i \in 1 .. Len(s) - 1 : t[i] = s[i]
      /\ t[Len(s)].ifLoc = s[Len(s)].ifLoc
      /\ t[Len(s)].wasSkipping = s[Len(s)].wasSkipping
      /\ truth \subseteq trutht /\ trutht \subseteq truth \cup {n}
      /\ rawt = ~b
      /\ b => raw /\ ~s[Len(s)].wasSkipping /\ ~s[Len(s)].foundNonSkip
      /\ ~raw => s[Len(s)].foundNonSkip
      /\ t[Len(s)].foundNonSkip = (s[Len(s)].foundNonSkip \/ b)
      /\ ~s[Len(s)].wasSkipping /\ ~s[Len(s)].foundNonSkip => (Holds(lines, trutht, n) <=> b)
      /\ raw \/ Len(s) # 1 => Keeps(o, p)
      /\ ~raw /\ Len(s) = 1 => Drops(p)
  BY <1>0 DEF Regrouped, Last
<1>3. AgreeAt(lines, n + 1, t, rawt, trutht)
  BY <1>1, <1>2, AgreeDivide
<1>4. MIOptOK(lines, n + 1, trutht, p)
  BY <1>1, <1>2, MIOptDivide
<1>5. l.pos = lex.pos + 1
  BY DEF Follows
<1> QED BY <1>0, <1>3, <1>4, <1>5, FollowsFacts DEF LineOK

-----------------------------------------------------------------------------
(* The operations on a lexer, in these terms.                               *)
Rest(lex, l) == l.file = lex.file /\ l.pos = lex.pos

LEMMA AdvanceEffect ==
  ASSUME NEW lex \in Lexer
  PROVE  /\ Advance(lex).file = lex.file /\ Advance(lex).pos = lex.pos + 1
         /\ Advance(lex).truth = lex.truth /\ Keeps(lex.MIOpt, Advance(lex).MIOpt)
         /\ Advance(lex).MIOpt.didMacroExpansion = lex.MIOpt.didMacroExpansion
<1>1. PICK o : o = ReadToken(lex.MIOpt)
  OBVIOUS
<1>2. o.readAnyTokens = TRUE /\ o.theMacro = lex.MIOpt.theMacro
      /\ o.didMacroExpansion = lex.MIOpt.didMacroExpansion
  BY <1>1 DEF ReadToken, Lexer, MultipleIncludeOpt
<1>3. Advance(lex) = [lex EXCEPT !.pos = lex.pos + 1, !.MIOpt = o]
  BY <1>1 DEF Advance
<1>4. /\ Advance(lex).file = lex.file /\ Advance(lex).pos = lex.pos + 1
      /\ Advance(lex).truth = lex.truth /\ Advance(lex).MIOpt = o
  BY <1>3 DEF Lexer
<1> QED BY <1>2, <1>4 DEF Keeps

LEMMA PushEffect ==
  ASSUME NEW lex \in Lexer, NEW ci \in PPConditionalInfo,
         NEW l, l = [lex EXCEPT !.conditionalStack = Append(@, ci)]
  PROVE  Rest(lex, l) /\ l.truth = lex.truth /\ l.MIOpt = lex.MIOpt
  BY DEF Lexer, Rest

(* l is lex with an entry for the line at which the lexer stands; its group *)
(* is read if b.                                                            *)
Entered(lex, l, b) ==
  LET s == lex.conditionalStack
      t == l.conditionalStack
  IN /\ Rest(lex, l) /\ l.truth = lex.truth /\ l.MIOpt = lex.MIOpt
     /\ Len(t) = Len(s) + 1
     /\ \A i \in 1 .. Len(s) : t[i] = s[i]
     /\ t[Len(s) + 1].ifLoc = lexer.pos
     /\ t[Len(s) + 1].wasSkipping = FALSE
     /\ t[Len(s) + 1].foundNonSkip = b
     /\ l.lexingRawMode = ~b

LEMMA EnterGroupEffect ==
  ASSUME NEW lex \in Lexer, ~lex.lexingRawMode, NEW b \in BOOLEAN,
         lexer \in Lexer, NEW l, l = EnterGroup(lex, b)
  PROVE  Entered(lex, l, b)
<1>0. PICK s : s = lex.conditionalStack
  OBVIOUS
<1>1. PICK ci : ci = [ifLoc |-> lexer.pos, wasSkipping |-> FALSE,
                      foundNonSkip |-> b, foundElse |-> FALSE]
  OBVIOUS
<1>2. /\ ci \in PPConditionalInfo /\ ci.ifLoc = lexer.pos /\ ci.wasSkipping = FALSE
      /\ ci.foundNonSkip = b
  BY <1>1 DEF PPConditionalInfo, Lexer
<1>3. PICK p : p = [lex EXCEPT !.conditionalStack = Append(@, ci)]
  OBVIOUS
<1>4. /\ p \in Lexer
      /\ p.lexingRawMode = lex.lexingRawMode
      /\ Len(s) \in Nat
      /\ Len(p.conditionalStack) = Len(s) + 1
      /\ \A i \in 1 .. Len(s) : p.conditionalStack[i] = s[i]
      /\ p.conditionalStack[Len(s) + 1] = ci
  BY <1>0, <1>2, <1>3, PushFacts
<1>5. Rest(lex, p) /\ p.truth = lex.truth /\ p.MIOpt = lex.MIOpt
  BY <1>2, <1>3, PushEffect
<1>6. CASE b
  <2>1. l = p
    BY <1>1, <1>3, <1>6 DEF EnterGroup, PushConditionalLevel
  <2>2. l.lexingRawMode = ~b
    BY <1>4, <1>6, <2>1 DEF Lexer
  <2> QED BY <1>0, <1>2, <1>4, <1>5, <2>1, <2>2 DEF Entered
<1>7. CASE ~b
  <2>1. l = [p EXCEPT !.lexingRawMode = TRUE]
    BY <1>1, <1>3, <1>7 DEF EnterGroup, SkipExcludedConditionalBlock, PushConditionalLevel
  <2>2. /\ l.lexingRawMode = TRUE /\ l.conditionalStack = p.conditionalStack
        /\ Rest(p, l) /\ l.truth = p.truth /\ l.MIOpt = p.MIOpt
    BY <1>4, <2>1 DEF Lexer, Rest
  <2>3. l.lexingRawMode = ~b
    BY <1>7, <2>2
  <2> QED BY <1>0, <1>2, <1>4, <1>5, <2>2, <2>3 DEF Rest, Entered
<1> QED BY <1>6, <1>7

LEMMA NoteTopLevelEffect ==
  ASSUME NEW lex \in Lexer, NEW c \in Macros \cup {None}, NEW l, l = NoteTopLevel(lex, c)
  PROVE  /\ Rest(lex, l) /\ l.truth = lex.truth
         /\ ~TopLevel(lex) => l.MIOpt = lex.MIOpt
         /\ TopLevel(lex) =>
              \/ Drops(l.MIOpt)
              \/ /\ c # None /\ lex.MIOpt.theMacro = None /\ ~lex.MIOpt.didMacroExpansion
                 /\ l.MIOpt.theMacro = c /\ l.MIOpt.readAnyTokens
         /\ TopLevel(lex) /\ c # None /\ lex.MIOpt.theMacro = None =>
              lex.MIOpt.didMacroExpansion \/ l.MIOpt.theMacro = c
<1>1. CASE ~TopLevel(lex)
  <2>1. l = lex
    BY <1>1 DEF NoteTopLevel
  <2> QED BY <1>1, <2>1 DEF Rest
<1>2. CASE TopLevel(lex)
  <2>1. PICK o : o = lex.MIOpt
    OBVIOUS
  <2>2. o \in MultipleIncludeOpt
    BY <2>1 DEF Lexer
  <2>3. PICK p : p = IF c # None THEN EnterTopLevelIFNDEF(o, c) ELSE EnterTopLevelConditional(o)
    OBVIOUS
  <2>4. l = [lex EXCEPT !.MIOpt = p]
    BY <1>2, <2>1, <2>3 DEF NoteTopLevel
  <2>5. Rest(lex, l) /\ l.truth = lex.truth /\ l.MIOpt = p
    BY <2>4 DEF Lexer, Rest
  <2>6. CASE c # None /\ o.theMacro = None /\ ~o.didMacroExpansion
    <3>1. p = [o EXCEPT !.readAnyTokens = TRUE, !.theMacro = c]
      BY <2>3, <2>6 DEF EnterTopLevelIFNDEF
    <3>2. p.theMacro = c /\ p.readAnyTokens = TRUE
      BY <2>2, <3>1 DEF MultipleIncludeOpt
    <3> QED BY <1>2, <2>1, <2>5, <2>6, <3>2
  <2>7. CASE ~(c # None /\ o.theMacro = None /\ ~o.didMacroExpansion)
    <3>1. p = [o EXCEPT !.readAnyTokens = TRUE, !.theMacro = None]
      BY <2>2, <2>3, <2>7 DEF EnterTopLevelIFNDEF, EnterTopLevelConditional, Invalidate,
                           MultipleIncludeOpt
    <3>2. p.theMacro = None /\ p.readAnyTokens = TRUE
      BY <2>2, <3>1 DEF MultipleIncludeOpt
    <3>3. Drops(l.MIOpt)
      BY <2>5, <3>2 DEF Drops
    <3>4. ~(c # None /\ lex.MIOpt.theMacro = None /\ ~lex.MIOpt.didMacroExpansion)
      BY <2>1, <2>7
    <3> QED BY <1>2, <2>5, <3>3, <3>4
  <2> QED BY <2>6, <2>7
<1> QED BY <1>1, <1>2

LEMMA EvaluatedEffect ==
  ASSUME NEW lex \in Lexer, NEW e, NEW l, l = Evaluated(lex, e)
  PROVE  /\ Rest(lex, l)
         /\ l.truth = IF Evaluate(e) THEN lex.truth \cup {lexer.pos} ELSE lex.truth
         /\ l.MIOpt.theMacro = lex.MIOpt.theMacro
         /\ l.MIOpt.readAnyTokens = lex.MIOpt.readAnyTokens
         /\ Expansion(e) = e => l.MIOpt.didMacroExpansion = lex.MIOpt.didMacroExpansion
         /\ Expansion(e) # e => l.MIOpt.didMacroExpansion
<1>1. PICK t : t = IF Evaluate(e) THEN lex.truth \cup {lexer.pos} ELSE lex.truth
  OBVIOUS
<1>2. PICK o : o = lex.MIOpt
  OBVIOUS
<1>3. PICK p : p = IF Expansion(e) # e THEN ExpandedMacro(o) ELSE o
  OBVIOUS
<1>4. o \in MultipleIncludeOpt
  BY <1>2 DEF Lexer
<1>5. /\ p.theMacro = o.theMacro /\ p.readAnyTokens = o.readAnyTokens
      /\ Expansion(e) = e => p.didMacroExpansion = o.didMacroExpansion
      /\ Expansion(e) # e => p.didMacroExpansion = TRUE
  BY <1>3, <1>4 DEF MultipleIncludeOpt, ExpandedMacro
<1>6. l = [lex EXCEPT !.MIOpt = p, !.truth = t]
  BY <1>1, <1>2, <1>3 DEF Evaluated
<1>7. Rest(lex, l) /\ l.truth = t /\ l.MIOpt = p
  BY <1>6 DEF Lexer, Rest
<1> QED BY <1>1, <1>2, <1>5, <1>7

LEMMA PopEffect ==
  ASSUME NEW lex \in Lexer, NEW l, l = PopConditionalLevel(lex)
  PROVE  Rest(lex, l) /\ l.truth = lex.truth /\ l.MIOpt = lex.MIOpt
  BY DEF Lexer, Rest, PopConditionalLevel

-----------------------------------------------------------------------------
(* Every line is handled right.                                             *)
ReadOK(lex) == LineOK(lex, text[lex.file])

(* What the handlers of a line start from.                                  *)
LEMMA StandingFacts ==
  ASSUME IInv, ReadOK(lexer), ~AtEndOfFile, NEW lines, lines = text[lexer.file]
  PROVE  /\ Len(lines) \in Nat /\ lexer \in Lexer /\ SkipShape(lexer)
         /\ lexer.pos \in 1 .. Len(lines) /\ CurLine = lines[lexer.pos]
         /\ lexer.conditionalStack \in Seq(PPConditionalInfo)
         /\ Len(lexer.conditionalStack) \in Nat
         /\ TopLevel(lexer) <=> Len(lexer.conditionalStack) = 0
         /\ lexer.truth \subseteq 1 .. lexer.pos - 1
         /\ \A l \in Lexer : l.pos = lexer.pos + 1 => Follows(lexer, l, lines)
         /\ Advance(lexer) \in Lexer /\ Same(lexer, Advance(lexer))
<1>1. lexer \in Lexer /\ SkipShape(lexer) /\ lexer.file \in Files /\ text \in [Files -> Seq(Line)]
  BY DEF IInv, TypeOK, SkippingAssertions, Lexer
<1>2. /\ lines \in Seq(Line) /\ Len(lines) \in Nat
      /\ lexer.conditionalStack \in Seq(PPConditionalInfo) /\ lexer.pos \in Nat \ {0}
  BY <1>1 DEF Lexer
<1>3. lexer.pos \in 1 .. Len(lines) /\ lexer.pos <= Len(lines)
  BY <1>2 DEF AtEndOfFile
<1>4. /\ TopLevel(lexer) <=> Len(lexer.conditionalStack) = 0
      /\ Len(lexer.conditionalStack) \in Nat
  BY <1>2 DEF TopLevel
<1>5. LineOK(lexer, lines)
  BY DEF ReadOK
<1>6. lexer.truth \subseteq 1 .. lexer.pos - 1
  BY <1>3, <1>5 DEF LineOK, AgreeAt
<1> QED BY <1>1, <1>2, <1>3, <1>4, <1>5, <1>6, AdvanceFacts DEF CurLine, Follows

LEMMA AdvanceLine ==
  ASSUME IInv, ReadOK(lexer), ~AtEndOfFile, ~Opens(CurLine),
         CurLine.op \in {"endif", "else", "elif"} => TopLevel(lexer)
  PROVE  LineOK(Advance(lexer), text[lexer.file]) /\ Advance(lexer).file = lexer.file
<1> DEFINE lines == text[lexer.file]
           l == Advance(lexer)
<1>1. /\ Len(lines) \in Nat /\ Follows(lexer, l, lines) /\ Same(lexer, l)
      /\ ~Opens(lines[lexer.pos])
      /\ lines[lexer.pos].op \in {"endif", "else", "elif"} => Len(lexer.conditionalStack) = 0
      /\ l.truth = lexer.truth /\ Keeps(lexer.MIOpt, l.MIOpt) /\ l.file = lexer.file
  <2> HIDE DEF lines, l
  <2> QED BY StandingFacts, AdvanceEffect DEF lines, l
<1> HIDE DEF lines, l
<1>2. LineOK(l, lines)
  BY <1>1, PlainLine
<1> QED BY <1>1, <1>2 DEF lines, l

(* Within the handler of a line that opens a section: lex is the lexer      *)
(* after the bookkeeping, c the candidate for the guard.                    *)
LEMMA EnterLine ==
  ASSUME IInv, ReadOK(lexer), ~AtEndOfFile, ~lexer.lexingRawMode, Opens(CurLine),
         NEW lex \in Lexer, NEW l \in Lexer, NEW b \in BOOLEAN, l = EnterGroup(lex, b),
         Same(lexer, lex), lex.file = lexer.file, lex.pos = lexer.pos + 1,
         lex.truth = IF b THEN lexer.truth \cup {lexer.pos} ELSE lexer.truth,
         ~TopLevel(lexer) => Keeps(lexer.MIOpt, lex.MIOpt),
         TopLevel(lexer) /\ CurLine.op # "ifdef_noname" =>
           \/ Drops(lex.MIOpt)
           \/ /\ lexer.MIOpt.theMacro = None /\ ~lexer.MIOpt.readAnyTokens /\ b
              /\ lex.MIOpt.theMacro = GuardOf(CurLine) /\ lex.MIOpt.theMacro # None
              /\ lex.MIOpt.readAnyTokens,
         lexer.MIOpt = Fresh /\ TopLevel(lexer) /\ b =>
           GuardOf(CurLine) \in {None, lex.MIOpt.theMacro}
  PROVE  LineOK(l, text[lexer.file]) /\ l.file = lexer.file
<1>1. PICK lines : lines = text[lexer.file]
  OBVIOUS
<1>2. /\ Len(lines) \in Nat /\ lexer.pos \in 1 .. Len(lines) /\ CurLine = lines[lexer.pos]
      /\ Len(lexer.conditionalStack) \in Nat
      /\ TopLevel(lexer) <=> Len(lexer.conditionalStack) = 0
      /\ lexer.truth \subseteq 1 .. lexer.pos - 1 /\ lexer \in Lexer
      /\ \A r \in Lexer : r.pos = lexer.pos + 1 => Follows(lexer, r, lines)
  BY <1>1, StandingFacts
<1>3. PICK s : s = lex.conditionalStack /\ s = lexer.conditionalStack
  BY DEF Same
<1>4. /\ Rest(lex, l) /\ l.truth = lex.truth /\ l.MIOpt = lex.MIOpt
      /\ Len(l.conditionalStack) = Len(s) + 1
      /\ \A i \in 1 .. Len(s) : l.conditionalStack[i] = s[i]
      /\ l.conditionalStack[Len(s) + 1].ifLoc = lexer.pos
      /\ l.conditionalStack[Len(s) + 1].wasSkipping = FALSE
      /\ l.conditionalStack[Len(s) + 1].foundNonSkip = b
      /\ l.lexingRawMode = ~b
  <2>1. ~lex.lexingRawMode
    BY DEF Same
  <2>2. Entered(lex, l, b)
    BY <1>2, <2>1, EnterGroupEffect
  <2> QED BY <1>3, <2>2 DEF Entered
<1>5. Follows(lexer, l, lines) /\ l.file = lexer.file
  BY <1>2, <1>4 DEF Rest
<1>6. Pushed(lexer, l)
  <2>1. lexer.lexingRawMode = FALSE
    BY <1>2 DEF Lexer
  <2> QED BY <1>3, <1>4, <2>1 DEF Pushed
<1>7. /\ lexer.pos \in l.truth <=> b
      /\ lexer.truth \subseteq l.truth /\ l.truth \subseteq lexer.truth \cup {lexer.pos}
  BY <1>2, <1>4
<1>8. Opened(lines, lexer.pos, Len(lexer.conditionalStack), l.truth, lexer.MIOpt, l.MIOpt)
  <2>1. l.MIOpt = lex.MIOpt
    BY <1>4
  <2> QED BY <1>2, <1>7, <2>1 DEF Opened
<1>9. /\ l.conditionalStack[Len(lexer.conditionalStack) + 1].foundNonSkip = b
      /\ l.lexingRawMode = ~b /\ Opens(lines[lexer.pos])
  BY <1>2, <1>3, <1>4
<1>10. LineOK(l, lines)
  BY <1>2, <1>5, <1>6, <1>7, <1>8, <1>9, OpenLine
<1> QED BY <1>1, <1>5, <1>10

LEMMA IfdefLine ==
  ASSUME IInv, IInv', ReadOK(lexer), HandleIfdefDirective
  PROVE  LineOK(lexer', text[lexer.file]) /\ lexer'.file = lexer.file
<1>1. /\ ~AtEndOfFile /\ ~lexer.lexingRawMode /\ CurLine.op \in {"ifdef", "ifndef"}
      /\ lexer' \in Lexer /\ TypeOK
  BY DEF HandleIfdefDirective, ReadsLive, Reads, IInv, TypeOK
<1>2. CurLine.macro \in Macros
  BY <1>1, LineFacts
<1>3. PICK m, b, adv : /\ m = CurLine.macro /\ adv = Advance(lexer)
                       /\ b = (CurLine.op = "ifndef" <=> macros[m] = None)
  OBVIOUS
<1>4. PICK c : c = IF CurLine.op = "ifndef" /\ ~lexer.MIOpt.readAnyTokens /\ macros[m] = None
                     THEN m ELSE None
  OBVIOUS
<1>5. PICK t : t = NoteTopLevel(adv, c)
  OBVIOUS
<1>6. PICK u : u = [t EXCEPT !.truth = IF b THEN @ \cup {lexer.pos} ELSE @]
  OBVIOUS
<1>7. lexer' = EnterGroup(u, b) /\ b \in BOOLEAN
  BY <1>3, <1>4, <1>5, <1>6, Zenon DEF HandleIfdefDirective
<1>8. /\ lexer \in Lexer /\ adv \in Lexer /\ Same(lexer, adv)
      /\ adv.file = lexer.file /\ adv.pos = lexer.pos + 1 /\ adv.truth = lexer.truth
      /\ Keeps(lexer.MIOpt, adv.MIOpt)
      /\ adv.MIOpt.didMacroExpansion = lexer.MIOpt.didMacroExpansion
  BY <1>1, <1>3, AdvanceFacts, AdvanceEffect DEF TypeOK
<1>9. c \in Macros \cup {None}
  BY <1>2, <1>3, <1>4
<1>10. t \in Lexer /\ Same(adv, t)
  BY <1>5, <1>8, <1>9, NoteTopLevelFacts
<1>11. /\ Rest(adv, t) /\ t.truth = adv.truth
       /\ ~TopLevel(adv) => t.MIOpt = adv.MIOpt
       /\ TopLevel(adv) =>
            \/ Drops(t.MIOpt)
            \/ /\ c # None /\ adv.MIOpt.theMacro = None /\ ~adv.MIOpt.didMacroExpansion
               /\ t.MIOpt.theMacro = c /\ t.MIOpt.readAnyTokens
       /\ TopLevel(adv) /\ c # None /\ adv.MIOpt.theMacro = None =>
            adv.MIOpt.didMacroExpansion \/ t.MIOpt.theMacro = c
  BY <1>5, <1>8, <1>9, NoteTopLevelEffect
<1>12. /\ u \in Lexer /\ Same(t, u) /\ Rest(t, u) /\ u.MIOpt = t.MIOpt
       /\ u.truth = IF b THEN t.truth \cup {lexer.pos} ELSE t.truth
  <2>1. PICK tr : tr = IF b THEN t.truth \cup {lexer.pos} ELSE t.truth
    OBVIOUS
  <2>2. tr \in SUBSET Nat
    BY <1>8, <1>10, <2>1 DEF Lexer
  <2>3. u = [t EXCEPT !.truth = tr]
    BY <1>6, <2>1
  <2> QED BY <1>10, <2>1, <2>2, <2>3 DEF Lexer, Same, Rest
<1>13. TopLevel(adv) <=> TopLevel(lexer)
  BY <1>8 DEF TopLevel, Same
<1>14. /\ Same(lexer, u) /\ u.file = lexer.file /\ u.pos = lexer.pos + 1
       /\ u.truth = IF b THEN lexer.truth \cup {lexer.pos} ELSE lexer.truth
  BY <1>8, <1>10, <1>11, <1>12 DEF Same, Rest
<1>15. ~TopLevel(lexer) => Keeps(lexer.MIOpt, u.MIOpt)
  BY <1>8, <1>11, <1>12, <1>13
<1>16. ASSUME TopLevel(lexer), ~Drops(u.MIOpt)
       PROVE  /\ lexer.MIOpt.theMacro = None /\ ~lexer.MIOpt.readAnyTokens /\ b
              /\ u.MIOpt.theMacro = GuardOf(CurLine) /\ u.MIOpt.theMacro # None
              /\ u.MIOpt.readAnyTokens
  <2>1. /\ c # None /\ adv.MIOpt.theMacro = None
        /\ u.MIOpt.theMacro = c /\ u.MIOpt.readAnyTokens
    BY <1>11, <1>12, <1>13, <1>16
  <2>2. /\ CurLine.op = "ifndef" /\ ~lexer.MIOpt.readAnyTokens /\ macros[m] = None /\ c = m
    BY <1>4, <2>1
  <2>3. GuardOf(CurLine) = c
    BY <1>3, <2>2 DEF GuardOf
  <2> QED BY <1>3, <1>8, <2>1, <2>2, <2>3 DEF Keeps
<1>17. ASSUME lexer.MIOpt = Fresh, TopLevel(lexer), b
       PROVE  GuardOf(CurLine) \in {None, u.MIOpt.theMacro}
  <2>1. CASE CurLine.op = "ifndef"
    <3>1. c = m /\ c # None /\ GuardOf(CurLine) = c
      <4>1. ~lexer.MIOpt.readAnyTokens
        BY <1>17 DEF Fresh
      <4>2. c = m
        BY <1>3, <1>4, <1>17, <2>1, <4>1
      <4> QED BY <1>2, <1>3, <2>1, <4>2, FilesAssumption DEF GuardOf
    <3>2. adv.MIOpt.theMacro = None /\ ~adv.MIOpt.didMacroExpansion
      BY <1>8, <1>17 DEF Fresh, Keeps
    <3> QED BY <1>11, <1>12, <1>13, <1>17, <3>1, <3>2
  <2>2. CASE CurLine.op = "ifdef"
    BY <2>2 DEF GuardOf
  <2> QED BY <1>1, <2>1, <2>2
<1>18. Opens(CurLine)
  BY <1>1 DEF Opens
<1> QED BY <1>1, <1>7, <1>12, <1>14, <1>15, <1>16, <1>17, <1>18, EnterLine

LEMMA NoNameLine ==
  ASSUME IInv, IInv', ReadOK(lexer), HandleIfdefNoName
  PROVE  LineOK(lexer', text[lexer.file]) /\ lexer'.file = lexer.file
<1>1. /\ ~AtEndOfFile /\ ~lexer.lexingRawMode /\ CurLine.op = "ifdef_noname"
      /\ lexer' \in Lexer /\ lexer \in Lexer
  BY DEF HandleIfdefNoName, ReadsLive, Reads, IInv, TypeOK
<1>2. PICK adv : adv = Advance(lexer)
  OBVIOUS
<1>3. /\ adv \in Lexer /\ Same(lexer, adv)
      /\ adv.file = lexer.file /\ adv.pos = lexer.pos + 1 /\ adv.truth = lexer.truth
      /\ Keeps(lexer.MIOpt, adv.MIOpt)
  BY <1>1, <1>2, AdvanceFacts, AdvanceEffect
<1>4. PICK b : b = FALSE
  OBVIOUS
<1>5. lexer' = EnterGroup(adv, b) /\ b \in BOOLEAN
  BY <1>2, <1>4 DEF HandleIfdefNoName, EnterGroup
<1>6. Opens(CurLine) /\ adv.truth = IF b THEN lexer.truth \cup {lexer.pos} ELSE lexer.truth
  BY <1>1, <1>3, <1>4 DEF Opens
<1> QED BY <1>1, <1>3, <1>4, <1>5, <1>6, EnterLine

LEMMA IfLine ==
  ASSUME IInv, IInv', ReadOK(lexer), HandleIfDirective
  PROVE  LineOK(lexer', text[lexer.file]) /\ lexer'.file = lexer.file
<1>1. /\ ~AtEndOfFile /\ ~lexer.lexingRawMode /\ CurLine.op = "if"
      /\ lexer' \in Lexer /\ TypeOK
  BY DEF HandleIfDirective, ReadsLive, Reads, IInv, TypeOK
<1>2. PICK e, adv : e = CurLine.cond /\ adv = Advance(lexer)
  OBVIOUS
<1>3. PICK b : b = Evaluate(e)
  OBVIOUS
<1>4. PICK c : c = IF ~lexer.MIOpt.readAnyTokens /\ b THEN IfNDefMacro(e) ELSE None
  OBVIOUS
<1>5. PICK v : v = Evaluated(adv, e)
  OBVIOUS
<1>6. PICK t : t = NoteTopLevel(v, c)
  OBVIOUS
<1>7. lexer' = EnterGroup(t, b)
  BY <1>2, <1>3, <1>4, <1>5, <1>6, Zenon DEF HandleIfDirective
<1>8. e \in Expr /\ b \in BOOLEAN /\ IfNDefMacro(e) \in Macros \cup {None}
  BY <1>1, <1>2, <1>3, LineFacts, ExprFacts
<1>9. /\ lexer \in Lexer /\ adv \in Lexer /\ Same(lexer, adv)
      /\ adv.file = lexer.file /\ adv.pos = lexer.pos + 1 /\ adv.truth = lexer.truth
      /\ Keeps(lexer.MIOpt, adv.MIOpt)
      /\ adv.MIOpt.didMacroExpansion = lexer.MIOpt.didMacroExpansion
  BY <1>1, <1>2, AdvanceFacts, AdvanceEffect DEF TypeOK
<1>10. /\ v \in Lexer /\ Same(adv, v) /\ Rest(adv, v)
       /\ v.truth = IF b THEN adv.truth \cup {lexer.pos} ELSE adv.truth
       /\ v.MIOpt.theMacro = adv.MIOpt.theMacro
       /\ v.MIOpt.readAnyTokens = adv.MIOpt.readAnyTokens
       /\ Expansion(e) = e => v.MIOpt.didMacroExpansion = adv.MIOpt.didMacroExpansion
       /\ Expansion(e) # e => v.MIOpt.didMacroExpansion
  <2>1. v \in Lexer /\ Same(adv, v)
    BY <1>5, <1>8, <1>9, EvaluatedFacts
  <2>2. /\ Rest(adv, v)
        /\ v.truth = IF Evaluate(e) THEN adv.truth \cup {lexer.pos} ELSE adv.truth
        /\ v.MIOpt.theMacro = adv.MIOpt.theMacro
        /\ v.MIOpt.readAnyTokens = adv.MIOpt.readAnyTokens
        /\ Expansion(e) = e => v.MIOpt.didMacroExpansion = adv.MIOpt.didMacroExpansion
        /\ Expansion(e) # e => v.MIOpt.didMacroExpansion
    BY <1>5, <1>9, EvaluatedEffect
  <2> QED BY <1>3, <2>1, <2>2
<1>11. c \in Macros \cup {None}
  BY <1>4, <1>8
<1>12. t \in Lexer /\ Same(v, t)
  BY <1>6, <1>10, <1>11, NoteTopLevelFacts
<1>13. /\ Rest(v, t) /\ t.truth = v.truth
       /\ ~TopLevel(v) => t.MIOpt = v.MIOpt
       /\ TopLevel(v) =>
            \/ Drops(t.MIOpt)
            \/ /\ c # None /\ v.MIOpt.theMacro = None /\ ~v.MIOpt.didMacroExpansion
               /\ t.MIOpt.theMacro = c /\ t.MIOpt.readAnyTokens
       /\ TopLevel(v) /\ c # None /\ v.MIOpt.theMacro = None =>
            v.MIOpt.didMacroExpansion \/ t.MIOpt.theMacro = c
  BY <1>6, <1>10, <1>11, NoteTopLevelEffect
<1>14. TopLevel(v) <=> TopLevel(lexer)
  BY <1>9, <1>10 DEF TopLevel, Same
<1>15. /\ Same(lexer, t) /\ t.file = lexer.file /\ t.pos = lexer.pos + 1
       /\ t.truth = IF b THEN lexer.truth \cup {lexer.pos} ELSE lexer.truth
  BY <1>9, <1>10, <1>12, <1>13 DEF Same, Rest
<1>16. ~TopLevel(lexer) => Keeps(lexer.MIOpt, t.MIOpt)
  BY <1>9, <1>10, <1>13, <1>14 DEF Keeps
<1>17. Expansion(e) = e /\ e.kind = "notdefined" => GuardOf(CurLine) = IfNDefMacro(e)
  BY <1>1, <1>2 DEF GuardOf, IfNDefMacro
<1>18. ASSUME TopLevel(lexer), ~Drops(t.MIOpt)
       PROVE  /\ lexer.MIOpt.theMacro = None /\ ~lexer.MIOpt.readAnyTokens /\ b
              /\ t.MIOpt.theMacro = GuardOf(CurLine) /\ t.MIOpt.theMacro # None
              /\ t.MIOpt.readAnyTokens
  <2>1. /\ c # None /\ v.MIOpt.theMacro = None /\ ~v.MIOpt.didMacroExpansion
        /\ t.MIOpt.theMacro = c /\ t.MIOpt.readAnyTokens
    BY <1>13, <1>14, <1>18
  <2>2. Expansion(e) = e
    BY <1>10, <2>1
  <2>3. c = IfNDefMacro(e) /\ ~lexer.MIOpt.readAnyTokens /\ b
    BY <1>4, <2>1
  <2>4. e.kind = "notdefined"
    BY <2>1, <2>2, <2>3 DEF IfNDefMacro
  <2> QED BY <1>9, <1>10, <1>17, <2>1, <2>2, <2>3, <2>4 DEF Keeps
<1>19. ASSUME lexer.MIOpt = Fresh, TopLevel(lexer), b
       PROVE  GuardOf(CurLine) \in {None, t.MIOpt.theMacro}
  <2>1. CASE e.kind = "notdefined"
    <3>1. Expansion(e) = e
      BY <2>1 DEF Expansion
    <3>2. c = GuardOf(CurLine)
      BY <1>4, <1>17, <1>19, <2>1, <3>1 DEF Fresh
    <3>3. v.MIOpt.theMacro = None /\ ~v.MIOpt.didMacroExpansion
      <4>1. lexer.MIOpt.theMacro = None /\ lexer.MIOpt.didMacroExpansion = FALSE
        BY <1>19 DEF Fresh
      <4>2. adv.MIOpt.theMacro = None /\ adv.MIOpt.didMacroExpansion = FALSE
        BY <1>9, <4>1 DEF Keeps
      <4> QED BY <1>10, <3>1, <4>2
    <3> QED BY <1>13, <1>14, <1>19, <3>2, <3>3
  <2>2. CASE e.kind # "notdefined"
    BY <1>1, <1>2, <2>2 DEF GuardOf
  <2> QED BY <2>1, <2>2
<1>20. Opens(CurLine)
  BY <1>1 DEF Opens
<1> QED BY <1>1, <1>7, <1>8, <1>12, <1>15, <1>16, <1>18, <1>19, <1>20, EnterLine

(* An #endif that is read.                                                  *)
LEMMA EndifLine ==
  ASSUME IInv, IInv', ReadOK(lexer), HandleEndifDirective, ~TopLevel(lexer)
  PROVE  LineOK(lexer', text[lexer.file]) /\ lexer'.file = lexer.file
<1>1. /\ ~AtEndOfFile /\ ~lexer.lexingRawMode /\ CurLine.op = "endif"
      /\ lexer' \in Lexer
  BY DEF HandleEndifDirective, ReadsLive, Reads, IInv, TypeOK
<1>2. PICK lines, s, adv : /\ lines = text[lexer.file] /\ s = lexer.conditionalStack
                           /\ adv = Advance(lexer)
  OBVIOUS
<1>3. /\ Len(lines) \in Nat /\ lexer.pos \in 1 .. Len(lines) /\ CurLine = lines[lexer.pos]
      /\ Len(s) \in Nat /\ Len(s) # 0 /\ lexer \in Lexer
      /\ \A r \in Lexer : r.pos = lexer.pos + 1 => Follows(lexer, r, lines)
      /\ adv \in Lexer /\ Same(lexer, adv)
  BY <1>1, <1>2, StandingFacts
<1>4. /\ adv.file = lexer.file /\ adv.pos = lexer.pos + 1 /\ adv.truth = lexer.truth
      /\ Keeps(lexer.MIOpt, adv.MIOpt) /\ adv.conditionalStack = s
  BY <1>2, <1>3, AdvanceEffect DEF Same
<1>5. PICK r : r = PopConditionalLevel(adv)
  OBVIOUS
<1>6. /\ r \in Lexer /\ r.lexingRawMode = adv.lexingRawMode
      /\ Len(s) \in Nat \ {0}
      /\ Len(r.conditionalStack) = Len(s) - 1
      /\ \A i \in 1 .. Len(s) - 1 : r.conditionalStack[i] = s[i]
  <2>1. s # << >>
    BY <1>3
  <2> QED BY <1>3, <1>4, <1>5, <2>1, PopFacts
<1>7. Rest(adv, r) /\ r.truth = adv.truth /\ r.MIOpt = adv.MIOpt
  BY <1>3, <1>5, PopEffect
<1>8. TopLevel(r) <=> Len(s) = 1
  <2>1. r.conditionalStack \in Seq(PPConditionalInfo)
    BY <1>6 DEF Lexer
  <2>2. TopLevel(r) <=> Len(r.conditionalStack) = 0
    BY <2>1 DEF TopLevel
  <2> QED BY <1>6, <2>2
<1>9. lexer' = IF TopLevel(r) THEN [r EXCEPT !.MIOpt = ExitTopLevelConditional(@)] ELSE r
  BY <1>2, <1>5, Zenon DEF HandleEndifDirective
<1>10. /\ lexer'.conditionalStack = r.conditionalStack /\ Rest(r, lexer')
       /\ lexer'.lexingRawMode = r.lexingRawMode /\ lexer'.truth = r.truth
       /\ Len(s) # 1 => lexer'.MIOpt = adv.MIOpt
       /\ Len(s) = 1 => lexer'.MIOpt = ExitTopLevelConditional(adv.MIOpt)
  BY <1>6, <1>7, <1>8, <1>9 DEF Lexer, Rest
<1>11. ASSUME Len(s) = 1
       PROVE  /\ lexer.MIOpt.theMacro = None => Drops(lexer'.MIOpt)
              /\ lexer.MIOpt.theMacro # None =>
                   lexer'.MIOpt.theMacro = lexer.MIOpt.theMacro /\ ~lexer'.MIOpt.readAnyTokens
  <2>1. adv.MIOpt \in MultipleIncludeOpt
    BY <1>3 DEF Lexer
  <2> QED BY <1>4, <1>10, <1>11, <2>1
          DEF ExitTopLevelConditional, Invalidate, MultipleIncludeOpt, Drops, Keeps
<1>12. Follows(lexer, lexer', lines) /\ lexer'.file = lexer.file /\ lexer'.truth = lexer.truth
  BY <1>1, <1>3, <1>4, <1>7, <1>10 DEF Rest
<1>13. Len(s) # 1 => Keeps(lexer.MIOpt, lexer'.MIOpt)
  BY <1>4, <1>10
<1>14. lexer'.lexingRawMode = FALSE /\ lexer.lexingRawMode = FALSE
  BY <1>1, <1>3, <1>6, <1>10 DEF Same, Lexer
<1>15. /\ Len(lexer'.conditionalStack) = Len(s) - 1
       /\ \A i \in 1 .. Len(s) - 1 : lexer'.conditionalStack[i] = s[i]
  BY <1>6, <1>10
<1>16. LineOK(lexer', lines)
  <2>1. PICK l : l = lexer'
    OBVIOUS
  <2> QED BY <1>1, <1>2, <1>3, <1>11, <1>12, <1>13, <1>14, <1>15, <2>1, CloseLine
<1> QED BY <1>2, <1>12, <1>16

(* An #else or #elif after a group that was read.                           *)
(* l is lex with its top entry replaced by one for a group that is skipped  *)
(* because another group of the section was read.                           *)
RestSkipped(lex, l) ==
  LET s == lex.conditionalStack
      t == l.conditionalStack
  IN /\ Rest(lex, l) /\ l.truth = lex.truth
     /\ Len(t) = Len(s)
     /\ \A i \in 1 .. Len(s) - 1 : t[i] = s[i]
     /\ t[Len(s)].ifLoc = s[Len(s)].ifLoc
     /\ t[Len(s)].wasSkipping = FALSE
     /\ t[Len(s)].foundNonSkip = TRUE
     /\ l.lexingRawMode = TRUE
     /\ Len(s) = 1 => Drops(l.MIOpt)
     /\ Len(s) # 1 => l.MIOpt = lex.MIOpt

LEMMA SkipRestEffect ==
  ASSUME NEW lex \in Lexer, NEW s, s = lex.conditionalStack, Len(s) # 0,
         NEW else \in BOOLEAN, NEW l, l = SkipRest(lex, Last(s), else)
  PROVE  RestSkipped(lex, l)
<1>1. PICK r : r = PopConditionalLevel(lex)
  OBVIOUS
<1>2. /\ r \in Lexer /\ Len(s) \in Nat \ {0}
      /\ Len(r.conditionalStack) = Len(s) - 1
      /\ \A i \in 1 .. Len(s) - 1 : r.conditionalStack[i] = s[i]
      /\ Last(s) \in PPConditionalInfo /\ Last(s) = s[Len(s)]
  <2>1. s # << >>
    OBVIOUS
  <2> QED BY <1>1, <2>1, PopFacts
<1>3. Rest(lex, r) /\ r.truth = lex.truth /\ r.MIOpt = lex.MIOpt
  BY <1>1, PopEffect
<1>4. PICK t : t = NoteTopLevel(r, None)
  OBVIOUS
<1>5. /\ t \in Lexer /\ Same(r, t) /\ Rest(r, t) /\ t.truth = r.truth
      /\ ~TopLevel(r) => t.MIOpt = r.MIOpt
      /\ TopLevel(r) => Drops(t.MIOpt)
  BY <1>2, <1>4, NoteTopLevelFacts, NoteTopLevelEffect
<1>6. TopLevel(r) <=> Len(s) = 1
  <2>1. r.conditionalStack \in Seq(PPConditionalInfo)
    BY <1>2 DEF Lexer
  <2>2. TopLevel(r) <=> Len(r.conditionalStack) = 0
    BY <2>1 DEF TopLevel
  <2> QED BY <1>2, <2>2
<1>7. PICK ci : ci = [ifLoc |-> Last(s).ifLoc, wasSkipping |-> FALSE,
                      foundNonSkip |-> TRUE, foundElse |-> else]
  OBVIOUS
<1>8. /\ ci \in PPConditionalInfo /\ ci.ifLoc = s[Len(s)].ifLoc
      /\ ci.wasSkipping = FALSE /\ ci.foundNonSkip = TRUE
  BY <1>2, <1>7 DEF PPConditionalInfo
<1>9. PICK p : p = [t EXCEPT !.conditionalStack = Append(@, ci)]
  OBVIOUS
<1>10. PICK u : u = t.conditionalStack
  OBVIOUS
<1>11. /\ p \in Lexer
       /\ Len(u) \in Nat
       /\ Len(p.conditionalStack) = Len(u) + 1
       /\ \A i \in 1 .. Len(u) : p.conditionalStack[i] = u[i]
       /\ p.conditionalStack[Len(u) + 1] = ci
       /\ Rest(t, p) /\ p.truth = t.truth /\ p.MIOpt = t.MIOpt
  BY <1>5, <1>8, <1>9, <1>10, PushFacts, PushEffect
<1>12. l = [p EXCEPT !.lexingRawMode = TRUE]
  BY <1>1, <1>4, <1>7, <1>9 DEF SkipRest, SkipExcludedConditionalBlock, PushConditionalLevel
<1>13. /\ l.lexingRawMode = TRUE /\ l.conditionalStack = p.conditionalStack
       /\ Rest(p, l) /\ l.truth = p.truth /\ l.MIOpt = p.MIOpt
  BY <1>11, <1>12 DEF Lexer, Rest
<1>14. u = r.conditionalStack /\ Len(u) = Len(s) - 1 /\ Len(u) + 1 = Len(s)
  BY <1>2, <1>5, <1>10 DEF Same
<1>15. Rest(lex, l) /\ l.truth = lex.truth
  BY <1>3, <1>5, <1>11, <1>13 DEF Rest
<1>16. /\ Len(l.conditionalStack) = Len(s)
       /\ \A i \in 1 .. Len(s) - 1 : l.conditionalStack[i] = s[i]
       /\ l.conditionalStack[Len(s)] = ci
  BY <1>2, <1>11, <1>13, <1>14
<1>17. /\ Len(s) = 1 => Drops(l.MIOpt)
       /\ Len(s) # 1 => l.MIOpt = lex.MIOpt
  BY <1>3, <1>5, <1>6, <1>11, <1>13
<1> QED BY <1>8, <1>13, <1>15, <1>16, <1>17 DEF RestSkipped

(* A group that is read was found: it is a group that holds.                *)
LEMMA ReadIsFound ==
  ASSUME NEW lines, NEW n \in Nat, NEW s \in Seq(PPConditionalInfo), Len(s) # 0,
         NEW raw, ~raw, NEW truth, AgreeAt(lines, n, s, raw, truth), Shape(s, raw)
  PROVE  s[Len(s)].foundNonSkip /\ ~s[Len(s)].wasSkipping
<1>1. Len(s) \in 1 .. Len(s)
  OBVIOUS
<1>2. ~s[Len(s)].wasSkipping
  BY <1>1 DEF Shape
<1>3. PICK o : o = s[Len(s)].ifLoc
  OBVIOUS
<1>4. /\ o \in 1 .. n - 1 /\ \E g \in Groups(lines, o, n) : IsLast(Groups(lines, o, n), g)
      /\ s[Len(s)].foundNonSkip <=> HasTrue(lines, truth, o, n)
      /\ Selected(lines, truth, o, n)
  BY <1>1, <1>2, <1>3 DEF AgreeAt, Entries, EntryOK, IsRead
<1>5. HasTrue(lines, truth, o, n)
  BY <1>4, SelectedByLast DEF HasTrue
<1> QED BY <1>2, <1>4, <1>5

LEMMA DivideLive ==
  ASSUME IInv, IInv', ReadOK(lexer), HandleElseDirective \/ HandleElifDirective,
         ~TopLevel(lexer)
  PROVE  LineOK(lexer', text[lexer.file]) /\ lexer'.file = lexer.file
<1>1. /\ ~AtEndOfFile /\ ~lexer.lexingRawMode /\ Divides(CurLine)
      /\ lexer' \in Lexer
  BY DEF HandleElseDirective, HandleElifDirective, ReadsLive, Reads, IInv, TypeOK, Divides
<1>2. PICK lines, s, adv : /\ lines = text[lexer.file] /\ s = lexer.conditionalStack
                           /\ adv = Advance(lexer)
  OBVIOUS
<1>3. /\ Len(lines) \in Nat /\ lexer.pos \in 1 .. Len(lines) /\ CurLine = lines[lexer.pos]
      /\ Len(s) \in Nat /\ Len(s) # 0 /\ lexer \in Lexer /\ s \in Seq(PPConditionalInfo)
      /\ \A r \in Lexer : r.pos = lexer.pos + 1 => Follows(lexer, r, lines)
      /\ adv \in Lexer /\ Same(lexer, adv) /\ SkipShape(lexer)
  BY <1>1, <1>2, StandingFacts
<1>4. /\ adv.file = lexer.file /\ adv.pos = lexer.pos + 1 /\ adv.truth = lexer.truth
      /\ Keeps(lexer.MIOpt, adv.MIOpt) /\ adv.conditionalStack = s
  BY <1>2, <1>3, AdvanceEffect DEF Same
<1>5. PICK else \in BOOLEAN : lexer' = SkipRest(adv, Last(s), else)
  <2>1. Last(s) \in PPConditionalInfo
    BY <1>3, LastFront
  <2>2. Last(s).foundElse \in BOOLEAN
    BY <2>1 DEF PPConditionalInfo
  <2> QED BY <1>2, <2>2 DEF HandleElseDirective, HandleElifDirective
<1>6. PICK l : l = lexer'
  OBVIOUS
<1>7. /\ Rest(adv, l) /\ l.truth = adv.truth
      /\ Len(l.conditionalStack) = Len(s)
      /\ \A i \in 1 .. Len(s) - 1 : l.conditionalStack[i] = s[i]
      /\ l.conditionalStack[Len(s)].ifLoc = s[Len(s)].ifLoc
      /\ l.conditionalStack[Len(s)].wasSkipping = FALSE
      /\ l.conditionalStack[Len(s)].foundNonSkip = TRUE
      /\ l.lexingRawMode = TRUE
      /\ Len(s) = 1 => Drops(l.MIOpt)
      /\ Len(s) # 1 => l.MIOpt = adv.MIOpt
  <2>1. RestSkipped(adv, l)
    BY <1>3, <1>4, <1>5, <1>6, SkipRestEffect
  <2> QED BY <1>4, <2>1 DEF RestSkipped
<1>8. Follows(lexer, l, lines) /\ l.file = lexer.file /\ l.truth = lexer.truth
  BY <1>1, <1>3, <1>4, <1>6, <1>7 DEF Rest
<1>9. s[Len(s)].foundNonSkip = TRUE /\ s[Len(s)].wasSkipping = FALSE
  <2>1. AgreeAt(lines, lexer.pos, s, lexer.lexingRawMode, lexer.truth)
    BY <1>2, <1>3 DEF ReadOK, LineOK
  <2>2. Shape(s, lexer.lexingRawMode)
    BY <1>2, <1>3, SkipShapeIsShape DEF SkipIsShape
  <2>3. s[Len(s)].foundNonSkip /\ ~s[Len(s)].wasSkipping
    BY <1>1, <1>3, <2>1, <2>2, ReadIsFound
  <2>4. s[Len(s)] \in PPConditionalInfo
    BY <1>3
  <2> QED BY <2>3, <2>4 DEF PPConditionalInfo
<1>10. PICK b : b = FALSE
  OBVIOUS
<1>11. Regrouped(lexer, l, b)
  <2>1. lexer.lexingRawMode = FALSE
    BY <1>1, <1>3 DEF Lexer
  <2> QED BY <1>2, <1>7, <1>9, <1>10, <2>1 DEF Regrouped
<1>12. /\ Len(s) # 1 => Keeps(lexer.MIOpt, l.MIOpt)
       /\ Len(s) = 1 => Drops(l.MIOpt)
  BY <1>4, <1>7
<1>13. Last(s).foundNonSkip /\ Divides(lines[lexer.pos]) /\ b \in BOOLEAN
  BY <1>1, <1>3, <1>9, <1>10 DEF Last
<1>14. LineOK(l, lines)
  BY <1>1, <1>2, <1>3, <1>8, <1>11, <1>12, <1>13, DivideLine
<1> QED BY <1>2, <1>6, <1>8, <1>14

(* A section inside a skipped group.                                        *)
LEMMA SkipIfLine ==
  ASSUME IInv, IInv', ReadOK(lexer), SkipIf
  PROVE  LineOK(lexer', text[lexer.file]) /\ lexer'.file = lexer.file
<1>1. /\ ~AtEndOfFile /\ lexer.lexingRawMode /\ Opens(CurLine)
      /\ lexer' \in Lexer
  BY DEF SkipIf, ReadsSkipped, Reads, IInv, TypeOK, Opens
<1>2. PICK lines, s, adv : /\ lines = text[lexer.file] /\ s = lexer.conditionalStack
                           /\ adv = Advance(lexer)
  OBVIOUS
<1>3. /\ Len(lines) \in Nat /\ lexer.pos \in 1 .. Len(lines) /\ CurLine = lines[lexer.pos]
      /\ Len(s) \in Nat /\ lexer \in Lexer
      /\ \A r \in Lexer : r.pos = lexer.pos + 1 => Follows(lexer, r, lines)
      /\ adv \in Lexer /\ Same(lexer, adv) /\ SkipShape(lexer)
      /\ lexer.truth \subseteq 1 .. lexer.pos - 1
  BY <1>1, <1>2, StandingFacts
<1>4. /\ adv.file = lexer.file /\ adv.pos = lexer.pos + 1 /\ adv.truth = lexer.truth
      /\ Keeps(lexer.MIOpt, adv.MIOpt) /\ adv.conditionalStack = s
  BY <1>2, <1>3, AdvanceEffect DEF Same
<1>5. PICK ci : ci = [ifLoc |-> lexer.pos, wasSkipping |-> TRUE,
                      foundNonSkip |-> FALSE, foundElse |-> FALSE]
  OBVIOUS
<1>6. /\ ci \in PPConditionalInfo /\ ci.ifLoc = lexer.pos /\ ci.wasSkipping = TRUE
      /\ ci.foundNonSkip = FALSE
  BY <1>3, <1>5 DEF PPConditionalInfo
<1>7. PICK l : l = lexer'
  OBVIOUS
<1>8. l = [adv EXCEPT !.conditionalStack = Append(@, ci)]
  BY <1>2, <1>5, <1>7 DEF SkipIf, PushSkipped, PushConditionalLevel
<1>9. /\ l \in Lexer
      /\ l.lexingRawMode = adv.lexingRawMode
      /\ Len(l.conditionalStack) = Len(s) + 1
      /\ \A i \in 1 .. Len(s) : l.conditionalStack[i] = s[i]
      /\ l.conditionalStack[Len(s) + 1] = ci
      /\ Rest(adv, l) /\ l.truth = adv.truth /\ l.MIOpt = adv.MIOpt
  <2>1. adv \in Lexer /\ ci \in PPConditionalInfo /\ s = adv.conditionalStack
    BY <1>3, <1>4, <1>6
  <2> QED BY <1>8, <2>1, PushFacts, PushEffect
<1>10. lexer.lexingRawMode = TRUE /\ l.lexingRawMode = TRUE
  BY <1>1, <1>3, <1>9 DEF Same, Lexer
<1>11. Follows(lexer, l, lines) /\ l.file = lexer.file /\ l.truth = lexer.truth
  BY <1>3, <1>4, <1>9 DEF Rest
<1>12. Pushed(lexer, l)
  BY <1>2, <1>6, <1>9, <1>10 DEF Pushed
<1>13. Len(s) # 0
  BY <1>1, <1>2, <1>3 DEF SkipShape
<1>14. Opened(lines, lexer.pos, Len(s), l.truth, lexer.MIOpt, l.MIOpt)
  BY <1>4, <1>9, <1>13 DEF Opened
<1>15. PICK b : b = FALSE
  OBVIOUS
<1>16. /\ b \in BOOLEAN /\ l.conditionalStack[Len(s) + 1].foundNonSkip = b
       /\ l.lexingRawMode = ~b /\ (lexer.lexingRawMode => ~b)
       /\ lexer.pos \in l.truth <=> b
       /\ lexer.truth \subseteq l.truth /\ l.truth \subseteq lexer.truth \cup {lexer.pos}
  <2>1. b \in BOOLEAN /\ l.conditionalStack[Len(s) + 1].foundNonSkip = b
    BY <1>6, <1>9, <1>15
  <2>2. l.lexingRawMode = ~b /\ (lexer.lexingRawMode => ~b)
    BY <1>10, <1>15
  <2>3. lexer.pos \notin l.truth
    BY <1>3, <1>11
  <2> QED BY <1>11, <1>15, <2>1, <2>2, <2>3
<1>17. Opens(lines[lexer.pos])
  BY <1>1, <1>3
<1>18. LineOK(l, lines)
  BY <1>2, <1>3, <1>11, <1>12, <1>14, <1>16, <1>17, OpenLine
<1> QED BY <1>2, <1>7, <1>11, <1>18

LEMMA SkipEndifLine ==
  ASSUME IInv, IInv', ReadOK(lexer), SkipEndif
  PROVE  LineOK(lexer', text[lexer.file]) /\ lexer'.file = lexer.file
<1>1. /\ ~AtEndOfFile /\ lexer.lexingRawMode /\ CurLine.op = "endif"
      /\ lexer' \in Lexer
  BY DEF SkipEndif, ReadsSkipped, Reads, IInv, TypeOK
<1>2. PICK lines, s, adv : /\ lines = text[lexer.file] /\ s = lexer.conditionalStack
                           /\ adv = Advance(lexer)
  OBVIOUS
<1>3. /\ Len(lines) \in Nat /\ lexer.pos \in 1 .. Len(lines) /\ CurLine = lines[lexer.pos]
      /\ Len(s) \in Nat /\ lexer \in Lexer /\ s \in Seq(PPConditionalInfo)
      /\ \A r \in Lexer : r.pos = lexer.pos + 1 => Follows(lexer, r, lines)
      /\ adv \in Lexer /\ Same(lexer, adv) /\ SkipShape(lexer)
  BY <1>1, <1>2, StandingFacts
<1>4. /\ adv.file = lexer.file /\ adv.pos = lexer.pos + 1 /\ adv.truth = lexer.truth
      /\ Keeps(lexer.MIOpt, adv.MIOpt) /\ adv.conditionalStack = s
  BY <1>2, <1>3, AdvanceEffect DEF Same
<1>5. Len(s) # 0
  BY <1>1, <1>2, <1>3 DEF SkipShape
<1>6. PICK r, b : r = PopConditionalLevel(adv) /\ b = s[Len(s)].wasSkipping
  OBVIOUS
<1>7. /\ r \in Lexer
      /\ Len(s) \in Nat \ {0}
      /\ Len(r.conditionalStack) = Len(s) - 1
      /\ \A i \in 1 .. Len(s) - 1 : r.conditionalStack[i] = s[i]
      /\ Last(s) = s[Len(s)] /\ b \in BOOLEAN
  <2>1. s # << >>
    BY <1>5
  <2>2. Last(s) \in PPConditionalInfo /\ Last(s) = s[Len(s)]
    BY <1>3, <2>1, LastFront
  <2>3. b \in BOOLEAN
    BY <1>6, <2>2 DEF PPConditionalInfo
  <2> QED BY <1>3, <1>4, <1>6, <2>1, <2>2, <2>3, PopFacts
<1>8. Rest(adv, r) /\ r.truth = adv.truth /\ r.MIOpt = adv.MIOpt
  BY <1>3, <1>6, PopEffect
<1>9. PICK l : l = lexer'
  OBVIOUS
<1>10. l = [r EXCEPT !.lexingRawMode = b]
  BY <1>2, <1>6, <1>7, <1>9 DEF SkipEndif
<1>11. /\ l \in Lexer /\ l.conditionalStack = r.conditionalStack /\ Rest(r, l)
       /\ l.lexingRawMode = b /\ l.truth = r.truth /\ l.MIOpt = r.MIOpt
  BY <1>7, <1>10 DEF Lexer, Rest
<1>12. Follows(lexer, l, lines) /\ l.file = lexer.file /\ l.truth = lexer.truth
  BY <1>3, <1>4, <1>8, <1>11 DEF Rest
<1>13. Keeps(lexer.MIOpt, l.MIOpt)
  BY <1>4, <1>8, <1>11
<1>14. /\ Len(l.conditionalStack) = Len(s) - 1
       /\ \A i \in 1 .. Len(s) - 1 : l.conditionalStack[i] = s[i]
       /\ l.lexingRawMode <=> lexer.lexingRawMode /\ s[Len(s)].wasSkipping
  BY <1>1, <1>6, <1>7, <1>11
<1>15. LineOK(l, lines)
  BY <1>1, <1>2, <1>3, <1>5, <1>12, <1>13, <1>14, CloseLine
<1> QED BY <1>2, <1>9, <1>12, <1>15

(* The next group of a section that is skipped.                             *)
LEMMA UpdateTopEffect ==
  ASSUME NEW lex \in Lexer, NEW s, s = lex.conditionalStack, Len(s) # 0,
         NEW b \in BOOLEAN, NEW else \in BOOLEAN, NEW l, l = UpdateTop(lex, b, else)
  PROVE  /\ Rest(lex, l) /\ l.truth = lex.truth /\ l.MIOpt = lex.MIOpt
         /\ Len(l.conditionalStack) = Len(s)
         /\ \A i \in 1 .. Len(s) - 1 : l.conditionalStack[i] = s[i]
         /\ l.conditionalStack[Len(s)].ifLoc = s[Len(s)].ifLoc
         /\ l.conditionalStack[Len(s)].wasSkipping = s[Len(s)].wasSkipping
         /\ l.conditionalStack[Len(s)].foundNonSkip = (s[Len(s)].foundNonSkip \/ b)
         /\ l.lexingRawMode = ~b
<1>1. s \in Seq(PPConditionalInfo) /\ s # << >>
  BY DEF Lexer
<1>2. /\ Len(s) \in Nat \ {0} /\ Last(s) = s[Len(s)]
      /\ Front(s) \in Seq(PPConditionalInfo) /\ Len(Front(s)) = Len(s) - 1
      /\ \A i \in 1 .. Len(s) - 1 : Front(s)[i] = s[i]
      /\ Last(s) \in PPConditionalInfo
  BY <1>1, LastFront
<1>3. PICK ci : ci = Divided(Last(s), b, else)
  OBVIOUS
<1>4. /\ ci \in PPConditionalInfo /\ ci.wasSkipping = s[Len(s)].wasSkipping
      /\ ci.ifLoc = s[Len(s)].ifLoc
      /\ ci.foundNonSkip = (s[Len(s)].foundNonSkip \/ b)
  BY <1>2, <1>3 DEF PPConditionalInfo, Divided
<1>5. PICK t : t = Append(Front(s), ci)
  OBVIOUS
<1>6. /\ t \in Seq(PPConditionalInfo) /\ Len(t) = Len(s)
      /\ \A i \in 1 .. Len(s) - 1 : t[i] = s[i]
      /\ t[Len(s)] = ci
  BY <1>2, <1>4, <1>5, AppendLast
<1>7. l = [lex EXCEPT !.conditionalStack = t, !.lexingRawMode = ~b]
  BY <1>3, <1>5 DEF UpdateTop
<1>8. /\ l.conditionalStack = t /\ l.lexingRawMode = ~b
      /\ Rest(lex, l) /\ l.truth = lex.truth /\ l.MIOpt = lex.MIOpt
  BY <1>7 DEF Lexer, Rest
<1> QED BY <1>4, <1>6, <1>8

LEMMA SkipDivideLine ==
  ASSUME IInv, IInv', ReadOK(lexer), SkipElse \/ SkipElif
  PROVE  LineOK(lexer', text[lexer.file]) /\ lexer'.file = lexer.file
<1>1. /\ ~AtEndOfFile /\ lexer.lexingRawMode /\ Divides(CurLine) /\ TypeOK
      /\ lexer' \in Lexer
  BY DEF SkipElse, SkipElif, ReadsSkipped, Reads, IInv, TypeOK, Divides
<1>2. PICK lines, s, adv : /\ lines = text[lexer.file] /\ s = lexer.conditionalStack
                           /\ adv = Advance(lexer)
  OBVIOUS
<1>3. /\ Len(lines) \in Nat /\ lexer.pos \in 1 .. Len(lines) /\ CurLine = lines[lexer.pos]
      /\ Len(s) \in Nat /\ lexer \in Lexer /\ s \in Seq(PPConditionalInfo)
      /\ \A r \in Lexer : r.pos = lexer.pos + 1 => Follows(lexer, r, lines)
      /\ adv \in Lexer /\ Same(lexer, adv) /\ SkipShape(lexer)
      /\ lexer.truth \subseteq 1 .. lexer.pos - 1
  BY <1>1, <1>2, StandingFacts
<1>4. /\ adv.file = lexer.file /\ adv.pos = lexer.pos + 1 /\ adv.truth = lexer.truth
      /\ Keeps(lexer.MIOpt, adv.MIOpt) /\ adv.conditionalStack = s
  BY <1>2, <1>3, AdvanceEffect DEF Same
<1>5. Len(s) # 0
  BY <1>1, <1>2, <1>3 DEF SkipShape
<1>6. PICK ci : ci = Last(s) /\ ci = s[Len(s)]
  BY DEF Last
<1>7. ci \in PPConditionalInfo /\ ci.wasSkipping \in BOOLEAN /\ ci.foundNonSkip \in BOOLEAN
  <2>1. s[Len(s)] \in PPConditionalInfo
    BY <1>3, <1>5
  <2> QED BY <1>6, <2>1 DEF PPConditionalInfo
<1>8. PICK l : l = lexer'
  OBVIOUS
<1>9. lexer.lexingRawMode = TRUE /\ adv.lexingRawMode = TRUE
  BY <1>1, <1>3 DEF Same, Lexer
<1>10. ASSUME NEW lex \in Lexer, NEW b \in BOOLEAN, NEW else \in BOOLEAN,
              l = UpdateTop(lex, b, else),
              Same(adv, lex), Rest(adv, lex), Keeps(lexer.MIOpt, lex.MIOpt),
              lexer.truth \subseteq lex.truth, lex.truth \subseteq lexer.truth \cup {lexer.pos},
              ~ci.wasSkipping /\ ~ci.foundNonSkip => (Holds(lines, lex.truth, lexer.pos) <=> b),
              b => ~ci.wasSkipping /\ ~ci.foundNonSkip
       PROVE  LineOK(l, lines) /\ l.file = lexer.file
  <2>1. lex.conditionalStack = s
    BY <1>4, <1>10 DEF Same
  <2>2. /\ Rest(lex, l) /\ l.truth = lex.truth /\ l.MIOpt = lex.MIOpt
        /\ Len(l.conditionalStack) = Len(s)
        /\ \A i \in 1 .. Len(s) - 1 : l.conditionalStack[i] = s[i]
        /\ l.conditionalStack[Len(s)].ifLoc = s[Len(s)].ifLoc
        /\ l.conditionalStack[Len(s)].wasSkipping = s[Len(s)].wasSkipping
        /\ l.conditionalStack[Len(s)].foundNonSkip = (s[Len(s)].foundNonSkip \/ b)
        /\ l.lexingRawMode = ~b
    BY <1>5, <1>10, <2>1, UpdateTopEffect
  <2>3. Regrouped(lexer, l, b)
    BY <1>1, <1>2, <1>6, <1>10, <2>2 DEF Regrouped
  <2>4. Follows(lexer, l, lines) /\ l.file = lexer.file
    BY <1>1, <1>3, <1>4, <1>8, <1>10, <2>2 DEF Rest
  <2>5. LineOK(l, lines)
    BY <1>1, <1>2, <1>3, <1>5, <1>6, <1>10, <2>2, <2>3, <2>4, DivideLine
  <2> QED BY <2>4, <2>5
<1>11. CASE SkipElse
  <2>1. PICK b : b = (~ci.wasSkipping /\ ~ci.foundNonSkip)
    OBVIOUS
  <2>2. PICK else \in BOOLEAN : else = TRUE
    OBVIOUS
  <2>3. l = UpdateTop(adv, b, else)
    BY <1>2, <1>6, <1>8, <1>11, <2>1, <2>2, Zenon DEF SkipElse
  <2>4. Holds(lines, adv.truth, lexer.pos)
    BY <1>3, <1>11 DEF Holds, SkipElse, ReadsSkipped, Reads
  <2>5. Same(adv, adv) /\ Rest(adv, adv) /\ b \in BOOLEAN
    BY <2>1 DEF Same, Rest
  <2> QED BY <1>2, <1>3, <1>4, <1>8, <1>10, <2>1, <2>3, <2>4, <2>5
<1>12. CASE SkipElif /\ (ci.wasSkipping \/ ci.foundNonSkip)
  <2>1. PICK b : b = FALSE
    OBVIOUS
  <2>2. l = adv
    BY <1>2, <1>6, <1>8, <1>12, Zenon DEF SkipElif
  <2>3. Regrouped(lexer, l, b)
    <3>1. s[Len(s)].foundNonSkip = (s[Len(s)].foundNonSkip \/ b) /\ adv.lexingRawMode = ~b
      BY <1>6, <1>7, <1>9, <2>1
    <3> QED BY <1>2, <1>4, <1>9, <2>1, <2>2, <3>1 DEF Regrouped
  <2>4. Follows(lexer, l, lines) /\ l.file = lexer.file /\ l.truth = lexer.truth
    BY <1>3, <1>4, <2>2
  <2>5. /\ Keeps(lexer.MIOpt, l.MIOpt) /\ Divides(lines[lexer.pos]) /\ b \in BOOLEAN
        /\ ~(~Last(s).wasSkipping /\ ~Last(s).foundNonSkip)
    BY <1>1, <1>3, <1>4, <1>6, <1>12, <2>1, <2>2
  <2>6. LineOK(l, lines)
    BY <1>1, <1>2, <1>3, <1>5, <2>3, <2>4, <2>5, DivideLine
  <2> QED BY <1>2, <1>8, <2>4, <2>6
<1>13. CASE SkipElif /\ ~(ci.wasSkipping \/ ci.foundNonSkip)
  <2>1. PICK e : e = CurLine.cond
    OBVIOUS
  <2>2. PICK b, else : b = Evaluate(e) /\ else = FALSE
    OBVIOUS
  <2>3. PICK v : v = Evaluated(adv, e)
    OBVIOUS
  <2>4. l = UpdateTop(v, b, else)
    BY <1>2, <1>6, <1>8, <1>13, <2>1, <2>2, <2>3, Zenon DEF SkipElif
  <2>5. CurLine.op = "elif"
    BY <1>13 DEF SkipElif, ReadsSkipped, Reads
  <2>6. e \in Expr /\ b \in BOOLEAN /\ else \in BOOLEAN
    BY <1>1, <2>1, <2>2, <2>5, LineFacts, ExprFacts
  <2>7. v \in Lexer /\ Same(adv, v)
    BY <1>3, <2>3, <2>6, EvaluatedFacts
  <2>8. /\ Rest(adv, v)
        /\ v.truth = IF Evaluate(e) THEN adv.truth \cup {lexer.pos} ELSE adv.truth
        /\ v.MIOpt.theMacro = adv.MIOpt.theMacro
        /\ v.MIOpt.readAnyTokens = adv.MIOpt.readAnyTokens
    BY <1>3, <2>3, EvaluatedEffect
  <2>9. Keeps(lexer.MIOpt, v.MIOpt)
    BY <1>4, <2>8 DEF Keeps
  <2>10. /\ lexer.truth \subseteq v.truth /\ v.truth \subseteq lexer.truth \cup {lexer.pos}
         /\ lexer.pos \in v.truth <=> b
    BY <1>3, <1>4, <2>2, <2>8
  <2>11. Holds(lines, v.truth, lexer.pos) <=> b
    BY <1>3, <2>5, <2>10 DEF Holds
  <2> QED BY <1>2, <1>8, <1>10, <1>13, <2>4, <2>6, <2>7, <2>8, <2>9, <2>10, <2>11
<1> QED BY <1>11, <1>12, <1>13

-----------------------------------------------------------------------------
(* The invariant: every lexer on the include stack is right for its text,   *)
(* and a recorded controlling macro is the file's include guard.            *)
Recorded(f) ==
  NoNameless(text[f]) =>
    info[f].controllingMacro \in {None, GuardMacro(text[f])}

TextInv ==
  /\ ReadOK(lexer)
  /\ \A i \in 1 .. Len(includeMacroStack) : ReadOK(includeMacroStack[i])
  /\ \A f \in Files : Recorded(f)

(* A file that has not been read yet.                                       *)
LEMMA NewLexerOK ==
  ASSUME NEW f \in Files, NEW lines, Len(lines) \in Nat
  PROVE  LineOK(NewLexer(f), lines) /\ NewLexer(f).file = f
<1> DEFINE l == NewLexer(f)
<1>1. /\ l.file = f /\ l.pos = 1 /\ l.conditionalStack = << >> /\ l.lexingRawMode = FALSE
      /\ l.MIOpt = Fresh /\ l.truth = {}
  BY DEF NewLexer, Fresh
<1>2. Entries(lines, 1, << >>)
  <2>1. Depth(lines)[0] = 0 /\ 1 - 1 = 0 /\ Len(<< >>) = 0
    BY DepthFacts
  <2>2. Enclosing(lines, 1) = {}
    BY DEF Enclosing
  <2>3. {<< >>[i].ifLoc : i \in 1 .. 0} = {}
    OBVIOUS
  <2> QED BY <2>1, <2>2, <2>3 DEF Entries
<1>3. AgreeAt(lines, 1, << >>, FALSE, {})
  BY <1>2 DEF AgreeAt
<1>4. MIOptOK(lines, 1, {}, Fresh)
  BY DEF MIOptOK, Recognised, GuardOK, Fresh
<1>5. 1 \in 1 .. Len(lines) + 1
  OBVIOUS
<1> HIDE DEF l
<1>6. LineOK(l, lines)
  BY <1>1, <1>3, <1>4, <1>5 DEF LineOK
<1> QED BY <1>1, <1>6 DEF l

LEMMA TextInvInit == ASSUME Init PROVE TextInv
<1>1. IInv
  BY IInvInit
<1>2. /\ lexer = NewLexer(MainFile) /\ MainFile \in Files /\ Len(includeMacroStack) = 0
      /\ \A f \in Files : info[f].controllingMacro = None
  BY FilesAssumption DEF Init
<1>3. Len(text[MainFile]) \in Nat
  BY <1>1, <1>2 DEF IInv, TypeOK
<1>4. ReadOK(lexer)
  BY <1>2, <1>3, NewLexerOK DEF ReadOK
<1> QED BY <1>2, <1>4 DEF TextInv, Recorded

(* A step of the current lexer within its file.                             *)
LEMMA LineInv ==
  ASSUME IInv, TextInv,
         LineOK(lexer', text[lexer.file]), lexer'.file = lexer.file,
         UNCHANGED <<text, includeMacroStack>>,
         \A f \in Files : info'[f].controllingMacro = info[f].controllingMacro
  PROVE  TextInv'
<1>1. ReadOK(lexer)'
  BY DEF ReadOK
<1>2. (\A i \in 1 .. Len(includeMacroStack) : ReadOK(includeMacroStack[i]))'
  BY DEF TextInv, ReadOK
<1>3. (\A f \in Files : Recorded(f))'
  BY DEF TextInv, Recorded
<1> QED BY <1>1, <1>2, <1>3 DEF TextInv

(* The steps that read a line and stay in the file.                         *)
LEMMA LineRead ==
  ASSUME IInv, IInv', TextInv,
         \/ ReadText \/ HandleDefineDirective \/ HandleUndefDirective
         \/ HandleIfdefDirective \/ HandleIfdefNoName \/ HandleIfDirective
         \/ HandleEndifDirective \/ HandleElseDirective \/ HandleElifDirective
         \/ SkipLine \/ SkipIf \/ SkipEndif \/ SkipElse \/ SkipElif
  PROVE  /\ LineOK(lexer', text[lexer.file]) /\ lexer'.file = lexer.file
         /\ UNCHANGED <<text, includeMacroStack, info, once>>
<1>1. /\ ReadOK(lexer) /\ ~AtEndOfFile
      /\ UNCHANGED <<text, includeMacroStack, info, once>>
  BY DEF TextInv, ReadText, HandleDefineDirective, HandleUndefDirective,
         HandleIfdefDirective, HandleIfdefNoName, HandleIfDirective,
         HandleEndifDirective, HandleElseDirective, HandleElifDirective,
         SkipLine, SkipIf, SkipEndif, SkipElse, SkipElif, ReadsLive, ReadsSkipped, Reads
<1>2. ASSUME \/ ReadText \/ HandleDefineDirective \/ HandleUndefDirective \/ SkipLine
      PROVE  lexer' = Advance(lexer) /\ ~Opens(CurLine)
             /\ CurLine.op \notin {"endif", "else", "elif"}
  BY <1>2 DEF ReadText, HandleDefineDirective, HandleUndefDirective, SkipLine,
              ReadsLive, ReadsSkipped, Reads, Opens
<1>3. ASSUME HandleEndifDirective \/ HandleElseDirective \/ HandleElifDirective,
             TopLevel(lexer)
      PROVE  lexer' = Advance(lexer) /\ ~Opens(CurLine)
  BY <1>3 DEF HandleEndifDirective, HandleElseDirective, HandleElifDirective,
              ReadsLive, Reads, Opens
<1>4. LineOK(lexer', text[lexer.file]) /\ lexer'.file = lexer.file
  <2>1. CASE ReadText \/ HandleDefineDirective \/ HandleUndefDirective \/ SkipLine
    BY <1>1, <1>2, <2>1, AdvanceLine
  <2>2. CASE HandleIfdefDirective
    BY <1>1, <2>2, IfdefLine
  <2>3. CASE HandleIfdefNoName
    BY <1>1, <2>3, NoNameLine
  <2>4. CASE HandleIfDirective
    BY <1>1, <2>4, IfLine
  <2>5. CASE HandleEndifDirective \/ HandleElseDirective \/ HandleElifDirective
    <3>1. CASE TopLevel(lexer)
      BY <1>1, <1>3, <2>5, <3>1, AdvanceLine
    <3>2. CASE ~TopLevel(lexer)
      BY <1>1, <2>5, <3>2, EndifLine, DivideLive
    <3> QED BY <3>1, <3>2
  <2>6. CASE SkipIf
    BY <1>1, <2>6, SkipIfLine
  <2>7. CASE SkipEndif
    BY <1>1, <2>7, SkipEndifLine
  <2>8. CASE SkipElse \/ SkipElif
    BY <1>1, <2>8, SkipDivideLine
  <2> QED BY <2>1, <2>2, <2>3, <2>4, <2>5, <2>6, <2>7, <2>8
<1> QED BY <1>1, <1>4

LEMMA LineStep ==
  ASSUME IInv, IInv', TextInv,
         \/ ReadText \/ HandleDefineDirective \/ HandleUndefDirective
         \/ HandleIfdefDirective \/ HandleIfdefNoName \/ HandleIfDirective
         \/ HandleEndifDirective \/ HandleElseDirective \/ HandleElifDirective
         \/ SkipLine \/ SkipIf \/ SkipEndif \/ SkipElse \/ SkipElif
  PROVE  TextInv'
  BY LineRead, LineInv

LEMMA PragmaOnceInv == ASSUME IInv, TextInv, HandlePragmaOnce PROVE TextInv'
<1>1. /\ ReadOK(lexer) /\ ~AtEndOfFile /\ lexer' = Advance(lexer)
      /\ UNCHANGED <<text, includeMacroStack>>
      /\ ~Opens(CurLine) /\ CurLine.op \notin {"endif", "else", "elif"}
  BY DEF TextInv, HandlePragmaOnce, ReadsLive, Reads, Opens
<1>2. LineOK(lexer', text[lexer.file]) /\ lexer'.file = lexer.file
  BY <1>1, AdvanceLine
<1>3. \A f \in Files : info'[f].controllingMacro = info[f].controllingMacro
  <2>1. info \in [Files -> HeaderFileInfo]
    BY DEF IInv, TypeOK
  <2>2. info' \in {info, [info EXCEPT ![lexer.file].isImport = TRUE]}
    BY DEF HandlePragmaOnce
  <2> QED BY <2>1, <2>2 DEF HeaderFileInfo
<1> QED BY <1>1, <1>2, <1>3, LineInv

LEMMA IncludeInv == ASSUME IInv, TextInv, HandleIncludeDirective PROVE TextInv'
<1>1. /\ ReadOK(lexer) /\ ~AtEndOfFile /\ text' = text /\ TypeOK
      /\ CurLine.op \in {"include", "import"}
      /\ ~Opens(CurLine) /\ CurLine.op \notin {"endif", "else", "elif"}
  BY DEF TextInv, IInv, HandleIncludeDirective, ReadsLive, Reads, Opens
<1>2. PICK f, adv : f = CurLine.file /\ adv = Advance(lexer)
  OBVIOUS
<1>3. f \in Files
  BY <1>1, <1>2, LineFacts
<1>4. LineOK(adv, text[lexer.file]) /\ adv.file = lexer.file /\ adv \in Lexer
  BY <1>1, <1>2, AdvanceLine, AdvanceFacts DEF TypeOK
<1>5. \A g \in Files : info'[g].controllingMacro = info[g].controllingMacro
  <2>1. info \in [Files -> HeaderFileInfo]
    BY <1>1 DEF TypeOK
  <2>2. PICK isImport : info' \in {info, [info EXCEPT ![f] = IncludedInfo(f, isImport)]}
    BY <1>2 DEF HandleIncludeDirective
  <2>3. IncludedInfo(f, isImport).controllingMacro = info[f].controllingMacro
    BY <1>3, <2>1 DEF IncludedInfo, HeaderFileInfo
  <2> QED BY <1>3, <2>1, <2>2, <2>3
<1>6. CASE lexer' = adv /\ includeMacroStack' = includeMacroStack
  BY <1>1, <1>4, <1>5, <1>6, LineInv
<1>7. CASE lexer' = NewLexer(f) /\ includeMacroStack' = Append(includeMacroStack, adv)
  <2>1. Len(text[f]) \in Nat
    BY <1>1, <1>3 DEF TypeOK
  <2>2. ReadOK(lexer)'
    BY <1>1, <1>3, <1>7, <2>1, NewLexerOK DEF ReadOK
  <2>3. PICK s, t : s = includeMacroStack /\ t = includeMacroStack'
    OBVIOUS
  <2>4. /\ Len(s) \in Nat /\ Len(t) = Len(s) + 1 /\ t[Len(s) + 1] = adv
        /\ \A i \in 1 .. Len(s) : t[i] = s[i]
    BY <1>1, <1>4, <1>7, <2>3, AppendLast DEF TypeOK
  <2>5. ASSUME NEW i \in 1 .. Len(t) PROVE LineOK(t[i], text[t[i].file])
    <3>1. CASE i = Len(s) + 1
      BY <1>4, <2>4, <3>1
    <3>2. CASE i \in 1 .. Len(s)
      BY <2>3, <2>4, <3>2 DEF TextInv, ReadOK
    <3> QED BY <2>4, <3>1, <3>2
  <2>6. (\A i \in 1 .. Len(includeMacroStack) : ReadOK(includeMacroStack[i]))'
    BY <1>1, <2>3, <2>5 DEF ReadOK
  <2>7. (\A g \in Files : Recorded(g))'
    BY <1>1, <1>5 DEF TextInv, Recorded
  <2> QED BY <2>2, <2>6, <2>7 DEF TextInv
<1> QED BY <1>2, <1>6, <1>7 DEF HandleIncludeDirective

(* At its end a lexer is right whatever its stack holds.                    *)
LEMMA AtEndOK ==
  ASSUME NEW lines, Len(lines) \in Nat, NEW lex, LineOK(lex, lines),
         ~(lex.pos <= Len(lines)), NEW l,
         l.pos = lex.pos, l.truth = lex.truth, l.MIOpt = lex.MIOpt
  PROVE  LineOK(l, lines) /\ lex.pos = Len(lines) + 1
<1>1. lex.pos = Len(lines) + 1
  BY DEF LineOK
<1> QED BY <1>1 DEF LineOK

LEMMA SkipEndOfFileInv == ASSUME IInv, TextInv, SkipEndOfFile PROVE TextInv'
<1>1. lexer \in Lexer /\ Len(text[lexer.file]) \in Nat
  BY DEF IInv, TypeOK, Lexer
<1>2. /\ lexer'.pos = lexer.pos /\ lexer'.truth = lexer.truth /\ lexer'.MIOpt = lexer.MIOpt
      /\ lexer'.file = lexer.file
  BY <1>1 DEF SkipEndOfFile, EndSkipping, Lexer
<1>3. LineOK(lexer, text[lexer.file]) /\ ~(lexer.pos <= Len(text[lexer.file]))
  BY <1>1 DEF TextInv, ReadOK, SkipEndOfFile, AtEndOfFile, Lexer
<1>4. LineOK(lexer', text[lexer.file])
  BY <1>1, <1>2, <1>3, AtEndOK
<1> QED BY <1>2, <1>4, LineInv DEF SkipEndOfFile

(* What is recorded at the end of a file is its guard.                      *)
LEMMA GuardIsRecorded ==
  ASSUME NEW lines, Len(lines) \in Nat, NEW truth, NEW opt,
         GuardOK(lines, Len(lines) + 1, truth, opt)
  PROVE  GetControllingMacroAtEndOfFile(opt) \in {None, GuardMacro(lines)}
<1> SUFFICES ASSUME opt.theMacro # None, ~opt.readAnyTokens
             PROVE  GuardMacro(lines) = opt.theMacro
  BY DEF GetControllingMacroAtEndOfFile
<1>1. (Len(lines) + 1) - 1 = Len(lines)
  OBVIOUS
<1>2. /\ GuardOf(lines[1]) = opt.theMacro
      /\ Len(lines) >= 2 /\ lines[Len(lines)].op = "endif"
      /\ Guarded(lines, Len(lines)) /\ Enclosing(lines, Len(lines)) = {1}
  BY <1>1 DEF GuardOK
<1> QED BY <1>2, Zenon DEF GuardMacro, Guarded

LEMMA EndOfFileInv == ASSUME IInv, TextInv, LexEndOfFile PROVE TextInv'
<1>1. PICK lines : lines = text[lexer.file]
  OBVIOUS
<1>2. /\ lexer \in Lexer /\ Len(lines) \in Nat /\ text' = text /\ TypeOK
      /\ lexer.file \in Files
  BY <1>1 DEF IInv, TypeOK, Lexer, LexEndOfFile
<1>3. LineOK(lexer, lines) /\ ~(lexer.pos <= Len(lines))
  BY <1>1, <1>2 DEF TextInv, ReadOK, LexEndOfFile, AtEndOfFile, Lexer
<1>4. lexer.pos = Len(lines) + 1
  BY <1>2, <1>3, AtEndOK
<1>5. (\A f \in Files : Recorded(f))'
  <2>1. PICK m : m = GetControllingMacroAtEndOfFile(lexer.MIOpt)
    OBVIOUS
  <2>2. info' = IF m = None THEN info ELSE [info EXCEPT ![lexer.file].controllingMacro = m]
    BY <2>1, Zenon DEF LexEndOfFile
  <2>3. NoNameless(lines) => m \in {None, GuardMacro(lines)}
    BY <1>2, <1>3, <1>4, <2>1, GuardIsRecorded DEF LineOK, MIOptOK
  <2>4. ASSUME NEW f \in Files, NoNameless(text[f])
        PROVE  info'[f].controllingMacro \in {None, GuardMacro(text[f])}
    <3>1. info[f].controllingMacro \in {None, GuardMacro(text[f])}
      BY <2>4 DEF TextInv, Recorded
    <3>2. info \in [Files -> HeaderFileInfo]
      BY <1>2 DEF TypeOK
    <3>3. info'[f].controllingMacro \in
            {info[f].controllingMacro} \cup (IF f = lexer.file THEN {m} ELSE {})
      BY <1>2, <2>2, <3>2 DEF HeaderFileInfo
    <3> QED BY <1>1, <2>3, <2>4, <3>1, <3>3
  <2> QED BY <1>2, <2>4 DEF Recorded
<1>6. CASE includeMacroStack = << >>
  <2>1. lexer' = [lexer EXCEPT !.conditionalStack = << >>] /\ includeMacroStack' = includeMacroStack
    BY <1>6 DEF LexEndOfFile
  <2>2. /\ lexer'.pos = lexer.pos /\ lexer'.truth = lexer.truth /\ lexer'.MIOpt = lexer.MIOpt
        /\ lexer'.file = lexer.file
    BY <1>2, <2>1 DEF Lexer
  <2>3. LineOK(lexer', lines)
    BY <1>2, <1>3, <2>2, AtEndOK
  <2>4. ReadOK(lexer)'
    BY <1>1, <1>2, <2>2, <2>3 DEF ReadOK
  <2>5. (\A i \in 1 .. Len(includeMacroStack) : ReadOK(includeMacroStack[i]))'
    BY <1>2, <2>1 DEF TextInv, ReadOK
  <2> QED BY <1>5, <2>4, <2>5 DEF TextInv
<1>7. CASE includeMacroStack # << >>
  <2>1. PICK s, t : s = includeMacroStack /\ t = includeMacroStack'
    OBVIOUS
  <2>2. lexer' = Last(s) /\ t = Front(s)
    BY <1>7, <2>1 DEF LexEndOfFile
  <2>3. /\ Len(s) \in Nat \ {0} /\ Last(s) = s[Len(s)] /\ Len(t) = Len(s) - 1
        /\ \A i \in 1 .. Len(s) - 1 : t[i] = s[i]
    BY <1>2, <1>7, <2>1, <2>2, LastFront DEF TypeOK
  <2>4. \A i \in 1 .. Len(s) : LineOK(s[i], text[s[i].file])
    BY <2>1 DEF TextInv, ReadOK
  <2>5. ReadOK(lexer)'
    BY <1>2, <2>2, <2>3, <2>4 DEF ReadOK
  <2>6. \A i \in 1 .. Len(t) : LineOK(t[i], text[t[i].file])
    BY <2>3, <2>4
  <2>7. (\A i \in 1 .. Len(includeMacroStack) : ReadOK(includeMacroStack[i]))'
    BY <1>2, <2>1, <2>6 DEF ReadOK
  <2> QED BY <1>5, <2>5, <2>7 DEF TextInv
<1> QED BY <1>6, <1>7

LEMMA TextInvNext == ASSUME IInv, IInv', TextInv, [Next]_vars PROVE TextInv'
<1>1. CASE UNCHANGED vars
  BY <1>1 DEF vars, TextInv, ReadOK, Recorded
<1>2. CASE Next
  BY <1>2, LineStep, PragmaOnceInv, IncludeInv, EndOfFileInv, SkipEndOfFileInv DEF Next
<1> QED BY <1>1, <1>2

LEMMA TextInvariance == Spec => []TextInv
<1>1. Init => TextInv
  BY TextInvInit
<1>2. IInv /\ IInv' /\ TextInv /\ [Next]_vars => TextInv'
  BY TextInvNext
<1> QED BY <1>1, <1>2, Invariance, PTL DEF Spec

-----------------------------------------------------------------------------
(* Whatever the files contain, the lexer is in raw mode exactly in the      *)
(* groups that the standard does not select.                                *)
THEOREM SelectionCorrect == Spec => []OnlySelectedGroupsAreRead
<1>1. IInv /\ TextInv => OnlySelectedGroupsAreRead
  <2> SUFFICES ASSUME IInv, TextInv, NEW lex \in Lexers, lex.pos <= Len(text[lex.file])
               PROVE  lex.lexingRawMode <=> ~Live(text[lex.file], lex.truth, lex.pos)
    BY DEF OnlySelectedGroupsAreRead
  <2>1. lex \in Lexer /\ SkipShape(lex) /\ ReadOK(lex)
    BY DEF IInv, TypeOK, SkippingAssertions, TextInv, Lexers
  <2>2. /\ lex.conditionalStack \in Seq(PPConditionalInfo) /\ lex.pos \in Nat
        /\ lex.lexingRawMode \in BOOLEAN
    BY <2>1 DEF Lexer
  <2>3. AgreeAt(text[lex.file], lex.pos, lex.conditionalStack, lex.lexingRawMode, lex.truth)
    BY <2>1 DEF ReadOK, LineOK
  <2>4. Shape(lex.conditionalStack, lex.lexingRawMode)
    BY <2>1, SkipShapeIsShape DEF SkipIsShape
  <2> QED BY <2>2, <2>3, <2>4, AgreeIsLive
<1> QED BY <1>1, Invariance, TextInvariance, PTL

(* A file with an include guard whose macro is defined has no effect.       *)
LEMMA GuardHasNoEffect ==
  ASSUME NEW lines, Len(lines) \in Nat, NEW m, m # None, GuardMacro(lines) = m,
         macros[m] # None
  PROVE  HasNoEffect(lines)
<1>1. /\ Len(lines) >= 2 /\ lines[Len(lines)].op = "endif" /\ GuardOf(lines[1]) = m
      /\ \A n \in 2 .. Len(lines) : Guarded(lines, n)
  BY GuardMacroFacts
<1>2. \/ lines[1].op = "ifndef" /\ lines[1].macro = m
      \/ lines[1].op = "if" /\ lines[1].cond.kind = "notdefined" /\ lines[1].cond.macro = m
  BY <1>1 DEF GuardOf
<1>3. 1 \notin TruthNow(lines) /\ lines[1].op # "else" /\ Opens(lines[1])
  BY <1>2 DEF TruthNow, Opens, Evaluate, Expansion
<1>4. ASSUME NEW n \in 2 .. Len(lines) PROVE ~Live(lines, TruthNow(lines), n)
  <2>1. Guarded(lines, n) /\ n \in Nat /\ 1 \in 1 .. n - 1
    BY <1>1
  <2>2. IsLast(Groups(lines, 1, n), 1) /\ 1 \in Enclosing(lines, n)
    BY <2>1 DEF Guarded, IsLast
  <2>3. PICK truth : truth = TruthNow(lines)
    OBVIOUS
  <2>4. ~Holds(lines, truth, 1)
    BY <1>3, <2>3 DEF Holds
  <2>5. ~Selected(lines, truth, 1, n)
    BY <2>1, <2>2, <2>4, SelectedByLast
  <2> QED BY <2>2, <2>3, <2>5 DEF Live
<1>5. \A n \in 1 .. Len(lines) : n = 1 \/ n \in 2 .. Len(lines)
  OBVIOUS
<1> QED BY <1>3, <1>4, <1>5 DEF HasNoEffect

(* When every #ifdef and #ifndef of the files names a macro, skipping an    *)
(* #include because the controlling macro is defined loses nothing.         *)
THEOREM OptimizationIsInvisible ==
  Spec => []((\A f \in Files : NoNameless(text[f])) => GuardedFilesHaveNoEffect)
<1>1. IInv /\ TextInv => ((\A f \in Files : NoNameless(text[f])) => GuardedFilesHaveNoEffect)
  <2> SUFFICES ASSUME IInv, TextInv, NEW f \in Files, NoNameless(text[f]),
                      NEW m, m = info[f].controllingMacro, m # None, macros[m] # None
               PROVE  HasNoEffect(text[f])
    BY DEF GuardedFilesHaveNoEffect
  <2>1. Len(text[f]) \in Nat
    BY DEF IInv, TypeOK
  <2>2. GuardMacro(text[f]) = m
    BY DEF TextInv, Recorded
  <2> QED BY <2>1, <2>2, GuardHasNoEffect
<1> QED BY <1>1, Invariance, TextInvariance, PTL

(* The guard of a file that was read through an open guard is recorded.     *)
THEOREM GuardsRecognised == Spec => GuardsAreRecognised
<1>1. ASSUME IInv, TextInv, LexEndOfFile, 1 \in lexer.truth,
             GuardMacro(text[lexer.file]) # None
      PROVE  info'[lexer.file].controllingMacro = GuardMacro(text[lexer.file])
  <2>1. PICK lines : lines = text[lexer.file]
    OBVIOUS
  <2>2. /\ lexer \in Lexer /\ Len(lines) \in Nat /\ lexer.file \in Files
        /\ info \in [Files -> HeaderFileInfo]
    BY <1>1, <2>1 DEF IInv, TypeOK, Lexer
  <2>3. LineOK(lexer, lines) /\ ~(lexer.pos <= Len(lines))
    BY <1>1, <2>1, <2>2 DEF TextInv, ReadOK, LexEndOfFile, AtEndOfFile, Lexer
  <2>4. lexer.pos = Len(lines) + 1
    BY <2>2, <2>3, AtEndOK
  <2>5. Len(lines) >= 2
    BY <1>1, <2>1, <2>2, GuardMacroFacts
  <2>6. Recognised(lines, lexer.pos, lexer.truth, lexer.MIOpt)
    BY <2>3 DEF LineOK, MIOptOK
  <2>7. lexer.MIOpt.theMacro = GuardMacro(lines) /\ ~lexer.MIOpt.readAnyTokens
    BY <1>1, <2>1, <2>2, <2>4, <2>5, <2>6 DEF Recognised
  <2>8. PICK m : m = GetControllingMacroAtEndOfFile(lexer.MIOpt)
    OBVIOUS
  <2>9. m = GuardMacro(lines) /\ m # None
    BY <1>1, <2>1, <2>7, <2>8 DEF GetControllingMacroAtEndOfFile
  <2>10. info' = [info EXCEPT ![lexer.file].controllingMacro = m]
    BY <1>1, <2>8, <2>9 DEF LexEndOfFile
  <2> QED BY <2>1, <2>2, <2>9, <2>10 DEF HeaderFileInfo
<1>2. IInv /\ TextInv =>
        [LexEndOfFile /\ 1 \in lexer.truth /\ GuardMacro(text[lexer.file]) # None
         => info'[lexer.file].controllingMacro = GuardMacro(text[lexer.file])]_vars
  BY <1>1
<1> QED BY <1>2, Invariance, TextInvariance, PTL DEF GuardsAreRecognised

-----------------------------------------------------------------------------
(* Files that are read once. The counter of the inclusions of a file is an  *)
(* unsigned short, and an #import of a file that was read is told from the  *)
(* first by the counter being zero: what follows is about executions in     *)
(* which it never wraps around.                                             *)
CountersGrow == \A f \in Files : info'[f].numIncludes >= info[f].numIncludes

Counted(f) == info[f].numIncludes # 0

CountOK ==
  /\ \A lex \in Lexers : Counted(lex.file)
  /\ \A f \in Files : info[f].controllingMacro # None => Counted(f)
  /\ \A f \in once : info[f].isImport /\ Counted(f)

(* Nothing that was counted or imported is forgotten, and files that get a  *)
(* controlling macro are being read.                                        *)
Remembers ==
  \A f \in Files :
    /\ Counted(f) => Counted(f)'
    /\ info[f].isImport => info'[f].isImport
    /\ info'[f].controllingMacro # None =>
         info[f].controllingMacro # None \/ f = lexer.file

LEMMA LexersTyped == ASSUME TypeOK PROVE \A lex \in Lexers : lex \in Lexer /\ lex.file \in Files
<1>1. lexer \in Lexer /\ \A i \in 1 .. Len(includeMacroStack) : includeMacroStack[i] \in Lexer
  BY DEF TypeOK
<1> QED BY <1>1 DEF Lexers, Lexer

(* A step that adds no lexer of another file and no file that is read once. *)
LEMMA CountKept ==
  ASSUME IInv, CountOK, Remembers, once' = once,
         \A l \in Lexers' : \E lex \in Lexers : l.file = lex.file
  PROVE  CountOK'
<1>1. lexer \in Lexers /\ \A lex \in Lexers : lex.file \in Files
  BY LexersTyped DEF IInv, Lexers
<1>2. once \subseteq Files
  BY DEF IInv, TypeOK
<1>3. ASSUME NEW l \in Lexers' PROVE Counted(l.file)'
  BY <1>1, <1>3 DEF CountOK, Remembers
<1> QED BY <1>1, <1>2, <1>3 DEF CountOK, Remembers

(* The steps that leave the files and the include stack alone.              *)
LEMMA CountPlain ==
  ASSUME IInv, CountOK, lexer'.file = lexer.file,
         UNCHANGED <<includeMacroStack, info, once>>
  PROVE  CountOK'
<1>1. Remembers
  BY DEF Remembers, Counted
<1>2. ASSUME NEW l \in Lexers' PROVE \E lex \in Lexers : l.file = lex.file
  <2>1. l = lexer' \/ \E i \in 1 .. Len(includeMacroStack) : l = includeMacroStack[i]
    BY DEF Lexers
  <2> QED BY <2>1 DEF Lexers
<1> QED BY <1>1, <1>2, CountKept

LEMMA CountInit == ASSUME Init PROVE CountOK
<1>1. MainFile \in Files /\ info \in [Files -> HeaderFileInfo]
  BY FilesAssumption DEF Init, HeaderFileInfo
<1>2. Counted(MainFile) /\ \A f \in Files : info[f].controllingMacro = None
  BY <1>1 DEF Init, Counted
<1>3. \A lex \in Lexers : lex.file = MainFile
  BY DEF Init, Lexers, NewLexer
<1> QED BY <1>2, <1>3 DEF CountOK, Init

LEMMA CountPragmaOnce == ASSUME IInv, CountOK, HandlePragmaOnce PROVE CountOK'
<1>1. /\ lexer \in Lexer /\ lexer.file \in Files /\ info \in [Files -> HeaderFileInfo]
      /\ Counted(lexer.file) /\ once \subseteq Files
  BY DEF IInv, TypeOK, Lexer, CountOK, Lexers
<1>2. lexer'.file = lexer.file /\ UNCHANGED includeMacroStack
  BY <1>1, AdvanceEffect DEF HandlePragmaOnce
<1>3. CASE includeMacroStack = << >>
  BY <1>2, <1>3, CountPlain DEF HandlePragmaOnce
<1>4. CASE includeMacroStack # << >>
  <2>1. /\ info' = [info EXCEPT ![lexer.file].isImport = TRUE]
        /\ once' = once \cup {lexer.file}
    BY <1>4 DEF HandlePragmaOnce
  <2>2. /\ info'[lexer.file].isImport
        /\ \A f \in Files : /\ info'[f].numIncludes = info[f].numIncludes
                            /\ info'[f].controllingMacro = info[f].controllingMacro
                            /\ info[f].isImport => info'[f].isImport
    BY <1>1, <2>1 DEF HeaderFileInfo
  <2>3. \A f \in Files : Counted(f)' <=> Counted(f)
    BY <2>2 DEF Counted
  <2>4. ASSUME NEW l \in Lexers' PROVE Counted(l.file)'
    <3>1. \E lex \in Lexers : l.file = lex.file
      BY <1>2 DEF Lexers
    <3> QED BY <2>3, <3>1, LexersTyped DEF CountOK, IInv
  <2> QED BY <1>1, <2>1, <2>2, <2>3, <2>4 DEF CountOK
<1> QED BY <1>3, <1>4

(* What an #include that is not too deep does to the file it names.         *)
LEMMA IncludeFacts ==
  ASSUME IInv, HandleIncludeDirective, ~TooDeep, CountersGrow
  PROVE  /\ CurLine.file \in Files /\ CurLine.op \in {"include", "import"}
         /\ \A f \in Files :
              /\ Counted(f) => Counted(f)'
              /\ info[f].isImport => info'[f].isImport
              /\ info'[f].controllingMacro = info[f].controllingMacro
         /\ CurLine.op = "import" => info'[CurLine.file].isImport
         /\ ShouldEnterIncludeFile(CurLine.file, CurLine.op = "import") =>
              info'[CurLine.file].numIncludes # 0
<1>1. PICK f : f = CurLine.file
  OBVIOUS
<1>2. PICK isImport \in BOOLEAN : isImport <=> CurLine.op = "import"
  OBVIOUS
<1>3. f \in Files /\ CurLine.op \in {"include", "import"}
  BY <1>1, LineFacts DEF HandleIncludeDirective, ReadsLive, Reads, IInv
<1>4. info \in [Files -> HeaderFileInfo] /\ NumIncludesModulus \in Nat \ {0, 1}
  BY LimitsAssumption DEF IInv, TypeOK
<1>5. PICK n \in Nat : n = info[f].numIncludes
  BY <1>3, <1>4 DEF HeaderFileInfo
<1>6. PICK enter \in BOOLEAN :
         enter <=> ShouldEnterIncludeFile(f, CurLine.op = "import")
  OBVIOUS
<1>7. info' = [info EXCEPT ![f] = IncludedInfo(f, CurLine.op = "import")]
  BY <1>1 DEF HandleIncludeDirective
<1>8. PICK n2 : n2 = IF enter THEN (n + 1) % NumIncludesModulus ELSE n
  OBVIOUS
<1>9. PICK h \in HeaderFileInfo : h = info[f]
  BY <1>3, <1>4
<1>10. PICK j : j = IncludedInfo(f, CurLine.op = "import")
  OBVIOUS
<1>11. /\ j.isImport <=> info[f].isImport \/ CurLine.op = "import"
       /\ j.numIncludes = n2 /\ j.controllingMacro = info[f].controllingMacro
  <2>1. j = [h EXCEPT !.isImport = @ \/ isImport, !.numIncludes = n2]
    BY <1>2, <1>5, <1>6, <1>8, <1>9, <1>10, Zenon DEF IncludedInfo
  <2>2. j.isImport <=> h.isImport \/ isImport
    BY <2>1 DEF HeaderFileInfo
  <2> QED BY <1>2, <1>9, <2>1, <2>2 DEF HeaderFileInfo
<1>12. \A g \in Files : info'[g] = IF g = f THEN j ELSE info[g]
  BY <1>3, <1>4, <1>7, <1>10
<1>13. n2 >= n
  BY <1>3, <1>5, <1>11, <1>12 DEF CountersGrow
<1>14. n2 \in Nat
  BY <1>4, <1>8
<1>15. enter => n2 # 0
  BY <1>4, <1>8, <1>13, <1>14
<1>16. n # 0 => n2 # 0
  BY <1>13, <1>14
<1>17. ASSUME NEW g \in Files
       PROVE  /\ Counted(g) => Counted(g)'
              /\ info[g].isImport => info'[g].isImport
              /\ info'[g].controllingMacro = info[g].controllingMacro
  <2>1. CASE g = f
    BY <1>5, <1>11, <1>12, <1>16, <2>1 DEF Counted
  <2>2. CASE g # f
    BY <1>12, <2>2 DEF Counted
  <2> QED BY <2>1, <2>2
<1>18. /\ CurLine.op = "import" => info'[f].isImport
       /\ enter => info'[f].numIncludes # 0
  BY <1>3, <1>11, <1>12, <1>15
<1> QED BY <1>1, <1>3, <1>6, <1>17, <1>18

LEMMA CountInclude ==
  ASSUME IInv, CountOK, HandleIncludeDirective, CountersGrow
  PROVE  CountOK'
<1>1. lexer \in Lexer /\ includeMacroStack \in Seq(Lexer) /\ once \subseteq Files
  BY DEF IInv, TypeOK
<1>2. PICK adv : adv = Advance(lexer)
  OBVIOUS
<1>3. adv \in Lexer /\ adv.file = lexer.file
  BY <1>1, <1>2, AdvanceFacts, AdvanceEffect
<1>4. CASE TooDeep
  BY <1>2, <1>3, <1>4, CountPlain DEF HandleIncludeDirective
<1>5. CASE ~TooDeep
  <2>1. PICK f : f = CurLine.file
    OBVIOUS
  <2>2. /\ f \in Files /\ CurLine.op \in {"include", "import"}
        /\ \A g \in Files :
             /\ Counted(g) => Counted(g)'
             /\ info[g].isImport => info'[g].isImport
             /\ info'[g].controllingMacro = info[g].controllingMacro
        /\ CurLine.op = "import" => info'[f].isImport
        /\ ShouldEnterIncludeFile(f, CurLine.op = "import") => Counted(f)'
    BY <1>5, <2>1, IncludeFacts DEF Counted
  <2>3. \A lex \in Lexers : lex.file \in Files /\ Counted(lex.file)'
    BY <2>2, LexersTyped DEF CountOK, IInv
  <2>4. ASSUME NEW l \in Lexers'
        PROVE  \/ \E lex \in Lexers : l.file = lex.file
               \/ l.file = f /\ ShouldEnterIncludeFile(f, CurLine.op = "import")
    <3>1. CASE ShouldEnterIncludeFile(f, CurLine.op = "import")
      <4>1. lexer' = NewLexer(f) /\ includeMacroStack' = Append(includeMacroStack, adv)
        BY <1>2, <1>5, <2>1, <3>1 DEF HandleIncludeDirective
      <4>2. /\ Len(includeMacroStack') = Len(includeMacroStack) + 1
            /\ \A i \in 1 .. Len(includeMacroStack) : includeMacroStack'[i] = includeMacroStack[i]
            /\ includeMacroStack'[Len(includeMacroStack) + 1] = adv
        BY <1>1, <1>3, <4>1, AppendLast
      <4>3. l = lexer' \/ \E i \in 1 .. Len(includeMacroStack') : l = includeMacroStack'[i]
        BY DEF Lexers
      <4>4. CASE l = lexer'
        BY <3>1, <4>1, <4>4 DEF NewLexer
      <4>5. ASSUME NEW i \in 1 .. Len(includeMacroStack'), l = includeMacroStack'[i]
            PROVE  \E lex \in Lexers : l.file = lex.file
        <5>1. CASE i = Len(includeMacroStack) + 1
          BY <1>3, <4>2, <4>5, <5>1 DEF Lexers
        <5>2. CASE i \in 1 .. Len(includeMacroStack)
          BY <4>2, <4>5, <5>2 DEF Lexers
        <5> QED BY <1>1, <4>2, <5>1, <5>2
      <4> QED BY <4>3, <4>4, <4>5
    <3>2. CASE ~ShouldEnterIncludeFile(f, CurLine.op = "import")
      <4>1. lexer' = adv /\ includeMacroStack' = includeMacroStack
        BY <1>2, <1>5, <2>1, <3>2 DEF HandleIncludeDirective
      <4> QED BY <1>3, <4>1 DEF Lexers
    <3> QED BY <3>1, <3>2
  <2>5. \A l \in Lexers' : Counted(l.file)'
    BY <2>2, <2>3, <2>4
  <2>6. CurLine.op = "import" => Counted(f)'
    <3>1. ~ShouldEnterIncludeFile(f, TRUE) => Counted(f)
      BY <2>2 DEF ShouldEnterIncludeFile, Counted, CountOK
    <3> QED BY <2>2, <3>1
  <2>7. once' = IF CurLine.op = "import" THEN once \cup {f} ELSE once
    BY <1>5, <2>1 DEF HandleIncludeDirective
  <2>8. \A g \in once' : g \in once \/ (g = f /\ CurLine.op = "import")
    BY <2>7
  <2> QED BY <1>1, <2>2, <2>5, <2>6, <2>8 DEF CountOK
<1> QED BY <1>4, <1>5

LEMMA CountEndOfFile == ASSUME IInv, CountOK, LexEndOfFile PROVE CountOK'
<1>1. /\ lexer \in Lexer /\ lexer.file \in Files /\ info \in [Files -> HeaderFileInfo]
      /\ Counted(lexer.file) /\ includeMacroStack \in Seq(Lexer)
  BY DEF IInv, TypeOK, Lexer, CountOK, Lexers
<1>2. PICK m : m = GetControllingMacroAtEndOfFile(lexer.MIOpt)
  OBVIOUS
<1>3. \A f \in Files : /\ info'[f].numIncludes = info[f].numIncludes
                       /\ info'[f].isImport <=> info[f].isImport
                       /\ f # lexer.file => info'[f] = info[f]
  <2>1. info' = info \/ info' = [info EXCEPT ![lexer.file].controllingMacro = m]
    BY <1>2 DEF LexEndOfFile
  <2> QED BY <1>1, <2>1 DEF HeaderFileInfo
<1>4. Remembers
  BY <1>3 DEF CountOK, Remembers, Counted
<1>5. ASSUME NEW l \in Lexers' PROVE \E lex \in Lexers : l.file = lex.file
  <2>1. CASE includeMacroStack = << >>
    <3>1. lexer' = [lexer EXCEPT !.conditionalStack = << >>] /\ UNCHANGED includeMacroStack
      BY <2>1 DEF LexEndOfFile
    <3>2. lexer'.file = lexer.file
      BY <1>1, <3>1 DEF Lexer
    <3> QED BY <3>1, <3>2 DEF Lexers
  <2>2. CASE includeMacroStack # << >>
    <3>1. lexer' = Last(includeMacroStack) /\ includeMacroStack' = Front(includeMacroStack)
      BY <2>2 DEF LexEndOfFile
    <3>2. \A i \in 1 .. Len(includeMacroStack) : includeMacroStack[i] \in Lexers
      BY DEF Lexers
    <3>3. lexer' \in Lexers /\ \A i \in 1 .. Len(includeMacroStack') : includeMacroStack'[i] \in Lexers
      BY <1>1, <2>2, <3>1, <3>2, LastFront
    <3> QED BY <3>3 DEF Lexers
  <2> QED BY <2>1, <2>2
<1> QED BY <1>4, <1>5, CountKept DEF LexEndOfFile

LEMMA CountNext ==
  ASSUME IInv, IInv', TextInv, CountOK, [Next]_vars, [CountersGrow]_vars
  PROVE  CountOK'
<1>1. lexer \in Lexer /\ includeMacroStack \in Seq(Lexer)
  BY DEF IInv, TypeOK
<1>2. CASE UNCHANGED vars
  BY <1>2 DEF vars, CountOK, Lexers, Counted
<1>3. CASE HandlePragmaOnce
  BY <1>3, CountPragmaOnce
<1>4. CASE HandleIncludeDirective /\ CountersGrow
  BY <1>4, CountInclude
<1>5. CASE LexEndOfFile
  BY <1>5, CountEndOfFile
<1>6. CASE \/ ReadText \/ HandleDefineDirective \/ HandleUndefDirective
           \/ HandleIfdefDirective \/ HandleIfdefNoName \/ HandleIfDirective
           \/ HandleEndifDirective \/ HandleElseDirective \/ HandleElifDirective
           \/ SkipLine \/ SkipIf \/ SkipEndif \/ SkipElse \/ SkipElif
  BY <1>6, LineRead, CountPlain
<1>7. CASE SkipEndOfFile
  <2>1. lexer'.file = lexer.file
    BY <1>1, <1>7 DEF SkipEndOfFile, EndSkipping, Lexer
  <2> QED BY <1>7, <2>1, CountPlain DEF SkipEndOfFile
<1>8. UNCHANGED vars \/ (Next /\ CountersGrow)
  BY DEF vars
<1> QED BY <1>2, <1>3, <1>4, <1>5, <1>6, <1>7, <1>8 DEF Next

(* Only #include and #import enter a file.                                  *)
LEMMA EntersByInclude ==
  ASSUME IInv, IInv', TextInv, [Next]_vars, Len(includeMacroStack') > Len(includeMacroStack)
  PROVE  HandleIncludeDirective
<1>1. includeMacroStack \in Seq(Lexer)
  BY DEF IInv, TypeOK
<1>2. includeMacroStack' # includeMacroStack
  BY <1>1
<1>3. CASE LexEndOfFile
  <2>1. includeMacroStack # << >> /\ includeMacroStack' = Front(includeMacroStack)
    BY <1>2, <1>3 DEF LexEndOfFile
  <2> QED BY <1>1, <2>1, LastFront
<1>4. CASE SkipEndOfFile \/ HandlePragmaOnce \/ UNCHANGED vars
  BY <1>2, <1>4 DEF SkipEndOfFile, HandlePragmaOnce, vars
<1> QED BY <1>2, <1>3, <1>4, LineRead DEF Next

(* A file that was to be read once is not entered a second time, as long as *)
(* no inclusion counter wraps around.                                       *)
THEOREM OnceIsOnce == Spec /\ [][CountersGrow]_vars => OnceFilesAreNotReentered
<1>1. Init => CountOK
  BY CountInit
<1>2. IInv /\ IInv' /\ TextInv /\ CountOK /\ [Next]_vars /\ [CountersGrow]_vars => CountOK'
  BY CountNext
<1>3. ASSUME IInv, IInv', TextInv, CountOK, [Next]_vars, NEW f \in Files, lexer'.file = f,
             Len(includeMacroStack') > Len(includeMacroStack)
      PROVE  /\ f \notin once
             /\ CurLine.op = "import" => f \notin {lex.file : lex \in Lexers}
  <2>1. HandleIncludeDirective
    BY <1>3, EntersByInclude
  <2>2. PICK g : g = CurLine.file
    OBVIOUS
  <2>3. includeMacroStack' # includeMacroStack
    BY <1>3 DEF IInv, TypeOK
  <2>4. ShouldEnterIncludeFile(g, CurLine.op = "import") /\ lexer' = NewLexer(g)
    BY <2>1, <2>2, <2>3 DEF HandleIncludeDirective
  <2>5. g = f
    BY <1>3, <2>4 DEF NewLexer
  <2>6. IF CurLine.op = "import" THEN ~Counted(f) ELSE ~info[f].isImport
    BY <2>4, <2>5 DEF ShouldEnterIncludeFile, Counted
  <2> QED BY <1>3, <2>6 DEF CountOK
<1>4. IInv /\ IInv' /\ TextInv /\ CountOK /\ [Next]_vars =>
        [\A f \in Files : /\ lexer'.file = f
                          /\ Len(includeMacroStack') > Len(includeMacroStack)
           => /\ f \notin once
              /\ CurLine.op = "import" => f \notin {lex.file : lex \in Lexers}]_vars
  BY <1>3
<1> QED BY <1>1, <1>2, <1>4, Invariance, TextInvariance, PTL
        DEF Spec, OnceFilesAreNotReentered
=============================================================================
