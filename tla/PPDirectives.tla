---------------------------- MODULE PPDirectives ----------------------------
(***************************************************************************)
(* Conditional inclusion and file inclusion of lfort's Preprocessor: the   *)
(* directive handlers of lib/Lex/PPDirectives.cpp, the conditional stack   *)
(* of a PreprocessorLexer, the include-guard state machine of              *)
(* include/lfort/Lex/MultipleIncludeOpt.h and the HeaderFileInfo records   *)
(* that HeaderSearch::ShouldEnterIncludeFile consults.                     *)
(*                                                                         *)
(* A file is a sequence of lines; each action handles one line, the way    *)
(* HandleDirective or the loop of SkipExcludedConditionalBlock does.       *)
(***************************************************************************)
EXTENDS Integers, Sequences, SequencesExt

CONSTANTS
  Files,                       \* the FileEntries
  MainFile,                    \* the primary source file
  Macros,                      \* macro names
  None,                        \* a null IdentifierInfo or MacroInfo
  Texts,                       \* possible contents of the files
  MaxAllowedIncludeStackDepth, \* Preprocessor.h:133
  NumIncludesModulus           \* 2^16: HeaderFileInfo::NumIncludes is a short

(* The expressions after #if, and what a macro may expand to there: a       *)
(* constant, !defined(m) or a macro name.                                   *)
Constant(b)   == [kind |-> "constant", value |-> b]
NotDefined(m) == [kind |-> "notdefined", macro |-> m]
Use(m)        == [kind |-> "use", macro |-> m]

Body == {Constant(b) : b \in BOOLEAN} \cup {NotDefined(m) : m \in Macros}
Expr == Body \cup {Use(m) : m \in Macros}

(* A line.  "ifdef_noname" is an #ifdef or #ifndef with no macro name.      *)
Line == [op : {"text", "else", "endif", "once", "ifdef_noname"}]
          \cup [op : {"ifdef", "ifndef", "undef"}, macro : Macros]
          \cup [op : {"define"}, macro : Macros, body : Body]
          \cup [op : {"if", "elif"}, cond : Expr]
          \cup [op : {"include", "import"}, file : Files]

ASSUME FilesAssumption ==
  /\ MainFile \in Files
  /\ None \notin Macros /\ None \notin Body
  /\ Texts \subseteq [Files -> Seq(Line)]

ASSUME LimitsAssumption ==
  /\ MaxAllowedIncludeStackDepth \in Nat \ {0}
  /\ NumIncludesModulus \in Nat \ {0, 1}

VARIABLES
  text,              \* what each file contains, fixed for the run
  lexer,             \* CurPPLexer: the lexer of the file being read
  includeMacroStack, \* the suspended lexers, outermost first
  macros,            \* the macro table: a body, or None
  info,              \* HeaderSearch::FileInfo
  finished,          \* the end of the primary file has been reached
  diags,             \* diagnostics about conditionals: file, line, kind
  once               \* history: files that #import or #pragma once has named

vars == <<text, lexer, includeMacroStack, macros, info, finished, diags, once>>

PPConditionalInfo ==
  [ifLoc : Nat, wasSkipping : BOOLEAN, foundNonSkip : BOOLEAN, foundElse : BOOLEAN]

MultipleIncludeOpt ==
  [readAnyTokens : BOOLEAN, didMacroExpansion : BOOLEAN, theMacro : Macros \cup {None}]

HeaderFileInfo ==
  [isImport : BOOLEAN, numIncludes : Nat, controllingMacro : Macros \cup {None}]

(* truth is a history variable: the lines whose condition was evaluated to  *)
(* true when this lexer read them.                                          *)
Lexer == [file : Files, pos : Nat \ {0}, conditionalStack : Seq(PPConditionalInfo),
          lexingRawMode : BOOLEAN, MIOpt : MultipleIncludeOpt, truth : SUBSET Nat]

NewLexer(f) ==
  [file |-> f, pos |-> 1, conditionalStack |-> << >>, lexingRawMode |-> FALSE,
   MIOpt |-> [readAnyTokens |-> FALSE, didMacroExpansion |-> FALSE, theMacro |-> None],
   truth |-> {}]

TypeOK ==
  /\ text \in [Files -> Seq(Line)]
  /\ lexer \in Lexer
  /\ includeMacroStack \in Seq(Lexer)
  /\ macros \in [Macros -> Body \cup {None}]
  /\ info \in [Files -> HeaderFileInfo]
  /\ finished \in BOOLEAN
  /\ diags \subseteq Files \X Nat \X {"misplaced", "unterminated"}
  /\ once \subseteq Files

Init ==
  /\ text \in Texts
  /\ lexer = NewLexer(MainFile)
  /\ includeMacroStack = << >>
  /\ macros = [m \in Macros |-> None]
  /\ info = [f \in Files |-> [isImport |-> FALSE, controllingMacro |-> None,
                              numIncludes |-> IF f = MainFile THEN 1 ELSE 0]]
  /\ finished = FALSE
  /\ diags = {}
  /\ once = {}

-----------------------------------------------------------------------------
(* The include-guard state machine.                                         *)

Invalidate(opt) == [opt EXCEPT !.readAnyTokens = TRUE, !.theMacro = None]

ReadToken(opt) == [opt EXCEPT !.readAnyTokens = TRUE]

ExpandedMacro(opt) == [opt EXCEPT !.didMacroExpansion = TRUE]

EnterTopLevelIFNDEF(opt, m) ==
  IF opt.theMacro # None \/ opt.didMacroExpansion
    THEN Invalidate(opt)
    ELSE [opt EXCEPT !.readAnyTokens = TRUE, !.theMacro = m]

EnterTopLevelConditional(opt) == Invalidate(opt)

(* Mutant: the tokens of the guarded group still count as read.             *)
ExitTopLevelConditional_KeepsTokens(opt) ==
  IF opt.theMacro = None THEN Invalidate(opt) ELSE opt

ExitTopLevelConditional(opt) ==
  IF opt.theMacro = None THEN Invalidate(opt)
                         ELSE [opt EXCEPT !.readAnyTokens = FALSE]

GetControllingMacroAtEndOfFile(opt) ==
  IF opt.readAnyTokens THEN None ELSE opt.theMacro

-----------------------------------------------------------------------------
(* The conditional stack.                                                   *)

PushConditionalLevel(lex, loc, was, found, else) ==
  [lex EXCEPT !.conditionalStack =
     Append(@, [ifLoc |-> loc, wasSkipping |-> was,
                foundNonSkip |-> found, foundElse |-> else])]

PopConditionalLevel(lex) == [lex EXCEPT !.conditionalStack = Front(@)]

(* Reading a line, in either mode, hands its tokens to MIOpt.               *)
Advance(lex) == [lex EXCEPT !.pos = @ + 1, !.MIOpt = ReadToken(@)]

TopLevel(lex) == lex.conditionalStack = << >>

SkipExcludedConditionalBlock(lex, loc, found, else) ==
  [PushConditionalLevel(lex, loc, FALSE, found, else) EXCEPT !.lexingRawMode = TRUE]

CurLine == text[lexer.file][lexer.pos]

AtEndOfFile == lexer.pos > Len(text[lexer.file])

Reads(ops) == ~AtEndOfFile /\ CurLine.op \in ops

ReadsLive(ops) == Reads(ops) /\ ~lexer.lexingRawMode
ReadsSkipped(ops) == Reads(ops) /\ lexer.lexingRawMode

Diagnosed(b) == diags' = IF b THEN diags \cup {<<lexer.file, lexer.pos, "misplaced">>}
                              ELSE diags

-----------------------------------------------------------------------------
(* EvaluateDirectiveExpression: the value, the macro X when the expression  *)
(* is equivalent to !defined(X), and whether a macro was expanded.          *)

Expansion(e) == IF e.kind = "use" /\ macros[e.macro] # None THEN macros[e.macro] ELSE e

Evaluate(e) ==
  CASE Expansion(e).kind = "constant"   -> Expansion(e).value
    [] Expansion(e).kind = "notdefined" -> macros[Expansion(e).macro] = None
    [] OTHER                            -> FALSE  \* an identifier left over is 0

IfNDefMacro(e) == IF Expansion(e).kind = "notdefined" THEN Expansion(e).macro ELSE None

(* Mutant: the expansion of a macro in a condition goes unnoticed.          *)
Evaluated_Silently(lex, e) ==
  [lex EXCEPT !.truth = IF Evaluate(e) THEN @ \cup {lexer.pos} ELSE @]

Evaluated(lex, e) ==
  [lex EXCEPT
     !.MIOpt = IF Expansion(e) # e THEN ExpandedMacro(@) ELSE @,
     !.truth = IF Evaluate(e) THEN @ \cup {lexer.pos} ELSE @]

-----------------------------------------------------------------------------
(* Lines read outside skipped groups.                                       *)

ReadText ==
  /\ ReadsLive({"text"})
  /\ lexer' = Advance(lexer)
  /\ UNCHANGED <<text, includeMacroStack, macros, info, finished, diags, once>>

HandleDefineDirective ==
  /\ ReadsLive({"define"})
  /\ macros' = [macros EXCEPT ![CurLine.macro] = CurLine.body]
  /\ lexer' = Advance(lexer)
  /\ UNCHANGED <<text, includeMacroStack, info, finished, diags, once>>

HandleUndefDirective ==
  /\ ReadsLive({"undef"})
  /\ macros' = [macros EXCEPT ![CurLine.macro] = None]
  /\ lexer' = Advance(lexer)
  /\ UNCHANGED <<text, includeMacroStack, info, finished, diags, once>>

(* The group after a condition is entered, or skipped.                      *)
EnterGroup(lex, b) ==
  IF b THEN PushConditionalLevel(lex, lexer.pos, FALSE, TRUE, FALSE)
       ELSE SkipExcludedConditionalBlock(lex, lexer.pos, FALSE, FALSE)

(* candidate: the macro of an #ifndef, or the X of #if !defined(X), when    *)
(* nothing was read before the directive; None when it cannot be a guard.   *)
NoteTopLevel(lex, candidate) ==
  IF ~TopLevel(lex) THEN lex
  ELSE [lex EXCEPT !.MIOpt = IF candidate # None
                               THEN EnterTopLevelIFNDEF(@, candidate)
                               ELSE EnterTopLevelConditional(@)]

HandleIfdefDirective ==
  /\ ReadsLive({"ifdef", "ifndef"})
  /\ LET m == CurLine.macro
         isIfndef == CurLine.op = "ifndef"
         b == isIfndef <=> (macros[m] = None)
         valid == isIfndef /\ ~lexer.MIOpt.readAnyTokens /\ macros[m] = None
         lex == NoteTopLevel(Advance(lexer), IF valid THEN m ELSE None)
     IN lexer' = EnterGroup([lex EXCEPT !.truth = IF b THEN @ \cup {lexer.pos} ELSE @], b)
  /\ UNCHANGED <<text, includeMacroStack, macros, info, finished, diags, once>>

(* Without a macro name the group is skipped and MIOpt is not told.         *)
HandleIfdefNoName ==
  /\ ReadsLive({"ifdef_noname"})
  /\ lexer' = SkipExcludedConditionalBlock(Advance(lexer), lexer.pos, FALSE, FALSE)
  /\ UNCHANGED <<text, includeMacroStack, macros, info, finished, diags, once>>

HandleIfDirective ==
  /\ ReadsLive({"if"})
  /\ LET b == Evaluate(CurLine.cond)
         valid == ~lexer.MIOpt.readAnyTokens /\ b
         lex == Evaluated(Advance(lexer), CurLine.cond)
     IN lexer' = EnterGroup(NoteTopLevel(lex, IF valid THEN IfNDefMacro(CurLine.cond)
                                                       ELSE None), b)
  /\ UNCHANGED <<text, includeMacroStack, macros, info, finished, diags, once>>

HandleEndifDirective ==
  /\ ReadsLive({"endif"})
  /\ Diagnosed(TopLevel(lexer))
  /\ LET lex == PopConditionalLevel(Advance(lexer))
     IN lexer' = IF TopLevel(lexer) THEN Advance(lexer)
                 ELSE IF TopLevel(lex)
                   THEN [lex EXCEPT !.MIOpt = ExitTopLevelConditional(@)]
                   ELSE lex
  /\ UNCHANGED <<text, includeMacroStack, macros, info, finished, once>>

(* Mutant: that a group of the section was read is lost in the push.        *)
SkipRest_ForgetsGroup(lex, ci, else) ==
  SkipExcludedConditionalBlock(NoteTopLevel(PopConditionalLevel(lex), None),
                               ci.ifLoc, FALSE, else)

(* #else and #elif after a group that was read: the rest is skipped.        *)
SkipRest(lex, ci, else) ==
  SkipExcludedConditionalBlock(NoteTopLevel(PopConditionalLevel(lex), None),
                               ci.ifLoc, TRUE, else)

HandleElseDirective ==
  /\ ReadsLive({"else"})
  /\ IF TopLevel(lexer)
       THEN Diagnosed(TRUE) /\ lexer' = Advance(lexer)
       ELSE LET ci == Last(lexer.conditionalStack)
            IN /\ Diagnosed(ci.foundElse)
               /\ lexer' = SkipRest(Advance(lexer), ci, TRUE)
  /\ UNCHANGED <<text, includeMacroStack, macros, info, finished, once>>

HandleElifDirective ==
  /\ ReadsLive({"elif"})
  /\ IF TopLevel(lexer)
       THEN Diagnosed(TRUE) /\ lexer' = Advance(lexer)
       ELSE LET ci == Last(lexer.conditionalStack)
            IN /\ Diagnosed(ci.foundElse)
               /\ lexer' = SkipRest(Advance(lexer), ci, ci.foundElse)
  /\ UNCHANGED <<text, includeMacroStack, macros, info, finished, once>>

HandlePragmaOnce ==
  /\ ReadsLive({"once"})
  /\ lexer' = Advance(lexer)
  /\ IF includeMacroStack = << >>       \* isInPrimaryFile
       THEN UNCHANGED <<info, once>>
       ELSE /\ info' = [info EXCEPT ![lexer.file].isImport = TRUE]
            /\ once' = once \cup {lexer.file}
  /\ UNCHANGED <<text, includeMacroStack, macros, finished, diags>>

-----------------------------------------------------------------------------
(* #include, the Fortran include statement, #import.                        *)

ShouldEnterIncludeFile(f, isImport) ==
  /\ IF isImport THEN info[f].numIncludes = 0 ELSE ~info[f].isImport
  /\ \/ info[f].controllingMacro = None
     \/ macros[info[f].controllingMacro] = None

(* Mutant: isImport is not set.                                             *)
IncludedInfo_ForgetsImport(f, isImport) ==
  [info[f] EXCEPT
     !.numIncludes = IF ShouldEnterIncludeFile(f, isImport)
                       THEN (@ + 1) % NumIncludesModulus ELSE @]

IncludedInfo(f, isImport) ==
  [info[f] EXCEPT
     !.isImport = @ \/ isImport,
     !.numIncludes = IF ShouldEnterIncludeFile(f, isImport)
                       THEN (@ + 1) % NumIncludesModulus ELSE @]

TooDeep == Len(includeMacroStack) = MaxAllowedIncludeStackDepth - 1

HandleIncludeDirective ==
  /\ ReadsLive({"include", "import"})
  /\ LET f == CurLine.file
         isImport == CurLine.op = "import"
     IN IF TooDeep
          THEN /\ lexer' = Advance(lexer)
               /\ UNCHANGED <<includeMacroStack, info, once>>
          ELSE /\ info' = [info EXCEPT ![f] = IncludedInfo(f, isImport)]
               /\ once' = IF isImport THEN once \cup {f} ELSE once
               /\ IF ShouldEnterIncludeFile(f, isImport)
                    THEN /\ includeMacroStack' = Append(includeMacroStack, Advance(lexer))
                         /\ lexer' = NewLexer(f)
                    ELSE /\ lexer' = Advance(lexer)
                         /\ UNCHANGED includeMacroStack
  /\ UNCHANGED <<text, macros, finished, diags>>

(* The end of a file: unterminated conditionals are popped and diagnosed,   *)
(* the controlling macro is recorded, the includer is resumed.              *)
Unterminated(lex) ==
  {<<lex.file, lex.conditionalStack[i].ifLoc, "unterminated">> :
     i \in 1 .. Len(lex.conditionalStack)}

LexEndOfFile ==
  /\ AtEndOfFile /\ ~lexer.lexingRawMode /\ ~finished
  /\ diags' = diags \cup Unterminated(lexer)
  /\ LET m == GetControllingMacroAtEndOfFile(lexer.MIOpt)
     IN info' = IF m = None THEN info
                ELSE [info EXCEPT ![lexer.file].controllingMacro = m]
  /\ IF includeMacroStack = << >>
       THEN /\ finished' = TRUE
            /\ lexer' = [lexer EXCEPT !.conditionalStack = << >>]
            /\ UNCHANGED includeMacroStack
       ELSE /\ lexer' = Last(includeMacroStack)
            /\ includeMacroStack' = Front(includeMacroStack)
            /\ UNCHANGED finished
  /\ UNCHANGED <<text, macros, once>>

-----------------------------------------------------------------------------
(* The loop of SkipExcludedConditionalBlock.                                *)

SkipLine ==
  /\ ReadsSkipped({"text", "define", "undef", "once", "include", "import"})
  /\ lexer' = Advance(lexer)
  /\ UNCHANGED <<text, includeMacroStack, macros, info, finished, diags, once>>

PushSkipped(lex) == PushConditionalLevel(lex, lexer.pos, TRUE, FALSE, FALSE)

SkipIf ==
  /\ ReadsSkipped({"if", "ifdef", "ifndef", "ifdef_noname"})
  /\ lexer' = PushSkipped(Advance(lexer))
  /\ UNCHANGED <<text, includeMacroStack, macros, info, finished, diags, once>>

SkipEndif ==
  /\ ReadsSkipped({"endif"})
  /\ lexer' = [PopConditionalLevel(Advance(lexer)) EXCEPT
                 !.lexingRawMode = Last(lexer.conditionalStack).wasSkipping]
  /\ UNCHANGED <<text, includeMacroStack, macros, info, finished, diags, once>>

(* peekConditionalLevel: the top of the stack is updated in place.          *)
Divided(ci, enter, else) ==
  [ci EXCEPT !.foundNonSkip = ci.foundNonSkip \/ enter,
             !.foundElse = ci.foundElse \/ else]

UpdateTop(lex, enter, else) ==
  LET s == lex.conditionalStack
  IN [lex EXCEPT
        !.conditionalStack = Append(Front(s), Divided(Last(s), enter, else)),
        !.lexingRawMode = ~enter]

(* Mutant: the #else of a section inside the skipped group is read.         *)
SkipElse_InnerToo ==
  /\ ReadsSkipped({"else"})
  /\ LET ci == Last(lexer.conditionalStack)
     IN /\ Diagnosed(ci.foundElse)
        /\ lexer' = UpdateTop(Advance(lexer), ~ci.foundNonSkip, TRUE)
  /\ UNCHANGED <<text, includeMacroStack, macros, info, finished, once>>

SkipElse ==
  /\ ReadsSkipped({"else"})
  /\ LET ci == Last(lexer.conditionalStack)
     IN /\ Diagnosed(ci.foundElse)
        /\ lexer' = UpdateTop(Advance(lexer), ~ci.wasSkipping /\ ~ci.foundNonSkip, TRUE)
  /\ UNCHANGED <<text, includeMacroStack, macros, info, finished, once>>

SkipElif ==
  /\ ReadsSkipped({"elif"})
  /\ LET ci == Last(lexer.conditionalStack)
     IN /\ Diagnosed(ci.foundElse)
        /\ lexer' = IF ci.wasSkipping \/ ci.foundNonSkip THEN Advance(lexer)
                    ELSE UpdateTop(Evaluated(Advance(lexer), CurLine.cond),
                                   Evaluate(CurLine.cond), FALSE)
  /\ UNCHANGED <<text, includeMacroStack, macros, info, finished, once>>

(* Mutant: raw mode survives the end of the file.                           *)
SkipEndOfFile_StaysRaw(lex) == [lex EXCEPT !.conditionalStack = << >>]

EndSkipping(lex) == [lex EXCEPT !.conditionalStack = << >>, !.lexingRawMode = FALSE]

SkipEndOfFile ==
  /\ AtEndOfFile /\ lexer.lexingRawMode
  /\ diags' = diags \cup Unterminated(lexer)
  /\ lexer' = EndSkipping(lexer)
  /\ UNCHANGED <<text, includeMacroStack, macros, info, finished, once>>

-----------------------------------------------------------------------------
Next ==
  \/ ReadText \/ HandleDefineDirective \/ HandleUndefDirective
  \/ HandleIfdefDirective \/ HandleIfdefNoName \/ HandleIfDirective
  \/ HandleEndifDirective \/ HandleElseDirective \/ HandleElifDirective
  \/ HandlePragmaOnce \/ HandleIncludeDirective \/ LexEndOfFile
  \/ SkipLine \/ SkipIf \/ SkipEndif \/ SkipElse \/ SkipElif \/ SkipEndOfFile

Spec == Init /\ [][Next]_vars

(* The parser calls Lex until it is given tok::eof, and a call runs to its  *)
(* end, so the preprocessor never stops in the middle of a file.            *)
FairSpec == Spec /\ WF_vars(Next)
=============================================================================
