----------------------- MODULE PPDirectivesProperties -----------------------
(***************************************************************************)
(* What conditional inclusion and the multiple-include optimization of     *)
(* PPDirectives promise, stated against a declarative reading of a file:   *)
(* which groups of an #if section a line belongs to, and which of them the *)
(* C standard (6.10.1p6) selects.                                          *)
(***************************************************************************)
EXTENDS PPDirectives

(* ---- The structure of a file ------------------------------------------ *)

Opens(line) == line.op \in {"if", "ifdef", "ifndef", "ifdef_noname"}
Divides(line) == line.op \in {"else", "elif"}

(* How many sections are open after the first n lines of a file.            *)
Depth(lines) ==
  LET d[n \in 0 .. Len(lines)] ==
        IF n = 0 THEN 0
        ELSE IF Opens(lines[n]) THEN d[n-1] + 1
        ELSE IF lines[n].op = "endif" /\ d[n-1] > 0 THEN d[n-1] - 1
        ELSE d[n-1]
  IN d

(* The opening lines of the sections that are open just before line n.      *)
Enclosing(lines, n) ==
  LET d == Depth(lines)
  IN {o \in 1 .. n-1 : Opens(lines[o]) /\ \A k \in o .. n-1 : d[k] >= d[o]}

Innermost(lines, n) ==
  CHOOSE o \in Enclosing(lines, n) : \A p \in Enclosing(lines, n) : p <= o

(* The lines before n that start a group of the section opened at o.        *)
Groups(lines, o, n) ==
  {o} \cup {g \in o+1 .. n-1 : /\ Divides(lines[g])
                               /\ Enclosing(lines, g) # {}
                               /\ Innermost(lines, g) = o}

(* The group of section o that is current at line n was selected: its       *)
(* condition, or its #else, is the first of the section that holds.         *)
Selected(lines, truth, o, n) ==
  LET holds(g) == g \in truth \/ lines[g].op = "else"
      gs == Groups(lines, o, n)
      last == CHOOSE g \in gs : \A h \in gs : h <= g
  IN holds(last) /\ \A g \in gs \ {last} : ~holds(g)

Live(lines, truth, n) == \A o \in Enclosing(lines, n) : Selected(lines, truth, o, n)

(* The lines whose condition holds when the macros are those of the         *)
(* current state and the file changes none of them.                         *)
TruthNow(lines) ==
  {n \in 1 .. Len(lines) :
     CASE lines[n].op = "ifdef"            -> macros[lines[n].macro] # None
       [] lines[n].op = "ifndef"           -> macros[lines[n].macro] = None
       [] lines[n].op \in {"if", "elif"}   -> Evaluate(lines[n].cond)
       [] OTHER                            -> FALSE}

(* Reading the file now would produce no token and change no macro.         *)
HasNoEffect(lines) ==
  \A n \in 1 .. Len(lines) :
    Live(lines, TruthNow(lines), n) =>
      Opens(lines[n]) \/ Divides(lines[n]) \/ lines[n].op = "endif"

(* The macro that a line would guard the rest of its file with.             *)
GuardOf(line) ==
  CASE line.op = "ifndef" -> line.macro
    [] line.op = "if" /\ line.cond.kind = "notdefined" -> line.cond.macro
    [] OTHER -> None

(* The classical include guard: #ifndef or #if !defined on the first line,  *)
(* the matching #endif on the last, and no other group at the top level.    *)
GuardMacro(lines) ==
  IF /\ Len(lines) >= 2
     /\ Enclosing(lines, Len(lines)) = {1} /\ lines[Len(lines)].op = "endif"
     /\ \A n \in 2 .. Len(lines) : 1 \in Enclosing(lines, n)
     /\ Groups(lines, 1, Len(lines)) = {1}
  THEN GuardOf(lines[1]) ELSE None

Lexers == {lexer} \cup {includeMacroStack[i] : i \in 1 .. Len(includeMacroStack)}

-----------------------------------------------------------------------------
(* The lexer is in raw mode exactly when the line it stands at belongs to a *)
(* group the standard does not select, whatever macros were defined,        *)
(* undefined or read in other files since the section was opened:           *)
(* SkipExcludedConditionalBlock and the #else, #elif and #endif handlers    *)
(* agree with the declarative reading.                                      *)
OnlySelectedGroupsAreRead ==
  \A lex \in Lexers :
    lex.pos <= Len(text[lex.file]) =>
      (lex.lexingRawMode <=> ~Live(text[lex.file], lex.truth, lex.pos))

(* A lexer in raw mode is inside a conditional, and the outermost skipped   *)
(* entry of its stack is the only one that was not already being skipped    *)
(* when it was pushed; otherwise no entry was.                              *)
SkipShape(lex) ==
  LET s == lex.conditionalStack
  IN IF lex.lexingRawMode
       THEN \E k \in 1 .. Len(s) : \A i \in 1 .. Len(s) : s[i].wasSkipping <=> i > k
       ELSE \A i \in 1 .. Len(s) : ~s[i].wasSkipping

(* The assertions of PPDirectives.cpp:328 and :2142: skipping ends exactly  *)
(* at the section it began with, an #endif read in normal mode never pops a *)
(* skipped entry, and no file is included from a skipped group.             *)
SkippingAssertions ==
  /\ SkipShape(lexer)
  /\ \A i \in 1 .. Len(includeMacroStack) :
       SkipShape(includeMacroStack[i]) /\ ~includeMacroStack[i].lexingRawMode

(* The multiple-include optimization is invisible: while the controlling    *)
(* macro recorded for a file is defined, which makes ShouldEnterIncludeFile *)
(* skip it, reading the file would have had no effect.                      *)
GuardedFilesHaveNoEffect ==
  \A f \in Files :
    LET m == info[f].controllingMacro
    IN m # None /\ macros[m] # None => HasNoEffect(text[f])

(* The optimization applies: when a file wrapped in an include guard has    *)
(* been read to its end and its guard was open, the guard is recorded.      *)
GuardsAreRecognised ==
  [][LexEndOfFile /\ 1 \in lexer.truth /\ GuardMacro(text[lexer.file]) # None
       => info'[lexer.file].controllingMacro = GuardMacro(text[lexer.file])]_vars

(* A file named by an #import, or that said #pragma once, is not entered    *)
(* again, by whichever directive and however it was entered before; and an  *)
(* #import enters no file that is on the include stack or was read before.  *)
OnceFilesAreNotReentered ==
  [][\A f \in Files : /\ lexer'.file = f
                      /\ Len(includeMacroStack') > Len(includeMacroStack)
       => /\ f \notin once
          /\ CurLine.op = "import" => f \notin {lex.file : lex \in Lexers}]_vars

(* Preprocessing ends, for every include graph: the depth limit cuts the    *)
(* recursion of a header that includes itself without a guard.              *)
Terminates == <>finished
=============================================================================
