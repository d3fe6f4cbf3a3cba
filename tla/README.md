# Verification of lfort

lfort is Clang (around version 3.3) renamed and being adapted to Fortran: a
driver, a compiler front end for a family of languages, a static analyzer and
tools built on them, about 740 000 lines. This directory holds TLA+ models of
the parts of it whose correctness depends on long or interleaved sequences of
operations, the TLC runs that check them and the TLAPS proofs about them. Paths
are relative to `src/`. `PROJECT.json` maps every definition to the lines it
models.

Contents

1. Inventory of the system
2. Plan
3. The modules
4. What the runs check, and their bounds
5. Fairness
6. What is proved
7. Findings
8. What is not modelled

## 1. Inventory of the system

Nearly all of lfort is sequential. What makes it hard is re-entrance (a call
of the preprocessor runs the preprocessor, building a module runs a compiler
inside a compiler, deserializing a declaration deserializes others) and state
that is cached, saved, suspended and resumed. Real concurrency occurs in two
places: processes that share the module cache, and threads that use one
translation unit through the C interface.

| Component | State it keeps | Operations and interactions | What is hard, and what makes it correct |
|---|---|---|---|
| Token stream (`lib/Lex/PPCaching.cpp`, `PPLexerChange.cpp`, `TokenLexer.cpp`) | stack of lexers, cache of tokens, reading position, marks, free list of token lexers | `Lex`, `LookAhead`, tentative parsing, `EnterToken`, `EnterTokenStream`, annotation; called by the parser, calls itself through macros and includes | re-entrance while a token is being cached; caching mode left and re-entered; the parser must see one stream of tokens, each once |
| Preprocessor directives (`lib/Lex/PPDirectives.cpp`, `MultipleIncludeOpt.h`) | conditional stack and include-guard state per file, macro table, `HeaderFileInfo` per file | one handler per directive, a loop of its own for skipped groups; asks `HeaderSearch` whether to enter a file | entries popped and pushed across normal and skipping mode; a guard recorded at one inclusion used at another; only selected groups are read, the optimization is invisible |
| Macro expansion (`lib/Lex/PPMacroExpansion.cpp`) | disabled flags of macros, argument tokens | pushes token lexers, pre-expands arguments | nested expansion and re-enabling order |
| Lexer (`lib/Lex/Lexer.cpp`) | a position and modes per buffer | characters to tokens | fixed/free form, Fortran `include` |
| Header search, module maps (`HeaderSearch.cpp`, `PCModuleMap.cpp`) | search path, caches, module tree | lookups | caches keyed by the first lookup |
| Module cache (`lib/Frontend/CompilerInstance.cpp`, `PCModuleManager.cpp`, the control block part of `ASTReader.cpp`) | files in a shared directory, a lock file per module; per instance known modules, loaded files, negative file cache | `loadPCModule`, `compilePCModule`, `ReadAST`; processes interact through the directory, nested instances through the options they share | interleaving of processes, crashes, out-of-date files, import cycles, partial failure; errors are reported and never cached, good imports succeed, one builder per module |
| AST serialization (`ASTReader*.cpp`, `ASTWriter*.cpp`) | offsets and IDs per file, pending queues | lazy, nested deserialization triggered by name lookup | finishing pending work only at the outermost level |
| AST units, preamble (`ASTUnit.cpp`) | AST, saved preamble, its diagnostics | parse, reparse, code completion | temporary files, stale preambles, retries |
| Source and file manager (`lib/Basic`) | SLocEntries allocated from both ends, caches | allocation, lookup | the ends must not meet; stale caches |
| Diagnostics (`Diagnostic.cpp`) | state points, counters, a delayed diagnostic | report, suppress, push/pop | state by location, limits |
| Parser (`lib/Parse`) | current token, scopes, delayed members | recursive descent, client of the token stream | tentative parsing, late parsing |
| Sema (`lib/Sema`) | scopes, pending instantiations, delayed diagnostics | actions called by the parser | queues that grow while they are drained |
| AST, AST matchers (`lib/AST`, `lib/ASTMatchers`) | the tree; memoized matches | construction, traversal | data, few protocols |
| CFG and dataflow (`lib/Analysis`) | worklists, block states | fixpoints | independence of the visiting order |
| Static analyzer (`lib/StaticAnalyzer`) | exploded graph, worklist | exploration, checkers, node reclamation | step limits, recycled nodes |
| Code generation (`lib/CodeGen`) | deferred declarations, cleanup stack with branch fixups | emission triggered by use | queues that refill, fixups through nested scopes |
| Driver (`lib/Driver`) | job list, failed commands, result files | runs subprocesses | cleanup after failures and crashes |
| Edits, rewriting (`lib/Edit`, `lib/Rewrite`) | edits by location; B-trees of deltas and text | commit, insert, remove | overlaps with earlier edits, node splits |
| Format, Tooling (`lib/Format`, `lib/Tooling`) | none across files; replacements | one pass per file | overlapping replacements |
| liblfort (`tools/liblfort`) | translation units, sessions | C interface, worker threads with crash recovery | concurrent use of one unit, crash in a worker |
| Other tools (`tools/driver` ...) | none | entry points | none |

The hazards, each at its line and with the properties that cover it, are listed
in `PROJECT.json`.

## 2. Plan

The order is by how much of the rest relies on a part and how badly tests
reach it.

1. (done) **PPCaching**: every token of every compilation passes through it.
   Abstract specification `TokenStream`, refinement, proofs of its invariants.
2. (done) **PPDirectives**: which text is compiled. Declarative reading of
   files as reference, proofs that the directives agree with it.
3. (done) **PCModuleCache**: the only protocol between processes. Crash and
   interleaving runs, proofs of the type and lock invariants, of the age of
   what is loaded, of the handling of errors and of what succeeds.
4. (done) the queues that refill while they are drained: **DeferredEmission**
   (`CodeGenModule.cpp`), **PendingInstantiations**
   (`SemaTemplateInstantiateDecl.cpp`), **Deserialization** (`ASTReader.cpp`),
   and **CleanupScopes** (`CGCleanup.cpp`), whose fixups are such a queue too.
   Proofs for all four.
5. **Job execution** (`Compilation.cpp`, `Driver.cpp`): the job list, skipped
   inputs after a failure, result and failure files. Specification of which
   files exist after a run.
6. **Reparse** (`ASTUnit.cpp`, `CIndex.cpp`): preamble reuse, temporary files
   removed under it, crash recovery, one user at a time.
7. **Commits and edits** (`Commit.cpp`, `EditedSource.cpp`), then `DeltaTree`
   and `RewriteRope` as refinements of a sequence.
8. **Location space** (`SourceManager.cpp`), **diagnostic states**
   (`Diagnostic.cpp`).
9. **CoreEngine** and the dataflow **worklists**: results independent of order.

Composition: PCModuleCache's instances run PPDirectives and the parser on
PPCaching; PendingInstantiations hands definitions to DeferredEmission, which
generates each body with CleanupScopes; Deserialization reads the files that
PCModuleCache finds. The models meet only at "read the headers", "return a
token", "hand over a definition", and are kept apart because their products
add states and no behaviour. `PPCachingRefinement` composes PPCaching with
`TokenStream`.

Proofs that are left for the modules that exist: `JumpsRunTheirCleanups` (it needs, for
every block and every index that can reach it, the cleanups still to be run from
there), and the redeclaration chains of Deserialization with modules.

## 3. The modules

| Module | What it is |
|---|---|
| `PPCaching` | the token stream: lexer stack, cache, parser calls; its properties |
| `TokenStream` | abstract specification: a sequence of future tokens and saved futures |
| `PPCachingRefinement` | the mapping from one to the other: the future is the cache from the reading position on, the token in flight and what the lexers hold once macros and headers are expanded; one saved future per mark |
| `PPDirectives` | the directive handlers, the skipping loop, includes, guards |
| `PPDirectivesProperties` | a declarative reading of files, and the properties |
| `PCModuleCache` | processes, nested instances, the cache directory, lock files |
| `PendingInstantiations` | the queues of template instantiations and of vtable uses |
| `Deserialization` | lazy, nested reading of declarations from AST files |
| `DeferredEmission` | which definitions are generated, and when |
| `CleanupScopes` | cleanups, jumps and branch fixups within a function |
| `*Properties` | the properties of the module of that name |
| `SequenceLemmas` | lemmas for the proofs: `Front`, `Last`, `Append`, `Tail`, slices of sequences and what editing them does, the existence of recursive functions |
| `*Proofs` | theorems and their proofs, one module per component |
| `MC*` | files, macros, module graphs, units and bounds for TLC |

Operators whose comment starts with "Mutant" are plausible bugs, kept next to
the operator they would replace; no specification uses them. `PROJECT.json`
names for each property the mutant that violates it.

### PPCaching

`cur` and `includeMacroStack` are CurLexerKind with the current lexer pointers,
and IncludeMacroStack; `cachedTokens`, `cachedLexPos`, `backtrackPositions` and
`numCachedTokenLexers` are the members of the same names. A call of `Lex` or
`PeekAhead` is not atomic: `calls` holds the activation records of
`Lex`, `CachingLex` and `PeekAhead`, and each step of the machine (a token read
from a lexer, the end of a file or token lexer, an empty or one-token macro, a
macro or header entered, each return) is an action. `ret` is the token in
flight. The parser is the environment: `ClientCall` is one action per operation
it calls, `tok` is its current token, `prevToks` what its tentative parsing
actions saved. `peeked` is a history variable, the answer of the last
`LookAhead` that still stands.

The parser is disciplined the way the parser of `lib/Parse` is: it does not
call `Lex` after eof, it looks at each token before the one behind it
(`LookedBefore`), and it enters streams outside caching mode. Two constants
lift these where the code does: `NestedStreams` (`ParseCXXAmbiguousParenExpression`)
and `UncheckedPeeks` (`TryParseLambdaExpression`).

A file, a macro body or an entered stream is a sequence of items; an item is a
token, a macro or an `#include`. Locations and spellings are dropped.

### PPDirectives

One action per line. In normal mode it is the handler of the directive; in raw
mode (`lexingRawMode`) one turn of the loop in `SkipExcludedConditionalBlock`.
A `Lexer` record is a PreprocessorLexer: position, `conditionalStack` and `MIOpt`
with the fields of the source. `info` is HeaderSearch's table of
HeaderFileInfo, `macros` the macro table; a condition is a constant, `!defined`
or a macro to expand, which is what the multiple-include optimization tells
apart. `truth` (per lexer), `diags` and `once` record what has happened, for
the properties. The text of the files is chosen in `Init`, so that a run
covers every file over its vocabulary.

### PCModuleCache

`stack[p]` is the stack of compiler instances of process p: the instance of the
main program and those that `compilePCModule` nests in it. Its top is running;
its `pc` tells where in `loadPCModule`, `compilePCModule` or `ReadAST` it is. Every point
where another process can intervene separates two actions: between the lookup
of a file, the attempt to lock, the start and the end of a build, the unlock,
the next lookup, the opening of each file of an import chain, the validation
of each, the removal of an out-of-date file. `fileMgr` is what the instance's
FileManager remembers, also of files it did not find. A file's content is what
it was built from: which headers it saw in an older version and which modules
it imports. `allocated` is whether FailedPCModules, which nested instances
share, has been allocated; `failedBuilds` records failures for a property.

LockFileManager belongs to LLVM and is modelled from its use: exclusive while
its owner runs, ignored when the owner is gone. `Die` kills a process at any
step, `BuildCrashes` is a crash that the CrashRecoveryContext of a nested build
catches.

### DeferredEmission

The constants are the names of a unit; `unit` says how each may be declared and
what its definition refers to. One action per callback of ModuleBuilder
(`EmitGlobalNow`, `EmitGlobalForced`, `EmitGlobalDeferred`, aliases, tentative
definitions, vtables), and one per reference (`Refer`, `ReferWeak`,
`ReferToMember`): a body that refers to a name moves it from `deferredDecls` to
`deferredDeclsToEmit`, creates a declaration, or finds what there is. `Generate` is
the code generator within a definition, `Release` is CodeGenModule::Release with its
loop over deferred vtables and declarations. `status` is the GlobalValue of a
name. `roots`, `referenced`, `emissions` and `initOrder` are history.

### PendingInstantiations

`stack` is the C++ call stack: a frame is a call of
InstantiateSubprogramDefinition or InstantiateStaticDataMemberDefinition, its
`stage` tells where it is (its body, its local queue, the vtables, the pending
queue), and what it has saved of the queues of its caller. The lowest frame is
the parser's, with the end of the translation unit. A reference is one action
(MarkSubprogramReferenced, MarkVTableUsed) and either queues a specialization or, for
what a constant expression may need, pushes a frame at once. The file is a set
of declarations and references that the parser meets in any order the
language allows.

### Deserialization

`stack` again is the call stack, one frame per ReadDeclRecord, GetIdentifierInfo, body,
chain or FinishedDeserializing. `program` says what the files hold: the type and
the rest of each declaration, bodies, redeclarations, names, macros, the files
that are there at the start and those that are imported. `ClientStep` is what may
happen between two calls: a declaration or a name is asked for, an import is
added, Sema or the consumer is set. `ReadStep`, `FinishStep` and `ConsumerStep` are
the reader itself. Declarations of the main file come from the parser and are merged with
those of files.

### CleanupScopes

`ir` is the function generated so far: blocks with their terminators and the
insertion point; of the code only stores of the cleanup destination, cleanups
and marks are kept. `scopes` is EHStack, `fixups` is BranchFixups, with their
fields. One action per statement: push a cleanup, open a scope or a loop, break,
continue, return, goto, a label, the end of a scope, each with all that
PopCleanupBlock, EmitBranchThroughCleanup and ResolveBranchFixups do. The marks
"jump" and "at" record which cleanups are live where a jump starts and at its
destination; `JumpsRunTheirCleanups` interprets the finished blocks from each "jump",
with the value of the destination slot, and compares what ran with the difference.

## 4. What the runs check, and their bounds

| Run | Question | Bounds | States |
|---|---|---|---|
| `token_stream` | does PPCaching implement TokenStream, do its positions, caching mode and lexer kinds stay consistent, does every call return? | 2 main files with a header and three macros; cache of 3 when a call starts, 2 nested tentative actions, lookahead of 2 tokens, lexer depth 2 when a stream is entered | 320 738 |
| `directives` | are exactly the selected groups read, is the multiple-include optimization invisible, and effective? | every main file of up to 6 lines over 6 kinds of line; every header of up to 4 lines over 11 kinds of line with 2 main files, include depth 3 | 975 320 |
| `cold_cache` | errors, failures, successes and cycles; does a process survive the death of the other? | diamond of 4 modules with every set of broken ones and an import of its own choice per process, or the same import of a 2-cycle, or repeated imports; empty cache; processes may die | 486 154 |
| `faults` | crashed builds, deaths, lock errors and out-of-date files | chain of 3, every consistent old cache, both processes import the same module | 1 080 588 |
| `emission` | is exactly what is needed defined, once and for good, are initializers in order? | 402 units of 2 functions, a member, 2 variables and a class, announced in every order, with and without an error | 171 650 |
| `instantiation` | is all that is referenced instantiated once, do nested instantiations keep their queues apart, does the end of the unit come? | 466 units of 4 functions, one of them in a local class and one constexpr, a static data member and a dynamic class, in every order | 40 651 |
| `deserialization` | is everything linked, complete and delivered once, whatever is asked for and in which order? | 104 sets of 3 files with 4 declarations and 2 names | 330 902 |
| `cleanups` | does each jump run exactly the cleanups it leaves? | every function of up to 6 statements with 3 cleanups, 2 scopes or loops, 2 jumps and a label | 1 086 767 |

Runs that expect a violation (`past_eof`, `null_set`, `lost_instantiation`,
`unwired_redeclaration`) are the findings of section 7.

Why the bounds are enough:

* *PPCaching.* The code distinguishes an empty cache, a position at its end and
  one inside it, no mark, one mark and a nested one, an empty, partly full and
  full free list. A cache of 3 with 2 marks has all of them, with room for a
  mark before, at and after an edited range. The free list holds 1 instead of
  8 (Preprocessor.h:347) so that it is full as soon as one token lexer has
  ended; the proofs are for any size. The main files make the peeked token
  come from a file, from a macro in a macro, from after an empty macro at the
  end of a header, and from a one-token macro.
* *PPDirectives.* Six lines hold two nested sections with a divider in one of
  them, or one section with four dividers; the stack entry of a section is
  affected by the divider before and the nesting around it only. Four lines of
  a header hold a guard with one line inside or outside; the header meets
  itself through `#include`, and the main files change the macros between two
  inclusions.
* *PCModuleCache.* A diamond is the least graph in which a module that failed is met again, by
  another importer, and a chain of 3 is the least with a file that is neither
  the imported one nor a leaf. Two processes suffice for every race on one
  lock, since the code treats "somebody else" alike. The initial caches of `faults` are
  those that earlier runs with older headers leave behind. The two processes
  import the same module there because out-of-date caches, crashes and
  different imports together exceed what a run can cover; `cold_cache` has
  different imports. What is proved is for any graph and cache.
* *DeferredEmission.* What becomes of a name depends on its own announcements and
  references and on those of the one that refers to it. Two functions that
  refer to each other, each announced in all ways that differ in the code, two
  variables, and a class with a virtual member and a key function have all
  pairs. The order of announcements is free.
* *PendingInstantiations.* Three nested calls (a pending one, a constexpr
  function in its body, a member of a local class of that) have each
  queue saved and put back with entries before, between and after;
  InstantiationDepth is 5, which recursion through a constexpr
  function reaches.
* *Deserialization.* Four declarations make a cycle of requests through type,
  rest, body and chain with one outside of it; three files are a chain of
  headers or two modules and an importer. Two restrictions follow from defects
  that are described in the hazards: a definition that the consumer emits at once is
  not reachable from a body read outside of the consumer, and only one module
  redeclares what the main file has declared, except in `unwired_redeclaration`.
* *CleanupScopes.* A cleanup is popped after no jump, a jump that ends, one that
  goes on or a waiting fixup, in either order, with its exit in the entry block or
  not; three nested cleanups with two jumps and two scopes have each
  combination with a scope outside and inside. A random walk over functions of 4
  cleanups, 3 scopes, 5 jumps, 16 statements and 2 labels met no violation in
  5 million states; it is not among the runs. The code of `goto` into a scope
  is rejected by Sema and not in the model.

Deadlock is checked for PPCaching, where the parser can always make some call.
The other specifications end when the file, the imports, the unit or the function
do, so their configurations turn it off; `Terminates`, `EveryProcessFinishes` and
`CompilationEnds` say that nothing ends early.

## 5. Fairness

* PPCaching: `WF_vars(LexerStep)`. A call is sequential code and keeps running
  once made; nothing is assumed of the parser.
* PPDirectives, PendingInstantiations: weak fairness of the one next-state
  action, for the same reason: the compiler runs on.
* PCModuleCache: `WF_vars(Step(p))` for each process. The operating system
  schedules every running process; crashes are never forced. A waiting process
  is enabled once the lock is free, and a lock that stays free stays takeable, so
  weak fairness is enough: whichever process takes the lock first, the waiting
  one goes on when the build is over, and it never waits for a lock twice for
  one attempt. `faults` checks safety only and assumes none.
* DeferredEmission: `WF_vars(Generate \/ Release)`, Deserialization: weak fairness
  of the three kinds of step of the reader. A call that has begun goes on; that a declaration
  is announced or asked for is never assumed. CleanupScopes assumes nothing.

## 6. What is proved

The theorems are of the form Spec => []P, for every value of the constants that
satisfies the named assumptions of the modules; further conditions are stated
below and in the theorem. TLC evaluates the assumptions in every run, and has
checked the inductive invariants on the instances of section 4. Induction over text,
import graphs and mentions is done on sets: what is reachable is in every closed set,
and the least violation of a claim is looked at instead of a recursive definition.

**PPCachingProofs**, assuming `~NestedStreams`: `TypeCorrect`,
`PositionsCorrect`, `KindCorrect`, `CachingCorrect`, `PlaceholderIsFilled`,
`LookAheadKeepsItsWord`, `NothingIsReadPastEof`, `TokenStreamImplemented`. The assumption is needed:
a stream that is entered while a token is cached comes before it for `Lex` and
after it for `LookAhead` (see the hazards). `PositionsInCache` is not
inductive, since a step of `CachingLex` is right only for the calls that can
be in progress. The invariant `IInv` adds `CallShape`, the four states a call
can be in: none, `Lex`, `Lex` in `CachingLex`, and `PeekAhead`; in the last two
caching mode has been left, in the first two it is on if a token is cached or a
mark is set. It also relates the number of marks to that of saved tokens. From
there each action is a lemma. `WrittenInv` says that the placeholder of
`PeekAhead` is nowhere but at the end of the cache while it runs. `PeekedInv`
follows the answer of `LookAhead` from the cache to the token in flight; for a
`PeekAhead` that is in progress it relates the tokens still to be read to the
length of the cache. No assumption is made on the bounds, so that the results hold for any
cache length, nesting and lookahead, and, but for `NothingIsReadPastEof`, for
`UncheckedPeeks` of any kind.

`NothingIsReadPastEof` needs `UncheckedPeeks = {}`, which is what `past_eof` (section 7)
shows. `EofInv` says where eof is once the primary file has ended: the parser
holds it, or it is cached at or behind the reading position; and each mark has it
ahead of it, in the cache or saved with the mark, so that going back finds it again.

`TokenStreamImplemented` is the refinement: every step is a step of `TokenStream` or leaves
its future and its saved futures alone, for every value of the constants. Its
other hypothesis is a rank of macros and headers, that is, none contains itself
directly or through others, as preprocessing guarantees for macros (a macro is disabled
within its own expansion) and a finite source for headers; without it the text has no
expansion to compare with. `TokensOf` and `Held` are recursive functions, of which
TLA+ asserts nothing until a solution is known to exist: `RecursionExists`
(SequenceLemmas) glues the partial solutions of a well-founded recursion, whose uniqueness is shown
with a least disagreement, and `TokensExist` and `HeldExists` apply it with the rank
and the length of the text. Two more invariants are needed: `EndedAreEmpty` (a
level without a lexer holds nothing) and `PeekRoom` (where `PeekAhead` runs, the
placeholder is behind the reading position). The operations on the lexer stack keep `Unread`, the token
in flight and all that is expanded behind it, so that every step inside a call is
silent (`LexersAreSilent`, `CachingLexIsSilent`, `CachingLexReturnIsSilent`), and a call acts
where it returns (`LexReturnIsLex`, `PeekAheadReturnAnswers`) or, outside the lexers, at
once. `Rewritten` and `Spliced` relate an edit of the cache to the same edit of each
future whose mark is before it.

**PPDirectivesProofs**: `TypeCorrect`, `SkippingCorrect` from `IInv`, which is
their conjunction, and each needs the other: an `#endif` keeps the type of the stack only if there
is an entry to pop, which raw mode promises, and the shape
of the stack (exactly the entries above the section that is being skipped are
marked WasSkipping) makes the two assertions of PPDirectives.cpp hold. Files
have any contents, so these are theorems about every program.

`SelectionCorrect`, `OptimizationIsInvisible` and `GuardsRecognised` compare a
lexer with the declarative reading of its text. `TextInv` says of every lexer on the
include stack that its entries are the open sections, innermost last (`Entries`);
that FoundNonSkip of an entry tells whether a condition of its section has held
(`EntryOK`); and how MIOpt stands to the text behind the position (`GuardOK`,
`Recognised`). `OptimizationIsInvisible` is for files in which each `#ifdef` names
a macro: without that the code takes a file of two sections for a guarded one
(section 7). `OnceIsOnce` needs NumIncludes not to wrap around
(`CountersGrow`), since 65536 inclusions make a file a new one for `#import`.

**PCModuleCacheProofs**, for any module graph, cyclic ones included, unless said otherwise:

* `TypeCorrect`, `BuildersCorrect`. `Locked` (each
  module that a process builds is locked by it) survives the `Unlock` of one of
  its builds only if no other instance on its stack builds the same module
  (`NoRepeats`). `NoRepeats` in turn needs `Locked`: `LockOwned` takes a lock that no
  running process holds, and the process itself holds those of all modules on its
  stack, so that the new one is not among them, whatever the build stack test
  before it found. `StackOK` (the main program at the bottom and nowhere else)
  and `GoodInstances` (an instance that is busy with an import has one in hand,
  the main program never unlocks) make `Unlock` pop a nested instance and type every
  step. `Locked` and `NoRepeats` are claimed of running processes only, as the lock
  of a dead one may be taken over.
* `ImportsCurrent`, for any initial cache. While
  ReadAST runs, what it has opened may be stale; `CurrentInv` says that each such file
  is then still to be validated (`ReadingOK`), that nothing else is subject to a
  roll-back, and that after an answer of OutOfDate all that was opened is gone.
* `FailuresAreReported` and `OnlyGoodIsCached`, under the condition
  `SoundCache` on the initial state: nothing in the cache is stale or depends
  on an error (an empty cache will do). It is needed: the rebuild of a
  stale file fails silently (CompilerInstance.cpp:1066, a hazard without a
  run). `SoundInv` says that no instance ever takes that path, that what an
  instance has left to import is the end of what it imports, and that what lies
  behind that is known as a module or has set the error flag. At the end of a build
  without errors all imports are therefore loaded, and sound; `GoodImports`
  carries this over to the closure of the imports by giving a closed set without
  errors, so that no induction over the graph is needed and it may be infinite.
* `NoCircularWait`, for finitely many processes and a graph in which no module
  imports itself through others. `NestedInv` says that each build was
  started by the instance below it for one of its imports, `HeldInv` that a lock is held only
  for a build. Whoever waits therefore needs, through its imports, all that the owner of the lock
  needs and more, so that among processes that wait for each other there would be
  no least need. With a cyclic graph the property fails (section 7).
* `FailuresAreFinal`, with `SoundCache`, `CompleteCache` (an import of a
  file in the cache is in the cache) and `~MayCrash`. `PresentInv`: nothing that an instance has
  found disappears. `RecordedInv`: a module that was built in vain is in FailedPCModules, or
  another process has stored it, or the failure is just being recorded; what a file manager
  remembers as missing has failed. `~MayCrash` is needed: a nested build that crashes between the
  return of compilePCModule and the insertion into FailedPCModules loses the failures below it.
* `GoodImportsAreMade`, in addition with `~LockMayFail` and `AcyclicCache`
  (nothing in the cache depends on a cycle). `FineInv`: as long as all processes live,
  no instance takes a module for missing or failed whose closure has neither errors nor a
  cycle; an instance that goes on after a build or a wait finds its file there.

**DeferredEmissionProofs**: `TypeCorrect`, `DeferredCorrect`, `DefinedOnce`,
`DefinitionsFinal`, `OnlyNeeded`, `NeededDefined`, `InitializersOrdered`. `IInv` adds to the types: each definition counted once is in
`status` (`CountedOnce`); a name has been announced in a way that explains its
status (`AnnouncedFirst`); a constant variable whose initializer is being
generated is not yet defined (`PendingIsOpen`), which forbids a second definition by the
recursion through its own initializer; a deferred name is absent from the module
(`DeferredAreAbsent`), so that the first reference finds it in DeferredDecls.

`OnlyNeeded` and `NeededDefined` are the two directions of "exactly what is needed"; both
follow from `NeededInv`. Its parts: all that is in use is in every set that
contains the roots and is closed under the mentions that count so far
(`OnlyNeededIsInUse`; an inline definition counts from the release on, as an alias
may still replace it); what can be defined is deferred, queued or being generated
(`DefinableAreTracked`); what has been generated has made all its
references, what is being generated those that are not in `body`
(`ReferencesAreMade`).

`InitializersOrdered` follows from `InitInv`. A variable has a slot in CXXGlobalInits: the index of
its initializer, or that of a null which DelayedCXXInitPosition keeps for it and for no other
(`Positions`). The slots are in the order of the file (`SlotsInOrder`), an initializer is called in
one slot (`CalledOnce`), and each variable that is defined is called, except the one whose
initializer is being generated, which either has a position or is the last of the file so far
(`DefinedAreCalled`). Every step leaves the slots alone (`Aside`), adds one at the end (`NowStep`,
`LaterStep`), or puts an initializer in the place that was kept (`PlaceStep`).

**PendingInstantiationsProofs**: `TypeCorrect`, `LocalsCorrect`,
`VTableUsesCorrect`. `IInv` relates the call stack to the queues. `FrameOK`: whatever a
call does, in its body or with the queues it has saved, lies in scopes of
functions that are open below it, and a call made by one that has done its vtables is a
recursive one with no saved uses; `LocalsOK`, `UsesOK`, `PendingOK`: the members of
local classes that wait belong to open scopes, the other queues name none;
`DrainedOK`: pending instantiations are performed with no vtable use left.

`HandedOnceCorrect` rests on `HandedInv`: the body of a specialization is gone
through by one call, which has not handed it over yet (`BodiesOK`); what waits has
been asked for (`AskedOK`); a local specialization waits once and not during its own
instantiation (`LocalsOnce`); what an explicit instantiation has begun does not come back out of
the queues that recursive calls have put aside (`SegmentsOK`). `UsedVTablesCorrect` rests on
`VTablesInv`: for each used class the consumer knows its present state, or the code of a
call is about to tell it, or a use of the class is in a queue, current or put aside, beyond
the position of every loop over that queue (`IsLive`); at the end of the unit a class with
a key function is marked once more.

`ReferencedCorrect` is about units with `TemplatesComeFirst`: a constexpr template is
defined before the rest of the file, and a function with a local class that
is instantiated before the end of the unit, because it is constexpr or by an explicit instantiation,
comes after all other templates of the file. The run `lost_instantiation` shows units without
it for which the property fails; those of `instantiation` all have it
(`MCProgramsAssumption`, which TLC evaluates). `RefdInv` says: all that has been demanded so far, by code of the file that
has been parsed, by a body that is defined or being gone through, or by a vtable whose virtual
members have been marked (`Demanded`), is still to be looked at in the code of a call (`ToDo`) or is `Safe`; and so is
all that a further reference would pass over (`Looked`). Safe is what is defined, being instantiated, in a queue
or in one that a recursive call has put aside (`Owed`), what never gets a template (`Hopeless`),
what another unit defines (`LeftToOthers`), and everything once the depth limit has been reached. To take an entry from a queue
without instantiating it is harmless only if no template can come any more: a recursive
call exists only then (`CallsOK`), and a call that is not recursive finds members of local classes to
perform only in a function for which `TemplatesComeFirst` says so. What is explicitly
instantiated is owed or diagnosed, whatever is said of it later (`ExplicitOK`). At the end the stack
and the queues are empty, and what is owed is defined. Together with `UsedVTablesAreHandled`, for the
virtual members, this gives the property.

Three assumptions: `SpecializationsAssumption` (disjoint sets), `LocalClassesAssumption`
(only code within a function refers to its local classes and their members), and
`KeyFunctionsAssumption` (a class with a key function is not required before the end of the unit,
and "handle", the call of HandleVTable, is what DefineUsedVTables does, never what the unit says).
As for the key functions, the marks "required" come from explicit instantiation definitions
(SemaTemplate.cpp:6459, 6597; SemaTemplateInstantiate.cpp:2125, 2222, 2500), whose
classes have no key function (RecordLayoutBuilder.cpp:2358), or from the key functions, at
the end of the unit (Sema.cpp:553).

**DeserializationProofs**, for any files and any order of requests. `StepInv` says which call can
be on top of which and that the count of Deserializing objects is that of the calls that have
one; `StepForms` gives every step as a change of the stack. `TypeCorrect` follows.
`QueuesInv`: nothing is pending when nothing is being deserialized.

* `InterestingOnce`, by `InterestingInv`: a declaration that may be emitted has been handled
  once, or is in the queue once, or is being read by one call; and when there is a consumer and
  a queue, some call will pass it.
* `BodiesAreReadInPlace`, by `CursorsInv`: the outermost call above a body that will put the
  cursor back has saved the place of that body, and if there is none the cursor is there.
* `LookupFindsNames`, by `NamesInv`: each declaration of a name that has been read is visible, or
  in an entry of PendingIdentifierInfos that the loop has not passed, or in the hands of the call that
  makes an entry visible.

* Without modules (`~program.pcmodules`: precompiled headers, chained or not), and with
  HeadersInv, also `HeadersAreWired`, `HeaderChainsAreWhole`, `HeaderBodiesAreSet` and
  `HeadersAreSeenWhole`. Its central part is `LinkInv`: a declaration that has been deserialized and
  is not linked is being read, or is in the list of a call that links a chain, or its chain is
  pending and it has not yet been dug out of the local chains of the file; and what is linked
  has left no declaration of its chain undug. `DugInv`: what has been dug out is in the list of such a
  call, or done. `LoopInv`: the loop over the pending chains has not passed the chain it works on, and
  every chain in PendingDeclChainsKnown is pending or being linked, so that "already known" never
  means "forgotten". `RecordsInv`: a record past its first link has loaded the first declaration
  of its chain. `WithoutModules`: nothing is merged, no file is added. When nothing is being
  deserialized, nothing is pending (`QueuesInv`), and then all is linked.

`FilesAssumption` says what AST files are like: the first declaration of a chain is the
first of itself, as the writer records getFirstDeclaration() (ASTWriterDecl.cpp:1277); that of
a declaration in a file is in a file, as a file cannot refer to what is parsed after it; and
without modules the files are those that are read at the start.

**CleanupScopesProofs**, for functions with fewer jumps than FixupDepth can count
(MaxJumps < FixupDepths; beyond, see the hazards): `TypeCorrect`, `FixupsCorrect`,
`BranchThroughsCorrect`. `IInv` says that the blocks which scopes and fixups name
exist, that fixup depths grow inward and never exceed the number of
fixups (`Fits`), that every branch through the outermost cleanup ends behind it
(`OutermostEndsBranches`, which is the assertion of CGCleanup.cpp:694), and
that there are no more fixups than jumps.

Only model-checked: `DeserializedAreWired`, `ChainsAreWhole`, `OneBodyPerEntity` and `ConsumerSeesWholeDecls` when modules
are involved, where the first does not hold of every set of them; `JumpsRunTheirCleanups`, which
executes the finished code step by step: `Walk` is recursive, how far it gets depends on the bound
`MaxWalk`, and a proof would need induction over executions; all liveness (`EveryCallReturns`,
`Terminates`, `EveryProcessFinishes`, `CompilationEnds`), which the prover does not cover.

## 7. Findings

Each run that expects a violation checks one sentence of the repository.
Details, with the quoted lines, are in `PROJECT.json`.

| Run | What the code does |
|---|---|
| `past_eof` | `TryParseLambdaExpression` peeks two tokens ahead without looking at the first; at the end of the file `Lex` runs without a lexer |
| `null_set` | `FailedPCModules` is null when a process that only waited finds that the build failed |
| `lost_instantiation` | a constexpr function used before its template is defined is tried at once, has no pattern, and is forgotten |
| `unwired_redeclaration` | a declaration of the main file that two modules redeclare: `PendingDeclChainsKnown` keeps the ID of the second one, a later redeclaration is never linked |

Further disagreements are described at their lines in the hazards and have no
run of their own:

* a stream entered while a token is cached comes before it for `Lex` and after
  it for `LookAhead` (`ParseCXXAmbiguousParenExpression`, ParseExprCXX.cpp:2835);
* an `#ifdef` without a macro name is not reported to the include-guard machine
  (PPDirectives.cpp:2037), so that a header with text outside its guard can be
  taken for a guarded one. The headers of `directives` leave it out, its
  main files have it;
* imports are recorded by path only: a module file built against an older
  version of its import is loaded beside the new one (ASTReader.cpp:2843).
  `ImportedFilesAreCurrent` is about each file's own headers;
* an out-of-date file is removed without the lock while another process is
  about to open it, whose import then fails (CompilerInstance.cpp:1045), and a
  rebuild that fails is not reported (1066);
* an import cycle entered at two ends by two processes is not found, each waits
  for the other (785). `WaitsAreAcyclic` passes in `cold_cache`, where both
  processes enter the cycle at the same module;
* 8192 gotos that wait for their labels overflow FixupDepth (CGCleanup.h:76);
* a member of a local class can be drained by a nested constexpr instantiation,
  and a late-parsed template that is put back on the queue that is being drained
  keeps the loop busy, as long as LateTemplateParser is not set
  (SemaTemplateInstantiateDecl.cpp:2718);
* a constexpr function can be handed to the consumer twice. Its instantiation may use another
  constexpr function, whose end performs the local instantiations
  (SemaTemplateInstantiateDecl.cpp:2837) that an enclosing function has
  queued; a member of a local class of that one, which uses the first function, is then
  instantiated in its body, against Sema.h:5925, and instantiates it again. So
  does the initializer of a constexpr static data member that uses the function
  whose body mentions it. `HandedToConsumerOnce` is therefore about
  everything but constexpr functions;
* the members of a local class whose function is instantiated explicitly in the middle of the
  file are performed there, and what they use whose template comes later is dropped.
  `ReferencedIsDefined` therefore is about units with `TemplatesComeFirst` (section 6);
* `GetExternalDeclStmt` moves the cursor of a file and, unlike its
  siblings, neither puts it back nor counts as deserializing (ASTReader.cpp:5173). A
  body that is read while nothing is being passed to the consumer, and that brings in a
  declaration of the same file whose body the consumer reads at once, goes on
  at the wrong place. `BodiesKeepTheirPlace` excludes exactly that case.

`GoodImportsSucceed` is stated for as long as no process has died. A process
that waits for one that dies does not build the module itself but reports that
it could not be built; nothing in the repository promises more.

## 8. What is not modelled

In the modelled components:

* token stream: PTH lexers, the token that follows a module import
  (`LexAfterPCModuleImport`), function-like macros, code completion's second
  end of file, incremental processing, lexers of `_Pragma`;
* directives: PTH's own skipping, code completion in skipped groups, `#line`,
  `#error`, other pragmas, directives in macro arguments, imports of modules
  through `#include`, `#include_next`, `#__include_macros`, macros from a PCH. `NumIncludes`
  is a 16-bit counter and modelled as one, but no run reaches its limit;
* module cache: headers that change while processes run, the one-element
  cache of the last import (a repeated import is the same as one of a known
  module), outputs written in place when no temporary file can be created,
  reused inodes and the granularity of time stamps, submodules, files of
  another version or configuration. `waitForUnlock` gives up after a long time, which
  the model leaves out: it would turn the endless wait of two processes that
  enter an import cycle at different modules into a failed import;
* Sema's queues: every rule of types, lookup and overloading; modules and
  precompiled headers as sources of pending instantiations; delayed
  diagnostics and identifier scopes;
* code generation: jumps into the scope of an object with a cleanup. A comment
  at `CodeGenSubprogram.h:341-347` says that such jumps can be legal, for an object whose
  constructor is trivial; `JumpDiagnostics.cpp:196-205` makes them an error when the
  destructor is not trivial (a warning in Microsoft mode). `MayReach`
  follows it, so `JumpsRunTheirCleanups` and `FixupsFitTheirScopes` say nothing
  of them. Also exceptional edges, activation flags, cleanups of
  full-expressions, indirect gotos, the code of statements and expressions
  otherwise; thunks, debug information, the Objective-C and CUDA runtimes;
* AST serialization: Objective-C categories, the merging of declarations that
  were merged before (`StoredMergedDecls`), update records, the storage of lookup tables, pending
  definitions, the writer.

The components without a module, with reasons, are in `PROJECT.json`. Most are
in the plan; the AST, the matchers, the grammar, `Format` and the command-line
tools are data transformations without a protocol that a model checker would
say more about than tests do.
