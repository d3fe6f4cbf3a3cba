--------------------------- MODULE Deserialization ---------------------------
(***************************************************************************)
(* How the AST reader loads declarations lazily and recursively            *)
(* (lib/Serialization/ASTReader.cpp, ASTReaderDecl.cpp).                   *)
(*                                                                         *)
(* Reading a record asks for further declarations and identifiers, which   *)
(* read further records.  What cannot be done in the middle of that is     *)
(* queued, and done by the outermost FinishedDeserializing: declarations   *)
(* of identifiers, redeclaration chains, macros, bodies, and last the      *)
(* delivery of "interesting" declarations to the consumer, which calls the *)
(* reader again.  The C++ call stack is explicit, one frame per call.      *)
(***************************************************************************)
EXTENDS Naturals, Sequences, SequencesExt

CONSTANTS
  Decls, Names, Files,
  Main,          \* the file being compiled: its declarations come from the parser
  NoDecl,
  Programs

(* What the AST files hold.                                                 *)
Program ==
  [pcmodules   : BOOLEAN,                       \* LangOpts.PCModules
   first       : [Decls -> Decls],              \* the canonical declaration the writer knew
   entity      : [Decls -> Decls],              \* isSameEntity: a representative
   file        : [Decls -> Files \cup {Main}],
   name        : [Decls -> Names],
   type        : [Decls -> Decls \cup {NoDecl}],\* read before the declaration is merged
   rest        : [Decls -> Decls \cup {NoDecl}],\* read after that
   body        : SUBSET Decls,
   interesting : SUBSET Decls,
   eager       : SUBSET Decls,                  \* the consumer reads the body when it gets it
   uses        : [Decls -> SUBSET (Decls \cup Names)],  \* read with the body
   visible     : SUBSET Decls,                  \* listed in the identifier tables
   macros      : [Names -> SUBSET (SUBSET Names)],  \* the definitions of a macro: its tokens
   imports     : [Files -> SUBSET Files],       \* the files that are read with a file
   initial     : SUBSET Files,                  \* read before anything is asked for
   external    : [Files -> SUBSET Decls]]       \* the EXTERNAL_DEFINITIONS records

ASSUME DeserializationAssumption ==
  /\ Decls \cap Names = {} /\ NoDecl \notin Decls \cup Names /\ Main \notin Files
  /\ \A p \in Programs : p \in Program

(* The first declaration of a chain is the first of itself, and in a file   *)
(* if the declaration is; without modules, all files are read at the start. *)
ASSUME FilesAssumption ==
  \A p \in Programs : \A d \in Decls :
    /\ p.first[p.first[d]] = p.first[d]
    /\ p.file[d] # Main => p.file[p.first[d]] # Main
    /\ ~p.pcmodules => p.file[d] \in p.initial \cup {Main}

VARIABLES
  program,
  stack,                  \* the calls in progress
  count,                  \* NumCurrentElementsDeserializing
  files,                  \* the AST files that have been read
  loaded,                 \* DeclsLoaded, set as soon as the object exists
  namesRead, outOfDate,   \* identifiers read, and read before the last import
  sema,                   \* SemaObj is set
  consumer, passing,      \* Consumer is set, PassingDeclsToConsumer
  externalDefinitions,    \* ExternalDefinitions
  pendingNames,           \* PendingIdentifierInfos
  pendingMacros,          \* PendingMacroIDs
  pendingChains, known,   \* PendingDeclChains, PendingDeclChainsKnown
  redecls,                \* RedeclsDeserialized
  pendingBodies,          \* PendingBodies
  interesting,            \* InterestingDecls
  preloaded,              \* PreloadedDecls
  canonical,              \* what the first link of a declaration leads to
  merged,                 \* MergedDecls
  dug,                    \* RedeclarationChains set to 0: no second attempt
  wired,                  \* redeclarations that are linked into their chain
  resolver,               \* what lookup through IdResolver finds
  bodies, bodiesRead,     \* setLazyBody, and the bodies read since
  cursor,                 \* which body the DeclsCursor of a file is in
  handled                 \* history: calls of HandleInterestingDecl

readVars == <<program, files, sema, consumer, externalDefinitions>>
idVars == <<namesRead, outOfDate, pendingNames, pendingMacros>>
chainVars == <<pendingChains, known, redecls, canonical, merged, dug, wired>>
bodyVars == <<pendingBodies, bodies, bodiesRead>>
passVars == <<passing, interesting, handled>>
scopeVars == <<preloaded, resolver>>
loadVars == <<stack, count, loaded, cursor>>

vars == <<readVars, idVars, chainVars, bodyVars, passVars, scopeVars, loadVars>>

Frame ==
  [kind    : {"record", "identifier", "finish", "scope", "chain", "macro",
              "pass", "handle", "body", "start"},
   stage   : {"first", "link", "name", "type", "merge", "rest", "end", "done",
              "names", "chains", "macros", "bodies"},
   decl    : Decls \cup {NoDecl},    \* what the call is about
   current : Decls \cup {NoDecl},    \* the declaration it asks for
   todo    : SUBSET (Decls \cup Names),
   chain   : SUBSET Decls,           \* RedeclChainVisitor::Chain
   index   : Nat,
   owning  : BOOLEAN,                \* RedeclarableResult::Owning
   guarded : BOOLEAN,                \* the call has set PassingDeclsToConsumer
   place   : Decls \cup {NoDecl}]    \* SavedStreamPosition

TypeOK ==
  /\ program \in Programs
  /\ stack \in Seq(Frame) /\ count \in Nat
  /\ files \subseteq Files /\ loaded \subseteq Decls
  /\ outOfDate \subseteq namesRead /\ namesRead \subseteq Names
  /\ {sema, consumer, passing} \subseteq BOOLEAN
  /\ externalDefinitions \subseteq Decls
  /\ pendingNames \in Seq([name : Names, decls : SUBSET Decls])
  /\ pendingMacros \in Seq(Names)
  /\ pendingChains \in Seq(Decls) /\ known \subseteq Decls
  /\ redecls \subseteq loaded /\ pendingBodies \subseteq loaded
  /\ interesting \in Seq(Decls) /\ preloaded \subseteq loaded
  /\ canonical \in [Decls -> Decls] /\ merged \in [Decls -> Seq(Decls)]
  /\ dug \subseteq Files \X Decls /\ wired \subseteq loaded
  /\ resolver \subseteq loaded /\ bodies \subseteq loaded /\ bodiesRead \subseteq bodies
  /\ cursor \in [Files -> Decls \cup {NoDecl}]
  /\ handled \in [Decls -> Nat]

Parsed == {d \in Decls : program.file[d] = Main}

InFiles(S) == {d \in Decls : program.file[d] \in S}

(* ReadAST collects the EXTERNAL_DEFINITIONS of the files S; their order    *)
(* is left open.                                                            *)
Definitions(S) == UNION {program.external[f] : f \in S}

NewFrame(kind, d) ==
  [kind |-> kind, stage |-> "done", decl |-> d, current |-> NoDecl, todo |-> {}, chain |-> {},
   index |-> 1, owning |-> TRUE, guarded |-> FALSE, place |-> NoDecl]

(* A module is read after Sema and the consumer exist (loadPCModule); a     *)
(* precompiled header before Sema does.                                     *)
Init ==
  /\ program \in Programs
  /\ stack = << >> /\ count = 0
  /\ files = program.initial
  /\ sema = program.pcmodules /\ consumer = program.pcmodules /\ passing = FALSE
  /\ externalDefinitions = Definitions(program.initial)
  /\ namesRead = {} /\ outOfDate = {}
  /\ pendingNames = << >> /\ pendingMacros = << >> /\ pendingChains = << >> /\ interesting = << >>
  /\ known = {} /\ redecls = {} /\ pendingBodies = {} /\ preloaded = {} /\ dug = {}
  /\ canonical = [d \in Decls |-> IF d \in Parsed THEN program.first[d] ELSE d]
  /\ merged = [d \in Decls |-> << >>]
  /\ loaded = Parsed /\ wired = Parsed /\ resolver = Parsed
  /\ bodies = Parsed \cap program.body /\ bodiesRead = bodies
  /\ cursor = [f \in Files |-> NoDecl]
  /\ handled = [d \in Decls |-> 0]

Top == Last(stack)
Below == Front(stack)
Is(kind) == stack # << >> /\ Top.kind = kind
At(kind, stage) == Is(kind) /\ Top.stage = stage
WithTop(f) == Append(Below, f)

(* getCanonicalDecl: through the first declaration of its own file to the   *)
(* declaration that was merged with.                                        *)
Canon(d) == canonical[canonical[d]]

Redeclarations(d) == {d, Canon(d)} \cup {e \in wired : Canon(e) = Canon(d)}

-----------------------------------------------------------------------------
(* Reading declarations and identifiers.                                    *)

(* GetDecl on top of the calls s.  LoadedDecl comes first, so that a        *)
(* recursive request gets the half-read declaration.                        *)
GetDecl(d, s) ==
  IF d = NoDecl \/ d \in loaded
    THEN stack' = s /\ UNCHANGED <<count, loaded, cursor>>
    ELSE LET f == program.file[d] IN
         /\ stack' = Append(s, [NewFrame("record", d) EXCEPT !.stage = "first", !.place = cursor[f]])
         /\ count' = count + 1
         /\ loaded' = loaded \cup {d}
         /\ cursor' = [cursor EXCEPT ![f] = NoDecl]

(* ASTReader::get and updateOutOfDateIdentifier: the identifier tables of   *)
(* all files are searched; the declarations can never be read at once.      *)
ReadIdentifier(n, s) ==
  /\ stack' = Append(s, NewFrame("identifier", NoDecl))
  /\ count' = count + 1
  /\ namesRead' = namesRead \cup {n}
  /\ outOfDate' = outOfDate \ {n}
  /\ pendingNames' = Append(pendingNames,
       [name |-> n, decls |-> {d \in program.visible \cap InFiles(files) : program.name[d] = n}])
  /\ pendingMacros' = IF program.macros[n] = {} \/ Contains(pendingMacros, n)
                        THEN pendingMacros ELSE Append(pendingMacros, n)
  /\ UNCHANGED <<loaded, cursor>>

(* DecodeIdentifierInfo reads an identifier the first time only.            *)
DecodeIdentifier(n, s) ==
  IF n \in namesRead
    THEN stack' = s /\ UNCHANGED <<count, loaded, cursor, idVars>>
    ELSE ReadIdentifier(n, s)

(* VisitRedeclarable loads the first declaration and links to it ...        *)
ReadFirst ==
  /\ At("record", "first")
  /\ GetDecl(program.first[Top.decl], WithTop([Top EXCEPT !.stage = "link"]))
  /\ UNCHANGED <<readVars, idVars, chainVars, bodyVars, passVars, scopeVars>>

LinkToFirst ==
  /\ At("record", "link")
  /\ stack' = WithTop([Top EXCEPT !.stage = "name"])
  /\ canonical' = [canonical EXCEPT ![Top.decl] = program.first[Top.decl]]
  /\ redecls' = redecls \cup {Top.decl}
  /\ UNCHANGED <<readVars, idVars, bodyVars, passVars, scopeVars, count, loaded, cursor,
                 pendingChains, known, merged, dug, wired>>

(* ... VisitDeclaratorDecl reads the name and the type.                     *)
ReadDeclName ==
  /\ At("record", "name")
  /\ DecodeIdentifier(program.name[Top.decl], WithTop([Top EXCEPT !.stage = "type"]))
  /\ UNCHANGED <<readVars, chainVars, bodyVars, passVars, scopeVars>>

ReadDeclType ==
  /\ At("record", "type")
  /\ GetDecl(program.type[Top.decl], WithTop([Top EXCEPT !.stage = "merge"]))
  /\ UNCHANGED <<readVars, idVars, chainVars, bodyVars, passVars, scopeVars>>

(* findExisting looks an identifier up, which first brings it up to date.   *)
UpdateIdentifier ==
  /\ At("record", "merge") /\ program.pcmodules
  /\ program.name[Top.decl] \in outOfDate
  /\ ReadIdentifier(program.name[Top.decl], stack)
  /\ UNCHANGED <<readVars, chainVars, bodyVars, passVars, scopeVars>>

Existing(d) == {e \in resolver : program.entity[e] = program.entity[d]}

(* The chains mergeRedeclarable makes pending for d, merged into c, and     *)
(* what it notes as known; the chain of a parsed declaration is found       *)
(* through the first declaration that was merged into it.                   *)
MergedInto(d, c) ==
  IF Canon(d) = d /\ ~Contains(merged[c], d) THEN Append(merged[c], d) ELSE merged[c]

ChainToKnow(d, c) ==
  IF c \notin Parsed THEN {c} ELSE IF Canon(d) = d THEN {program.first[d]} ELSE {}

ChainToLoad(d, c) == IF c \notin Parsed THEN c ELSE MergedInto(d, c)[1]

MergeWith(d, c) ==
  /\ stack' = WithTop([Top EXCEPT !.stage = "rest", !.owning = FALSE])
  /\ canonical' = [canonical EXCEPT ![d] = c]
  /\ merged' = [merged EXCEPT ![c] = MergedInto(d, c)]
  /\ known' = known \cup ChainToKnow(d, c)
  /\ pendingChains' = IF ChainToKnow(d, c) \subseteq known
                        THEN pendingChains ELSE Append(pendingChains, ChainToLoad(d, c))
  /\ UNCHANGED resolver

(* mergeRedeclarable; without an existing declaration the result's          *)
(* destructor makes this one the declaration that later ones find.          *)
Merge ==
  /\ At("record", "merge")
  /\ program.pcmodules => program.name[Top.decl] \notin outOfDate
  /\ LET d == Top.decl
         found == IF program.pcmodules THEN Existing(d) ELSE {}
     IN  \/ \E e \in found : Canon(e) # Canon(d) /\ MergeWith(d, Canon(e))
         \/ /\ found = {} \/ \E e \in found : Canon(e) = Canon(d)
            /\ stack' = WithTop([Top EXCEPT !.stage = "rest"])
            /\ resolver' = IF program.pcmodules /\ found = {} THEN resolver \cup {d} ELSE resolver
            /\ UNCHANGED <<canonical, merged, known, pendingChains>>
  /\ UNCHANGED <<readVars, idVars, bodyVars, passVars, preloaded, count, loaded, cursor,
                 redecls, dug, wired>>

ReadRest ==
  /\ At("record", "rest")
  /\ GetDecl(program.rest[Top.decl], WithTop([Top EXCEPT !.stage = "end"]))
  /\ UNCHANGED <<readVars, idVars, chainVars, bodyVars, passVars, scopeVars>>

(* The end of ReadDeclRecord: ~RedeclarableResult, the pending body, and    *)
(* the consumer's interest.                                                 *)
RecordRead ==
  /\ At("record", "end")
  /\ LET d == Top.decl
         f == program.first[d]
         new == Top.owning /\ f \notin known
     IN  /\ pendingChains' = IF new THEN Append(pendingChains, f) ELSE pendingChains
         /\ known' = IF new THEN known \cup {f} ELSE known
         /\ pendingBodies' = pendingBodies \cup ({d} \cap program.body)
         /\ interesting' = IF d \in program.interesting THEN Append(interesting, d) ELSE interesting
  /\ stack' = WithTop([Top EXCEPT !.stage = "done"])
  /\ UNCHANGED <<readVars, idVars, scopeVars, count, loaded, cursor, redecls, canonical, merged,
                 dug, wired, bodies, bodiesRead, passing, handled>>

-----------------------------------------------------------------------------
(* FinishedDeserializing.                                                   *)

(* Mutant: ReadDeclRecord does not save the position in the stream.         *)
CursorAfter_Lost(f) == cursor

(* SavedStreamPosition: the cursor of the record's file jumps back when     *)
(* ReadDeclRecord returns.  Nothing saves it for an identifier.             *)
CursorAfter(f) ==
  IF f.decl = NoDecl THEN cursor
    ELSE [cursor EXCEPT ![program.file[f.decl]] = f.place]

GuardEnds == At("record", "done") \/ At("identifier", "done")

(* "We decrease NumCurrentElementsDeserializing only after pending actions  *)
(* are finished, to avoid recursively re-calling finishPendingActions()."   *)
IsOutermost == count = 1

FinishNested ==
  /\ GuardEnds /\ ~IsOutermost
  /\ count' = count - 1
  /\ stack' = Below
  /\ cursor' = CursorAfter(Top)
  /\ UNCHANGED <<readVars, idVars, chainVars, bodyVars, passVars, scopeVars, loaded>>

FinishPendingActions ==
  /\ GuardEnds /\ IsOutermost
  /\ stack' = WithTop([Top EXCEPT !.kind = "finish", !.stage = "names"])
  /\ UNCHANGED <<readVars, idVars, chainVars, bodyVars, passVars, scopeVars, count, loaded, cursor>>

(* SetGloballyVisibleDecls for the oldest pending identifier.  Its entry    *)
(* stays in the queue meanwhile.                                            *)
SetGloballyVisibleDecls ==
  /\ At("finish", "names") /\ pendingNames # << >>
  /\ stack' = Append(stack, [NewFrame("scope", NoDecl) EXCEPT !.todo = Head(pendingNames).decls])
  /\ UNCHANGED <<readVars, idVars, chainVars, bodyVars, passVars, scopeVars, count, loaded, cursor>>

(* A loop over declarations asks for one of them.                           *)
AskForNext ==
  /\ Is("scope") \/ Is("chain")
  /\ Top.current = NoDecl
  /\ \E d \in Top.todo :
       GetDecl(d, WithTop([Top EXCEPT !.current = d, !.todo = @ \ {d}]))
  /\ UNCHANGED <<readVars, idVars, chainVars, bodyVars, passVars, scopeVars>>

PushIntoScope ==
  /\ Is("scope") /\ Top.current # NoDecl
  /\ stack' = WithTop([Top EXCEPT !.current = NoDecl])
  /\ resolver' = IF sema THEN resolver \cup {Top.current} ELSE resolver
  /\ preloaded' = IF sema THEN preloaded ELSE preloaded \cup {Top.current}
  /\ UNCHANGED <<readVars, idVars, chainVars, bodyVars, passVars, count, loaded, cursor>>

(* Mutant: what is queued meanwhile is dropped.                             *)
NamesAfter_Cleared == << >>

NamesAfter == Tail(pendingNames)

PopPendingName ==
  /\ Is("scope") /\ Top.current = NoDecl /\ Top.todo = {}
  /\ stack' = Below
  /\ pendingNames' = NamesAfter
  /\ UNCHANGED <<readVars, namesRead, outOfDate, pendingMacros, chainVars, bodyVars, passVars,
                 scopeVars, count, loaded, cursor>>

NamesAreDone ==
  /\ At("finish", "names") /\ pendingNames = << >>
  /\ stack' = WithTop([Top EXCEPT !.stage = "chains", !.index = 1])
  /\ UNCHANGED <<readVars, idVars, chainVars, bodyVars, passVars, scopeVars, count, loaded, cursor>>

(* The canonical declaration, and those that have been merged into it.      *)
SearchDecls(id) == ({id} \cap {Canon(id)}) \cup Range(merged[Canon(id)])

(* Mutant: only the file of the first declaration is searched.              *)
LocalRedeclarations_FirstFile(S) ==
  {d \in InFiles(files) : /\ program.first[d] \in S \ {d}
                          /\ program.file[d] = program.file[program.first[d]]
                          /\ <<program.file[d], program.first[d]>> \notin dug}

(* The local redeclaration chains of S that no search has dug out yet.      *)
LocalRedeclarations(S) ==
  {d \in InFiles(files) : /\ program.first[d] \in S \ {d}
                          /\ <<program.file[d], program.first[d]>> \notin dug}

(* loadPendingDeclChain, by index: the vector grows meanwhile.              *)
LoadPendingDeclChain ==
  /\ At("finish", "chains") /\ Top.index <= Len(pendingChains)
  /\ LET id == pendingChains[Top.index]
         S == SearchDecls(id)
         local == LocalRedeclarations(S)
     IN  /\ stack' = Append(stack, [NewFrame("chain", id) EXCEPT !.todo = S \cup local])
         /\ dug' = dug \cup {<<program.file[d], program.first[d]>> : d \in local}
  /\ UNCHANGED <<readVars, idVars, bodyVars, passVars, scopeVars, count, loaded, cursor,
                 pendingChains, known, redecls, canonical, merged, wired>>

AddToChain ==
  /\ Is("chain") /\ Top.current # NoDecl
  /\ stack' = WithTop([Top EXCEPT !.current = NoDecl, !.chain = @ \cup ({Top.current} \cap redecls)])
  /\ redecls' = redecls \ {Top.current}
  /\ UNCHANGED <<readVars, idVars, bodyVars, passVars, scopeVars, count, loaded, cursor,
                 pendingChains, known, canonical, merged, dug, wired>>

(* Mutant: the processed chain is not forgotten.                            *)
KnownAfter_Kept(id) == known

KnownAfter(id) == known \ {id}

HookUpChain ==
  /\ Is("chain") /\ Top.current = NoDecl /\ Top.todo = {}
  /\ stack' = Append(Front(Below), [Last(Below) EXCEPT !.index = @ + 1])
  /\ wired' = wired \cup Top.chain
  /\ known' = KnownAfter(Top.decl)
  /\ UNCHANGED <<readVars, idVars, bodyVars, passVars, scopeVars, count, loaded, cursor,
                 pendingChains, redecls, canonical, merged, dug>>

ChainsAreDone ==
  /\ At("finish", "chains") /\ Top.index > Len(pendingChains)
  /\ stack' = WithTop([Top EXCEPT !.stage = "macros", !.index = 1])
  /\ pendingChains' = << >>
  /\ UNCHANGED <<readVars, idVars, bodyVars, passVars, scopeVars, count, loaded, cursor,
                 known, redecls, canonical, merged, dug, wired>>

(* getMacro decodes the identifiers among the tokens of the definitions.    *)
LoadPendingMacro ==
  /\ At("finish", "macros") /\ Top.index <= Len(pendingMacros)
  /\ stack' = Append(WithTop([Top EXCEPT !.index = @ + 1]),
                     [NewFrame("macro", NoDecl) EXCEPT
                        !.todo = UNION program.macros[pendingMacros[Top.index]]])
  /\ UNCHANGED <<readVars, idVars, chainVars, bodyVars, passVars, scopeVars, count, loaded, cursor>>

ReadMacroToken ==
  /\ Is("macro")
  /\ \E n \in Top.todo : DecodeIdentifier(n, WithTop([Top EXCEPT !.todo = @ \ {n}]))
  /\ UNCHANGED <<readVars, chainVars, bodyVars, passVars, scopeVars>>

MacroIsRead ==
  /\ Is("macro") /\ Top.todo = {}
  /\ stack' = Below
  /\ UNCHANGED <<readVars, idVars, chainVars, bodyVars, passVars, scopeVars, count, loaded, cursor>>

(* Mutant: one round is taken to be enough.                                 *)
AnyPending_No == FALSE

AnyPending == pendingNames # << >> \/ pendingChains # << >>

(* The test of the outer loop, when the macros are done.                    *)
MacrosAreDone ==
  /\ At("finish", "macros") /\ Top.index > Len(pendingMacros)
  /\ stack' = WithTop([Top EXCEPT !.stage = IF AnyPending THEN "names" ELSE "bodies"])
  /\ pendingMacros' = << >>
  /\ UNCHANGED <<readVars, namesRead, outOfDate, pendingNames, chainVars, bodyVars, passVars,
                 scopeVars, count, loaded, cursor>>

(* Mutant: only the declaration itself is asked.                            *)
HasBody_Own(d) == d \in bodies

(* hasBody: a redeclaration that the chain leads to has one.                *)
HasBody(d) == Redeclarations(d) \cap bodies # {}

SetLazyBody ==
  /\ At("finish", "bodies")
  /\ \E d \in pendingBodies :
       /\ pendingBodies' = pendingBodies \ {d}
       /\ bodies' = IF program.pcmodules /\ HasBody(d) THEN bodies ELSE bodies \cup {d}
  /\ UNCHANGED <<readVars, idVars, chainVars, bodiesRead, passVars, scopeVars, loadVars>>

MayPass(n) == n = 0 /\ consumer /\ ~passing

(* finishPendingActions returns; the outermost call delivers.               *)
FinishedDeserializing ==
  /\ At("finish", "bodies") /\ pendingBodies = {}
  /\ count' = count - 1
  /\ IF MayPass(count - 1)
       THEN /\ passing' = TRUE
            /\ stack' = WithTop([Top EXCEPT !.kind = "pass", !.guarded = TRUE])
            /\ UNCHANGED cursor
       ELSE stack' = Below /\ cursor' = CursorAfter(Top) /\ UNCHANGED passing
  /\ UNCHANGED <<readVars, idVars, chainVars, bodyVars, scopeVars, loaded, interesting, handled>>

-----------------------------------------------------------------------------
(* The consumer.                                                            *)

PassInterestingDecl ==
  /\ Is("pass") /\ interesting # << >>
  /\ interesting' = Tail(interesting)
  /\ handled' = [handled EXCEPT ![Head(interesting)] = @ + 1]
  /\ stack' = Append(stack, NewFrame("handle", Head(interesting)))
  /\ UNCHANGED <<readVars, idVars, chainVars, bodyVars, scopeVars, count, loaded, cursor, passing>>

(* Mutant: the guard is not reset.                                          *)
PassingAfter_Kept(f) == passing

PassingAfter(f) == passing /\ ~f.guarded

AllPassed ==
  /\ Is("pass") /\ interesting = << >>
  /\ passing' = PassingAfter(Top)
  /\ stack' = Below
  /\ cursor' = CursorAfter(Top)
  /\ UNCHANGED <<readVars, idVars, chainVars, bodyVars, scopeVars, count, loaded, interesting, handled>>

(* GetExternalDeclStmt jumps to the body, and does not come back.           *)
GetBody(d, s) ==
  /\ d \in bodies \ bodiesRead
  /\ bodiesRead' = bodiesRead \cup {d}
  /\ stack' = Append(s, [NewFrame("body", d) EXCEPT !.todo = program.uses[d]])
  /\ cursor' = [cursor EXCEPT ![program.file[d]] = d]
  /\ UNCHANGED <<readVars, idVars, chainVars, pendingBodies, bodies, passVars, scopeVars, count, loaded>>

ConsumerGetsBody ==
  /\ Is("handle") /\ Top.decl \in program.eager
  /\ GetBody(Top.decl, stack)

ConsumerReturns ==
  /\ Is("handle")
  /\ Top.decl \in program.eager => Top.decl \notin bodies \ bodiesRead
  /\ stack' = Below
  /\ UNCHANGED <<readVars, idVars, chainVars, bodyVars, passVars, scopeVars, count, loaded, cursor>>

ReadInBody ==
  /\ Is("body")
  /\ \E x \in Top.todo :
       LET s == WithTop([Top EXCEPT !.todo = @ \ {x}]) IN
       IF x \in Decls THEN GetDecl(x, s) /\ UNCHANGED idVars ELSE DecodeIdentifier(x, s)
  /\ UNCHANGED <<readVars, chainVars, bodyVars, passVars, scopeVars>>

BodyIsRead ==
  /\ Is("body") /\ Top.todo = {}
  /\ stack' = Below
  /\ UNCHANGED <<readVars, idVars, chainVars, bodyVars, passVars, scopeVars, count, loaded, cursor>>

StartNextDefinition ==
  /\ Is("start")
  /\ \E d \in Top.todo : GetDecl(d, WithTop([Top EXCEPT !.todo = @ \ {d}]))
  /\ UNCHANGED <<readVars, idVars, chainVars, bodyVars, passVars, scopeVars>>

(* PassInterestingDeclsToConsumer, which does not set the guard.            *)
DefinitionsStarted ==
  /\ Is("start") /\ Top.todo = {}
  /\ externalDefinitions' = {}
  /\ stack' = WithTop([Top EXCEPT !.kind = "pass"])
  /\ UNCHANGED <<program, files, sema, consumer, idVars, chainVars, bodyVars, passVars, scopeVars,
                 count, loaded, cursor>>

-----------------------------------------------------------------------------
(* What the preprocessor, Sema and the code generator ask for.              *)

Idle == stack = << >>

AskForDecl ==
  /\ Idle
  /\ \E d \in InFiles(files) \ loaded : GetDecl(d, stack)
  /\ UNCHANGED <<readVars, idVars, chainVars, bodyVars, passVars, scopeVars>>

LookUp ==
  /\ Idle
  /\ \E n \in (Names \ namesRead) \cup outOfDate : ReadIdentifier(n, stack)
  /\ UNCHANGED <<readVars, chainVars, bodyVars, passVars, scopeVars>>

AskForBody == Idle /\ \E d \in Decls : GetBody(d, stack)

InitializeSema ==
  /\ Idle /\ ~sema
  /\ sema' = TRUE
  /\ resolver' = resolver \cup preloaded
  /\ preloaded' = {}
  /\ UNCHANGED <<program, files, consumer, externalDefinitions, idVars, chainVars, bodyVars,
                 passVars, loadVars>>

StartProgram ==
  /\ Idle /\ sema /\ ~consumer
  /\ consumer' = TRUE
  /\ stack' = <<[NewFrame("start", NoDecl) EXCEPT !.todo = externalDefinitions]>>
  /\ UNCHANGED <<program, files, sema, externalDefinitions, idVars, chainVars, bodyVars, passVars,
                 scopeVars, count, loaded, cursor>>

(* ReadAST for an import: identifiers are out of date from now on.          *)
ImportFile ==
  /\ Idle /\ program.pcmodules
  /\ \E f \in Files \ files :
       LET new == ({f} \cup program.imports[f]) \ files IN
       /\ files' = files \cup new
       /\ externalDefinitions' = externalDefinitions \cup Definitions(new)
  /\ outOfDate' = namesRead
  /\ UNCHANGED <<program, sema, consumer, namesRead, pendingNames, pendingMacros, chainVars,
                 bodyVars, passVars, scopeVars, loadVars>>

ClientStep == AskForDecl \/ LookUp \/ AskForBody \/ InitializeSema \/ StartProgram \/ ImportFile

ReadStep ==
  \/ ReadFirst \/ LinkToFirst \/ ReadDeclName \/ ReadDeclType \/ UpdateIdentifier \/ Merge
  \/ ReadRest \/ RecordRead \/ AskForNext \/ ReadMacroToken \/ ReadInBody \/ BodyIsRead

FinishStep ==
  \/ FinishNested \/ FinishPendingActions \/ SetGloballyVisibleDecls \/ PushIntoScope
  \/ PopPendingName \/ NamesAreDone \/ LoadPendingDeclChain \/ AddToChain \/ HookUpChain
  \/ ChainsAreDone \/ LoadPendingMacro \/ MacroIsRead \/ MacrosAreDone \/ SetLazyBody
  \/ FinishedDeserializing

ConsumerStep ==
  \/ PassInterestingDecl \/ AllPassed \/ ConsumerGetsBody \/ ConsumerReturns
  \/ StartNextDefinition \/ DefinitionsStarted

Next == ClientStep \/ ReadStep \/ FinishStep \/ ConsumerStep

Spec == Init /\ [][Next]_vars

(* A call that has begun goes on; nothing makes a client ask.               *)
FairSpec == Spec /\ WF_vars(ReadStep) /\ WF_vars(FinishStep) /\ WF_vars(ConsumerStep)
=============================================================================
