------------------------ MODULE PendingInstantiations ------------------------
(***************************************************************************)
(* How Sema instantiates templates: the queues of pending instantiations   *)
(* and of vtable uses (lib/Sema/SemaTemplateInstantiateDecl.cpp,           *)
(* SemaExpr.cpp, SemaDeclCXX.cpp, Sema.cpp).                               *)
(*                                                                         *)
(* A reference queues the specialization or, for what a constant           *)
(* expression may need, instantiates it at once; instantiating a body      *)
(* makes further references.  The C++ call stack is explicit: a frame is a *)
(* call of InstantiateSubprogramDefinition or of its twin for static data  *)
(* members, and the lowest frame is the parser's.                          *)
(***************************************************************************)
EXTENDS Naturals, Sequences, FiniteSets, SequencesExt

CONSTANTS
  Subprograms,         \* specializations of function templates and members
  Variables,           \* static data members of specializations
  Classes,             \* dynamic classes
  Parser,              \* what the lowest frame instantiates
  Programs,            \* possible translation units
  InstantiationDepth   \* LangOpts.InstantiationDepth

Specializations == Subprograms \cup Variables

(* What a piece of code does that concerns the queues.  A body refers to    *)
(* specializations and to vtables; "handle" is the call of HandleVTable.    *)
Reference ==
  [kind : {"use"}, of : Specializations] \cup [kind : {"vtable", "required", "handle"}, of : Classes]

(* What the file holds beside references: the definition of a template, an  *)
(* explicit instantiation declaration or definition, and the definition of  *)
(* a class's key function.                                                  *)
Declaration ==
  [kind : {"pattern", "extern", "explicit"}, of : Specializations] \cup [kind : {"key"}, of : Classes]

Program ==
  [file      : SUBSET (Reference \cup Declaration),
   headers   : SUBSET Specializations,  \* templates defined before the rest of the file
   body      : [Specializations -> Seq(Reference)],
   constant  : SUBSET Specializations,  \* isConstexpr, isUsableInConstantExpressions
   inlined   : SUBSET Subprograms,
   late      : SUBSET Subprograms,      \* isLateTemplateParsed
   enclosing : [Specializations -> Subprograms \cup {Parser}],
                                        \* of a member of a local class: its function
   parent    : [Subprograms -> SUBSET Classes],  \* the class of a virtual member
   virtual   : [Classes -> Seq(Subprograms)],    \* getFinalOverriders
   local     : SUBSET Classes,
   keyed     : SUBSET Classes,          \* has a key function, not from a template
   extern    : SUBSET Classes]          \* only explicit instantiation declarations

ASSUME SpecializationsAssumption ==
  /\ Subprograms \cap Variables = {} /\ Parser \notin Specializations
  /\ Classes \cap Specializations = {} /\ IsFiniteSet(Classes)
  /\ InstantiationDepth \in Nat
  /\ \A p \in Programs : p \in Program

VARIABLES
  program,
  file,                   \* the declarations that have not been parsed yet
  stack,                  \* the calls in progress
  vtableUses,             \* VTableUses
  vtablesUsed,            \* VTablesUsed, "no" for a class without an entry
  pendingInstantiations,  \* PendingInstantiations
  pendingLocal,           \* PendingLocalImplicitInstantiations
  pointOfInstantiation,   \* specializations with a valid PointOfInstantiation
  used,                   \* isUsed
  kind,                   \* getTemplateSpecializationKind
  patterns,               \* the templates defined so far
  keyDefined,             \* the classes whose key function has a body
  lateTemplateParser,     \* LateTemplateParser is set
  defined,                \* specializations with a definition
  diagnosed,              \* missing definitions that have been reported
  tooDeep,                \* the depth limit has been reached
  handed,                 \* history: calls of HandleTopLevelDecl
  vtableHandled           \* history: the calls of HandleVTable

queueVars == <<pendingInstantiations, vtableUses>>
fileVars == <<program, file, patterns, keyDefined, lateTemplateParser>>
declVars == <<kind, pointOfInstantiation, used>>
resultVars == <<defined, diagnosed, tooDeep, handed>>

vars == <<fileVars, stack, queueVars, vtablesUsed, pendingLocal, declVars, resultVars, vtableHandled>>

Frame ==
  [of        : Specializations \cup {Parser},
   stage     : {"body", "local", "vtables", "pending", "done"},
   code      : Seq(Reference),          \* what is left of the code
   recursive : BOOLEAN,
   index     : Nat,                     \* the I of DefineUsedVTables
   savedUses    : Seq(Classes),         \* SavedVTableUses
   savedPending : Seq(Specializations)] \* SavedPendingInstantiations

TypeOK ==
  /\ program \in Programs
  /\ file \subseteq Reference \cup Declaration
  /\ stack \in Seq(Frame) /\ stack # << >>
  /\ vtableUses \in Seq(Classes)
  /\ vtablesUsed \in [Classes -> {"no", "used", "required"}]
  /\ pendingInstantiations \in Seq(Specializations)
  /\ pendingLocal \in Seq(Specializations)
  /\ pointOfInstantiation \subseteq Specializations
  /\ used \subseteq Subprograms
  /\ kind \in [Specializations -> {"implicit", "extern", "explicit"}]
  /\ patterns \subseteq Specializations
  /\ keyDefined \subseteq Classes
  /\ lateTemplateParser \in BOOLEAN
  /\ defined \subseteq Specializations
  /\ diagnosed \subseteq Specializations
  /\ tooDeep \in BOOLEAN
  /\ handed \in [Specializations -> Nat]
  /\ vtableHandled \in [Classes -> {"no", "used", "required"}]

NewFrame(x, code, recursive) ==
  [of |-> x, stage |-> "body", code |-> code, recursive |-> recursive, index |-> 0,
   savedUses |-> << >>, savedPending |-> << >>]

Init ==
  /\ program \in Programs
  /\ file = program.file
  /\ stack = <<NewFrame(Parser, << >>, FALSE)>>
  /\ vtableUses = << >> /\ vtablesUsed = [c \in Classes |-> "no"]
  /\ pendingInstantiations = << >> /\ pendingLocal = << >>
  /\ pointOfInstantiation = {} /\ used = {} /\ kind = [x \in Specializations |-> "implicit"]
  /\ patterns = program.headers /\ keyDefined = {} /\ lateTemplateParser = FALSE
  /\ defined = {} /\ diagnosed = {} /\ tooDeep = FALSE
  /\ handed = [x \in Specializations |-> 0]
  /\ vtableHandled = [c \in Classes |-> "no"]

Top == Last(stack)

IsLocalMember(x) == program.enclosing[x] # Parser

(* Top after the first reference of its code, or with other fields.         *)
Advanced == Append(Front(stack), [Top EXCEPT !.code = Tail(@)])
Staged(stage) == Append(Front(stack), [Top EXCEPT !.stage = stage])

-----------------------------------------------------------------------------
(* InstantiateSubprogramDefinition and InstantiateStaticDataMemberDefinition*)

(* Mutant: only an invalid declaration is skipped.                          *)
IsFinished_Invalid(x) == x \in Subprograms /\ x \in diagnosed

IsFinished(x) == x \in defined \/ (x \in Subprograms /\ x \in diagnosed)

(* The early returns, in their order; x is of the given specialization kind.*)
Outcome(x, as, definitionRequired, depth) ==
  CASE IsFinished(x) -> "nothing"
    [] ~IsFinished(x) /\ x \in patterns \cap program.late /\ ~lateTemplateParser -> "postpone"
    [] ~IsFinished(x) /\ x \notin patterns ->
         IF definitionRequired THEN "diagnose"
         ELSE IF as = "explicit" THEN "postpone" ELSE "nothing"
    [] OTHER -> IF as = "extern" /\ x \notin program.inlined THEN "nothing"
                ELSE IF depth > InstantiationDepth THEN "tooDeep" ELSE "start"

(* The call has a scope of its own, for the function that it instantiates.  *)
ScopeIsOpen(frame) == frame.of # Parser /\ frame.stage \in {"body", "local"}

(* A call for x, whose specialization kind is as, on top of the given calls *)
(* and with PendingInstantiations as given.  The frame of a recursive call  *)
(* keeps the queues of its caller.  The definition of a variable exists     *)
(* before its initializer is instantiated.                                  *)
Instantiate(x, as, recursive, definitionRequired, calls, queue) ==
  LET outcome == Outcome(x, as, definitionRequired, Len(calls))
      start == outcome = "start"
      frame == [NewFrame(x, program.body[x], recursive) EXCEPT
                  !.savedUses = IF recursive THEN vtableUses ELSE << >>,
                  !.savedPending = IF recursive THEN queue ELSE << >>]
  IN /\ stack' = IF start THEN Append(calls, frame) ELSE calls
     /\ vtableUses' = IF start /\ recursive THEN << >> ELSE vtableUses
     /\ pendingInstantiations' =
          IF start /\ recursive THEN << >>
          ELSE IF outcome = "postpone" THEN Append(queue, x) ELSE queue
     /\ defined' = IF start /\ x \in Variables THEN defined \cup {x} ELSE defined
     /\ diagnosed' = IF outcome = "diagnose" THEN diagnosed \cup {x} ELSE diagnosed
     /\ tooDeep' = (tooDeep \/ outcome = "tooDeep")
     /\ UNCHANGED handed

-----------------------------------------------------------------------------
(* References                                                               *)

(* MarkVTableUsed.  A local class has its virtual members marked at once.   *)
(* Mutant: a class that becomes required is not queued again.               *)
UsesToAdd_OnlyNew(c, required) ==
  IF vtablesUsed[c] = "no" THEN <<c>> ELSE << >>

UsesToAdd(c, required) ==
  IF vtablesUsed[c] = "no" \/ (required /\ vtablesUsed[c] = "used") THEN <<c>> ELSE << >>

VirtualMembers(c) ==
  [i \in DOMAIN program.virtual[c] |-> [kind |-> "use", of |-> program.virtual[c][i]]]

MarkVTableUsed(c, required, rest) ==
  LET new == UsesToAdd(c, required) # << >> IN
  /\ vtablesUsed' = IF required THEN [vtablesUsed EXCEPT ![c] = "required"]
                    ELSE IF new THEN [vtablesUsed EXCEPT ![c] = "used"] ELSE vtablesUsed
  /\ vtableUses' = IF c \in program.local THEN vtableUses ELSE vtableUses \o UsesToAdd(c, required)
  /\ stack' = Append(Front(stack),
                [Top EXCEPT !.code = IF new /\ c \in program.local
                                       THEN VirtualMembers(c) \o rest ELSE rest])

Code(what) == Top.code # << >> /\ Head(Top.code).kind \in what

ReferToVTable ==
  /\ Code({"vtable", "required"})
  /\ MarkVTableUsed(Head(Top.code).of, Head(Top.code).kind = "required", Tail(Top.code))
  /\ UNCHANGED <<fileVars, pendingInstantiations, pendingLocal, declVars, resultVars, vtableHandled>>

(* isImplicitlyInstantiable. A template that is parsed late has a body for  *)
(* hasBody from its declaration on, so only the inline ones are asked for.  *)
IsImplicitlyInstantiable(x) ==
  CASE x \in diagnosed -> FALSE
    [] x \notin diagnosed /\ kind[x] = "implicit" -> TRUE
    [] x \notin diagnosed /\ kind[x] = "explicit" -> FALSE
    [] OTHER -> x \notin patterns \/ x \in program.inlined

(* The classes whose vtable a reference to x uses: x is virtual.            *)
UnusedParents(x) == {c \in program.parent[x] : vtablesUsed[c] = "no"}

(* The first part of MarkSubprogramReferenced: the vtable of the class is   *)
(* marked, the rest follows when x is looked at again.                      *)
IsSkipped(x) ==
  x \in used /\ ~(x \in program.constant /\ x \notin defined /\ IsImplicitlyInstantiable(x))

ReferToVirtualMember ==
  /\ Code({"use"})
  /\ LET x == Head(Top.code).of IN
       /\ x \in Subprograms /\ ~IsSkipped(x)
       /\ \E c \in UnusedParents(x) : MarkVTableUsed(c, FALSE, Top.code)
  /\ UNCHANGED <<fileVars, pendingInstantiations, pendingLocal, declVars, resultVars, vtableHandled>>

(* Whether the reference queues x or instantiates it at once.               *)
IsPending(x) ==
  IF x \in Subprograms
    THEN /\ ~IsSkipped(x) /\ IsImplicitlyInstantiable(x)
         /\ ~(Top.of = x /\ Top.stage = "body")
         /\ \/ x \notin pointOfInstantiation \/ kind[x] # "implicit"
            \/ x \in program.constant
    ELSE kind[x] = "implicit" /\ (x \notin pointOfInstantiation \/ x \in program.constant)

IsQueuedLocally(x) == IsLocalMember(x)

(* MarkSubprogramReferenced, DoMarkVarDeclReferenced.                       *)
ReferToSpecialization ==
  /\ Code({"use"})
  /\ LET x == Head(Top.code).of IN
       /\ x \in Subprograms /\ ~IsSkipped(x) => UnusedParents(x) = {}
       /\ used' = IF x \in Subprograms /\ ~(Top.of = x /\ Top.stage = "body")
                    THEN used \cup {x} ELSE used
       /\ pointOfInstantiation' =
            IF IsPending(x) THEN pointOfInstantiation \cup {x} ELSE pointOfInstantiation
       /\ UNCHANGED kind
       /\ IF IsPending(x) /\ x \in program.constant /\ ~IsQueuedLocally(x)
            THEN /\ Instantiate(x, kind[x], FALSE, FALSE, Advanced, pendingInstantiations)
                 /\ UNCHANGED pendingLocal
            ELSE /\ stack' = Advanced
                 /\ pendingLocal' = IF IsPending(x) /\ IsQueuedLocally(x)
                                      THEN Append(pendingLocal, x) ELSE pendingLocal
                 /\ pendingInstantiations' =
                      IF IsPending(x) /\ ~IsQueuedLocally(x)
                        THEN Append(pendingInstantiations, x) ELSE pendingInstantiations
                 /\ UNCHANGED <<vtableUses, resultVars>>
  /\ UNCHANGED <<fileVars, vtablesUsed, vtableHandled>>

-----------------------------------------------------------------------------
(* The rest of an instantiation                                             *)

Instantiating == Top.of # Parser

(* The body or the initializer is complete: HandleTopLevelDecl.  A variable *)
(* has no local instantiations of its own to perform.                       *)
(* Mutant: the local instantiations are left to a recursive call.           *)
AfterBody_IfRecursive(frame) ==
  IF frame.of \in Subprograms /\ frame.recursive THEN "local" ELSE "vtables"

AfterBody(frame) == IF frame.of \in Subprograms THEN "local" ELSE "vtables"

FinishBody ==
  /\ Instantiating /\ Top.stage = "body" /\ Top.code = << >>
  /\ defined' = defined \cup {Top.of}
  /\ handed' = [handed EXCEPT ![Top.of] = @ + 1]
  /\ stack' = Staged(AfterBody(Top))
  /\ UNCHANGED <<fileVars, queueVars, vtablesUsed, pendingLocal, declVars, diagnosed, tooDeep,
                 vtableHandled>>

Required(x) == kind[x] = "explicit"

(* PerformPendingInstantiations, with LocalOnly or without: the local ones  *)
(* come first.                                                              *)
PerformLocal ==
  /\ Top.stage \in {"local", "pending"} /\ pendingLocal # << >>
  /\ pendingLocal' = Tail(pendingLocal)
  /\ LET x == Head(pendingLocal) IN
       Instantiate(x, kind[x], TRUE, Required(x), stack, pendingInstantiations)
  /\ UNCHANGED <<fileVars, vtablesUsed, declVars, vtableHandled>>

PerformPending ==
  /\ Top.stage = "pending" /\ pendingLocal = << >> /\ pendingInstantiations # << >>
  /\ LET x == Head(pendingInstantiations) IN
       Instantiate(x, kind[x], TRUE, Required(x), stack, Tail(pendingInstantiations))
  /\ UNCHANGED <<fileVars, vtablesUsed, pendingLocal, declVars, vtableHandled>>

(* The scope is left; a call that is not recursive leaves its queues to the *)
(* caller.                                                                  *)
LeaveScope ==
  /\ Top.stage = "local" /\ pendingLocal = << >>
  /\ stack' = Staged("vtables")
  /\ UNCHANGED <<fileVars, queueVars, vtablesUsed, pendingLocal, declVars, resultVars, vtableHandled>>

ReturnFromNested ==
  /\ Instantiating /\ Top.stage = "vtables" /\ ~Top.recursive
  /\ stack' = Front(stack)
  /\ UNCHANGED <<fileVars, queueVars, vtablesUsed, pendingLocal, declVars, resultVars, vtableHandled>>

-----------------------------------------------------------------------------
(* DefineUsedVTables                                                        *)

DefiningVTables ==
  Top.stage = "vtables" /\ Top.code = << >> /\ (Instantiating => Top.recursive)

DefinesVTable(c) ==
  IF c \in program.keyed THEN c \in keyDefined ELSE c \notin program.extern

DefineUsedVTable ==
  /\ DefiningVTables
  /\ Top.index < Len(vtableUses)
  /\ LET c == vtableUses[Top.index + 1] IN
       stack' = Append(Front(stack),
                  [Top EXCEPT !.index = @ + 1,
                              !.code = IF DefinesVTable(c)
                                         THEN Append(VirtualMembers(c), [kind |-> "handle", of |-> c])
                                         ELSE << >>])
  /\ UNCHANGED <<fileVars, queueVars, vtablesUsed, pendingLocal, declVars, resultVars, vtableHandled>>

HandleVTable ==
  /\ Code({"handle"})
  /\ LET c == Head(Top.code).of IN
       vtableHandled' = [vtableHandled EXCEPT ![c] = vtablesUsed[c]]
  /\ stack' = Advanced
  /\ UNCHANGED <<fileVars, queueVars, vtablesUsed, pendingLocal, declVars, resultVars>>

FinishVTables ==
  /\ DefiningVTables
  /\ Top.index = Len(vtableUses)
  /\ vtableUses' = << >>
  /\ stack' = Staged("pending")
  /\ UNCHANGED <<fileVars, pendingInstantiations, vtablesUsed, pendingLocal, declVars, resultVars,
                 vtableHandled>>

(* The queues of the caller come back: what is in them now is lost.         *)
(* Mutant: the instantiations that were waiting are not restored.           *)
RestoredPending_Lost(frame) == << >>

RestoredPending(frame) == frame.savedPending

ReturnFromRecursive ==
  /\ Instantiating /\ Top.stage = "pending"
  /\ pendingLocal = << >> /\ pendingInstantiations = << >>
  /\ stack' = Front(stack)
  /\ vtableUses' = Top.savedUses
  /\ pendingInstantiations' = RestoredPending(Top)
  /\ UNCHANGED <<fileVars, vtablesUsed, pendingLocal, declVars, resultVars, vtableHandled>>

-----------------------------------------------------------------------------
(* The file                                                                 *)

Parsing == Top.of = Parser /\ Top.stage = "body" /\ Top.code = << >>

(* Code outside templates.                                                  *)
ParseReference(r) ==
  /\ Parsing /\ r \in file \cap Reference
  /\ file' = file \ {r}
  /\ stack' = Append(Front(stack), [Top EXCEPT !.code = <<r>>])
  /\ UNCHANGED <<program, patterns, keyDefined, lateTemplateParser, queueVars, vtablesUsed,
                 pendingLocal, declVars, resultVars, vtableHandled>>

ParseDefinition(d) ==
  /\ Parsing /\ d \in file /\ d.kind \in {"pattern", "key"}
  /\ file' = file \ {d}
  /\ patterns' = IF d.kind = "pattern" THEN patterns \cup {d.of} ELSE patterns
  /\ keyDefined' = IF d.kind = "key" THEN keyDefined \cup {d.of} ELSE keyDefined
  /\ UNCHANGED <<program, lateTemplateParser, stack, queueVars, vtablesUsed, pendingLocal, declVars,
                 resultVars, vtableHandled>>

(* ActOnExplicitInstantiation.  A declaration after the definition has no   *)
(* effect (CheckSpecializationInstantiationRedecl).                         *)
ParseExplicitInstantiation(d) ==
  /\ Parsing /\ d \in file /\ d.kind \in {"extern", "explicit"}
  /\ file' = file \ {d}
  /\ UNCHANGED <<program, patterns, keyDefined, lateTemplateParser, vtablesUsed, pendingLocal, used,
                 vtableHandled>>
  /\ IF kind[d.of] = "explicit"
       THEN UNCHANGED <<kind, pointOfInstantiation, stack, queueVars, resultVars>>
       ELSE /\ kind' = [kind EXCEPT ![d.of] = d.kind]
            /\ pointOfInstantiation' = pointOfInstantiation \cup {d.of}
            /\ IF d.kind = "extern"
                 THEN UNCHANGED <<stack, queueVars, resultVars>>
                 ELSE Instantiate(d.of, "explicit", FALSE, FALSE, stack, pendingInstantiations)

(* The parser lets templates be parsed late.                                *)
(* Mutant: late parsing stays impossible.                                   *)
LateParserAtEnd_No(p) == FALSE

LateParserAtEnd(p) == TRUE

(* ActOnEndOfProgram marks the vtables of the classes whose key function is *)
(* defined here.                                                            *)
MarkKeyDefined ==
  LET classes == SetToSeq(keyDefined)
  IN  [i \in DOMAIN classes |-> [kind |-> "required", of |-> classes[i]]]

EndOfProgram ==
  /\ Parsing /\ file = {}
  /\ lateTemplateParser' = LateParserAtEnd(program)
  /\ stack' = <<[Top EXCEPT !.stage = "vtables", !.code = MarkKeyDefined]>>
  /\ UNCHANGED <<program, file, patterns, keyDefined, queueVars, vtablesUsed, pendingLocal, declVars,
                 resultVars, vtableHandled>>

FinishProgram ==
  /\ Top.of = Parser /\ Top.stage = "pending"
  /\ pendingLocal = << >> /\ pendingInstantiations = << >>
  /\ stack' = Staged("done")
  /\ UNCHANGED <<fileVars, queueVars, vtablesUsed, pendingLocal, declVars, resultVars, vtableHandled>>

-----------------------------------------------------------------------------
Next ==
  \/ ReferToVTable \/ ReferToVirtualMember \/ ReferToSpecialization
  \/ FinishBody \/ PerformLocal \/ PerformPending \/ LeaveScope \/ ReturnFromNested
  \/ DefineUsedVTable \/ HandleVTable \/ FinishVTables \/ ReturnFromRecursive
  \/ \E d \in file :
       ParseReference(d) \/ ParseDefinition(d) \/ ParseExplicitInstantiation(d)
  \/ EndOfProgram \/ FinishProgram

Spec == Init /\ [][Next]_vars

(* The compiler is one sequential program.                                  *)
FairSpec == Spec /\ WF_vars(Next)
=============================================================================
