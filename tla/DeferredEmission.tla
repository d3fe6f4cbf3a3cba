-------------------------- MODULE DeferredEmission --------------------------
(***************************************************************************)
(* Which global definitions lfort's code generator emits, and when:        *)
(* CodeGenModule (lib/CodeGen/CodeGenModule.cpp, CGDeclCXX.cpp,            *)
(* CGVTables.cpp) driven by the callbacks of ModuleBuilder.cpp.            *)
(*                                                                         *)
(* A definition that may be deferred waits in DeferredDecls until its name *)
(* is first referenced; it then moves to DeferredDeclsToEmit, which        *)
(* EmitDeferred drains when the unit has been parsed.  Generating a        *)
(* definition references further names, one action per reference.          *)
(***************************************************************************)
EXTENDS Naturals, Sequences, SequencesExt

CONSTANTS
  Functions,  \* names of functions outside records
  Members,    \* names of functions lexically in a record
  Variables,  \* names of file-scope variables
  Classes,    \* dynamic classes
  NoName,     \* no definition is being generated
  Units       \* possible translation units

Names == Functions \cup Members \cup Variables

(* A reference in a body: by a declaration, through a weakref, by the code  *)
(* generator itself (CreateRuntimeSubprogram), from a vtable to a virtual   *)
(* member, or to a vtable.                                                  *)
Reference ==
  [kind : {"direct"}, to : Names] \cup [kind : {"weak", "runtime"}, to : Functions \cup Variables]
    \cup [kind : {"member"}, to : Members] \cup [kind : {"vtable"}, to : Classes]

(* static stands for everything that is discarded when unused, inline for a *)
(* C99 or GNU inline definition (GVA_C99Inline), which another unit also    *)
(* provides; forced is one made external by a later declaration.            *)
Announcement ==
  {"no", "strong", "static", "inline", "forced", "alias", "tentative", "staticTentative",
   "completed", "staticCompleted"}

(* What a unit's declarations are, fixed before the run.                    *)
Unit ==
  [kinds    : [Names -> SUBSET Announcement], \* how each name may be declared
   refs     : [Names -> Seq(Reference)],
   dynamic  : SUBSET Variables,          \* needs a global constructor
   virtual  : [Classes -> Seq(Members)],
   key      : [Classes -> Functions \cup {NoName}],
   implicit : SUBSET Members,
   bodied   : SUBSET Members,            \* doesThisDeclarationHaveABody
   optimize : BOOLEAN]                   \* OptimizationLevel is not 0

ASSUME NamesAssumption ==
  /\ Functions \cap Members = {} /\ Functions \cap Variables = {}
  /\ Members \cap Variables = {} /\ Names \cap Classes = {}
  /\ NoName \notin Names /\ NoName \notin Classes
  /\ Units \subseteq Unit

(* "Sema didn't mark implicit function as used!" (CodeGenModule.cpp:1173):  *)
(* an implicit member that a body references has been given one.            *)
ASSUME ImplicitMembersAssumption ==
  \A u \in Units : \A n \in Names : \A i \in DOMAIN u.refs[n] :
    u.refs[n][i].kind = "direct" /\ u.refs[n][i].to \in u.implicit
      => u.refs[n][i].to \in u.bodied

VARIABLES
  unit,                 \* the unit compiled
  phase,                \* "parsing", "tentative", "releasing", "done" or "reset"
  errors,               \* Diags.hasErrorOccurred
  announced,            \* what EmitGlobal has been told of each name
  status,               \* the GlobalValue of each name: absent, declared, defined, alias
  vtable,               \* the same for the vtable of each class
  current,              \* the definition being generated: its name
  body,                 \* and the references it has still to make
  deferredDecls,        \* DeferredDecls
  deferredDeclsToEmit,  \* DeferredDeclsToEmit
  deferredVTables,      \* DeferredVTables
  weakRefReferences,    \* WeakRefReferences
  externWeak,           \* names with ExternalWeakLinkage
  globalInits,          \* CXXGlobalInits: a variable, or NoName for null
  delayedInitPosition,  \* DelayedCXXInitPosition: an index, or 0 for none
  aliasee,              \* the target of each alias emitted
  roots,                \* history: what had to be emitted without a reference
  emissions,            \* history: how often each name was defined
  referenced,           \* history: names referenced other than by a weakref
  initOrder             \* history: dynamic variables in the order announced

unitVars == <<unit, phase, errors, announced, roots, initOrder>>
codeVars == <<current, body>>
valueVars == <<status, vtable, aliasee, emissions>>
linkVars == <<weakRefReferences, externWeak, referenced>>
deferVars == <<deferredDecls, deferredDeclsToEmit>>
initVars == <<globalInits, delayedInitPosition>>

vars == <<unitVars, codeVars, valueVars, linkVars, deferVars, deferredVTables, initVars>>

TypeOK ==
  /\ unit \in Units
  /\ phase \in {"parsing", "tentative", "releasing", "done", "reset"}
  /\ errors \in BOOLEAN
  /\ announced \in [Names -> Announcement]
  /\ status \in [Names -> {"absent", "declared", "defined", "alias"}]
  /\ vtable \in [Classes -> {"absent", "declared", "defined"}]
  /\ current \in Names \cup Classes \cup {NoName}
  /\ body \in Seq(Reference)
  /\ deferredDecls \subseteq Names
  /\ deferredDeclsToEmit \in Seq(Names)
  /\ deferredVTables \in Seq(Classes)
  /\ weakRefReferences \subseteq Names
  /\ externWeak \subseteq Names
  /\ globalInits \in Seq(Variables \cup {NoName})
  /\ delayedInitPosition \in [Variables -> Nat]
  /\ aliasee \in [Names -> Names \cup {NoName}]
  /\ roots \subseteq Names \cup Classes
  /\ emissions \in [Names -> Nat]
  /\ referenced \subseteq Names
  /\ initOrder \in Seq(Variables)

Init ==
  /\ unit \in Units
  /\ phase = "parsing" /\ errors = FALSE
  /\ announced = [n \in Names |-> "no"]
  /\ status = [n \in Names |-> "absent"]
  /\ vtable = [c \in Classes |-> "absent"]
  /\ current = NoName /\ body = << >>
  /\ deferredDecls = {} /\ deferredDeclsToEmit = << >> /\ deferredVTables = << >>
  /\ weakRefReferences = {} /\ externWeak = {} /\ referenced = {}
  /\ globalInits = << >> /\ delayedInitPosition = [v \in Variables |-> 0]
  /\ aliasee = [n \in Names |-> NoName]
  /\ roots = {} /\ emissions = [n \in Names |-> 0] /\ initOrder = << >>

Idle == current = NoName

-----------------------------------------------------------------------------
(* References                                                               *)

(* The do-loop of GetOrCreateLLVMSubprogram: a member function defined in   *)
(* its record is never announced, so its first reference queues it.         *)
QueuesMember(n, forVTable) ==
  n \in Members /\ ((n \in unit.implicit /\ ~forVTable) \/ n \in unit.bodied)

(* The deferral half of GetOrCreateLLVMSubprogram and GetOrCreateLLVMGlobal.*)
(* Mutant: a member of a record is left to its announcement.                *)
Defer_OnlyAnnounced(n, queuesMember) ==
  IF status[n] = "absent" /\ n \in deferredDecls
    THEN /\ deferredDeclsToEmit' = Append(deferredDeclsToEmit, n)
         /\ deferredDecls' = deferredDecls \ {n}
    ELSE UNCHANGED deferVars

Defer(n, queuesMember) ==
  IF status[n] = "absent" /\ (n \in deferredDecls \/ queuesMember)
    THEN /\ deferredDeclsToEmit' = Append(deferredDeclsToEmit, n)
         /\ deferredDecls' = deferredDecls \ {n}
    ELSE UNCHANGED deferVars

(* The WeakRefReferences half: fd says whether D is a declaration.          *)
Strengthen(n, fd) ==
  /\ weakRefReferences' = weakRefReferences \ {n}
  /\ externWeak' = IF n \in weakRefReferences /\ fd THEN externWeak \ {n} ELSE externWeak

Declared(n) == IF status[n] = "absent" THEN "declared" ELSE status[n]

NextReference == Head(body)

(* GetAddrOfSubprogram and GetAddrOfGlobalVar, from a body, from a vtable   *)
(* or from CreateRuntimeSubprogram, which has no declaration.               *)
Refer ==
  /\ body # << >> /\ NextReference.kind \in {"direct", "member", "runtime"}
  /\ LET n == NextReference.to IN
       /\ Defer(n, NextReference.kind # "runtime" /\ QueuesMember(n, NextReference.kind = "member"))
       /\ Strengthen(n, NextReference.kind # "runtime")
       /\ status' = [status EXCEPT ![n] = Declared(n)]
       /\ referenced' = referenced \cup {n}
  /\ body' = Tail(body)
  /\ UNCHANGED <<unitVars, current, vtable, aliasee, emissions, deferredVTables, initVars>>

(* GetWeakRefReference.                                                     *)
ReferWeakly ==
  /\ body # << >> /\ NextReference.kind = "weak"
  /\ LET n == NextReference.to IN
       /\ Defer(n, FALSE)
       /\ status' = [status EXCEPT ![n] = Declared(n)]
       /\ IF status[n] = "absent"
            THEN /\ weakRefReferences' = weakRefReferences \cup {n}
                 /\ externWeak' = externWeak \cup {n}
            ELSE UNCHANGED <<weakRefReferences, externWeak>>
  /\ body' = Tail(body)
  /\ UNCHANGED <<unitVars, current, vtable, aliasee, emissions, referenced, deferredVTables,
                 initVars>>

KeyDefined(c) == unit.key[c] # NoName /\ announced[unit.key[c]] = "strong"

(* ShouldEmitVTableInThisProgram.                                           *)
ShouldEmitVTable(c) == unit.key[c] = NoName \/ unit.optimize \/ KeyDefined(c)

(* GetAddrOfVTable.                                                         *)
GetAddrOfVTable(c) ==
  /\ vtable' = [vtable EXCEPT ![c] = IF @ = "absent" THEN "declared" ELSE @]
  /\ deferredVTables' = IF vtable[c] = "absent" /\ ShouldEmitVTable(c)
                          THEN Append(deferredVTables, c) ELSE deferredVTables

ReferToVTable ==
  /\ body # << >> /\ NextReference.kind = "vtable"
  /\ GetAddrOfVTable(NextReference.to)
  /\ body' = Tail(body)
  /\ UNCHANGED <<unitVars, current, status, aliasee, emissions, linkVars, deferVars, initVars>>

-----------------------------------------------------------------------------
(* Definitions                                                              *)

IsConstant(n) == n \in Variables /\ n \notin unit.dynamic

(* At -O0 no code is generated for an available_externally function.        *)
ShouldEmit(n) == announced[n] = "inline" => unit.optimize

(* The GlobalValue of n gets its body or its initializer.                   *)
Define(n) ==
  /\ weakRefReferences' = weakRefReferences \ {n}
  /\ externWeak' = externWeak \ {n}
  /\ status' = [status EXCEPT ![n] = "defined"]
  /\ emissions' = [emissions EXCEPT ![n] = @ + 1]
  /\ UNCHANGED referenced

(* EmitGlobalDefinition: a function and a variable with a constructor exist *)
(* before the references of their code are made, a constant initializer is  *)
(* converted before its variable exists.                                    *)
EmitGlobalDefinition(n, initializer) ==
  /\ current' = n /\ body' = initializer
  /\ IF IsConstant(n)
       THEN UNCHANGED <<deferVars, linkVars, status, emissions>>
       ELSE Defer(n, QueuesMember(n, FALSE)) /\ Define(n)
  /\ UNCHANGED <<vtable, aliasee, deferredVTables>>

(* EmitCXXGlobalVarDeclInitFunc.                                            *)
(* Mutant: the position kept for a deferred variable is not looked up.      *)
PlaceInit_AtEnd(v) ==
  /\ globalInits' = Append(globalInits, v)
  /\ UNCHANGED delayedInitPosition

PlaceInit(v) ==
  IF delayedInitPosition[v] = 0
    THEN globalInits' = Append(globalInits, v) /\ UNCHANGED delayedInitPosition
    ELSE /\ globalInits' = [globalInits EXCEPT ![delayedInitPosition[v]] = v]
         /\ delayedInitPosition' = [delayedInitPosition EXCEPT ![v] = 0]

FinishBody ==
  /\ current \in Functions \cup Members /\ body = << >>
  /\ current' = NoName
  /\ UNCHANGED <<unitVars, body, valueVars, linkVars, deferVars, deferredVTables, initVars>>

FinishDynamicVariable ==
  /\ current \in unit.dynamic /\ body = << >>
  /\ PlaceInit(current)
  /\ current' = NoName
  /\ UNCHANGED <<unitVars, body, valueVars, linkVars, deferVars, deferredVTables>>

(* The rest of EmitGlobalVarDefinition for a constant initializer.          *)
FinishConstantVariable ==
  /\ IsConstant(current) /\ body = << >>
  /\ Defer(current, FALSE)
  /\ Define(current)
  /\ delayedInitPosition' = [delayedInitPosition EXCEPT ![current] = 0]
  /\ current' = NoName
  /\ UNCHANGED <<unitVars, body, vtable, aliasee, deferredVTables, globalInits>>

(* The rest of EmitVTableDefinition.                                        *)
FinishVTable ==
  /\ current \in Classes /\ body = << >>
  /\ vtable' = [vtable EXCEPT ![current] = "defined"]
  /\ current' = NoName
  /\ UNCHANGED <<unitVars, body, status, aliasee, emissions, linkVars, deferVars,
                 deferredVTables, initVars>>

Generate ==
  Refer \/ ReferWeakly \/ ReferToVTable \/ FinishBody \/ FinishDynamicVariable
    \/ FinishConstantVariable \/ FinishVTable

-----------------------------------------------------------------------------
(* The callbacks of the parser and of Sema.  After an error each of them    *)
(* returns at once.                                                         *)

Parsing == phase = "parsing" /\ Idle /\ ~errors

Announce(n, as) ==
  as \in unit.kinds[n] /\ announced' = [announced EXCEPT ![n] = as]

IsKey(n) == \E c \in Classes : unit.key[c] = n

(* EmitGlobal of a definition that may not be deferred: an inline function  *)
(* may have been defined before (GNU extern inline), a variable declared    *)
(* tentatively; a member function reaches it by its used attribute.         *)
EmitGlobalNow(n) ==
  /\ Parsing
  /\ announced[n] \in {"no", "inline", "tentative"}
  /\ n \in Members => n \in unit.bodied
  /\ Announce(n, "strong")
  /\ roots' = roots \cup {n}
  /\ initOrder' = IF n \in unit.dynamic THEN Append(initOrder, n) ELSE initOrder
  /\ EmitGlobalDefinition(n, unit.refs[n])
  /\ UNCHANGED <<unit, phase, errors, initVars>>

(* The deferring half of EmitGlobal.                                        *)
(* Mutant: whether the name has been used already is not looked at.         *)
DeferGlobal_Unconditionally(n) ==
  /\ deferredDecls' = deferredDecls \cup {n}
  /\ UNCHANGED deferredDeclsToEmit

(* Mutant: every deferrable definition is queued.                           *)
DeferGlobal_Always(n) ==
  /\ deferredDeclsToEmit' = Append(deferredDeclsToEmit, n)
  /\ UNCHANGED deferredDecls

DeferGlobal(n) ==
  IF status[n] # "absent"
    THEN /\ deferredDeclsToEmit' = Append(deferredDeclsToEmit, n)
         /\ UNCHANGED deferredDecls
    ELSE /\ deferredDecls' = deferredDecls \cup {n}
         /\ UNCHANGED deferredDeclsToEmit

EmitGlobalDeferred(n, as) ==
  /\ Parsing
  /\ \/ as = "static" /\ n \in Functions \cup Variables
     \/ as = "inline" /\ n \in Functions
  /\ \/ announced[n] = "no"
     \/ announced[n] = "staticTentative" /\ as = "static"
  /\ ~IsKey(n)
  /\ Announce(n, as)
  /\ DeferGlobal(n)
  /\ IF n \in Variables
       THEN /\ globalInits' = Append(globalInits, NoName)
            /\ delayedInitPosition' = [delayedInitPosition EXCEPT ![n] = Len(globalInits) + 1]
       ELSE UNCHANGED initVars
  /\ initOrder' = IF n \in unit.dynamic THEN Append(initOrder, n) ELSE initOrder
  /\ UNCHANGED <<unit, phase, errors, roots, codeVars, valueVars, linkVars, deferredVTables>>

(* EmitGlobal of a declaration that makes an earlier inline definition      *)
(* externally visible.                                                      *)
EmitGlobalForced(n) ==
  /\ Parsing
  /\ announced[n] = "inline"
  /\ Announce(n, "forced")
  /\ roots' = roots \cup {n}
  /\ deferredDecls' = deferredDecls \ {n}
  /\ current' = n /\ body' = unit.refs[n]
  /\ Define(n)
  /\ UNCHANGED <<unit, phase, errors, initOrder, vtable, aliasee, deferredDeclsToEmit,
                 deferredVTables, initVars>>

(* A tentative definition is remembered by Sema only.                       *)
DeclareTentative(v, as) ==
  /\ Parsing
  /\ v \in Variables \ unit.dynamic /\ as \in {"tentative", "staticTentative"}
  /\ announced[v] = "no"
  /\ Announce(v, as)
  /\ UNCHANGED <<unit, phase, errors, roots, initOrder, codeVars, valueVars, linkVars,
                 deferVars, deferredVTables, initVars>>

(* EmitAliasDefinition: the alias replaces a declaration of its name, and   *)
(* refers to its target.  An asm label may give it the name of an inline    *)
(* definition.                                                              *)
EmitAliasDefinition(n, target) ==
  /\ Parsing
  /\ n # target
  /\ {n, target} \subseteq Functions \/ {n, target} \subseteq Variables
  /\ announced[n] = "no" \/ announced[n] = "inline"
  /\ Announce(n, "alias")
  /\ Defer(target, FALSE)
  /\ weakRefReferences' = weakRefReferences \ {n, target}
  /\ externWeak' = IF target \in weakRefReferences /\ target \in Functions
                     THEN externWeak \ {n, target} ELSE externWeak \ {n}
  /\ status' = [status EXCEPT ![target] = Declared(target), ![n] = "alias"]
  /\ aliasee' = [aliasee EXCEPT ![n] = target]
  /\ roots' = roots \cup {n}
  /\ UNCHANGED <<unit, phase, errors, initOrder, codeVars, vtable, emissions, referenced,
                 deferredVTables, initVars>>

(* HandleCXXStaticMemberVarInstantiation of an explicit instantiation.      *)
InstantiateExplicitly(v) ==
  /\ Parsing
  /\ v \in Variables /\ announced[v] = "static"
  /\ v \notin roots
  /\ Defer(v, FALSE)
  /\ Strengthen(v, TRUE)
  /\ status' = [status EXCEPT ![v] = Declared(v)]
  /\ roots' = roots \cup {v}
  /\ referenced' = referenced \cup {v}
  /\ UNCHANGED <<unit, phase, errors, announced, initOrder, codeVars, vtable, aliasee,
                 emissions, deferredVTables, initVars>>

(* HandleVTable with DefinitionRequired, for a class whose key function is  *)
(* defined in the unit: EmitVTables, GenerateClassData.                     *)
HandleVTable(c) ==
  /\ Parsing
  /\ KeyDefined(c) /\ c \notin roots
  /\ roots' = roots \cup {c}
  /\ GetAddrOfVTable(c)
  /\ current' = c
  /\ body' = [i \in DOMAIN unit.virtual[c] |-> [kind |-> "member", to |-> unit.virtual[c][i]]]
  /\ UNCHANGED <<unit, phase, errors, announced, initOrder, status, aliasee, emissions,
                 linkVars, deferVars, initVars>>

(* An error was reported somewhere in the front end.                        *)
Error ==
  /\ phase \in {"parsing", "tentative"} /\ Idle /\ ~errors
  /\ errors' = TRUE
  /\ UNCHANGED <<unit, phase, announced, roots, initOrder, codeVars, valueVars, linkVars,
                 deferVars, deferredVTables, initVars>>

(* ActOnEndOfProgram has defined the vtables; the tentative definitions     *)
(* that were never completed are next.                                      *)
EndOfProgram ==
  /\ phase = "parsing" /\ Idle
  /\ ~errors => \A c \in Classes : KeyDefined(c) => c \in roots
  /\ phase' = "tentative"
  /\ UNCHANGED <<unit, errors, announced, roots, initOrder, codeVars, valueVars, linkVars,
                 deferVars, deferredVTables, initVars>>

(* CompleteTentativeDefinition, EmitTentativeDefinition.                    *)
EmitTentativeDefinition(v) ==
  /\ phase = "tentative" /\ Idle /\ ~errors
  /\ UNCHANGED <<unit, phase, errors, initOrder, initVars>>
  /\ \/ /\ announced[v] = "staticTentative" /\ status[v] = "absent"
        /\ announced' = [announced EXCEPT ![v] = "staticCompleted"]
        /\ deferredDecls' = deferredDecls \cup {v}
        /\ UNCHANGED <<roots, deferredDeclsToEmit, codeVars, valueVars, linkVars, deferredVTables>>
     \/ /\ announced[v] = "staticTentative" /\ status[v] # "absent"
        /\ announced' = [announced EXCEPT ![v] = "staticCompleted"]
        /\ EmitGlobalDefinition(v, << >>)
        /\ UNCHANGED roots
     \/ /\ announced[v] = "tentative"
        /\ announced' = [announced EXCEPT ![v] = "completed"]
        /\ EmitGlobalDefinition(v, << >>)
        /\ roots' = roots \cup {v}

HandleProgram ==
  /\ phase = "tentative" /\ Idle
  /\ ~errors => \A v \in Variables : announced[v] \notin {"tentative", "staticTentative"}
  /\ phase' = IF errors THEN "reset" ELSE "releasing"
  /\ UNCHANGED <<unit, errors, announced, roots, initOrder, codeVars, valueVars, linkVars,
                 deferVars, deferredVTables, initVars>>

-----------------------------------------------------------------------------
(* Release: the loop of EmitDeferred, then the function that runs the       *)
(* initializers.                                                            *)

Releasing == phase = "releasing" /\ Idle

Popped(queue) == Front(queue)

EmitDeferredVTable ==
  /\ Releasing
  /\ deferredVTables # << >>
  /\ deferredVTables' = Popped(deferredVTables)
  /\ LET c == Last(deferredVTables) IN
       IF vtable[c] = "defined"
         THEN UNCHANGED codeVars
         ELSE /\ current' = c
              /\ body' = [i \in DOMAIN unit.virtual[c] |->
                            [kind |-> "member", to |-> unit.virtual[c][i]]]
  /\ UNCHANGED <<unitVars, valueVars, linkVars, deferVars, initVars>>

(* The two tests of CGRef in EmitDeferred.                                  *)
(* Mutant: an alias counts as what it points to.                            *)
AlreadyEmitted_NotAlias(n) ==
  status[n] = "defined"

AlreadyEmitted(n) == status[n] \in {"defined", "alias"}

(* The definition popped from the queue; Define happens after the pop.      *)
EmitDeferredDecl ==
  /\ Releasing
  /\ deferredVTables = << >> /\ deferredDeclsToEmit # << >>
  /\ deferredDeclsToEmit' = Popped(deferredDeclsToEmit)
  /\ LET n == Last(deferredDeclsToEmit) IN
       IF AlreadyEmitted(n) \/ ~ShouldEmit(n)
         THEN UNCHANGED <<codeVars, status, emissions, linkVars>>
         ELSE /\ current' = n
              /\ body' = IF announced[n] = "staticCompleted" THEN << >> ELSE unit.refs[n]
              /\ IF IsConstant(n)
                   THEN UNCHANGED <<linkVars, status, emissions>>
                   ELSE Define(n)
  /\ UNCHANGED <<unitVars, vtable, aliasee, deferredDecls, deferredVTables, initVars>>

(* EmitCXXGlobalInitFunc: only trailing nulls are removed, the others are   *)
(* skipped by the loop that makes the calls.                                *)
EmitCXXGlobalInitFunc ==
  /\ Releasing
  /\ deferredVTables = << >> /\ deferredDeclsToEmit = << >>
  /\ phase' = "done"
  /\ UNCHANGED <<unit, errors, announced, roots, initOrder, codeVars, valueVars, linkVars,
                 deferVars, deferredVTables, initVars>>

Release == EmitDeferredVTable \/ EmitDeferredDecl \/ EmitCXXGlobalInitFunc

-----------------------------------------------------------------------------
Next ==
  \/ Generate \/ Release \/ Error \/ EndOfProgram \/ HandleProgram
  \/ \E n \in Names :
       \/ EmitGlobalNow(n) \/ EmitGlobalForced(n)
       \/ \E as \in {"static", "inline"} : EmitGlobalDeferred(n, as)
       \/ \E target \in Names : EmitAliasDefinition(n, target)
  \/ \E v \in Variables :
       \/ \E as \in {"tentative", "staticTentative"} : DeclareTentative(v, as)
       \/ InstantiateExplicitly(v) \/ EmitTentativeDefinition(v)
  \/ \E c \in Classes : HandleVTable(c)

Spec == Init /\ [][Next]_vars

(* Code generation is one sequential computation: while it has work it goes *)
(* on; nothing obliges the parser to end the unit.                          *)
Fairness == WF_vars(Generate \/ Release)

FairSpec == Spec /\ Fairness
=============================================================================
