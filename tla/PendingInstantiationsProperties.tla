------------------- MODULE PendingInstantiationsProperties -------------------
(***************************************************************************)
(* What PendingInstantiations must guarantee.                              *)
(***************************************************************************)
EXTENDS PendingInstantiations

-----------------------------------------------------------------------------
(* What the language lets code say of local classes                         *)

(* x itself and the functions it is lexically in.                           *)
LexicalScopes(p, x) ==
  {f \in Subprograms :
     \A S \in SUBSET Specializations :
       x \in S /\ (\A y \in S : p.enclosing[y] # Parser => p.enclosing[y] \in S) => f \in S}

Outer(p, x) == LexicalScopes(p, x) \ {x}

ClassScopes(p, c) == UNION {Outer(p, m) : m \in Range(p.virtual[c])}

(* The functions that code has to be in to be able to say r.                *)
ScopesOf(p, r) == IF r.of \in Specializations THEN Outer(p, r.of) ELSE ClassScopes(p, r.of)

(* A local class and its members are named in the function it is in, and    *)
(* the pattern of such a member is part of the function's pattern.          *)
ASSUME LocalClassesAssumption ==
  \A p \in Programs :
    /\ \A x \in Specializations :
         p.enclosing[x] # Parser => p.enclosing[x] # x /\ x \in p.headers \ p.late
    /\ \A x \in Specializations : \A r \in Range(p.body[x]) :
         ScopesOf(p, r) \subseteq LexicalScopes(p, x)
    /\ \A c \in Classes \ p.local : ClassScopes(p, c) = {}
    /\ \A x \in Subprograms : \A c \in p.parent[x] : ClassScopes(p, c) \subseteq Outer(p, x)
    /\ \A d \in p.file : ScopesOf(p, d) = {}

(* What the unit is made of.                                                *)
Text(p) == p.file \cup UNION {Range(p.body[x]) : x \in Specializations}

(* A vtable is required by an explicit instantiation definition, the class  *)
(* of which has no key function (RecordLayoutBuilder.cpp:2360), or where    *)
(* its key function is defined: then the end of the unit says so.           *)
(* DefineUsedVTables alone calls HandleVTable.                              *)
ASSUME KeyFunctionsAssumption ==
  \A p \in Programs :
    /\ \A d \in Text(p) : d.kind # "handle"
    /\ \A c \in p.keyed : [kind |-> "required", of |-> c] \notin Text(p)
    /\ \A d \in p.file : d.kind = "key" => d.of \in p.keyed

-----------------------------------------------------------------------------
Done == Top.stage = "done"

UsedIn(code) == {r.of : r \in {s \in Range(code) : s.kind = "use"}}
VTablesIn(code) == {r.of : r \in {s \in Range(code) : s.kind \in {"vtable", "required"}}}

(* The file mentions x outside templates.                                   *)
InFile(kinds) == {d.of : d \in {e \in program.file : e.kind \in kinds}}

(* This unit provides the vtable of c: it has c's key function, or c has    *)
(* none and is not left to an explicit instantiation elsewhere.             *)
BelongsHere(c) == c \in keyDefined \/ c \notin program.keyed \cup program.extern

(* What the code of x needs: the code of a specialization or of a vtable.   *)
Mentions(x) ==
  IF x \in Classes
    THEN IF BelongsHere(x) \/ x \in program.local THEN Range(program.virtual[x]) ELSE {}
    ELSE UsedIn(program.body[x]) \cup VTablesIn(program.body[x])
           \cup (IF x \in Subprograms THEN program.parent[x] ELSE {})

(* This unit has to define x: its template is there, and no explicit        *)
(* instantiation declaration says that another unit does.                   *)
Definable(x) == x \in patterns /\ (kind[x] = "extern" => x \in program.inlined)

Used == {c \in Classes : vtablesUsed[c] # "no"}

(* The file, a definition or a vtable of this unit refers to x.             *)
IsReferenced(x) ==
  \/ x \in InFile({"use", "explicit"})
  \/ \E y \in defined : x \in Mentions(y)
  \/ \E c \in Used : x \in Mentions(c)

(* At the end of the unit, all that the file, the definitions and the       *)
(* vtables of this unit refer to is defined, whatever the order of          *)
(* references and definitions was: no "required" entry of the queue         *)
(* (Sema.h:5921) is lost on the way.  What is explicitly instantiated is    *)
(* defined, or its missing definition is diagnosed (DefinitionRequired).    *)
ReferencedIsDefined ==
  Done /\ ~tooDeep =>
    \A x \in Specializations :
      /\ IsReferenced(x) /\ Definable(x) => x \in defined
      /\ kind[x] = "explicit" => x \in defined \cup diagnosed

Pattern(x) == [kind |-> "pattern", of |-> x]
Explicit(x) == [kind |-> "explicit", of |-> x]

PatternsIn(declarations) == {x \in Specializations : Pattern(x) \in declarations}
ExplicitIn(p) == {x \in Specializations : Explicit(x) \in p.file}

(* What may be instantiated before the end of the unit.                     *)
Early(p) == p.constant \cup ExplicitIn(p)

(* Not every unit is like that.  It is if a constexpr template is defined   *)
(* before it is used, and a function with a local class that is             *)
(* instantiated before the end of the unit is the last template to be       *)
(* defined.                                                                 *)
TemplatesComeFirst(p) ==
  /\ p.constant \subseteq p.headers
  /\ \A x \in Specializations :
       p.enclosing[x] \in Early(p) => PatternsIn(p.file) \subseteq {p.enclosing[x]}

(* The consumer, and so the code generator, is handed each definition once, *)
(* although a specialization can be queued by a reference and by an         *)
(* explicit instantiation, or be queued while it is being instantiated.     *)
(* A constexpr subprogram has no definition until its body is complete and  *)
(* is instantiated at each reference: what its body uses may refer to it    *)
(* once more, and then it is handed over twice.                             *)
HandedToConsumerOnce ==
  \A x \in Variables \cup (Subprograms \ program.constant) : handed[x] <= 1

(* Each vtable that is used has been given to the consumer, and as required *)
(* if it became required at any time ("since we may have already processed  *)
(* the first entry", SemaDeclCXX.cpp:11215).                                *)
UsedVTablesAreHandled ==
  Done => \A c \in Classes \ program.local :
            BelongsHere(c) => vtableHandled[c] = vtablesUsed[c]

(* The assertions at the end of both functions: "VTableUses should be empty *)
(* before it is discarded."                                                 *)
VTableUsesAreNotDiscarded ==
  Instantiating /\ Top.stage = "pending" => vtableUses = << >>

(* A member of a local class waits only while the scope of its function is  *)
(* open: none is left in the queue when the function returns, or at the end *)
(* (the assertion of ASTWriter.cpp:3540).                                   *)
LocalsWaitInOpenScopes ==
  \A x \in Range(pendingLocal) :
    \E i \in DOMAIN stack : ScopeIsOpen(stack[i]) /\ stack[i].of = program.enclosing[x]

(* The unit is finished: no chain of instantiations that stays within the   *)
(* depth limit, and no postponed one, keeps Sema busy forever.              *)
CompilationEnds == <>Done
=============================================================================
