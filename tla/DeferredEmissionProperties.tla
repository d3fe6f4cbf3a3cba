---------------------- MODULE DeferredEmissionProperties ----------------------
(***************************************************************************)
(* What DeferredEmission must guarantee.                                   *)
(***************************************************************************)
EXTENDS DeferredEmission, FiniteSets

Entities == Names \cup Classes

(* The unit can define n: a definition was announced that this compilation  *)
(* emits, or n is a member function with a body in its record.              *)
Definable(n) ==
  \/ announced[n] \notin {"no", "inline", "alias", "tentative", "staticTentative"}
  \/ announced[n] = "inline" /\ unit.optimize
  \/ n \in unit.bodied

(* What the code of x mentions.                                             *)
Mentions(x) ==
  CASE x \in Classes -> IF ShouldEmitVTable(x) THEN Range(unit.virtual[x]) ELSE {}
    [] x \in Names /\ announced[x] = "alias" -> {aliasee[x]}
    [] x \in Names /\ announced[x] \in {"completed", "staticCompleted"} -> {}
    [] OTHER -> IF Definable(x) THEN {r.to : r \in Range(unit.refs[x])} ELSE {}

(* S holds everything that must be emitted anyway and all that its members  *)
(* mention.                                                                 *)
ClosedUnderMention(S) ==
  roots \subseteq S /\ \A x \in S : Mentions(x) \subseteq S

(* The least such set: what this unit needs.                                *)
Needed == {x \in Entities : \A S \in SUBSET Entities : ClosedUnderMention(S) => x \in S}

(* When code generation is done, every function, variable and vtable that   *)
(* is reachable from what must be emitted, and that the unit can define,    *)
(* has been defined, whatever the order of uses and definitions was         *)
(* (EmitGlobal, GetOrCreateLLVMSubprogram, EmitDeferred).                   *)
NeededIsDefined ==
  phase = "done" =>
    \A x \in Needed :
      IF x \in Classes THEN ShouldEmitVTable(x) => vtable[x] = "defined"
      ELSE Definable(x) => status[x] \in {"defined", "alias"}

(* Nothing else is: a name or a vtable has an entry in the module only if   *)
(* it is needed, so a deferrable definition that is unused is never emitted.*)
InTheModule ==
  {n \in Names : status[n] # "absent"} \cup {c \in Classes : vtable[c] # "absent"}

OnlyNeededIsInTheModule ==
  \A S \in SUBSET Entities : ClosedUnderMention(S) => InTheModule \subseteq S

(* A name is defined at most once, although it may be queued several times  *)
(* and may be defined by a strong redefinition, a forced inline definition  *)
(* or an alias while it is queued ("decls can end up with definitions in    *)
(* unusual ways", CodeGenModule.cpp:734).                                   *)
DefinedAtMostOnce ==
  \A n \in Names : emissions[n] <= 1 /\ (status[n] = "alias" => emissions[n] = 0)

(* "If a decl is in this, then it is known to have not been referenced yet" *)
(* (CodeGenModule.h:248), and a queued one has been ("Deferred decl wasn't  *)
(* referenced?").                                                           *)
DeferredAreUnreferenced ==
  /\ \A n \in deferredDecls : n \notin referenced \/ status[n] = "alias"
  /\ \A n \in Range(deferredDeclsToEmit) : status[n] # "absent"

(* The initializers that are called are those of the variables that are     *)
(* defined, each once, in the order in which the variables appear in the    *)
(* file, the deferred ones included ("so that the initializer will be       *)
(* performed in the correct order", CodeGenModule.h:293).                   *)
Called == {i \in DOMAIN globalInits : globalInits[i] # NoName}

AppearsBefore(v, w) ==
  \E i, j \in DOMAIN initOrder : i < j /\ initOrder[i] = v /\ initOrder[j] = w

InitializersInOrder ==
  phase = "done" =>
    /\ {globalInits[i] : i \in Called} = {v \in Range(initOrder) : status[v] = "defined"}
    /\ \A i, j \in Called : globalInits[i] = globalInits[j] => i = j
    /\ \A i, j \in Called : i < j => AppearsBefore(globalInits[i], globalInits[j])
    /\ IsInjective(initOrder)

(* Once a definition is emitted it stays: no step turns it into a           *)
(* declaration or an alias again, and an alias is never redefined.          *)
DefinitionsAreFinal ==
  [][\A n \in Names : status[n] \in {"defined", "alias"} => status'[n] = status[n]]_vars
=============================================================================
