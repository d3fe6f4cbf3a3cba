---------------------- MODULE DeserializationProperties ----------------------
(***************************************************************************)
(* What Deserialization must guarantee.                                    *)
(***************************************************************************)
EXTENDS Deserialization

FromFiles == loaded \ Parsed
SameEntity(d, e) == program.entity[d] = program.entity[e]

(* The consumer gets a declaration only when nothing is half loaded: no     *)
(* record is being read, nothing is pending, and the declaration is linked  *)
(* with its redeclarations ("it's safe to pass the 'interesting' decls",    *)
(* ASTReader.cpp:6959).                                                     *)
ConsumerSeesWholeDecls ==
  [][\A d \in Decls : handled'[d] > handled[d] =>
       /\ count = 0 /\ redecls = {} /\ pendingBodies = {} /\ d \in wired
       /\ << >> = pendingNames \o pendingMacros \o pendingChains]_vars

(* What was loaded and may have to be emitted reaches the consumer, once,   *)
(* also when it was loaded before there was a consumer, or from within the  *)
(* consumer, or by the loop that passes such declarations.                  *)
InterestingPassedOnce ==
  /\ \A d \in Decls : handled[d] <= 1
  /\ Idle /\ consumer => \A d \in FromFiles \cap program.interesting : handled[d] = 1

(* A function that several modules define has one body, of whichever module *)
(* was loaded first; without modules each definition keeps its body.        *)
OneBodyPerEntity ==
  /\ program.pcmodules => \A d, e \in bodies : SameEntity(d, e) => d = e
  /\ Idle => \A d \in FromFiles \cap program.body :
               \E e \in bodies : IF program.pcmodules THEN SameEntity(d, e) ELSE d = e

(* "We do this now (delayed) so that we can be sure that the declaration    *)
(* chains have been fully wired up." (ASTReader.cpp:6920): when bodies are  *)
(* set, all that has been deserialized is in the chain of its entity.       *)
DeserializedAreWired ==
  At("finish", "bodies") =>
    /\ redecls = {} /\ loaded \subseteq wired
    /\ program.pcmodules => \A d, e \in loaded : SameEntity(d, e) => Canon(d) = Canon(e)

(* A declaration does not come without its redeclarations, whose attributes *)
(* and default arguments it inherits, in all files that were there when it  *)
(* was loaded: one that was dug out too early is never looked for again.    *)
ChainsAreWhole ==
  Idle => \A d \in FromFiles :
            \A e \in InFiles({program.file[d]} \cup program.initial) :
              program.first[e] = program.first[d] => e \in loaded

(* Lookup finds the declarations of an identifier that was read in the      *)
(* middle of something else, in whatever file they are.                     *)
NamesBringDecls ==
  Idle => \A n \in namesRead \ outOfDate :
            {d \in program.visible \cap InFiles(files) : program.name[d] = n}
              \subseteq (IF sema THEN resolver ELSE preloaded)

(* Whatever is loaded in the middle of a body, the cursor of its file is    *)
(* back in the body when its next statement is read, unless, when there was *)
(* no PassingDeclsToConsumer to prevent it, the consumer has been given a   *)
(* declaration of the same file and has read the body of that.              *)
BodiesKeepTheirPlace ==
  Is("body") =>
    \/ cursor[program.file[Top.decl]] = Top.decl
    \/ ~passing /\ cursor[program.file[Top.decl]] \in program.eager \cap bodiesRead
=============================================================================
