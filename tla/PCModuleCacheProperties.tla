----------------------- MODULE PCModuleCacheProperties -----------------------
(***************************************************************************)
(* What the module cache promises to the processes that share it.          *)
(***************************************************************************)
EXTENDS PCModuleCache

(* S holds all that its modules import.                                     *)
Closed(S) == \A i \in S : \A k \in 1 .. Len(Imports[i]) : Imports[i][k] \in S

(* The modules that each module needs, itself included.                     *)
ClosureOf ==
  [m \in PCModules |->
     {i \in PCModules : \A S \in SUBSET PCModules : m \in S /\ Closed(S) => i \in S}]

Closure(m) == ClosureOf[m]

(* The modules that import themselves through others.                       *)
Cyclic ==
  {m \in PCModules : \E k \in 1 .. Len(Imports[m]) :
     Imports[m][k] # m /\ m \in Closure(Imports[m][k])}

(* The imports of an instance that it has gone through.                     *)
Handled(p, f) ==
  LET all == IF f.pcm = Main THEN program[p] ELSE Imports[f.pcm]
  IN {all[k] : k \in 1 .. Len(all) - Len(f.todo)}

InstancesOf(p) == {stack[p][k] : k \in 1 .. Len(stack[p])}

(* p waits for a lock that q, which is running, holds.                      *)
WaitsFor(p, q) == At(p, "wait") /\ lock[Imported(p)] = q /\ alive[q]

-----------------------------------------------------------------------------
(* Every module that an instance of a running process builds is locked by   *)
(* that process, also after locks of dead processes were taken over: no two *)
(* processes build one module at a time (CompilerInstance.cpp:774).         *)
OneBuilderPerModule ==
  \A p \in Procs : alive[p] =>
    \A k \in 2 .. Len(stack[p]) : lock[stack[p][k].pcm] = p

(* In a cache that started empty no module is stored whose headers, or      *)
(* those of a module it needs, have errors: an import that fails makes the  *)
(* importing build fail, however far up its first importer is.              *)
ErrorsAreNeverCached ==
  \A m \in PCModules : Closure(m) \cap broken # {} => file[m] = Absent

(* An instance that went past an import it could not load has reported an   *)
(* error, so that it does not keep its output ("erase the output files if   *)
(* we encountered an error", FrontendAction.cpp:426).                       *)
FailedImportsAreErrors ==
  \A p \in Procs : \A f \in InstancesOf(p) :
    (\E i \in Handled(p, f) : f.known[i] # "module") => f.errors

(* A module is imported by every process that asks for it if neither its    *)
(* headers nor those it needs have errors or are in an import cycle, whatever*)
(* the other processes are building at the time and as long as none dies.   *)
GoodImportsSucceed ==
  (\A p \in Procs : alive[p]) =>
    \A p \in Procs : \A f \in InstancesOf(p) : \A i \in Handled(p, f) :
      Closure(i) \cap (broken \cup Cyclic) = {} => f.known[i] = "module"

(* Every file an instance keeps was built from the current headers of its   *)
(* module, and no import succeeds without one: ReadAST validates all it     *)
(* opens, and the rebuild, by this process or by the one it waited for,     *)
(* replaced the stale file before it was read again.                        *)
ImportedFilesAreCurrent ==
  \A p \in Procs : \A f \in InstancesOf(p) : \A i \in PCModules :
    /\ f.loaded[i] # Absent /\ i \notin f.fresh => i \notin f.loaded[i].stale
    /\ f.known[i] = "module" /\ i # f.pcm => f.loaded[i] # Absent

(* No set of processes waits for locks its own members hold: a cycle of     *)
(* imports is found by the module build stack ("so that we can detect       *)
(* cycles in the module graph", CompilerInstance.cpp:868).                  *)
WaitsAreAcyclic ==
  \A S \in (SUBSET Procs) \ {{}} : \E p \in S : \A q \in S : ~WaitsFor(p, q)

(* FailedPCModules has been allocated before a failure is recorded in it    *)
(* (CompilerInstance.cpp:808).                                              *)
FailureSetIsAllocated == \A p \in Procs : Top(p).pc # "nulldereference"

(* "Once a module fails to build anywhere, other instances will see that    *)
(* the module has failed and won't try to build it again"                   *)
(* (PreprocessorOptions.h:137).                                             *)
FailedModulesAreNotRebuilt ==
  [][\A p \in Procs : Len(stack'[p]) > Len(stack[p])
       => Last(stack'[p]).pcm \notin failedBuilds[p]]_vars

(* Every process reads all its imports, unless it or one of its builds      *)
(* crashes: nobody waits for ever, a rebuild is tried once.                 *)
Finished(p) == Top(p).pcm = Main /\ Top(p).pc = "run" /\ Top(p).todo = << >>

EveryProcessFinishes == \A p \in Procs : <>(Finished(p) \/ ~alive[p])
=============================================================================
