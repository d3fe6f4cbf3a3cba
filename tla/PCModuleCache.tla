---------------------------- MODULE PCModuleCache ----------------------------
(***************************************************************************)
(* The module cache of lib/Frontend/CompilerInstance.cpp: lfort processes  *)
(* that share a directory of serialized modules, import modules from it    *)
(* (loadPCModule, ASTReader::ReadAST), and build the ones that are missing *)
(* or out of date (compilePCModule) under a lock file per module, in       *)
(* compiler instances nested in the importing one.                         *)
(*                                                                         *)
(* The header files do not change while the processes run; the cache may   *)
(* hold files built from older headers.                                    *)
(***************************************************************************)
EXTENDS Integers, Sequences, SequencesExt

CONSTANTS
  Procs,        \* lfort processes
  PCModules,    \* top-level modules that a module map describes
  Main,         \* stands for the main program in the instance of a process
  Imports,      \* what the headers of each module import, in order
  Programs,     \* possible imports of the main programs
  BrokenSets,   \* possible sets of modules whose headers have errors
  CachedFiles,  \* possible contents of the cache at the start
  Absent,       \* no file
  NoProc,       \* nobody holds the lock file
  MayDie,       \* processes may die
  MayCrash,     \* module builds may crash
  LockMayFail   \* the lock file cannot be created (LFS_Error)

(* What a module file was built from: the modules of whose headers it saw   *)
(* an older version (itself or, through the files it imported, others), and *)
(* the modules it imports.                                                  *)
Content == [stale : SUBSET PCModules, imports : Seq(PCModules)]

ASSUME ModulesAssumption ==
  /\ Main \notin PCModules /\ NoProc \notin Procs
  /\ Imports \in [PCModules -> Seq(PCModules)]
  /\ Programs \subseteq [Procs -> Seq(PCModules)]
  /\ BrokenSets \subseteq SUBSET PCModules
  /\ CachedFiles \subseteq [PCModules -> Content \cup {Absent}]

ASSUME FlagsAssumption ==
  /\ {MayDie, MayCrash, LockMayFail} \subseteq BOOLEAN
  /\ Absent \notin Content

VARIABLES
  program,       \* the imports of each main program
  broken,        \* the modules that do not compile
  file,          \* the module files in the cache
  lock,          \* the process that owns the lock file of each module
  stack,         \* per process: its compiler instances, innermost last
  allocated,     \* per process: FailedPCModules is not null
  failed,        \* per process: the set it points to
  alive,         \* the process is running
  failedBuilds   \* history: modules a process has built without success

vars == <<program, broken, file, lock, stack, allocated, failed, alive, failedBuilds>>

(* A CompilerInstance.  known is KnownPCModules; loaded is the chain of the *)
(* ASTReader's PCModuleManager with what each file held when it was opened, *)
(* direct those of them that the instance itself has imported, in order;    *)
(* fileMgr is what the FileManager remembers of each file.  reading, fresh  *)
(* and retry belong to the ReadAST in progress: the files still to open or  *)
(* to validate, those it has opened, and whether it follows a rebuild.      *)
Pending == [op : {"open", "validate"}, pcm : PCModules]

Instances ==
  [pcm : PCModules \cup {Main}, todo : Seq(PCModules),
   known : [PCModules -> {"unknown", "module", "null"}],
   loaded : [PCModules -> Content \cup {Absent}], direct : Seq(PCModules),
   fileMgr : [PCModules -> {"unseen", "found", "missing"}],
   errors : BOOLEAN,
   pc : {"run", "compile", "wait", "compiled", "read", "outofdate", "unlock",
         "nulldereference"},
   reading : Seq(Pending), fresh : SUBSET PCModules,
   retry : BOOLEAN]

TypeOK ==
  /\ program \in [Procs -> Seq(PCModules)]
  /\ broken \subseteq PCModules
  /\ file \in [PCModules -> Content \cup {Absent}]
  /\ lock \in [PCModules -> Procs \cup {NoProc}]
  /\ stack \in [Procs -> Seq(Instances) \ {<< >>}]
  /\ allocated \in [Procs -> BOOLEAN]
  /\ failed \in [Procs -> SUBSET PCModules]
  /\ alive \in [Procs -> BOOLEAN]
  /\ failedBuilds \in [Procs -> SUBSET PCModules]

NewInstance(m, imports) ==
  [pcm |-> m, todo |-> imports,
   known |-> [i \in PCModules |-> "unknown"],
   loaded |-> [i \in PCModules |-> Absent], direct |-> << >>,
   fileMgr |-> [i \in PCModules |-> "unseen"],
   errors |-> FALSE, pc |-> "run", reading |-> << >>, fresh |-> {},
   retry |-> FALSE]

Init ==
  /\ program \in Programs
  /\ broken \in BrokenSets
  /\ file \in CachedFiles
  /\ lock = [m \in PCModules |-> NoProc]
  /\ stack = [p \in Procs |-> << NewInstance(Main, program[p]) >>]
  /\ allocated = [p \in Procs |-> FALSE]
  /\ failed = [p \in Procs |-> {}]
  /\ alive = [p \in Procs |-> TRUE]
  /\ failedBuilds = [p \in Procs |-> {}]

-----------------------------------------------------------------------------
Top(p) == Last(stack[p])

SetTop(p, f) == stack' = [stack EXCEPT ![p] = Append(Front(@), f)]

At(p, pc) == alive[p] /\ Top(p).pc = pc

(* Between two imports of the innermost instance, with one more to handle.  *)
Imported(p) == Head(Top(p).todo)

Importing(p) == At(p, "run") /\ Top(p).todo # << >>

(* Mutant: the lock is not exclusive.                                       *)
LockFree_Always(m) == TRUE

(* Mutant: a lock file outlives its owner.                                  *)
LockFree_OutlivesOwner(m) == lock[m] = NoProc

(* The lock manager ignores a lock file whose owner is not running.         *)
LockFree(m) == lock[m] \notin {q \in Procs : alive[q]}

(* FileManager::getFile: the file system is asked once, and the answer is   *)
(* remembered, a negative one only if the caller lets it be cached.         *)
Stat(f, m) ==
  IF f.fileMgr[m] # "unseen" THEN f.fileMgr[m]
  ELSE IF file[m] = Absent THEN "missing" ELSE "found"

Looked(f, m) == [f EXCEPT !.fileMgr[m] = Stat(f, m)]

(* loadPCModule returns and the instance goes on to its next import.        *)
Answered(f) ==
  [f EXCEPT !.todo = Tail(@), !.pc = "run", !.reading = << >>, !.fresh = {},
            !.retry = FALSE]

Failing(f) == [f EXCEPT !.errors = TRUE]

StartReadAST(f, m) ==
  [f EXCEPT !.pc = "read", !.reading = << [op |-> "open", pcm |-> m] >>, !.fresh = {}]

-----------------------------------------------------------------------------
(* loadPCModule, up to the point where it reads or builds a module.         *)

ImportKnown(p) ==
  /\ Importing(p)
  /\ LET f == Top(p)
         m == Imported(p)
     IN /\ f.known[m] # "unknown" \/ m = f.pcm
        /\ SetTop(p, Answered([f EXCEPT !.known[m] = IF @ = "unknown" THEN "module" ELSE @]))
  /\ UNCHANGED <<program, broken, file, lock, allocated, failed, alive, failedBuilds>>

NotKnown(p) ==
  /\ Importing(p)
  /\ Top(p).known[Imported(p)] = "unknown" /\ Imported(p) # Top(p).pcm

ImportCached(p) ==
  /\ NotKnown(p)
  /\ Stat(Top(p), Imported(p)) = "found"
  /\ SetTop(p, StartReadAST(Looked(Top(p), Imported(p)), Imported(p)))
  /\ UNCHANGED <<program, broken, file, lock, allocated, failed, alive, failedBuilds>>

(* Mutant: a nested instance starts with an empty module build stack.       *)
BuildStack_InstanceOnly(p) == {Top(p).pcm} \ {Main}

BuildStack(p) == {stack[p][k].pcm : k \in 1 .. Len(stack[p])} \ {Main}

HasAlreadyFailed(p, m) == allocated[p] /\ m \in failed[p]

ImportCycle(p) ==
  /\ NotKnown(p)
  /\ Stat(Top(p), Imported(p)) = "missing"
  /\ Imported(p) \in BuildStack(p)
  /\ SetTop(p, Answered(Failing(Top(p))))
  /\ UNCHANGED <<program, broken, file, lock, allocated, failed, alive, failedBuilds>>

(* Mutant: a module that has failed before is skipped without an error.     *)
ImportFailedBefore_Silent(p) ==
  /\ NotKnown(p)
  /\ Stat(Top(p), Imported(p)) = "missing"
  /\ Imported(p) \notin BuildStack(p)
  /\ HasAlreadyFailed(p, Imported(p))
  /\ SetTop(p, Answered(Top(p)))
  /\ UNCHANGED <<program, broken, file, lock, allocated, failed, alive, failedBuilds>>

ImportFailedBefore(p) ==
  /\ NotKnown(p)
  /\ Stat(Top(p), Imported(p)) = "missing"
  /\ Imported(p) \notin BuildStack(p)
  /\ HasAlreadyFailed(p, Imported(p))
  /\ SetTop(p, Answered(Failing(Top(p))))
  /\ UNCHANGED <<program, broken, file, lock, allocated, failed, alive, failedBuilds>>

ImportMissing(p) ==
  /\ NotKnown(p)
  /\ Stat(Top(p), Imported(p)) = "missing"
  /\ Imported(p) \notin BuildStack(p)
  /\ ~HasAlreadyFailed(p, Imported(p))
  /\ SetTop(p, [Top(p) EXCEPT !.pc = "compile"])
  /\ UNCHANGED <<program, broken, file, lock, allocated, failed, alive, failedBuilds>>

-----------------------------------------------------------------------------
(* compilePCModule.                                                         *)

LockError(p) ==
  /\ LockMayFail
  /\ At(p, "compile")
  /\ SetTop(p, [Top(p) EXCEPT !.pc = "compiled"])
  /\ UNCHANGED <<program, broken, file, lock, allocated, failed, alive, failedBuilds>>

(* Mutant: goes on without waiting for the owner.                           *)
LockShared_NoWait(p) ==
  /\ At(p, "compile")
  /\ ~LockFree(Imported(p))
  /\ SetTop(p, [Top(p) EXCEPT !.pc = "compiled"])
  /\ UNCHANGED <<program, broken, file, lock, allocated, failed, alive, failedBuilds>>

LockShared(p) ==
  /\ At(p, "compile")
  /\ ~LockFree(Imported(p))
  /\ SetTop(p, [Top(p) EXCEPT !.pc = "wait"])
  /\ UNCHANGED <<program, broken, file, lock, allocated, failed, alive, failedBuilds>>

WaitForUnlock(p) ==
  /\ At(p, "wait")
  /\ LockFree(Imported(p))
  /\ SetTop(p, [Top(p) EXCEPT !.pc = "compiled"])
  /\ UNCHANGED <<program, broken, file, lock, allocated, failed, alive, failedBuilds>>

(* The lock is ours: FailedPCModules is allocated, and a nested instance    *)
(* that shares it creates its output file and starts to read the headers.   *)
LockOwned(p) ==
  /\ At(p, "compile")
  /\ LockFree(Imported(p))
  /\ lock' = [lock EXCEPT ![Imported(p)] = p]
  /\ allocated' = [allocated EXCEPT ![p] = TRUE]
  /\ stack' = [stack EXCEPT ![p] =
                  Append(Append(Front(@), [Top(p) EXCEPT !.pc = "compiled"]),
                         NewInstance(Imported(p), Imports[Imported(p)]))]
  /\ UNCHANGED <<program, broken, file, failed, alive, failedBuilds>>

Built(f) ==
  [stale   |-> UNION {f.loaded[i].stale : i \in {j \in PCModules : f.loaded[j] # Absent}},
   imports |-> f.direct]

(* Mutant: errors of the imports do not count.                              *)
HasErrors_OwnHeaders(f) == f.pcm \in broken

HasErrors(f) == f.errors \/ f.pcm \in broken

(* The end of the headers: FrontendAction::EndSourceFile renames the        *)
(* temporary file to the module file, or erases it after an error.  Until   *)
(* then the output is under a name of its own, which nobody else reads.     *)
EndSourceFile(p) ==
  /\ At(p, "run") /\ Top(p).todo = << >> /\ Top(p).pcm # Main
  /\ LET f == Top(p)
     IN /\ file' = IF HasErrors(f) THEN file ELSE [file EXCEPT ![f.pcm] = Built(f)]
        /\ failedBuilds' = [failedBuilds EXCEPT ![p] = IF HasErrors(f) THEN @ \cup {f.pcm}
                                                                      ELSE @]
        /\ SetTop(p, [f EXCEPT !.pc = "unlock"])
  /\ UNCHANGED <<program, broken, lock, allocated, failed, alive>>

(* The crash of a build that its CrashRecoveryContext catches.              *)
BuildCrashes(p) ==
  /\ MayCrash
  /\ alive[p] /\ Top(p).pcm # Main /\ Top(p).pc # "unlock"
  /\ failedBuilds' = [failedBuilds EXCEPT ![p] = @ \cup {Top(p).pcm}]
  /\ SetTop(p, [Top(p) EXCEPT !.pc = "unlock"])
  /\ UNCHANGED <<program, broken, file, lock, allocated, failed, alive>>

Unlock(p) ==
  /\ At(p, "unlock")
  /\ lock' = [lock EXCEPT ![Top(p).pcm] = NoProc]
  /\ stack' = [stack EXCEPT ![p] = Front(@)]
  /\ UNCHANGED <<program, broken, file, allocated, failed, alive, failedBuilds>>

-----------------------------------------------------------------------------
(* loadPCModule after compilePCModule has returned.                         *)

CompiledFound(p) ==
  /\ At(p, "compiled")
  /\ Stat(Top(p), Imported(p)) = "found"
  /\ SetTop(p, StartReadAST(Looked(Top(p), Imported(p)), Imported(p)))
  /\ UNCHANGED <<program, broken, file, lock, allocated, failed, alive, failedBuilds>>

(* Mutant: the failure is not recorded.                                     *)
AddFailed_Forgets(p, f) == SetTop(p, f) /\ UNCHANGED <<failed, alive>>

(* FailedPCModules->addFailed through a null pointer ends the process.      *)
AddFailed(p, f) ==
  IF ~allocated[p]
    THEN /\ alive' = [alive EXCEPT ![p] = FALSE]
         /\ SetTop(p, [Top(p) EXCEPT !.pc = "nulldereference"])
         /\ UNCHANGED failed
    ELSE /\ failed' = [failed EXCEPT ![p] = @ \cup {Imported(p)}]
         /\ SetTop(p, f)
         /\ UNCHANGED alive

(* No file.  The first attempt reports err_module_not_built; the rebuild of *)
(* an out-of-date file reports nothing and remembers a null module.         *)
CompiledMissing(p) ==
  /\ At(p, "compiled")
  /\ Stat(Top(p), Imported(p)) = "missing"
  /\ LET f == Looked(Top(p), Imported(p))
     IN AddFailed(p, Answered(IF f.retry THEN [f EXCEPT !.known[Imported(p)] = "null"]
                                         ELSE Failing(f)))
  /\ UNCHANGED <<program, broken, file, lock, allocated, failedBuilds>>

-----------------------------------------------------------------------------
(* ASTReader::ReadAST: files are opened along their imports, each one is    *)
(* validated against its own headers after its imports have been read.      *)

NextFile(p) == Head(Top(p).reading)

Reading(p, op) ==
  At(p, "read") /\ Top(p).reading # << >> /\ NextFile(p).op = op

AlreadyLoaded(p) ==
  /\ Reading(p, "open")
  /\ Top(p).loaded[NextFile(p).pcm] # Absent
  /\ SetTop(p, [Top(p) EXCEPT !.reading = Tail(@)])
  /\ UNCHANGED <<program, broken, file, lock, allocated, failed, alive, failedBuilds>>

Readable(f, m) == Stat(f, m) = "found" /\ file[m] # Absent

OpenFile(p) ==
  /\ Reading(p, "open")
  /\ LET f == Top(p)
         m == NextFile(p).pcm
     IN /\ f.loaded[m] = Absent /\ Readable(f, m)
        /\ SetTop(p, [Looked(f, m) EXCEPT
             !.loaded[m] = file[m],
             !.fresh = @ \cup {m},
             !.reading = [k \in 1 .. Len(file[m].imports) |->
                            [op |-> "open", pcm |-> file[m].imports[k]]]
                         \o << [op |-> "validate", pcm |-> m] >> \o Tail(@)])
  /\ UNCHANGED <<program, broken, file, lock, allocated, failed, alive, failedBuilds>>

(* A failed ReadAST removes the files it had opened from the chain.         *)
RolledBack(f) ==
  [f EXCEPT !.loaded = [i \in PCModules |-> IF i \in f.fresh THEN Absent
                                                              ELSE f.loaded[i]]]

ReadFails(p, f) ==
  LET g == Answered(Failing([RolledBack(f) EXCEPT !.known[Imported(p)] = "null"]))
  IN IF f.retry THEN AddFailed(p, g)
                ELSE SetTop(p, g) /\ UNCHANGED <<failed, alive>>

OpenFails(p) ==
  /\ Reading(p, "open")
  /\ Top(p).loaded[NextFile(p).pcm] = Absent /\ ~Readable(Top(p), NextFile(p).pcm)
  /\ ReadFails(p, Looked(Top(p), NextFile(p).pcm))
  /\ UNCHANGED <<program, broken, file, lock, allocated, failedBuilds>>

(* Mutant: only the file named in the import is validated.                  *)
UpToDate_ImportedOnly(p) ==
  NextFile(p).pcm # Imported(p)
  \/ NextFile(p).pcm \notin Top(p).loaded[NextFile(p).pcm].stale

UpToDate(p) == NextFile(p).pcm \notin Top(p).loaded[NextFile(p).pcm].stale

Validate(p) ==
  /\ Reading(p, "validate")
  /\ UpToDate(p)
  /\ SetTop(p, [Top(p) EXCEPT !.reading = Tail(@)])
  /\ UNCHANGED <<program, broken, file, lock, allocated, failed, alive, failedBuilds>>

(* OutOfDate: the first time the file is removed and rebuilt, after a       *)
(* rebuild the import fails.                                                *)
OutOfDate(p) ==
  /\ Reading(p, "validate")
  /\ ~UpToDate(p)
  /\ IF Top(p).retry
       THEN ReadFails(p, Top(p))
       ELSE /\ SetTop(p, [RolledBack(Top(p)) EXCEPT !.pc = "outofdate"])
            /\ UNCHANGED <<failed, alive>>
  /\ UNCHANGED <<program, broken, file, lock, allocated, failedBuilds>>

RemoveFile(p) ==
  /\ At(p, "outofdate")
  /\ file' = [file EXCEPT ![Imported(p)] = Absent]
  /\ LET f == [Top(p) EXCEPT !.fileMgr[Imported(p)] = "unseen"]
     IN SetTop(p, IF HasAlreadyFailed(p, Imported(p))
                    THEN Answered(Failing(f))
                    ELSE [f EXCEPT !.pc = "compile", !.retry = TRUE,
                                   !.reading = << >>, !.fresh = {}])
  /\ UNCHANGED <<program, broken, lock, allocated, failed, alive, failedBuilds>>

ReadDone(p) ==
  /\ At(p, "read") /\ Top(p).reading = << >>
  /\ SetTop(p, Answered([Top(p) EXCEPT !.known[Imported(p)] = "module",
                                       !.direct = Append(@, Imported(p))]))
  /\ UNCHANGED <<program, broken, file, lock, allocated, failed, alive, failedBuilds>>

Die(p) ==
  /\ MayDie /\ alive[p]
  /\ alive' = [alive EXCEPT ![p] = FALSE]
  /\ UNCHANGED <<program, broken, file, lock, stack, allocated, failed, failedBuilds>>

-----------------------------------------------------------------------------
Step(p) ==
  \/ ImportKnown(p) \/ ImportCached(p) \/ ImportCycle(p) \/ ImportFailedBefore(p)
  \/ ImportMissing(p) \/ LockError(p) \/ LockShared(p) \/ WaitForUnlock(p)
  \/ LockOwned(p) \/ EndSourceFile(p) \/ Unlock(p) \/ CompiledFound(p)
  \/ CompiledMissing(p) \/ AlreadyLoaded(p) \/ OpenFile(p) \/ OpenFails(p)
  \/ Validate(p) \/ OutOfDate(p) \/ RemoveFile(p) \/ ReadDone(p)

Next == \E p \in Procs : Step(p) \/ BuildCrashes(p) \/ Die(p)

Spec == Init /\ [][Next]_vars

(* A process that can go on does; nothing makes one crash.                  *)
FairSpec == Spec /\ \A p \in Procs : WF_vars(Step(p))
=============================================================================
